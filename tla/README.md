# Verification of lmstudio-bridge (llm-shim)

TLA+ modules that model the control of this program, TLC configurations that check
them on small instances, and machine-checked proofs that the safety properties hold on instances
of any size. Paths below are relative to the repository (`src/` is its `src` directory).

* [1. The system](#1-the-system)
* [2. Modules and how they correspond to the code](#2-modules-and-how-they-correspond-to-the-code)
* [3. Runs](#3-runs-bounds-and-what-they-show)
* [4. Fairness](#4-fairness)
* [5. Proofs](#5-proofs)
* [6. Where the code does not keep its word](#6-where-the-code-does-not-keep-its-word)
* [7. What is not modelled](#7-what-is-not-modelled)
* [8. Plan](#8-plan)

## 1. The system

The shim is a Node process in front of LM Studio. It takes OpenAI chat completions over
HTTP, a WebRTC DataChannel or a libp2p tunnel, passes them through a chain of
middlewares, and with `--upload` archives the conversations in batches on Filecoin. A
*client bridge*, the same binary with `--client`, is the other end of the DataChannel or
tunnel. Everything runs on one event loop: what can interleave is the code between two
awaits, timers and callbacks, and the processes themselves.

| Component | State it keeps | Operations | Hard because | Correct when |
|---|---|---|---|---|
| flush queue (`lib/flush-queue.ts`) | `queue`, `activeFlush`, `stats` | enqueue, enqueueRecovery, processJob with retries, drain | jobs arrive between an outcome and its `.finally()`; backoff; drain polls two variables | every job settles once, in order, after at most `maxRetries + 1` attempts; drain is right |
| registry (`lib/registry.ts`) | batch records, totals, `registry.json` | addBatch, prune, load, persist | loaded while batches already arrive; persist fails after memory changed | records survive, totals agree, only pruning forgets |
| upload middleware (`middleware/upload.ts`) | `batchBuffer`, `lastBatchCid`, CAR directories | onResponse, flushBatch, recoverPendingBatches | many awaits per flush, most of which may fail; retries; crash and restart; abandoned uploads | nothing captured twice, nothing removed before it is recorded, records tell the truth |
| engine, middleware chain (`pipeline/`) | context of each request | handleChatCompletion, runRequest, runResponse | concurrent requests; response hooks reversed; gzip waits | answered means captured, once |
| taco-encrypt, gzip, CID recorder (`middleware/`) | AES key, key-metadata file, Parquet files | initialize, onResponse, destroyKey, close | several starts, torn files, shutdown under way | shared keys are never replaced, a session's row leads to its key |
| LM Studio client (`client/lmstudio-client.ts`) | none between calls | chat, chatStream | timeout against answer | a loaded request is answered |
| HTTP transport (`transport/http.ts`) | none | POST /v1/chat/completions | streams | replies well formed |
| shim process (`index.ts`) | order of start and shutdown | main, shutdown | a second signal runs shutdown again | batches handed over before the signal are not lost |
| WebRTC client and bridge (`client/webrtc-client.ts`, `client-bridge.ts`) | `pendingRequests`, `handshakeComplete` | createOffer, setAnswer, sendRequest, close | timer, answer, failed send and loss race | each call settles once |
| WebRTC shim transport (`transport/webrtc.ts`) | `state`, `peer`, `pairingInProgress` | POST /pair, message handlers | a lock held over several awaits; callbacks of older connections | one pairing at a time, newest peer |
| signaling server (`client/signaling-server.ts`) | offer, `answerConsumed`, the owner's promise | GET /offer, POST /answer, waitForAnswer, stop | bodies arrive after their headers, requests overlap, 60 second limit | the first answer wins, the port is closed in the end |
| QR programs (`qr-server.ts`, `qr-client.ts`, `transport/webrtc-qr.ts`) | the await of `main()`, as the DataChannel's ends | codes carried by hand, then the same protocol a second time | a user pastes any code, two timers that start at different moments; the copies differ | whoever was given its code serves or ends; as above |
| libp2p transport, bridge (`transport/libp2p.ts`, `client/libp2p-client-bridge.ts`, `utils/ipfs-api.ts`) | `registeredProtocol`, proxy; the tunnels are the daemon's | start, shutdown | tunnels outlive processes; late RPCs; 2 signals | no tunnel left, none lost |
| configuration, wizard (`config/`) | `llm-shim.config.json` | resolveConfig, runConfigWizard | four sources of a setting | explicit settings win |
| data-recovery tool (`data-recovery/`) | files in the output directory | recover, recover-all, extract | retries, failing writes, Ctrl-C and a second run into the same directory | one outcome for every batch, what is reported is on disk |
| retrieval client (`client/retrieval.ts`) | results of a call | retrieveConversations, retrieveMessage, listMessages | three at a time over gateways that send anything or nothing | every CID asked for has what came for it, or an error |
| TACo wrappers (`utils/taco/`) | provider, key, signer of a client | initialize, disconnect, tacoEncrypt | five awaits between the fields; overlapping calls | initialised means usable |
| archive builder, exporter (`lib/archive-builder.ts`, `export/`) | none | build, verify, read, export | damaged files | what verifies comes out complete |
| translator (`pipeline/translator.ts`, `buildChat`) | none | translateRequest | mixes of roles, strings, parts, images | every text and image reaches the model |
| dedup cache (`lib/dedup-cache.ts`) | hashes | add | - | nothing reads it (section 7) |

How they meet: transports call the engine; the engine calls the middlewares; the upload
middleware gives jobs to the flush queue, which calls `flushBatch` back; `flushBatch`
uses archive builder, uploader and registry. `main()` builds all of these in order and
registers the signal handlers; shutdown calls drain, tunnel, recorder, uploader in order.
Processes share: the working directory (configuration, key metadata, Parquet files), the
temporary directory (one fixed name), and one Kubo daemon.

The list of everything that is hard to test, each item at its line, is under `hazards` in
`PROJECT.json`; the properties below are aimed at it.

## 2. Modules and how they correspond to the code

The exact lines behind every definition are under `map` in `PROJECT.json`. All models
keep the control (guards, early returns, error paths, order) and abstract the data to
identities. An action is the code between two points at which the event loop may run
something else. A definition named `Bug...` is a mutation of the definition after it,
used to confirm that a property notices that error; no specification uses it.

**SerialQueue** is the abstract specification of the flush queue: jobs are accepted at
any time, each gets one outcome, outcomes come in the order of acceptance.

**FlushQueue** is `class FlushQueue`. `queue` and `stats` are its fields; `activeFlush`
is its field plus the await at which `processJob` stands (`executing`, `backoff`,
`returned`: settled, but `.finally()` has not run). `Enqueue` is both `enqueue` and
`enqueueRecovery`, which end in `pushJob`; the depth limit only warns, so no job is ever
refused. `ExecutorResolves`/`ExecutorRejects` are what follows the executor's promise,
`BackoffElapses` the timer of a retry, which puts the job at the *front* again,
`Finally` the microtask that calls `drainNext`. `DrainCall`, `DrainIdle`,
`DrainDeadline` are one `drain()` and its polling. The executor is opaque.
`FlushQueue` refines `SerialQueue` (variables `accepted` and `settled` are histories).

**Registry** has the operations of `lib/registry.ts` as operators on its state.

**BatchUpload** composes FlushQueue (`Q == INSTANCE`) and Registry (`R == INSTANCE`) with
`middleware/upload.ts`: `OnResponse` captures and cuts a batch, `FlushBatch` is
`flushBatch()` in one action per await (archive and CAR file, upload with its 10 minute
race, addBatch, persist, clean up, prune, persist again) with a failure of every await that has
no `try` of its own, `LoadRegistry`, `ScanCarDir`, `RecoverEntry` are the start-up,
`Crash` and `Exit` keep only what is on disk and start again. `flushBatch` resolving or
throwing *is* the queue's `ExecutorResolves`/`ExecutorRejects`. `uploads` holds the calls
that still run, also those the timer has abandoned. A root CID is `<<job, attempt>>`,
because the root block contains `Date.now()`. A CAR file on disk is absent, truncated
(`writeFile` has begun), or complete.

**Pipeline** is the server process behind HTTP: requests through `Engine`, the
hooks and LM Studio, any set of middlewares, and the shutdown with up to two signals. The
chain of hooks (`Execute`) runs in one step up to gzip, the one hook that waits, and goes
on in `GzipDone`. The flush queue is the number of settled batches here.
The server is never closed by shutdown, so requests go on until `process.exit`.

**DataChannel** is one established DataChannel between either pair of programs that has
the protocol (`programs`): `webrtc-client.ts` + `client-bridge.ts` with
`transport/webrtc.ts`, or `qr-client.ts` with `qr-server.ts`. node-datachannel is
external: an ordered channel that may lose messages (`maxRetransmits: 3`), connections
that come back or do not, sends that throw when it is closed, callbacks that are queued.

**RemoteCalls** is the abstract specification of such a transport: a call is carried out once at most and gets one
outcome at most; an answer means that it was carried out, a refusal or a failed send that it was not and never will be, a
timeout or a loss leaves it open. `DataChannel` implements it for both pairs of programs (`INSTANCE RemoteCalls WITH Call <- Request,
served <- engineCalls`); handshakes, messages under way, losses and reconnections are stutters.

**Pairing** is `POST /pair` at one shim, called by several client bridges, each with its
signaling server: lock, offer with retries, PeerConnection with its 30 second promise,
answer, waiting, peer, handshake, and the callbacks of every PeerConnection ever created.
The shim cannot tell who asks it to pair. `Applying` holds the bridges that pass the answer they got to their
PeerConnection, as README.md describes the flow; they are external, since `client-bridge.ts`
does not (it never calls `waitForAnswer` or `setAnswer`) and is any bridge outside `Applying`. Without one the rest of
the shim's handler is never reached. What is checked there is about the shim, whoever calls it.

**Libp2pTunnel** is one Kubo daemon, the shims and bridges of its host, all with default
protocol and ports. RPCs are queued at the daemon; a call its caller has given up after 5
seconds is still carried out. Two listeners, or two forwards, exclude each other;
`p2pClose` closes by protocol, and so closes everybody's tunnel. A second signal runs `shutdown()` beside the
first; at a bridge both wait in `close()` of the same proxy, as `httpServer` is still set.

**Startup** goes from the command line to the first request: `resolveConfig` with its
sources and `hasExplicitCLIFlags`, the wizard's questions, `initialize()` of
taco-encrypt with the key-metadata file, the upload of the session's metadata through a fixed
name in the temporary directory and the note of its CID, which may fail while the start goes on, the registration in `sessions.parquet`. Several processes,
crashes between any two steps and inside the writes that are not atomic. Simplifications:
one setting of each kind (toggle, plain value, value with a default the merge
cannot see, value another setting requires); every key-metadata path names one file; `--config` names the
default file; a setting is 0 (default), 1 (file) or 2 (flag); keys are numbered by the run
that made them; unparsable numbers (`NaN`) are left out.

**SignalingServer** is the client bridge's server by connection. `Headers` is the request
handler up to the body, `Answer`/`BadBody` its end; `promise` is that of `waitForAnswer`.
Pairing uses the server as one step per request, which `FirstAnswerWins` justifies: the
answer that comes out is the first that was accepted.

**QrPairing** is `main()` of the two QR programs up to the first request, one process for each
run of a program: gathering, the code on the terminal, the paste of any code that is on any
terminal (or of none), the timers, the handshake. `DataChannel` goes on from there. `onOpen`
of a channel that was lost meanwhile sends, which throws in a callback and ends the process.

**Downloads** is the abstract specification of a program that reads archives back: one
answer, with an outcome for every item asked for, which is an error or what came in when that very item was
fetched (`arrived`). That this is what was archived under the item is not promised, since neither program computes a CID
or compares a hash (section 6). Two modules implement it, each through `INSTANCE Downloads WITH arrived <- ...,
answer <- ...`:

* **Recovery**, the data-recovery tool: `FetchCar`, `BodyEnds`, `BackoffEnds` are
  `retrieveFromGateway`, `Extract` is `extractBatch`, `SaveCar`, `SaveBatch`, `SaveSplit`
  the files, each of which may fail or be cut short; `Kill` and `RunAgain` are the user. Bytes are
  what they unpack to. Any archive may come for any CID and be in any file: the one stored there, a part of it, one with
  altered conversations, that of another batch; or something that is no archive.
* **Retrieval**, the retrieval client: one `task` per place of the list, the gateways one after the
  other, `GroupEnds` for `Promise.all` of a group of three. A gateway may send the root or the conversation asked for, any other, or
  bytes that do not parse; the root that came decides what is fetched next and whether it is decrypted. `retrieveMessage` and
  `listMessages` are calls that fetch one node.

**TacoClient** is the object of that name with `tacoEncrypt()` on top; one action per await.

**Translation** and **Archive** are operators: the first takes the messages of a request to
the prompt of the model (`translateRequest`, `buildChat`); the second takes a batch of conversations through
`flushBatch`, `buildBatchArchive`, a file that may be damaged, `verifyArchive`, `readArchive`
and the exporter, and an encrypted buffer through `aesEncrypt` and the functions that open it. A CID
stands for the bytes it hashes, a text or an image for itself. The loops of both are put in two operators of
`Lists`, `FlatMap` and `Keep`, which rest on `FlattenSeq` of the community modules: about `SelectSeq`, a recursive
definition inside, nothing could be proved.

`MCParts` holds the modules since SignalingServer: each behaviour is one of them, chosen in `Init`, since
they do not interact with each other at run time. `MCFlushQueue`, `MCBatchUpload`, `MCDataChannel`, `MCStartup` give the constants their
values for TLC (Startup with symmetric processes).

`FlushQueueProofs`, `BatchUploadProofs`, `DataChannelProofs`, `PairingProofs`, `Libp2pTunnelProofs`,
`PipelineProofs`, `StartupProofs` and `PartsProofs` extend the module they are named after (the last one
`MCParts`) with its invariant, its lemmas and its theorems. They define nothing the runs use.

## 3. Runs, bounds and what they show

| Run | States | Shows |
|---|---|---|
| `flush_queue` | 8,966 | 3 jobs, 2 retries, drain at any time. `InOrder`: settled, in flight and waiting jobs are the accepted ones in order. `NothingStranded`: no job waits beside a free slot. `AttemptsCounted`: dead letters had exactly `maxRetries + 1` attempts. `DrainedMeansSettled`: drain's promise. `EveryJobSettles`. `ImplementsSerialQueue`: refinement with liveness |
| `batch_upload` | 474,756 | Two settings. *Ordinary*: 3 jobs, batches of 2, 1 retry, 2 I/O failures, 1 crash or exit, pruning to 1 record. *Adverse*: 2 batches that may share a millisecond, unreadable registry, CAR files kept. `RegistryTellsTruth`, `CapturedOnce`, `CompletedMeansRecorded`, `ChainIsRecorded`, `CarRemovedOnlyWhenRecorded`, `OnlyPruningForgets`, `EveryBatchSettles` (network silent or not) |
| `data_channel` | 376,334 | 3 requests, 1 lost message, 2 disconnections, both pairs of programs. `PendingIsOpen`, `RefusedOnlyAfterLoss`, `NothingWaitsOnDeadChannel`, `EveryRequestSettles`; `ImplementsRemoteCalls`: the engine sees each request once at most, and each outcome agrees with what it saw |
| `pairing` | 90,063 | 3 bridges, one of them `client-bridge.ts`, 2 faults. `OnePairingAtATime` (lock exactly while a handler is active), `PeerIsLatest`, `PairingEnds` |
| `pipeline` | 333,514 | 2 plain requests, 1 stream, all 16 sets of options, 2 signals. `AnsweredIsCaptured`, `WithheldOnlyByShutdown`, `ExitKeepsBatches`, `RepliesWellFormed`, `EveryPredictionAnswered` |
| `libp2p_tunnel` | 52,807 | 2 shims, 1 bridge, 2 starts, 2 signals each, kills, 1 daemon stop. `ShutdownLeavesNoTunnel`, `ServingHasTunnel`, `EverythingEnds` (only open requests keep a process that was told to stop) |
| `startup` | 3,194,682 | 3 starts of 2 shims, 1 flag. `SessionsKept`, `RowNamesKey`, `SharedKeyNeverReplaced` |
| `parts` | 199,960 | Recovery: 3 archives, two of one batch id, a malformed CID, and parts and alterations of the first that may come for any; 3 attempts, 1 failing write, 2 runs, Ctrl-C. Retrieval: lists of up to 4 with a CID twice, 2 gateways that send any of 5 conversations, one of them forged, or noise. SignalingServer: 3 requests. TacoClient: 2 calls. QrPairing: 2 servers, 2 clients. Translation: all dialogues of 2 messages over 6 contents. Archive: batches of 2, every damage of one block or the header. `ReadersKeepPromise` (both readers implement Downloads), `RecoveredIsOnDisk`, `DownloadsDestroyNothing`, `FirstAnswerWins`, `InitializedIsUsable`, `NothingIsLost`, `EveryPartEnds` |
| `recovery_noop`, `pairing_stuck`, `pipeline_order`, `config_flags` | - | counterexamples, see section 6 |

Every module defines its `TypeOK`; section 5 proves it. The runs do not
repeat it, since the proofs cover every instance.

Why the bounds are enough. *Jobs*: order, overtaking and stranding need a job in flight,
one in backoff and one that arrives; three give every such position. *Retries*: 2 in
`flush_queue` tells first, middle and last attempt apart; 1 in `batch_upload` gives a
retry after every partial flush. *Faults 2*: one to get into an error path, one inside it
(a failing retry). *Restart 1*: the state after a crash is again an initial state with
files; a second one adds only longer histories. *Pruning to 1* makes the second record
prune. *Batches of 2* have a partial buffer at exit. *DataChannel*: three requests give
one that waits, one that is answered late and one that starts after the loss; a lost message and two
disconnections give handshake loss and a notice that arrives after recovery.
*Protocol ranges* 1-2 and 1-3 make negotiation decide something. *Pairing*: a third
bridge arrives while the first connection's callbacks are still queued and the second
pairs. *Startup*: the third run reads what two, raced or crashed, have left. *Recovery*: two archives
of one id overwrite a file, the third follows a failure; the second run meets what an interrupted one has left.
*Retrieval*: four places need a second group, a CID listed twice gives two tasks one entry. *SignalingServer*: a body in hand, one that overtakes it, one that comes after. *QrPairing*: a client may be given the code of the one
server while its answer goes to the other. Bounds are constants named
`Max...` (or `Handler`, the number of signals), or variables counted against them; they
occur in guards only.

`CHECK_DEADLOCK FALSE` is set where the system really comes to rest: all requests settled and the
link down (`data_channel`), all bridges done (`pairing`), the process gone (`pipeline`,
`libp2p_tunnel`, `startup`, once the starts are used up), the command, call or pairing over (`parts`). The queue and upload runs keep the
deadlock check.

History variables that excuse a case are set by the code's own events and are part of the
properties' meaning: `raced`, `mishap` in Startup (see section 6 for what happens then),
`excused` in Libp2pTunnel (the daemon went down, or another process closed the protocol),
`losses` and `faults`.

## 4. Fairness

Only what the event loop guarantees is fair.

* FlushQueue, BatchUpload: timers (backoff, the 10 minutes of an upload) fire,
  microtasks run, local file operations end. The executor of the
  FlushQueue alone settles, which BatchUpload justifies: `flushBatch` ends because of its timer, although an upload never
  needs to.
* DataChannel: `Timeout(r)`, the timer of each request. Network, engine, user: nothing.
* Pairing: the HTTP calls have time limits and the channel has its timer.
* Pipeline: `TimesOut \/ GzipDone` per request, only for runs with a timeout; LM Studio owes nothing.
* Libp2pTunnel: the RPC and probe limits; daemon and proxied requests owe nothing.
* Recovery: `Step`, the timers and the file system; a gateway that has sent headers is
  taken to end its body, which no timer of the tool covers. Retrieval: every task ends, by
  its timers, which cover headers and body; TACo is assumed to answer, no timer covers it.
* SignalingServer: `Timeout`, and the body of each request (Node's own request timeout).
* QrPairing: what the event loop and timers of each process do; user and network: nothing.
* TacoClient: none.
* Startup: none. Uploads of the key metadata have no timeout, so nothing is promised.

## 5. Proofs

Eight modules hold theorems that TLAPS checks, each beside the module it is about
(`PartsProofs` beside `MCParts` and the modules in it). They hold for every value of the
constants that satisfies the named assumptions: any set of jobs, requests, bridges or processes, any
number of retries, losses, faults, crashes, starts and signals. All safety properties of the passing runs are
proved, and the properties of data (`NothingIsLost`) for lists of any length.

Every proof has the same shape. `IInv` is an inductive invariant: the properties, and
what they depend on that nobody had to say as long as TLC looked at reachable states only.
`Init => IInv` and `IInv /\ [Next]_vars => IInv'` are lemmas, the second with one lemma per action or
per conjunct that actions can disturb; a theorem is `IInv => property` and a temporal step. An action
property is proved of a step from `IInv`. Facts about operators
(channels that lose a message, a queue with a call given up, the chain of hooks, sequences with an element
appended or pruned) are lemmas stated once.

*Induction.* The induction theorems of the library take an operator as a parameter, which no prover here can
instantiate. But that the natural numbers are well-founded (`WFMin`, about a *set* of numbers) can be cited, and gives
`LeastNumber`: a set of numbers that is not empty has a least one. So `Numbers` (a set of numbers that holds 0
and, with a number, its successor holds all) and `AllLists` (the same for a set of lists and appending) are lemmas here, and a
statement about all lists is proved by giving `AllLists` the set of lists of which it is true.

### FlushQueueProofs

Assumes that the number of retries is a natural number (`MaxRetriesAssumption`) and that `null` is not a job in
flight (`NoFlushAssumption`).

| Theorem | Statement |
|---|---|
| `TypeCorrect` | `Spec => [](TypeOK /\ RetryLeft)` |
| `OrderKept` | `Spec => []InOrder` |
| `AttemptsBounded` | `Spec => []AttemptsCounted` |
| `NeverStranded` | `Spec => []NothingStranded` |
| `DrainIsSound` | `Spec => DrainedMeansSettled` |
| `Refinement` | `Spec => Serial!SafeSpec` |

`NothingStranded` is inductive with the types alone: each action that frees
the slot takes the next job in the same step. `InOrder` says itself that the job in the
slot is the oldest unsettled one, and is preserved because
`BackoffElapses` puts its job in front. `AttemptsCounted` is not inductive: starting a
job raises its count, and that this does not change the count of another job that is
queued or settled needs `AcceptedOnce` (no job is accepted twice); that a new job starts
at zero needs `NotYetAttempted`; that a retry count never passes `MaxRetries` needs
`RetryLeft`. So

    IInv == TypeOK /\ RetryLeft /\ InOrder /\ AcceptedOnce /\ NotYetAttempted /\ AttemptsCounted

`DrainIsSound` follows because a free slot and an empty queue make
`InOrder`'s length equation say `Len(settled) = Len(accepted)`. For `Refinement` every
step is mapped: enqueue to `Accept`, an outcome to `Settle` of the oldest unsettled job
(again `InOrder`), everything else to a stutter.

### BatchUploadProofs

Assumes what the queue assumes (`QueueAssumption`), job numbers enough for the bound, a batch size of at least 1 (which
`validateConfig` demands) and bounds that are numbers (`JobAssumption`), and that "absent" and "truncated" are no archives (`FileAssumption`).

| Theorem | Statement |
|---|---|
| `TypeCorrect` | `Spec => []TypeOK` (every batch of at most the configured size) |
| `CompletedCorrect` | `Spec => []CompletedMeansRecorded` |
| `ChainCorrect` | `Spec => []ChainIsRecorded` |
| `RecordsCorrect` | `Spec => []RegistryTellsTruth` |
| `CapturedCorrect` | `Spec => []CapturedOnce` |
| `ForgetsCorrect` | `Spec => OnlyPruningForgets` |
| `CarsCorrect` | `OwnDirectories => (Spec => CarRemovedOnlyWhenRecorded)` |

The queue inside is an instance of FlushQueue, so its lemmas come through `QP == INSTANCE
FlushQueueProofs`: every step of BatchUpload is one of the queue's steps or leaves the queue alone (`QueueMoves`), except that a
restart is the queue's initial state, and so `QP!IInv` is kept. On top of it stand `JobsOK` (jobs are numbered in the order of acceptance),
`FlushOK` (what `flushBatch` has done by the await at which it stands: the CAR file written, the record added, the file
saved), `RecordsOK`, `KeptOK` (the registry in memory continues the one on disk, `n` of its oldest records
pruned), `CarsOK`, `ChainOK` and `DoneOK`. `ChainIsRecorded` is the property that needs the queue's order:
that a record points backwards is kept only because the end of the chain lies before
every attempt that is still to come, over all jobs in queue, slot and backoff.

Two more layers stand on that one. `Capture` is `CapturedOnce` with what it needs to be inductive (`Numbered`): a conversation that is held
has a number below the next one, and a job that has not been made holds none. Every step does one of five things to the conversations
(`ConversationSteps`), and a batch that is cut takes the place that the buffer had. `Sized` bounds the batches by the batch size and
says that a registry counts its records (`Clean`), for `RegistryTellsTruth` and `TypeOK`. The sum of the conversations is
the number of pairs of a record and one of its conversations: a record more adds disjoint pairs (`SumAppend`).

`OwnDirectories` is a hypothesis the proof asked for, and it is needed. Two batches cut in the same millisecond have one
directory; if a limit on the records prunes the record of the first, the directory goes, and with it the
CAR file of the second, recorded or not. With `sameMillisecond`, `cleanupAfterUpload` and a limit of 1 in one
setting TLC shows it. The settings of `batch_upload` satisfy the hypothesis, as does any run of the program in which no two
batches are cut in one millisecond.

### DataChannelProofs

Assumes that the limits of the protocol versions are numbers (`ProtocolAssumption`).

| Theorem | Statement |
|---|---|
| `TypeCorrect` | `Spec => []TypeOK` |
| `PendingCorrect` | `Spec => []PendingIsOpen` |
| `Refinement` | `Spec => ImplementsRemoteCalls` |
| `EngineCorrect` | `Spec => []Promise!SidesAgree` (the engine sees a request once at most; its outcome agrees) |
| `RefusalCorrect` | `Spec => []RefusedOnlyAfterLoss` |
| `DeadChannelCorrect` | `Spec => []NothingWaitsOnDeadChannel` |
| `SettledCorrect` | `Spec => SettledOnce` (an outcome, once there, never changes) |

`ImplementsRemoteCalls` speaks of what engine and client have seen; whether a step keeps to it depends on what is
under way. `TraceOK` follows each request: on its way it is the only
message of its id and has not reached the engine, one that could not be sent has left no trace (`UnsentIsFresh`), and an answer on its
way is one the engine gave or a refusal. From it the refinement goes action by action: `SendRequest` is `Make`; reading a request is `Serve`
or a stutter (`ServerImplements`); reading an answer is `Answer`, `Refuse` or, when it is late, a stutter
(`ClientImplements`); a timer gives up one call, a loss all that wait (`GivingUpImplements`). That the two
sides agree is then an invariant of the abstract specification (`PromiseKeepsSides`), which `EngineCorrect` carries over.
`RefusedOnlyAfterLoss` needs the channel's order: while nothing was lost, the client's handshake is
what the server reads first (`HandshakeFirst`), and a side that is ready has found a common version
(`ReadyIsCompatible`, `PeerOK`). All of it is kept by losing any message out of the middle.

### PairingProofs

Assumes that `null` is no bridge (`BridgeAssumption`) and that at least one attempt is made (`BoundsAssumption`).

| Theorem | Statement |
|---|---|
| `TypeCorrect` | `Spec => []TypeOK` |
| `OnePairingCorrect` | `Spec => []OnePairingAtATime` |
| `PeerCorrect` | `Spec => []PeerIsLatest` |

`OnePairingAtATime` counts handlers; `OneActive`, that any two handlers under way are one, is inductive and
gives the count for infinite sets of bridges too. `PeerIsLatest` needs `FreshBridges`: a bridge that has not asked yet
is nobody's peer. Both hold whichever bridges apply their answer. That a pairing fails by a fault only has no theorem: the run
`pairing_stuck` refutes it for `client-bridge.ts`.

### Libp2pTunnelProofs

Assumes that a process is a shim or a bridge (`KindsAssumption`), that signals are told from other callers (`HandlerAssumption`) and that the bounds are numbers (`BoundsAssumption`).

| Theorem | Statement |
|---|---|
| `TypeCorrect` | `Spec => []TypeOK` |
| `ShutdownCorrect` | `Spec => []ShutdownLeavesNoTunnel` |
| `ServingCorrect` | `Spec => []ServingHasTunnel` |

What a call will do when the daemon gets to it depends on what is queued before it, so the invariant speaks of positions in the
queue of the daemon: behind the last call of `start()` of a process there is no other call that makes a tunnel, not even one an earlier
run of that process gave up, and a `p2pClose` there is one that may take its tunnel (`Settled`); whoever has
dealt with its tunnel has nothing in the queue that makes one (`NoneLeft`). `WaitersOK` and `AnswersOK` say
who waits for which call and what an answer under way means.

### PipelineProofs

Assumes batches of at least one conversation (`BatchSizeAssumption`), streams among the requests (`StreamsAssumption`), the four
options (`OptionsAssumption`).

| Theorem | Statement |
|---|---|
| `TypeCorrect` | `Spec => []TypeOK`, where a full buffer was cut in the step that filled it |
| `RepliesCorrect` | `Spec => []RepliesWellFormed` |
| `CaptureCorrect` | `Spec => []AnsweredIsCaptured` |
| `WithheldCorrect` | `Spec => []WithheldOnlyByShutdown` |
| `ExitCorrect` | `Spec => []ExitKeepsBatches` |

A request passes its whole chain of hooks in one step, and the chain depends on the options. `Unfold` shows that the recursive
function of `Execute` is the step-by-step application of the hooks, `ChainFacts` what the eight
chains have in common, and `ChainOutcome` what a chain leaves behind. The invariant then counts places instead of captures:
two places that hold a conversation of one request are one place (`OneCapture`), and `CaptureOf` ties a place
to where its request stands: before gzip's wait it may already be captured with no reply yet. `EarlyOK` says that nothing is written before
a model is loaded, `ShutdownOK` what a handler past its drain has found.

### StartupProofs

Assumes the seven settings (`SettingAssumption`), that a torn file is no list of rows (`TornAssumption`) and that the bound on the
starts is a number (`BoundAssumption`).

| Theorem | Statement |
|---|---|
| `TypeCorrect` | `Spec => []TypeOK` |
| `SessionsCorrect` | `Spec => []SessionsKept` |
| `KeyRowsCorrect` | `Spec => []RowNamesKey` |
| `SharedKeyCorrect` | `Spec => SharedKeyNeverReplaced` |

The invariant has three layers. The first holds always: each run has its number to itself, rows are numbered from 0,
and there is a run for every row, which keeps the ids in range (`Counted`, the cardinality of the runs that have read the
file). The second holds while no two processes were in their key phases at once (`~raced`): what a process remembers between
two steps of its key phase is what is on disk (`KeysOK`), and every session's row leads to its key (`NamesOK`). The third holds while no two
registrations overlapped and none stopped half-way (`~mishap`): the list that is being extended is the list on disk (`ListOK`).

### PartsProofs

Assumes that a QR process is a server or a client and not `null` (`ProcessAssumption`), that limits are numbers (`LimitAssumption`), that requests are
told from states (`RequestAssumption`), that "no answer yet" is no answer (`AnswerAssumption`), that a failure, noise and the marks of
a file are neither archive nor conversation (`ComesAssumption`), and that two keys differ and neither a damaged
block nor a failure is a batch (`MarkAssumption`).
Requests, calls, wallets, QR processes, gateways, retries, runs and faults are any; of the commands, calls and archives that `MCParts` lists the proofs
use only their forms (`CommandsOK`, `CallsOK`).

| Theorem | Statement |
|---|---|
| `TypeCorrect` | `Spec => []TypeOK` |
| `DiskCorrect` | `Spec => []RecoveredIsOnDisk` (Recovery) |
| `DownloadsCorrect` | `Spec => DownloadsDestroyNothing` (Recovery) |
| `Refinement` | `Spec => ReadersKeepPromise` (Recovery and Retrieval implement Downloads: whatever bytes come in, an item's outcome is an error or what came for it) |
| `AnswerCorrect` | `Spec => []FirstAnswerWins` (SignalingServer, QrPairing) |
| `UsableCorrect` | `Spec => []InitializedIsUsable` (TacoClient) |
| `EveryRequestIsKept` | every text of a request that is not empty and every image sent as data reaches the prompt, once and in order: any number of messages, of the roles of `openai.ts:8`, with any number of parts (Translation) |
| `EveryArchiveReadsBack` | a file that verifies and names the root of an archive is exported as the batch that was flushed, whatever else the file holds: any batch with any number of conversations and messages (Archive) |
| `EverySealOpens` | in the retrieval client `aesEncrypt`'s buffer opens with the right key and with no other, and a buffer damaged in one place does not (Archive); for the other opener, that of the recovery tool, `HybridOpens` is refuted |
| `NothingLostCorrect` | `Spec => []NothingIsLost` (the three above, for the inputs of `MCParts`) |

A step of the whole is a step of one part and leaves the others alone (`PartsStep`), so each part has its own invariant. *Recovery*:
nothing has come for an input before its turn (`InputOK`), an outcome is a failure or the archive that came for its place (`ResultsOK`), and every
outcome that is not overtaken is whole on disk, where an archive overtakes the outcomes of its own batch id and no
others - which archive came for which CID does not matter. *Retrieval*: groups before the one in hand have ended, a task that has
ended has its entry, and an entry is an error or what has come for a place of its CID (`EntryOK`). These two
give the refinement: the one step that answers maps to the abstract answer, bytes that come to `Arrive`, everything else to a stutter. *SignalingServer*: a winner is with the owner only once it
waits, and the promise holds the winner. *TacoClient*: past the first await the provider is there, unless a `disconnect()` overlapped.
*QrPairing*: codes, once given, are kept; whoever is greeted was given the code of the process that was given its own.

*Translation*: a pass over a list is `Each`, "what this makes of every element, one after the other", and two passes, one after
the other, are one (`EachEach`), so that both sides of the property come down to one pass with the same body: what a part of a message adds. The induction
is in four laws of `FlattenSeq` (nothing, one, appending, concatenating). *Archive*: of a file it is used only that it passes `verifyArchive()` and names the root;
a CID stands for the bytes it hashes, so the root tells the links and a link the conversation, which `Read` finds at its place, whatever was damaged,
reordered or added (`VerifiedIsExported`); that an undamaged file verifies is shown separately. *Seal*: the tag tells key, IV and text.
The hypotheses are those of the code: roles are the four of the type, contents have the three forms, and a text is told from the marks
that stand for a damaged block and a failure.

### Only model-checked

* All liveness, and with it the liveness half of the refinements: there are no rules here for `WF` and `ENABLED`.
* The properties of the runs that end in a counterexample, and those of section 6.

## 6. Where the code does not keep its word

Four runs end in a counterexample on purpose; the finding in `PROJECT.json` quotes the
sentence the code contradicts.

* `recovery_noop` - `RecoveryRecords`: a crash after the CAR file, a restart; the
  recovery job carries no conversations, `flushBatch` returns at once (`upload.ts:267`)
  and the job counts as completed. Nothing is uploaded or recorded.
* `pairing_stuck` - `FailsOnlyByFault` with `Applying = {}`: nobody calls
  `setAnswer`, so no pairing of `client-bridge.ts` completes.
* `pipeline_order` - `StepsFeedNext`: response hooks run in reverse order, so upload
  captures before gzip and taco-encrypt have done anything: archives hold plain text.
* `config_flags` - `OnlyGivenOverridden`: `--config f --port 9000` also switches
  encryption and upload off, because Commander's defaults are assigned over the file.

Further properties are defined in the modules and refuted by the model, without a run of
their own; put one in place of the properties of the configuration named to see the
counterexample.

| Property | Configuration | What happens |
|---|---|---|
| `UploadsNeverConcurrent` | MCBatchUpload | `flush-queue.ts:5-6` "Filecoin uploads never run concurrently"; the timer of `upload.ts:322` abandons an upload and the retry starts another |
| `DeadLetterKeepsCar` | MCBatchUpload | `upload.ts:422` says the CAR file is preserved; a retry that fails in `writeFile` (`:309`) has truncated it |
| `ChainUnbroken` | MCBatchUpload | `planning/v2/00-OVERVIEW.md:30`; `lastBatchCid` (`upload.ts:250`) is null after a restart, and records of a failed persist stay |
| `UnreadableIsKept` | MCBatchUpload | `upload.ts:239-240`: any error of load counts as "no registry", and the next persist overwrites it |
| `HealthIsHonest` | MCDataChannel | `qr-client.ts` never resets `handshakeComplete`: /health stays "ok" without a channel |
| `ServerSurvives` | MCDataChannel | `webrtc.ts:230` dereferences `peer`, null since `:245`; `qr-server.ts` throws again inside `.catch()` |
| `ConnectedMeansHandshake` | Pairing | `webrtc.ts:54` "handshake done"; `state` is set at `:249` before the bridge's handshake |
| `OnlyPeerLossDropsPeer` | Pairing | `webrtc.ts:239-245`: the callback of an old connection sets the new peer to null |
| `ShimSurvivesFailure` | Pairing | the 30 second promise of `webrtc.ts:187` rejects with nobody awaiting it when `submitAnswer` failed before |
| `AnsweredIsRecorded` | Pipeline | the recorder's hook runs before upload has set the request id (`index.ts:826`): no rows are ever written |
| `NothingPendingAtExit` | Pipeline | requests go on after the drain; what they enqueue dies with the process (`index.ts:882`) |
| `SignalClosesTunnel` | Libp2pTunnel | a signal before the handlers are installed, or a kill, leaves the tunnel |
| `SecondSignalEnds` | Libp2pTunnel | a second signal does not end a bridge with an open request: `libp2p-client-bridge.ts:310-313` waits in `close()` again, and that calls back when the last request has ended |
| `FetchedIsStored` (Recovery) | MCParts | `docs/architecture.md:371` "All CIDs verified on retrieval"; `retriever.ts:57-73` and `car-extractor.ts:30-106` compute no CID: another batch, or altered blocks, are saved and reported as recovered |
| `RetrievalIsVerified` (Retrieval) | MCParts | `retrieval.ts:4` "Implements verified retrieval"; `fetchAndVerify` (`:42-61`) verifies nothing, and the root that came says whether to decrypt |
| `SuccessIsComplete` (Recovery) | MCParts | `car-extractor.ts` passes over missing blocks; a batch reported as recovered may lack conversations |
| `ReadStaysRead` (Retrieval) | MCParts | a CID listed twice: the task that ends last writes the entry, and its error replaces the conversation |
| `AcknowledgedIsUsed`, `WaitSettles` (SignalingServer) | MCParts | two overlapping answers are both told 200; `waitForAnswer()` after the answer or the timer never settles |
| `InitializedHasProvider` (TacoClient) | MCParts | `disconnect()` during `initialize()`, which goes on and sets `initialized` |
| `GivenSignerIsUsed` (TacoClient) | MCParts | the example at `taco-encryption.ts:120`: `createTacoClient()` has initialised the client without a signer, the call with the signer returns at once |
| `ConnectedMeansServed` (QrPairing) | MCParts | `qr-client.ts:220` "WebRTC fully connected"; a lost handshake leaves the server refusing every request |
| `RolesAreKept` (Translation) | MCParts | `translator.ts:170` "Prefix with role for context in multi-turn": content sent as parts gets no prefix |
| `AllIsAll` (Archive) | operator | `index.ts:432` "default: export all batches": batch ids are `Date.now()` values and are used as array indices (`:974`), so every batch is skipped as "not found" |
| `SealedReplacesPlain` (Archive) | operator | `archive-builder.ts:58` "if encrypted, replaces request+response": `upload.ts:270` keeps both |
| `ReadIsComplete` (Archive) | operator | `readArchive()` passes over missing blocks without a word |
| `HybridOpens` (Archive) | operator | `data-recovery/src/lib/decryptor.ts`: `parseEncryptedBuffer` removes the IV and `aesDecrypt` skips 12 more bytes, so nothing that taco-encrypt wrote can be opened |

The properties of the parts are reached in MCParts through its instances (`R!`, `V!`, `S!`, `T!`, `Q!`,
`X!`, `A!`). "operator" marks statements about operators; give them values to evaluate them.

Noticed while modelling, within the models' behaviours but with no property that claims
otherwise: a partial batch is dropped at every exit, and `index.ts:890` says "drained"
even when the drain gave up; `timeoutMs` does not cover loading a model; a stream that breaks ends
with finish reason "stop", and streams are never captured; `p2pClose` closes the tunnels
of other processes with the same protocol; the bridge's proxy waits for its requests
without a limit when closing; two batches cut in the same millisecond
share directory and id, and pruning the first removes the CAR file of the second (section 5); `webrtc.ts:188` reports 300 s for a 30 s timer; `--port=9000` in
one word is not seen as an explicit flag (`config/index.ts:126`); two first starts race
on the key file and on `llm-shim-session-metadata.json` (excluded by `raced`); a torn key
file blocks every later start with that path; a stop while `sessions.parquet` is rewritten
loses its rows and lets ids be reused (excluded by `mishap`); dag-cbor (external) documents
that it refuses `undefined`, and `flushBatch` passes it for every message without a name (`upload.ts:278`)
and every conversation that is not encrypted (`:294`), so that an archive may fail to be built
more often than not - BatchUpload has both outcomes; a gateway that stalls within the body hangs the
recovery tool, and the tool only
warns about encrypted batches, which `data-recovery/README.md` says it decrypts, and `parseEncryptionMetadata` wants a
version "hybrid-v1"; two batches of one id overwrite one file; `export --batch 0` exports the
first `merged.car` that `readdir` finds, whatever the record, and `--extract-images` is never passed
on; `buildChat` drops images that are not data URLs, and `frequency_penalty` becomes `repeat_penalty`; a QR server
whose client has left keeps running but can be given no other.

## 7. What is not modelled

* **dedup cache**: the upload middleware adds to it and nothing asks it; no behaviour
  depends on what is in it.
* **translator**: the conversion of responses and stream chunks and the sampling parameters, which copy
  fields one by one.
* **archive builder**: the bytes of dag-cbor and CAR, the totals of the batch root, `cid-utils.ts`.
* **exporter**: extraction of images (never switched on), JSON; `configure` and `registry-status`,
  which ask or print.
* **data-recovery**: the output of `list`; the library functions that no command calls
  (`retrieveMultipleFromGateway`, the Synapse download, the TACo part of the decryptor).
* **TACo wrappers**: conditions and authentication, which build values for the library, and
  `tacoDecrypt`, which has the structure of `tacoEncrypt`.
* NaN as the value of a numeric setting (`config-file.ts:221`).
* Cryptography, Synapse, Kubo, LM Studio, node-datachannel: external;
  modelled by what their callers can see (a result, an error, silence, lateness).
* Sizes, wording, logs, HTTP headers, ICE candidates, compression of QR codes,
  the bytes a proxy pipes.
* Memory pressure and disk-full other than as a failing await; several machines.

## 8. Plan

Order, by what matters most to a user's data:

1. *done* SerialQueue, FlushQueue with its proofs; Registry, BatchUpload on top of both.
2. *done* DataChannel, Pairing (the transport that has the most concurrency).
3. *done* Pipeline (requests against shutdown), Libp2pTunnel, Startup.
4. *done* Downloads, implemented by Recovery and Retrieval.
5. *done* SignalingServer, TacoClient, QrPairing.
6. *done* Translation and Archive as operators, checked over small inputs and proved for all.
7. *done* RemoteCalls, implemented by DataChannel. Still open: a registry log for BatchUpload (append and prune
   only), a mutual-exclusion specification for Pairing; `SignalingServer` as a refinement of the operators `AcceptAnswer` and
   `ServesOffer` of Pairing.
8. NaN in Startup and BatchUpload; a second QR client after the first has left.

9. *done* The safety properties of all components as theorems (section 5).

What is left to prove: item 7's refinements, whose proofs would stand in the theorem modules there are.
