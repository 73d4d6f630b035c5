---------------------------- MODULE BatchUpload ----------------------------
(***************************************************************************)
(* The upload middleware of src/middleware/upload.ts on top of the flush   *)
(* queue and the registry: conversations are buffered, a full buffer       *)
(* becomes a job, flushBatch() writes its CAR file, uploads it, records it *)
(* in registry.json, removes the CAR file and prunes old records.  The     *)
(* process may crash or be shut down between any two steps and start again *)
(* on the files it left.                                                   *)
(*                                                                         *)
(* One action per stretch between two awaits of flushBatch(); what it      *)
(* awaits may fail wherever the code has no try/catch of its own.          *)
(***************************************************************************)
EXTENDS Naturals, Sequences, FiniteSets, SequencesExt

CONSTANTS
  Job, MaxRetries, NoFlush,  \* of FlushQueue; Job = 1 .. n, used in order
  Settings,                  \* what may be configured, and what may happen
  MaxRestarts,               \* bound: crashes and exits
  NoCid, NoFile, Truncated   \* null; no such file; a half-written CAR file

VARIABLES
  settings,      \* settings: the options of this history, one of Settings
  queue, activeFlush, stats, drainer, accepted, settled, attempts,
  batchBuffer,   \* batchBuffer: conversations not yet in a job
  lastBatchCid,  \* lastBatchCid: root of the last batch of this process
  registry,      \* the Registry's state in memory
  startup,       \* registryLoadPromise, then recoverPendingBatches()
  scan,          \* recoverPendingBatches(): directories still to look at
  flush,         \* flushBatch(): where it stands, and its locals
  uploads,       \* synapseUpload() calls that have not ended yet
  jobs,          \* what each FlushJob carries
  disk,          \* registry.json
  carFile,       \* batch-<timestamp>/merged.car
  clock,         \* Date.now(), advancing when batches are cut
  nextConv, nextJob,   \* the next conversation and the next job
  faults, restarts,    \* failures and restarts so far
  recorded,      \* history: roots that registry.json has ever held
  lost           \* history: conversations whose job or buffer died with
                 \* the process

BatchSize          == settings.batchSize           \* options.batchSize
MaxRegistryBatches == settings.maxRegistryBatches  \* options.maxRegistryBatches
CleanupAfterUpload == settings.cleanupAfterUpload  \* options.cleanupAfterUpload
SameMillisecond    == settings.sameMillisecond     \* two batches may be cut within one
RegistryReadErrors == settings.registryReadErrors  \* other than ENOENT
MaxConversations   == settings.maxConversations    \* bound: conversations ever captured
MaxFaults          == settings.maxFaults           \* bound: failures of awaited I/O
MaxJobs            == settings.maxJobs             \* bound: jobs ever made

Q == INSTANCE FlushQueue

R == INSTANCE Registry

ASSUME QueueAssumption == MaxRetries \in Nat /\ NoFlush \notin Q!Flight

\* There are job numbers enough for the bound on the jobs ever made; the limit
\* on the records is a number, 0 meaning none; validateConfig() refuses a batch
\* size below 1.
ASSUME JobAssumption ==
  /\ Cardinality(Job) \in Nat /\ Job = 1 .. Cardinality(Job)
  /\ \A s \in Settings : /\ s.maxJobs \in 0 .. Cardinality(Job)
                          /\ s.maxRegistryBatches \in Nat
                          /\ s.batchSize \in Nat \ {0}
                          /\ s.maxConversations \in Nat

queueVars == <<queue, activeFlush, stats, drainer, accepted, settled, attempts>>
volatileVars == <<batchBuffer, lastBatchCid, registry, startup, scan, flush, uploads>>
durableVars  == <<disk, carFile>>
envVars      == <<settings, clock, nextConv, nextJob, faults, restarts>>
ghostVars    == <<recorded, lost>>
vars == <<queueVars, volatileVars, durableVars, jobs, envVars, ghostVars>>

Timestamp == 1 .. Cardinality(Job)

\* The BatchRoot block holds the batch, its predecessor and Date.now(): every
\* attempt to flush a job builds an archive with a root CID of its own.
RootCid == {<<j, n>> : j \in Job, n \in 1 .. MaxRetries + 1}

ASSUME FileAssumption == NoFile # Truncated /\ {NoFile, Truncated} \cap RootCid = {}

EmptyJob == [conversations |-> <<>>, batchTimestamp |-> 0, recovery |-> FALSE]

\* Step names of flushBatch().
Idle == [at |-> "start", previous |-> NoCid, filecoinCid |-> NoCid, removed |-> <<>>]

Init ==
  /\ settings \in Settings
  /\ Q!Init
  /\ batchBuffer = <<>> /\ lastBatchCid = NoCid
  /\ registry = R!FreshState /\ startup = "loading"
  /\ scan = {} /\ flush = Idle /\ uploads = {}
  /\ jobs = [j \in Job |-> EmptyJob]
  /\ disk = NoFile
  /\ carFile = [t \in Timestamp |-> NoFile]
  /\ clock = 0 /\ nextConv = 1 /\ nextJob = 1 /\ faults = 0 /\ restarts = 0
  /\ recorded = {} /\ lost = {}

Fault == faults < MaxFaults /\ faults' = faults + 1

-----------------------------------------------------------------------------
(* The hot path *)

\* enqueue(snapshot, Date.now()) or enqueueRecovery(path, timestamp).
EnqueueJob(job) ==
  /\ nextJob <= MaxJobs
  /\ jobs' = [jobs EXCEPT ![nextJob] = job]
  /\ nextJob' = nextJob + 1
  /\ Q!Enqueue(nextJob)

BugCutBatch ==  \* copies the buffer into the job without emptying it
  \E t \in clock + 1 .. clock + 1 :
    /\ EnqueueJob([conversations  |-> Append(batchBuffer, nextConv),
                   batchTimestamp |-> t, recovery |-> FALSE])
    /\ clock' = t
    /\ batchBuffer' = Append(batchBuffer, nextConv)

\* splice(0) and enqueue() in one synchronous stretch.
CutBatch ==
  \E t \in (IF SameMillisecond /\ clock > 0 THEN clock ELSE clock + 1) .. clock + 1 :
    /\ EnqueueJob([conversations  |-> Append(batchBuffer, nextConv),
                   batchTimestamp |-> t, recovery |-> FALSE])
    /\ clock' = t
    /\ batchBuffer' = <<>>

\* onResponse(): capture the conversation; cut a batch when the buffer is full.
OnResponse ==
  /\ nextConv <= MaxConversations
  /\ nextConv' = nextConv + 1
  /\ IF Len(batchBuffer) + 1 >= BatchSize
     THEN CutBatch
     ELSE /\ batchBuffer' = Append(batchBuffer, nextConv)
          /\ UNCHANGED <<queueVars, jobs, nextJob, clock>>
  /\ UNCHANGED <<lastBatchCid, registry, startup, scan, flush, uploads,
                 durableVars, settings, faults, restarts, ghostVars>>

-----------------------------------------------------------------------------
(* flushBatch() *)

CurrentJob  == activeFlush.job
Current     == jobs[CurrentJob]
CurrentRoot == <<CurrentJob, attempts[CurrentJob]>>

At(step) == Q!In("executing") /\ flush.at = step

\* flushBatch() goes on: the queue sees nothing of it.
Continue(step) == /\ flush' = [flush EXCEPT !.at = step]
                  /\ UNCHANGED queueVars

\* The promise of flushBatch() settles and the queue takes over.
Return == Q!ExecutorResolves /\ flush' = Idle
Throw  == Q!ExecutorRejects  /\ flush' = Idle

StaticVars == <<settings, batchBuffer, startup, scan, jobs, clock, nextConv,
                nextJob, restarts, lost>>

\* No conversations (every recovery job): return at once.
SkipEmpty ==
  /\ At("start")
  /\ Current.conversations = <<>>
  /\ Return
  /\ UNCHANGED <<StaticVars, lastBatchCid, registry, uploads, durableVars,
                 faults, recorded>>

\* buildBatchArchive() links the previous batch; writeFile() opens the file.
BeginCar ==
  /\ At("start")
  /\ Current.conversations # <<>>
  /\ flush' = [flush EXCEPT !.at = "writing", !.previous = lastBatchCid]
  /\ carFile' = [carFile EXCEPT ![Current.batchTimestamp] = Truncated]
  /\ UNCHANGED <<queueVars, StaticVars, lastBatchCid, registry, uploads, disk,
                 faults, recorded>>

\* Building the archive or creating its directory fails.
BuildFails ==
  /\ At("start")
  /\ Current.conversations # <<>>
  /\ Throw /\ Fault
  /\ UNCHANGED <<StaticVars, lastBatchCid, registry, uploads, durableVars, recorded>>

\* The CAR file is complete and synapseUpload() is called.
FinishCar ==
  /\ At("writing")
  /\ carFile' = [carFile EXCEPT ![Current.batchTimestamp] = CurrentRoot]
  /\ uploads' = uploads \cup {CurrentRoot}
  /\ Continue("uploading")
  /\ UNCHANGED <<StaticVars, lastBatchCid, registry, disk, faults, recorded>>

WriteFails ==
  /\ At("writing")
  /\ Throw /\ Fault
  /\ UNCHANGED <<StaticVars, lastBatchCid, registry, uploads, durableVars, recorded>>

\* synapseUpload() resolves: the file it read is on Filecoin.
UploadEnds ==
  /\ At("uploading")
  /\ carFile[Current.batchTimestamp] # NoFile
  /\ flush' = [flush EXCEPT !.at = "uploaded",
                            !.filecoinCid = carFile[Current.batchTimestamp]]
  /\ uploads' = uploads \ {CurrentRoot}
  /\ UNCHANGED <<queueVars, StaticVars, lastBatchCid, registry, durableVars,
                 faults, recorded>>

UploadFails ==
  /\ At("uploading")
  /\ uploads' = uploads \ {CurrentRoot}
  /\ Throw /\ Fault
  /\ UNCHANGED <<StaticVars, lastBatchCid, registry, durableVars, recorded>>

BugUploadTimeout ==  \* the race falls through instead of rejecting
  /\ At("uploading")
  /\ Continue("uploaded")
  /\ UNCHANGED <<StaticVars, lastBatchCid, registry, uploads, durableVars,
                 faults, recorded>>

BugNoTimer == FALSE  \* the upload is awaited without the race

\* The 10 minute timer wins the race; the upload itself goes on.
UploadTimeout ==
  /\ At("uploading")
  /\ Throw
  /\ UNCHANGED <<StaticVars, lastBatchCid, registry, uploads, durableVars,
                 faults, recorded>>

\* An upload that nobody waits for any more ends, one way or the other.
AbandonedUploadEnds ==
  \E u \in uploads :
    /\ ~ (At("uploading") /\ u = CurrentRoot)
    /\ uploads' = uploads \ {u}
    /\ UNCHANGED <<queueVars, flush, StaticVars, lastBatchCid, registry,
                   durableVars, faults, recorded>>

BugRecordBatch ==  \* does not wait for the registry to be loaded
  /\ At("uploaded")
  /\ registry' = R!AddBatch(registry,
       [batchId           |-> Current.batchTimestamp,
        rootCid           |-> CurrentRoot,
        filecoinCid       |-> flush.filecoinCid,
        conversationCount |-> Len(Current.conversations),
        previousBatchCid  |-> lastBatchCid])
  /\ Continue("added")
  /\ UNCHANGED <<StaticVars, lastBatchCid, uploads, durableVars, faults, recorded>>

BugStaleRoot ==  \* records the root of the first attempt
  /\ At("uploaded")
  /\ startup # "loading"
  /\ registry' = R!AddBatch(registry,
       [batchId           |-> Current.batchTimestamp,
        rootCid           |-> <<CurrentJob, 1>>,
        filecoinCid       |-> flush.filecoinCid,
        conversationCount |-> Len(Current.conversations),
        previousBatchCid  |-> lastBatchCid])
  /\ Continue("added")
  /\ UNCHANGED <<StaticVars, lastBatchCid, uploads, durableVars, faults, recorded>>

\* await registryLoadPromise, then addBatch().
RecordBatch ==
  /\ At("uploaded")
  /\ startup # "loading"
  /\ registry' = R!AddBatch(registry,
       [batchId           |-> Current.batchTimestamp,
        rootCid           |-> CurrentRoot,
        filecoinCid       |-> flush.filecoinCid,
        conversationCount |-> Len(Current.conversations),
        previousBatchCid  |-> lastBatchCid])
  /\ Continue("added")
  /\ UNCHANGED <<StaticVars, lastBatchCid, uploads, durableVars, faults, recorded>>

\* persist(): a temp file and a rename, so the file is the old or the new one.
WriteRegistry ==
  /\ disk' = registry
  /\ recorded' = recorded \cup {registry.batches[i].rootCid :
                                  i \in DOMAIN registry.batches}

BugPersistFails ==  \* moves the chain pointer although persist() failed
  /\ At("added")
  /\ lastBatchCid' = CurrentRoot
  /\ Throw /\ Fault
  /\ UNCHANGED <<StaticVars, registry, uploads, durableVars, recorded>>

BugIgnorePersist ==  \* logs the failed persist() and goes on
  /\ At("added")
  /\ Continue("persisted") /\ Fault
  /\ UNCHANGED <<StaticVars, lastBatchCid, registry, uploads, durableVars, recorded>>

PersistFails ==
  /\ At("added")
  /\ Throw /\ Fault
  /\ UNCHANGED <<StaticVars, lastBatchCid, registry, uploads, durableVars, recorded>>

\* persist() succeeds; then lastBatchCid = archive.rootCid.
PersistBatch ==
  /\ At("added")
  /\ WriteRegistry
  /\ lastBatchCid' = CurrentRoot
  /\ Continue("persisted")
  /\ UNCHANGED <<StaticVars, registry, uploads, carFile, faults>>

\* rm -rf batch-<timestamp>; a failure is only logged.
CleanUp ==
  /\ At("persisted")
  /\ \/ /\ CleanupAfterUpload
        /\ carFile' = [carFile EXCEPT ![Current.batchTimestamp] = NoFile]
        /\ UNCHANGED faults
     \/ /\ CleanupAfterUpload
        /\ Fault
        /\ UNCHANGED carFile
     \/ /\ ~CleanupAfterUpload
        /\ UNCHANGED <<carFile, faults>>
  /\ Continue("cleaned")
  /\ UNCHANGED <<StaticVars, lastBatchCid, registry, uploads, disk, recorded>>

\* prune() removes nothing: the flush is complete.
NothingToPrune ==
  /\ At("cleaned")
  /\ R!RemoveCount(registry, MaxRegistryBatches) = 0
  /\ Return
  /\ UNCHANGED <<StaticVars, lastBatchCid, registry, uploads, durableVars,
                 faults, recorded>>

PruneRegistry ==
  /\ At("cleaned")
  /\ R!RemoveCount(registry, MaxRegistryBatches) > 0
  /\ flush' = [flush EXCEPT !.at = "pruned",
                            !.removed = R!Removed(registry, MaxRegistryBatches)]
  /\ registry' = R!Prune(registry, MaxRegistryBatches)
  /\ UNCHANGED <<queueVars, StaticVars, lastBatchCid, uploads, durableVars,
                 faults, recorded>>

\* The pruned registry reaches the disk, and the directories of the removed
\* records go too if they are still there.
PersistPruned ==
  /\ At("pruned")
  /\ WriteRegistry
  /\ carFile' = IF CleanupAfterUpload
                THEN [t \in Timestamp |->
                        IF \E i \in DOMAIN flush.removed : flush.removed[i].batchId = t
                        THEN NoFile ELSE carFile[t]]
                ELSE carFile
  /\ Return
  /\ UNCHANGED <<StaticVars, lastBatchCid, registry, uploads, faults>>

PersistPrunedFails ==
  /\ At("pruned")
  /\ Throw /\ Fault
  /\ UNCHANGED <<StaticVars, lastBatchCid, registry, uploads, durableVars, recorded>>

FlushBatch ==
  \/ SkipEmpty \/ BeginCar \/ BuildFails \/ FinishCar \/ WriteFails
  \/ UploadEnds \/ UploadFails \/ UploadTimeout
  \/ RecordBatch \/ PersistFails \/ PersistBatch
  \/ CleanUp \/ NothingToPrune \/ PruneRegistry
  \/ PersistPruned \/ PersistPrunedFails

-----------------------------------------------------------------------------
(* The queue's own steps, which the upload middleware does not see *)

QueueStep ==
  /\ \/ Q!BackoffElapses \/ Q!Finally
     \/ Q!DrainCall \/ Q!DrainIdle \/ Q!DrainDeadline
  /\ UNCHANGED <<volatileVars, durableVars, jobs, envVars, ghostVars>>

-----------------------------------------------------------------------------
(* Start-up: registry.load(), then recoverPendingBatches() *)

\* load() replaces the whole state in memory; a missing file gives a fresh
\* one.  Any other error leaves the fresh state and is swallowed by .catch().
LoadRegistry ==
  /\ startup = "loading"
  /\ startup' = "loaded"
  /\ \/ /\ registry' = IF disk = NoFile THEN R!FreshState ELSE disk
        /\ UNCHANGED faults
     \/ /\ RegistryReadErrors /\ Fault
        /\ UNCHANGED registry
  /\ UNCHANGED <<queueVars, batchBuffer, lastBatchCid, scan, flush, uploads,
                 durableVars, jobs, settings, clock, nextConv, nextJob, restarts,
                 ghostVars>>

\* readdir() and getState(): the directories that are in no record.
ScanCarDir ==
  /\ startup = "loaded"
  /\ startup' = "scanned"
  /\ scan' = {t \in Timestamp :
               /\ carFile[t] # NoFile
               /\ \A i \in DOMAIN registry.batches : registry.batches[i].batchId # t}
  /\ UNCHANGED <<queueVars, batchBuffer, lastBatchCid, registry, flush, uploads,
                 durableVars, jobs, envVars, ghostVars>>

\* access(merged.car) succeeds, for a truncated file as well: enqueueRecovery().
RecoverEntry ==
  \E t \in scan :
    /\ scan' = scan \ {t}
    /\ IF carFile[t] # NoFile
       THEN EnqueueJob([conversations |-> <<>>, batchTimestamp |-> t,
                        recovery |-> TRUE])
       ELSE UNCHANGED <<queueVars, jobs, nextJob>>
    /\ UNCHANGED <<batchBuffer, lastBatchCid, registry, startup, flush, uploads,
                   durableVars, settings, clock, nextConv, faults, restarts, ghostVars>>

-----------------------------------------------------------------------------
(* The process dies and is started again on the same files *)

\* Conversations of jobs that have no outcome, and those still in the buffer.
InMemoryOnly ==
  LET open == {j \in Job : /\ \E i \in DOMAIN accepted : accepted[i] = j
                           /\ \A i \in DOMAIN settled : settled[i].job # j}
  IN {batchBuffer[i] : i \in DOMAIN batchBuffer}
     \cup UNION {{jobs[j].conversations[i] : i \in DOMAIN jobs[j].conversations} :
                   j \in open}

Restart ==
  /\ restarts < MaxRestarts
  /\ restarts' = restarts + 1
  /\ lost' = lost \cup InMemoryOnly
  /\ queue' = <<>> /\ activeFlush' = NoFlush /\ drainer' = "away"
  /\ stats' = [completed |-> 0, failed |-> 0, deadLettered |-> 0]
  /\ accepted' = <<>> /\ settled' = <<>> /\ attempts' = [j \in Job |-> 0]
  /\ batchBuffer' = <<>> /\ lastBatchCid' = NoCid
  /\ registry' = R!FreshState /\ startup' = "loading"
  /\ scan' = {} /\ flush' = Idle /\ uploads' = {}
  /\ UNCHANGED <<durableVars, jobs, settings, clock, nextConv, nextJob, faults, recorded>>

\* The end of shutdown(): drainFlushes() has returned, process.exit(0).
Exit == drainer \in {"drained", "timedOut"} /\ Restart

\* At any moment; an exit after the drain is one of those moments.
Crash == drainer \notin {"drained", "timedOut"} /\ Restart

Next == \/ OnResponse \/ FlushBatch \/ AbandonedUploadEnds \/ QueueStep
        \/ LoadRegistry \/ ScanCarDir \/ RecoverEntry
        \/ Crash \/ Exit

Spec == Init /\ [][Next]_vars

(***************************************************************************)
(* Fairness.  Local file operations end, the timers and microtasks of the  *)
(* queue run, and reading registry.json ends.  The network owes nothing:   *)
(* an upload may stay silent for ever, and only the 10 minute timer ends   *)
(* the wait.  Requests, crashes and shutdown are free.                     *)
(***************************************************************************)
FairSpec == /\ Spec
            /\ WF_vars(FlushBatch /\ ~At("uploading"))
            /\ WF_vars(UploadTimeout)
            /\ WF_vars((Q!BackoffElapses \/ Q!Finally) /\ QueueStep)
            /\ WF_vars(LoadRegistry)

-----------------------------------------------------------------------------
(* Properties *)

Record == [batchId : Timestamp, rootCid : RootCid, filecoinCid : RootCid,
           conversationCount : 1 .. BatchSize,
           previousBatchCid : RootCid \cup {NoCid}]

RegistryState == [totalBatches : Nat, totalConversations : Nat,
                  batches : Seq(Record), lastBatchCid : RootCid \cup {NoCid}]

TypeOK ==
  /\ Q!TypeOK
  /\ batchBuffer \in Seq(1 .. MaxConversations)
  /\ lastBatchCid \in RootCid \cup {NoCid}
  /\ registry \in RegistryState
  /\ startup \in {"loading", "loaded", "scanned"}
  /\ scan \subseteq Timestamp
  /\ flush \in [at : {"start", "writing", "uploading", "uploaded", "added",
                     "persisted", "cleaned", "pruned"},
                previous : RootCid \cup {NoCid},
                filecoinCid : RootCid \cup {NoCid},
                removed : Seq(Record)]
  /\ uploads \subseteq RootCid
  /\ disk \in RegistryState \cup {NoFile}
  /\ carFile \in [Timestamp -> RootCid \cup {NoFile, Truncated}]
  /\ clock \in Timestamp \cup {0}
  /\ recorded \subseteq RootCid

\* The records of registry.json; none when there is no file.
RecordsOnDisk == IF disk = NoFile THEN <<>> ELSE disk.batches

AcceptedJobs == {accepted[i] : i \in DOMAIN accepted}
Outcome(ok)  == {settled[i].job : i \in {k \in DOMAIN settled : settled[k].ok = ok}}

\* The roots under which a job was ever recorded.
RecordedAs(j) == {r \in recorded : r[1] = j}

(* A record never claims more than what happened: the Filecoin CID beside  *)
(* a root belongs to that very archive, its upload was reported complete,  *)
(* and the record counts the conversations of its batch.  Retries rebuild  *)
(* the archive under a new root and abandoned uploads end at any time, so  *)
(* a stale root or a missing upload could slip in.  The counters beside    *)
(* the records stay theirs through adding, pruning, failed saves and       *)
(* reloading.                                                              *)
RecordIsTrue(b) ==
  /\ b.filecoinCid = b.rootCid
  /\ b.batchId = jobs[b.rootCid[1]].batchTimestamp
  /\ b.conversationCount = Len(jobs[b.rootCid[1]].conversations)

RegistryTellsTruth ==
  \A state \in {registry} \cup (IF disk = NoFile THEN {} ELSE {disk}) :
    /\ R!TotalsMatch(state)
    /\ \A i \in DOMAIN state.batches : RecordIsTrue(state.batches[i])

(* Every captured conversation is in one place, the buffer or one batch,   *)
(* and the places are in the order of capture (hence no conversation is in *)
(* two), unless it died with the process.                                  *)
Place   == 1 .. Cardinality(Job) + 1  \* the batches, and the buffer after them
Held(p) == IF p \in Job THEN jobs[p].conversations ELSE batchBuffer

CapturedOnce ==
  /\ \A p, q \in Place : \A i \in DOMAIN Held(p), k \in DOMAIN Held(q) :
       p < q \/ (p = q /\ i < k) => Held(p)[i] < Held(q)[k]
  /\ \A c \in 1 .. nextConv - 1 :
       c \in lost \/ \E p \in Place : \E i \in DOMAIN Held(p) : Held(p)[i] = c

(* "Completed" is the truth: a batch whose job was reported done is in     *)
(* registry.json, or was pruned from it.                                   *)
CompletedMeansRecorded ==
  \A j \in Outcome(TRUE) : jobs[j].conversations # <<>> => RecordedAs(j) # {}

(* A complete CAR file, the only copy of a batch outside the process, is   *)
(* removed only when its batch has reached registry.json.                  *)
CarRemovedOnlyWhenRecorded ==
  [][\A t \in Timestamp :
       carFile[t] \in RootCid /\ carFile'[t] = NoFile
         => RecordedAs(carFile[t][1]) # {}]_vars

(* The provenance chain leads only to batches that reached registry.json,  *)
(* and backwards: neither a failed persist nor a retry makes a batch point *)
(* to an archive nobody recorded, or to itself.                            *)
Earlier(r, s) == r[1] < s[1] \/ (r[1] = s[1] /\ r[2] < s[2])

ChainIsRecorded ==
  /\ lastBatchCid \in recorded \cup {NoCid}
  /\ \A i \in DOMAIN registry.batches :
       LET b == registry.batches[i] IN
       b.previousBatchCid # NoCid
         => b.previousBatchCid \in recorded /\ Earlier(b.previousBatchCid, b.rootCid)

\* A write of registry.json that loses records only from the old end, and only
\* those above the limit.
PrunesOnly ==
  LET new == disk'.batches
      kept(n) == SubSeq(RecordsOnDisk, n + 1, Len(RecordsOnDisk))
  IN \E n \in 0 .. Len(RecordsOnDisk) :
       /\ IsPrefix(kept(n), new)
       /\ n > 0 => MaxRegistryBatches > 0 /\ Len(kept(n)) >= MaxRegistryBatches

(* registry.json loses records only by pruning: no restart, early batch or *)
(* failed save forgets the past, as long as the file can be read.          *)
OnlyPruningForgets == [][disk' # disk /\ ~RegistryReadErrors => PrunesOnly]_vars

(* Every batch handed to the queue gets its outcome unless the process     *)
(* dies, although the network may stay silent for ever and the registry    *)
(* may be unreadable.                                                      *)
EveryBatchSettles ==
  \A j \in Job : j \in AcceptedJobs
     ~> (j \in Outcome(TRUE) \cup Outcome(FALSE) \/ j \notin AcceptedJobs)

-----------------------------------------------------------------------------
(* What comments and documents say and the code does not keep: the model   *)
(* refutes each of these, RecoveryRecords in a run of its own.             *)

(* "Filecoin uploads never run concurrently" (flush-queue.ts): the timer   *)
(* abandons an upload without stopping it.                                 *)
UploadsNeverConcurrent == Cardinality(uploads) <= 1

(* A recovery job's "merged CAR already on disk, just needs upload +       *)
(* registry" (flush-queue.ts): the job completes and nothing is uploaded.  *)
RecoveryRecords ==
  \A j \in Outcome(TRUE) :
    LET car == carFile[jobs[j].batchTimestamp] IN
    jobs[j].recovery /\ car \in RootCid => RecordedAs(car[1]) # {}

(* "each batch root links to previous batch CID" (planning/v2): a restart  *)
(* starts a new chain, and so do the records a failed persist leaves.      *)
ChainUnbroken ==
  \A i \in 2 .. Len(RecordsOnDisk) :
    RecordsOnDisk[i].previousBatchCid = RecordsOnDisk[i - 1].rootCid

(* "each batch root links ..." also needs the records: an error of load()  *)
(* counts as a missing file, and the next persist overwrites what was there. *)
UnreadableIsKept == [][disk' # disk => PrunesOnly]_vars

(* "CAR files preserved on disk for recovery" when a flush fails for good: *)
(* a retry truncates the file that an earlier attempt had completed.       *)
DeadLetterKeepsCar ==
  \A j \in Outcome(FALSE) :
    carFile[jobs[j].batchTimestamp] \in RootCid \/ RecordedAs(j) # {}
=============================================================================
