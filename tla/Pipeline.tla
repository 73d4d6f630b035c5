------------------------------ MODULE Pipeline ------------------------------
(***************************************************************************)
(* The server process behind its HTTP transport: concurrent requests go    *)
(* through Engine, the middleware chain and LM Studio while signal         *)
(* handlers shut the process down.  The HTTP server is never closed, so    *)
(* requests are served until process.exit().                               *)
(*                                                                         *)
(* Node runs one callback at a time.  A chain of hooks therefore runs in   *)
(* one step up to the first hook that really waits, which is gzip, and     *)
(* goes on in another when that wait ends.  (The CID recorder would wait   *)
(* too if it ever had an id to write.)  The flush queue is abstracted to   *)
(* the number of batches that have their outcome; FlushQueue and           *)
(* BatchUpload have the details.                                           *)
(***************************************************************************)
EXTENDS Naturals, Sequences, FiniteSets, SequencesExt

CONSTANTS
  Request,            \* POST /v1/chat/completions, one each
  Streams,            \* the requests with body.stream
  Options,            \* the middlewares and the tunnel a run may enable
  Handler,            \* bound: signals, each of which runs shutdown() anew
  BatchSize,          \* targetBatchSize
  MaxChunks           \* bound: pieces of content in one stream

ASSUME BatchSizeAssumption == BatchSize \in Nat \ {0}
ASSUME StreamsAssumption == Streams \subseteq Request
ASSUME OptionsAssumption == Options \subseteq {"gzip", "taco-encrypt", "upload", "libp2p"}

VARIABLES
  enabled,            \* the options of this run; never changes
  timed,              \* lmstudio.timeoutMs > 0; never changes
  pc,                 \* where each request is
  context,            \* ShimContext.metadata of each request
  reply,              \* the events written to each response
  buffer,             \* batchBuffer
  batches,            \* every batch handed to the flush queue
  settled,            \* number of batches with an outcome
  rows,               \* requests written to the Parquet file
  recorderOpen,       \* the Parquet writer has not been closed
  key,                \* cachedAESKey is set
  stage,              \* position of each shutdown() in Awaits; 0: not called
  gaveUp,             \* some drain() has reached its deadline
  asked,              \* history: batches enqueued when the first signal came
  alive               \* process.exit() has not been called

fixed    == <<enabled, timed>>
capture  == <<buffer, batches, rows>>
shutVars == <<recorderOpen, key, stage, gaveUp, asked, alive>>
vars == <<fixed, pc, context, reply, capture, settled, shutVars>>

Emptied == [captured |-> FALSE, gzip |-> FALSE, encrypted |-> "none",
            requestId |-> FALSE]

Init ==
  /\ enabled \in SUBSET Options /\ timed \in BOOLEAN
  /\ pc = [r \in Request |-> "new"]
  /\ context = [r \in Request |-> Emptied]
  /\ reply = [r \in Request |-> <<>>]
  /\ buffer = <<>> /\ batches = <<>> /\ settled = 0
  /\ rows = {} /\ recorderOpen = TRUE
  /\ key = ("taco-encrypt" \in enabled)
  /\ stage = [h \in Handler |-> 0]
  /\ gaveUp = FALSE /\ asked = 0 /\ alive = TRUE

-----------------------------------------------------------------------------
(* The middleware chain *)

\* What an option adds to a list.
With(option, items) == IF option \in enabled THEN items ELSE <<>>

\* The order of engine.use() in main(); the recorder comes with upload.
Registered == <<"logger">> \o With("gzip", <<"gzip">>)
                           \o With("taco-encrypt", <<"taco-encrypt">>)
                           \o With("upload", <<"upload", "cid-recorder">>)

\* runResponse(): the hooks in reverse order.
ResponseChain == Reverse(Registered)

BugCaptures == enabled \cap {"gzip", "taco-encrypt"} # {}  \* upload does not keep it

\* The request hooks of gzip, taco-encrypt and upload keep the request.
Captures == enabled \cap {"gzip", "taco-encrypt", "upload"} # {}

\* A chain under way: what it has read and written, and how it goes on.
Chain(r) == [ctx |-> context[r], buffer |-> buffer, batches |-> batches,
             rows |-> rows, at |-> 1, state |-> "runs"]

BugUpload(r, c) ==  \* cuts a copy of the batch when one more conversation comes
  LET pending == [id |-> r, request |-> c.ctx.captured, encrypted |-> c.ctx.encrypted]
      pushed  == Append(c.buffer, pending)
      full    == Len(pushed) > BatchSize
  IN  [c EXCEPT !.buffer  = IF full THEN <<>> ELSE pushed,
                !.batches = IF full THEN Append(@, pushed) ELSE @,
                !.ctx.requestId = TRUE]

\* upload: push, cut the batch when it is full, set the request id.
Upload(r, c) ==
  LET pending == [id |-> r, request |-> c.ctx.captured, encrypted |-> c.ctx.encrypted]
      pushed  == Append(c.buffer, pending)
      full    == Len(pushed) >= BatchSize
  IN  [c EXCEPT !.buffer  = IF full THEN <<>> ELSE pushed,
                !.batches = IF full THEN Append(@, pushed) ELSE @,
                !.ctx.requestId = TRUE]

BugEncrypt(c) ==  \* insists on the compressed buffer
  IF ~key \/ ~c.ctx.gzip THEN [c EXCEPT !.state = "threw"]
  ELSE [c EXCEPT !.ctx.encrypted = "gzip"]

\* taco-encrypt: throws without a key, takes the compressed buffer if there is one.
Encrypt(c) ==
  IF ~key THEN [c EXCEPT !.state = "threw"]
  ELSE [c EXCEPT !.ctx.encrypted = IF c.ctx.gzip THEN "gzip" ELSE "plain"]

\* One hook of a chain that is still running.
Hook(r, m, c) ==
  CASE m = "upload"       -> Upload(r, c)
    [] m = "taco-encrypt" -> Encrypt(c)
    [] m = "gzip"         -> [c EXCEPT !.state = "gzipping"]
    [] m = "cid-recorder" -> IF c.ctx.requestId /\ recorderOpen
                             THEN [c EXCEPT !.rows = @ \cup {r}] ELSE c
    [] m = "logger"       -> c

\* executeChain(): hooks run until one waits or throws; `at' is the next one.
Execute(r, c) ==
  LET chain == ResponseChain
      after[i \in (c.at - 1)..Len(chain)] ==
        IF i < c.at THEN c
        ELSE LET d == after[i - 1] IN
             IF d.state # "runs" THEN d ELSE [Hook(r, chain[i], d) EXCEPT !.at = i + 1]
  IN  after[Len(chain)]

-----------------------------------------------------------------------------
(* Requests *)

Finish(r, events) ==
  /\ pc' = [pc EXCEPT ![r] = "done"]
  /\ reply' = [reply EXCEPT ![r] = @ \o events]

\* express, engine: a body without model or messages gets 400, one that
\* translateRequest() cannot read 502 or an error event; otherwise the request
\* hooks, none of which waits, run and chat() asks for the model.
Receive(r) ==
  /\ alive /\ pc[r] = "new"
  /\ \/ Finish(r, <<"error">>) /\ UNCHANGED context
     \/ /\ pc' = [pc EXCEPT ![r] = "loading"]
        /\ context' = [context EXCEPT ![r].captured = Captures]
        /\ UNCHANGED reply
  /\ UNCHANGED <<fixed, capture, settled, shutVars>>

\* sdkClient.llm.model() and buildChat(): no timer runs yet.
ModelLoaded(r) ==
  /\ alive /\ pc[r] = "loading"
  /\ pc' = [pc EXCEPT ![r] = "predicting"]
  /\ UNCHANGED <<fixed, context, reply, capture, settled, shutVars>>

LoadFails(r) ==
  /\ alive /\ pc[r] = "loading"
  /\ Finish(r, <<"error">>)
  /\ UNCHANGED <<fixed, context, capture, settled, shutVars>>

\* Puts the outcome of Execute() back, and answers the client if the chain has
\* come to its end or has thrown.
Resume(r, c) ==
  /\ context' = [context EXCEPT ![r] = c.ctx]
  /\ buffer' = c.buffer /\ batches' = c.batches /\ rows' = c.rows
  /\ \/ c.state = "runs" /\ Finish(r, <<"ok">>)
     \/ c.state = "threw" /\ Finish(r, <<"error">>)
     \/ /\ c.state = "gzipping"
        /\ pc' = [pc EXCEPT ![r] = "gzipping"]
        /\ UNCHANGED reply

\* prediction.result() wins the race: translate, run the response hooks.
ModelAnswers(r) ==
  /\ alive /\ pc[r] = "predicting" /\ r \notin Streams
  /\ \E c \in {Execute(r, Chain(r))} : Resume(r, c)
  /\ UNCHANGED <<fixed, settled, shutVars>>

\* Position of the hook after m in the response chain.
After(m) == 1 + CHOOSE i \in DOMAIN ResponseChain : ResponseChain[i] = m

\* gzipAsync() is done: store the buffer, go on with the chain.
GzipDone(r) ==
  /\ alive /\ pc[r] = "gzipping"
  /\ \E c \in {Execute(r, [Chain(r) EXCEPT !.ctx.gzip = TRUE, !.at = After("gzip")])} :
       Resume(r, c)
  /\ UNCHANGED <<fixed, settled, shutVars>>

BugStreamFails(r) ==  \* chatStream() lets the error through
  /\ r \in Streams
  /\ Finish(r, <<"error">>)

\* chatStream() catches its errors and still yields a chunk with finish reason
\* "stop", after which the transport writes [DONE].
StreamFails(r) ==
  /\ r \in Streams
  /\ Finish(r, <<"stop", "DONE">>)

\* The prediction is refused, or breaks off.
PredictionFails(r) ==
  /\ alive /\ pc[r] = "predicting"
  /\ StreamFails(r) \/ (r \notin Streams /\ Finish(r, <<"error">>))
  /\ UNCHANGED <<fixed, context, capture, settled, shutVars>>

BugTimesOut(r) ==  \* streams have no timer
  /\ alive /\ pc[r] = "predicting" /\ timed
  /\ r \notin Streams /\ Finish(r, <<"error">>)
  /\ UNCHANGED <<fixed, context, capture, settled, shutVars>>

\* The timer wins the race; a late answer of LM Studio goes nowhere.
TimesOut(r) ==
  /\ alive /\ pc[r] = "predicting" /\ timed
  /\ StreamFails(r) \/ (r \notin Streams /\ Finish(r, <<"error">>))
  /\ UNCHANGED <<fixed, context, capture, settled, shutVars>>

StreamChunk(r) ==
  /\ alive /\ pc[r] = "predicting" /\ r \in Streams
  /\ Len(reply[r]) < MaxChunks
  /\ reply' = [reply EXCEPT ![r] = Append(@, "chunk")]
  /\ UNCHANGED <<fixed, pc, context, capture, settled, shutVars>>

\* Response hooks do not run for a stream.
StreamEnds(r) ==
  /\ alive /\ pc[r] = "predicting" /\ r \in Streams
  /\ Finish(r, <<"stop", "DONE">>)
  /\ UNCHANGED <<fixed, context, capture, settled, shutVars>>

-----------------------------------------------------------------------------
(* The flush queue and the shutdown *)

\* The next batch is completed or dead-lettered.
BatchSettles ==
  /\ alive /\ settled < Len(batches)
  /\ settled' = settled + 1
  /\ UNCHANGED <<fixed, pc, context, reply, capture, shutVars>>

\* What shutdown() waits for, in order.
Awaits == With("upload", <<"drain">>) \o With("libp2p", <<"tunnel">>)
            \o With("upload", <<"recorder", "synapse">>) \o <<"exit">>

\* shutdown() runs to its next await; what lies on the way is done.  The key is
\* zeroed after the drain.
Advance(h) ==
  LET here == Awaits[stage[h] + 1] IN
  /\ stage' = [stage EXCEPT ![h] = @ + 1]
  /\ key' = (key /\ here = "drain")
  /\ recorderOpen' = (recorderOpen /\ here \in {"drain", "tunnel", "recorder"})
  /\ alive' = (here # "exit")

\* SIGINT or SIGTERM.
Signal(h) ==
  /\ alive /\ stage[h] = 0
  /\ Advance(h)
  /\ asked' = IF \A g \in Handler : stage[g] = 0 THEN Len(batches) ELSE asked
  /\ UNCHANGED <<fixed, pc, context, reply, capture, settled, gaveUp>>

BugDrained == settled + 1 >= Len(batches)  \* forgets the job in flight

\* drain(): no job waits and none is in flight.
Drained == settled = Len(batches)

AwaitEnds(h) ==
  /\ alive /\ stage[h] > 0
  /\ Awaits[stage[h]] = "drain" => Drained
  /\ Advance(h)
  /\ UNCHANGED <<fixed, pc, context, reply, capture, settled, gaveUp, asked>>

\* The 30 seconds of drainFlushes() are over.
DrainGivesUp(h) ==
  /\ alive /\ stage[h] > 0
  /\ Awaits[stage[h]] = "drain" /\ ~Drained
  /\ Advance(h)
  /\ gaveUp' = TRUE
  /\ UNCHANGED <<fixed, pc, context, reply, capture, settled, asked>>

-----------------------------------------------------------------------------

RequestStep(r) ==
  \/ Receive(r) \/ ModelLoaded(r) \/ LoadFails(r) \/ ModelAnswers(r)
  \/ GzipDone(r) \/ PredictionFails(r) \/ TimesOut(r)
  \/ StreamChunk(r) \/ StreamEnds(r)

ShutdownStep(h) == Signal(h) \/ AwaitEnds(h) \/ DrainGivesUp(h)

Next ==
  \/ \E r \in Request : RequestStep(r)
  \/ BatchSettles
  \/ \E h \in Handler : ShutdownStep(h)

Spec == Init /\ [][Next]_vars

\* Timers fire, and compression ends.  LM Studio owes nothing.
FairSpec ==
  Spec /\ \A r \in Request : WF_vars(TimesOut(r) \/ GzipDone(r))

-----------------------------------------------------------------------------
(* Properties *)

Entry == [id : Request, request : BOOLEAN, encrypted : {"none", "plain", "gzip"}]

\* The types of the state.  A buffer that has reached the batch size has been
\* cut in the same step, and every batch has exactly that size.
TypeOK ==
  /\ enabled \subseteq Options /\ timed \in BOOLEAN
  /\ pc \in [Request -> {"new", "loading", "predicting", "gzipping", "done"}]
  /\ context \in [Request -> [captured : BOOLEAN, gzip : BOOLEAN,
                              encrypted : {"none", "plain", "gzip"}, requestId : BOOLEAN]]
  /\ reply \in [Request ->
                Seq({"ok", "error", "chunk", "stop", "DONE"})]
  /\ buffer \in Seq(Entry) /\ Len(buffer) < BatchSize
  /\ batches \in Seq(Seq(Entry))
  /\ \A i \in DOMAIN batches : Len(batches[i]) = BatchSize
  /\ settled \in 0..Len(batches) /\ asked \in 0..Len(batches)
  /\ rows \subseteq Request
  /\ recorderOpen \in BOOLEAN /\ key \in BOOLEAN
  /\ gaveUp \in BOOLEAN /\ alive \in BOOLEAN
  /\ stage \in [Handler -> 0..Len(Awaits)]

\* The buffer is the batch that comes next.
AllBatches == Append(batches, buffer)
Captured(p) == AllBatches[p[1]][p[2]]

\* Where everything captured stands: number of the batch and place in it.
Places == UNION {{b} \X DOMAIN AllBatches[b] : b \in DOMAIN AllBatches}
CapturesOf(r) == {p \in Places : Captured(p).id = r}

\* With upload enabled, a client that gets an answer has its conversation
\* captured once, with its request; a request that failed before the response
\* hooks, timed out or was streamed is never captured.
AnsweredIsCaptured ==
  \A r \in Request :
    /\ Cardinality(CapturesOf(r)) <= 1
    /\ \A p \in CapturesOf(r) : Captured(p).request
    /\ reply[r] = <<"ok">> /\ "upload" \in enabled => CapturesOf(r) # {}
    /\ CapturesOf(r) # {} => /\ context[r].requestId
                             /\ r \notin Streams

\* An answer is withheld after its conversation was captured only when shutdown
\* has destroyed the key while the request was under way.
WithheldOnlyByShutdown ==
  \A r \in Request :
    reply[r] = <<"error">> /\ CapturesOf(r) # {} => "taco-encrypt" \in enabled /\ ~key

\* At exit every batch that was enqueued before the first signal has its
\* outcome, unless a drain ran into its deadline; several signals, and requests
\* that go on, do not change that.
ExitKeepsBatches == ~alive /\ ~gaveUp /\ "upload" \in enabled => settled >= asked

\* What a client of a stream reads is content, one stop and [DONE], or an error
\* and nothing else; a plain request has at most one reply.
RepliesWellFormed ==
  \A r \in Request :
    LET n == Len(reply[r]) IN
    IF r \notin Streams THEN n <= 1 /\ (pc[r] = "done" <=> n = 1)
    ELSE IF pc[r] # "done" THEN \A i \in 1..n : reply[r][i] = "chunk"
    ELSE \/ reply[r] = <<"error">>
         \/ /\ n >= 2 /\ reply[r][n - 1] = "stop" /\ reply[r][n] = "DONE"
            /\ \A i \in 1..(n - 2) : reply[r][i] = "chunk"

\* With a request timeout, a request whose model has loaded is answered even if
\* LM Studio never says another word, unless the process exits.
EveryPredictionAnswered ==
  timed => \A r \in Request : pc[r] = "predicting" ~> (pc[r] = "done" \/ ~alive)

\* README: gzip, encrypt and upload feed their output to the next.  What upload
\* captures would be the output of the steps before it.
StepsFeedNext ==
  \A p \in Places :
    Captured(p).encrypted = IF "taco-encrypt" \notin enabled THEN "none"
                            ELSE IF "gzip" \in enabled THEN "gzip" ELSE "plain"

\* main(): the CID recorder runs after upload, so an answer that was captured
\* has a row while the file is open.
AnsweredIsRecorded ==
  \A r \in Request :
    reply[r] = <<"ok">> /\ "upload" \in enabled /\ recorderOpen => r \in rows

\* main(): pending flushes are drained before exiting, those included that were
\* enqueued after the drain.
NothingPendingAtExit == ~alive /\ ~gaveUp => settled = Len(batches)
=============================================================================
