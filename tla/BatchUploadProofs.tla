-------------------------- MODULE BatchUploadProofs --------------------------
(***************************************************************************)
(* Theorems about BatchUpload for every number of jobs, all settings, and  *)
(* any number of crashes and restarts.                                     *)
(***************************************************************************)
EXTENDS BatchUpload, FiniteSetTheorems, TLAPS

\* What is proved of the queue alone holds of the queue in here.
QP == INSTANCE FlushQueueProofs

-----------------------------------------------------------------------------
(***************************************************************************)
(* The inductive invariant.  The queue's own (FlushQueue) says in which    *)
(* order the jobs are flushed; on top of it, FlushOK says what flushBatch  *)
(* has done when it stands at an await, and ChainOK that the end of the    *)
(* chain lies before every attempt that is still to come.                  *)
(***************************************************************************)

FlushJob == [conversations : Seq(Nat), batchTimestamp : Nat, recovery : BOOLEAN]

BatchRecord == [batchId : Timestamp, rootCid : RootCid, filecoinCid : RootCid,
                conversationCount : Nat, previousBatchCid : RootCid \cup {NoCid}]

Step == {"start", "writing", "uploading", "uploaded", "added", "persisted",
         "cleaned", "pruned"}

\* A state of the registry: its records, and how many they are.
HasRecords(state) ==
  /\ {"batches", "totalBatches"} \subseteq DOMAIN state
  /\ state.batches \in Seq(BatchRecord)
  /\ state.totalBatches = Len(state.batches)

Types ==
  /\ settings \in Settings /\ startup \in {"loading", "loaded", "scanned"}
  /\ jobs \in [Job -> FlushJob]
  /\ nextJob \in Nat \ {0} /\ nextConv \in Nat /\ clock \in Nat /\ clock < nextJob
  /\ batchBuffer \in Seq(Nat)
  /\ flush \in [at : Step, previous : RootCid \cup {NoCid},
                filecoinCid : RootCid \cup {NoCid}, removed : Seq(BatchRecord)]
  /\ HasRecords(registry)
  /\ disk # NoFile => HasRecords(disk)
  /\ carFile \in [Timestamp -> RootCid \cup {NoFile, Truncated}]
  /\ scan \subseteq Timestamp
  /\ recorded \subseteq RootCid /\ lastBatchCid \in RootCid \cup {NoCid}

\* A job that has been made, with conversations in it.
Made(j) == j \in Job /\ j < nextJob /\ jobs[j].conversations # <<>>

\* Jobs are numbered in the order in which the queue accepts them.
JobsOK ==
  /\ \A i \in DOMAIN accepted : accepted[i] < nextJob
  /\ \A i, k \in DOMAIN accepted : i < k => accepted[i] < accepted[k]
  /\ \A j \in Job : j < nextJob => jobs[j].batchTimestamp \in Timestamp
  /\ \A j \in Job : Made(j) => jobs[j].batchTimestamp <= clock
  /\ (~SameMillisecond => \A j, k \in Job :
        Made(j) /\ Made(k) /\ jobs[j].batchTimestamp = jobs[k].batchTimestamp => j = k)

\* A record of a batch that was made, and what it says is so.
Sound(b) == Made(b.rootCid[1]) /\ RecordIsTrue(b)

\* The predecessor of a record was recorded, and before it.
Linked(b) ==
  b.previousBatchCid # NoCid
    => b.previousBatchCid \in recorded /\ Earlier(b.previousBatchCid, b.rootCid)

RecordsOK ==
  /\ \A i \in DOMAIN registry.batches :
       Sound(registry.batches[i]) /\ Linked(registry.batches[i])
  /\ disk # NoFile => \A i \in DOMAIN disk.batches :
       /\ Sound(disk.batches[i]) /\ Linked(disk.batches[i])
       /\ disk.batches[i].rootCid \in recorded

\* new continues old, from which n of the oldest records were pruned.
Continues(old, new, n) ==
  /\ Len(old) - n <= Len(new)
  /\ \A i \in 1 .. Len(old) - n : new[i] = old[n + i]
  /\ n > 0 => MaxRegistryBatches > 0 /\ Len(old) - n >= MaxRegistryBatches

\* The registry in memory continues what is on disk, once it has been loaded.
KeptOK ==
  ~RegistryReadErrors /\ startup # "loading"
    => \E n \in 0 .. Len(RecordsOnDisk) : Continues(RecordsOnDisk, registry.batches, n)

\* An archive on disk stands at the time of its batch.
CarsOK ==
  \A t \in Timestamp : carFile[t] \in RootCid =>
    Made(carFile[t][1]) /\ jobs[carFile[t][1]].batchTimestamp = t

\* What flushBatch() has done by the step it stands at.
FlushOK ==
  /\ flush.at # "start" => Q!In("executing") /\ Current.conversations # <<>>
  /\ flush.at \in {"uploading", "uploaded", "added", "persisted"}
       => carFile[Current.batchTimestamp] = CurrentRoot
  /\ flush.at = "uploaded" => flush.filecoinCid = CurrentRoot
  /\ flush.at \in {"added", "persisted", "cleaned", "pruned"} => startup # "loading"
  /\ flush.at = "added"
       => \E i \in DOMAIN registry.batches : registry.batches[i].rootCid = CurrentRoot
  /\ flush.at \in {"persisted", "cleaned", "pruned"} => RecordedAs(CurrentJob) # {}
  /\ flush.at \in {"persisted", "cleaned"}
       => disk = registry
          /\ \A i \in DOMAIN registry.batches : registry.batches[i].rootCid \in recorded
  /\ flush.at = "pruned"
       => MaxRegistryBatches # 0 /\ \A i \in DOMAIN flush.removed :
            Sound(flush.removed[i]) /\ flush.removed[i].rootCid \in recorded

\* The end of the chain is not after the last attempt of a job.
NotAfter(j) == lastBatchCid[1] < j \/ (lastBatchCid[1] = j /\ lastBatchCid[2] <= attempts[j])

ChainOK ==
  lastBatchCid # NoCid =>
    /\ lastBatchCid \in recorded /\ lastBatchCid[1] < nextJob
    /\ \A i \in DOMAIN queue : NotAfter(queue[i].job)
    /\ Q!In("executing") \/ Q!In("backoff") => NotAfter(activeFlush.job)
    /\ Q!In("executing") /\ flush.at \notin {"persisted", "cleaned", "pruned"}
         => Earlier(lastBatchCid, CurrentRoot)

\* Every batch reported done is recorded.
DoneOK ==
  \A i \in DOMAIN settled :
    settled[i].ok /\ jobs[settled[i].job].conversations # <<>>
      => RecordedAs(settled[i].job) # {}

IInv == /\ QP!IInv
        /\ Types /\ JobsOK /\ RecordsOK /\ KeptOK /\ CarsOK /\ FlushOK /\ ChainOK /\ DoneOK

-----------------------------------------------------------------------------
(* The queue underneath *)

\* Each of the upload middleware's steps is a step of the queue, or none.
QueueMoves ==
  \/ \E j \in Job : Q!Enqueue(j)
  \/ Q!ExecutorResolves \/ Q!ExecutorRejects \/ Q!BackoffElapses \/ Q!Finally
  \/ Q!DrainCall \/ Q!DrainIdle \/ Q!DrainDeadline
  \/ UNCHANGED queueVars

\* The queue's own theorems apply to it.
LEMMA QueueNext == ASSUME QueueMoves PROVE [QP!Next]_(QP!vars)
<1>1. ASSUME NEW j \in Job, Q!Enqueue(j) PROVE QP!Enqueue(j)
  BY <1>1 DEF Q!Enqueue, QP!Enqueue, Q!PushJob, QP!PushJob, Q!DrainNext, QP!DrainNext,
     Q!StartHead, QP!StartHead
<1>2. CASE Q!ExecutorResolves
  BY <1>2 DEF Q!ExecutorResolves, QP!ExecutorResolves, QP!Next, Q!In, QP!In,
     Q!NotifyComplete, QP!NotifyComplete
<1>3. CASE Q!ExecutorRejects
  BY <1>3 DEF Q!ExecutorRejects, QP!ExecutorRejects, QP!Next, Q!In, QP!In, Q!Retry,
     QP!Retry, Q!DeadLetter, QP!DeadLetter, Q!NotifyComplete, QP!NotifyComplete
<1>4. CASE Q!BackoffElapses
  BY <1>4 DEF Q!BackoffElapses, QP!BackoffElapses, QP!Next, Q!In, QP!In
<1>5. CASE Q!Finally
  BY <1>5 DEF Q!Finally, QP!Finally, QP!Next, Q!In, QP!In, Q!DrainNext, QP!DrainNext,
     Q!StartHead, QP!StartHead
<1>6. CASE Q!DrainCall
  BY <1>6 DEF Q!DrainCall, QP!DrainCall, QP!Next, Q!Busy, QP!Busy, Q!jobVars, QP!jobVars
<1>7. CASE Q!DrainIdle
  BY <1>7 DEF Q!DrainIdle, QP!DrainIdle, QP!Next, Q!Busy, QP!Busy, Q!jobVars, QP!jobVars
<1>8. CASE Q!DrainDeadline
  BY <1>8 DEF Q!DrainDeadline, QP!DrainDeadline, QP!Next, Q!Busy, QP!Busy, Q!jobVars,
     QP!jobVars
<1>9. CASE UNCHANGED queueVars
  BY <1>9 DEF queueVars, QP!vars, QP!jobVars
<1> QED
  BY <1>1, <1>2, <1>3, <1>4, <1>5, <1>6, <1>7, <1>8, <1>9 DEF QueueMoves, QP!Next

\* What FlushQueue assumes of its constants.
LEMMA QueueConstants == MaxRetries \in Nat /\ NoFlush \notin QP!Flight
BY QueueAssumption DEF Q!Flight, QP!Flight, Q!Phase, QP!Phase

LEMMA QueueKept == ASSUME QP!IInv, QueueMoves PROVE QP!IInv'
BY QueueNext, QueueConstants, QP!IInvStep

\* A process that has just started has an empty queue.
LEMMA QueueStarts ==
  /\ Q!Init => QP!IInv
  /\ Restart => QP!IInv'
<1>1. Q!Init => QP!IInv
  <2>1. Q!Init => QP!Init
    BY DEF Q!Init, QP!Init
  <2> QED
    BY <2>1, QueueConstants, QP!IInvInit
<1>2. ASSUME Restart PROVE QP!IInv'
  <2>1. /\ queue' = <<>> /\ activeFlush' = NoFlush /\ drainer' = "away"
        /\ stats' = [completed |-> 0, failed |-> 0, deadLettered |-> 0]
        /\ accepted' = <<>> /\ settled' = <<>> /\ attempts' = [j \in Job |-> 0]
    BY <1>2 DEF Restart
  <2>2. QP!TypeOK'
    BY <2>1 DEF QP!TypeOK
  <2>3. QP!RetryLeft' /\ QP!InOrder'
    BY <2>1 DEF QP!RetryLeft, QP!InOrder, QP!In, QP!InFlight
  <2>4. QP!AcceptedOnce' /\ QP!NotYetAttempted' /\ QP!AttemptsCounted'
    BY <2>1 DEF QP!AcceptedOnce, QP!NotYetAttempted, QP!AttemptsCounted, QP!In,
       QP!InFlight
  <2> QED
    BY <2>2, <2>3, <2>4 DEF QP!IInv
<1> QED
  BY <1>1, <1>2

\* Jobs are numbers, and every attempt of a job has a root of its own.
LEMMA JobNumbers ==
  /\ Cardinality(Job) \in Nat /\ Job = 1 .. Cardinality(Job) /\ Timestamp = Job
  /\ \A r : r \in RootCid <=> \E j \in Job, n \in 1 .. MaxRetries + 1 : r = <<j, n>>
  /\ \A r \in RootCid : r[1] \in Job /\ r[2] \in 1 .. MaxRetries + 1 /\ r = <<r[1], r[2]>>
  /\ NoFile # Truncated /\ NoFile \notin RootCid /\ Truncated \notin RootCid
<1>1. Cardinality(Job) \in Nat /\ Job = 1 .. Cardinality(Job) /\ Timestamp = Job
  BY JobAssumption DEF Timestamp
<1>2. \A r : r \in RootCid <=> \E j \in Job, n \in 1 .. MaxRetries + 1 : r = <<j, n>>
  BY DEF RootCid
<1>3. NoFile # Truncated /\ NoFile \notin RootCid /\ Truncated \notin RootCid
  BY FileAssumption
<1> QED
  BY <1>1, <1>2, <1>3

\* Where the jobs stand: those with an outcome before the active one, and that
\* before those that wait.
LEMMA QueueFacts ==
  ASSUME QP!IInv, JobsOK, nextJob \in Nat
  PROVE  /\ queue \in Seq(QP!Entry) /\ accepted \in Seq(Job)
         /\ attempts \in [Job -> Nat]
         /\ settled \in Seq([job : Job, ok : BOOLEAN])
         /\ \A i \in DOMAIN queue : queue[i].job \in Job /\ queue[i].job < nextJob
         /\ \A i \in DOMAIN settled : settled[i].job \in Job /\ settled[i].job < nextJob
         /\ Q!In("executing") \/ Q!In("backoff")
              => /\ CurrentJob \in Job /\ CurrentJob < nextJob
                 /\ CurrentRoot \in RootCid
                 /\ \A i \in DOMAIN queue : CurrentJob < queue[i].job
<1>1. QP!TypeOK /\ QP!InOrder /\ QP!AttemptsCounted
  BY DEF QP!IInv
<1>2. /\ queue \in Seq(QP!Entry) /\ accepted \in Seq(Job) /\ attempts \in [Job -> Nat]
      /\ settled \in Seq([job : Job, ok : BOOLEAN])
      /\ activeFlush \in QP!Flight \cup {NoFlush}
  BY <1>1 DEF QP!TypeOK
<1>3. \A i \in DOMAIN accepted : accepted[i] \in Job /\ accepted[i] < nextJob
  BY <1>2 DEF JobsOK
<1>4. Len(queue) \in Nat /\ Len(settled) \in Nat /\ QP!InFlight \in {0, 1}
  BY <1>2 DEF QP!InFlight
<1>5. ASSUME NEW i \in DOMAIN queue
      PROVE  /\ Len(settled) + QP!InFlight + i \in DOMAIN accepted
             /\ queue[i].job = accepted[Len(settled) + QP!InFlight + i]
  <2>1. i \in 1 .. Len(queue)
    BY <1>2, <1>5
  <2>2. queue[i].job = accepted[Len(settled) + QP!InFlight + i]
    BY <1>1, <2>1 DEF QP!InOrder
  <2>3. Len(accepted) = Len(settled) + QP!InFlight + Len(queue)
    BY <1>1 DEF QP!InOrder
  <2>4. Len(settled) + QP!InFlight + i \in 1 .. Len(accepted)
    BY <1>4, <2>1, <2>3
  <2> QED
    BY <1>2, <2>2, <2>4
<1>6. ASSUME NEW i \in DOMAIN settled
      PROVE  i \in DOMAIN accepted /\ settled[i].job = accepted[i]
  <2>1. i \in 1 .. Len(settled)
    BY <1>2, <1>6
  <2>2. settled[i].job = accepted[i]
    BY <1>1, <2>1 DEF QP!InOrder
  <2>3. Len(accepted) = Len(settled) + QP!InFlight + Len(queue)
    BY <1>1 DEF QP!InOrder
  <2>4. i \in 1 .. Len(accepted)
    BY <1>4, <2>1, <2>3
  <2> QED
    BY <1>2, <2>2, <2>4
<1>7. ASSUME Q!In("executing") \/ Q!In("backoff")
      PROVE  /\ CurrentJob \in Job /\ CurrentJob < nextJob
             /\ CurrentRoot \in RootCid
             /\ \A i \in DOMAIN queue : CurrentJob < queue[i].job
  <2>1. QP!InFlight = 1
    BY <1>7 DEF Q!In, QP!In, QP!InFlight
  <2>2. Len(settled) + 1 \in DOMAIN accepted /\ CurrentJob = accepted[Len(settled) + 1]
    BY <1>1, <1>2, <1>4, <2>1 DEF QP!InOrder, CurrentJob
  <2>3. activeFlush \in QP!Flight
    BY <1>2, <1>7 DEF Q!In
  <2>4. attempts[CurrentJob] \in 1 .. MaxRetries + 1
    BY <1>1, <2>1, <2>3, QueueConstants DEF QP!AttemptsCounted, CurrentJob, QP!Flight
  <2>5. ASSUME NEW i \in DOMAIN queue PROVE CurrentJob < queue[i].job
    BY <1>4, <1>5, <2>1, <2>2, <2>5 DEF JobsOK
  <2> QED
    BY <1>3, <2>2, <2>4, <2>5, JobNumbers DEF CurrentRoot
<1> QED
  BY <1>2, <1>3, <1>5, <1>6, <1>7

\* drainNext() starts the head of the queue, or there is none.
LEMMA DrainNextEffect ==
  ASSUME NEW q \in Seq(QP!Entry), attempts \in [Job -> Nat], Q!DrainNext(q)
  PROVE  \/ /\ q = <<>> /\ queue' = <<>> /\ activeFlush' = NoFlush
            /\ attempts' = attempts
         \/ /\ q # <<>> /\ Head(q).job \in Job
            /\ queue' = Tail(q) /\ activeFlush' # NoFlush
            /\ activeFlush'.job = Head(q).job /\ activeFlush'.phase = "executing"
            /\ attempts' = [attempts EXCEPT ![Head(q).job] = @ + 1]
<1>1. CASE q # <<>> /\ Q!StartHead(q)
  <2>1. Head(q) \in QP!Entry
    BY <1>1
  <2>2. Head(q).job \in Job /\ Head(q).retryCount \in 0 .. MaxRetries
    BY <2>1 DEF QP!Entry
  <2>3. activeFlush' = [job |-> Head(q).job, retryCount |-> Head(q).retryCount,
                        phase |-> "executing"]
    BY <1>1 DEF Q!StartHead
  <2>4. activeFlush' \in QP!Flight
    BY <2>2, <2>3 DEF QP!Flight, QP!Phase
  <2> QED
    BY <1>1, <2>2, <2>3, <2>4, QueueConstants DEF Q!StartHead
<1>2. CASE q = <<>>
  BY <1>2 DEF Q!DrainNext
<1> QED
  BY <1>1, <1>2 DEF Q!DrainNext

\* enqueue(): the new job goes to the end, and starts if the slot is free.
LEMMA EnqueueEffect ==
  ASSUME QP!IInv, Types, NEW job, EnqueueJob(job)
  PROVE  /\ nextJob \in Job /\ Q!Enqueue(nextJob)
         /\ nextJob' = nextJob + 1 /\ jobs' = [jobs EXCEPT ![nextJob] = job]
         /\ accepted' = Append(accepted, nextJob) /\ settled' = settled
         /\ Append(queue, [job |-> nextJob, retryCount |-> 0]) \in Seq(QP!Entry)
         /\ IF activeFlush = NoFlush
            THEN Q!DrainNext(Append(queue, [job |-> nextJob, retryCount |-> 0]))
            ELSE /\ queue' = Append(queue, [job |-> nextJob, retryCount |-> 0])
                 /\ UNCHANGED <<activeFlush, attempts>>
<1>1. nextJob \in Job
  <2>1. MaxJobs \in 0 .. Cardinality(Job)
    BY JobAssumption DEF Types, MaxJobs
  <2> QED
    BY <2>1, JobNumbers DEF Types, EnqueueJob
<1>2. Q!Enqueue(nextJob) /\ nextJob' = nextJob + 1
      /\ jobs' = [jobs EXCEPT ![nextJob] = job]
  BY DEF EnqueueJob
<1>3. [job |-> nextJob, retryCount |-> 0] \in QP!Entry
  BY <1>1, QueueConstants DEF QP!Entry
<1>4. queue \in Seq(QP!Entry)
  BY DEF QP!IInv, QP!TypeOK
<1> QED
  BY <1>1, <1>2, <1>3, <1>4 DEF Q!Enqueue, Q!PushJob

-----------------------------------------------------------------------------
(* Jobs *)

\* A step that makes a job: of a full buffer, or of a directory found by the
\* scan at start-up.
MakesJob(job) ==
  /\ EnqueueJob(job)
  /\ job \in FlushJob /\ job.batchTimestamp \in Timestamp
  /\ \/ job.conversations = <<>> /\ clock' = clock
     \/ /\ job.batchTimestamp = clock' /\ clock' \in clock .. clock + 1
        /\ SameMillisecond \/ clock' = clock + 1
  /\ UNCHANGED <<settings, registry, disk, carFile, recorded, lastBatchCid, flush,
                 startup>>

LEMMA OnlyTwoMakeJobs ==
  ASSUME QP!IInv, Types, [Next]_vars
  PROVE  \/ \E job \in FlushJob : MakesJob(job)
         \/ /\ UNCHANGED <<jobs, nextJob, clock, settings>>
            /\ accepted' \in {accepted, <<>>}
<1>1. CASE OnResponse
  <2>1. CASE Len(batchBuffer) + 1 >= BatchSize
    <3>1. PICK t \in (IF SameMillisecond /\ clock > 0 THEN clock ELSE clock + 1)
                       .. clock + 1 :
            /\ EnqueueJob([conversations  |-> Append(batchBuffer, nextConv),
                           batchTimestamp |-> t, recovery |-> FALSE])
            /\ clock' = t
      BY <1>1, <2>1 DEF OnResponse, CutBatch
    <3> DEFINE job == [conversations  |-> Append(batchBuffer, nextConv),
                       batchTimestamp |-> t, recovery |-> FALSE]
    <3>2. nextJob \in Job
      BY <3>1, EnqueueEffect
    <3>3. t \in clock .. clock + 1 /\ (SameMillisecond \/ t = clock + 1) /\ t \in Timestamp
      BY <3>1, <3>2, JobNumbers DEF Types
    <3>4. Append(batchBuffer, nextConv) \in Seq(Nat)
      BY DEF Types
    <3>5. job \in FlushJob /\ job.batchTimestamp = t
      BY <3>3, <3>4 DEF FlushJob, Types
    <3>6. UNCHANGED <<settings, registry, disk, carFile, recorded, lastBatchCid, flush,
                      startup>>
      BY <1>1 DEF OnResponse, durableVars, ghostVars
    <3>7. MakesJob(job)
      BY <3>1, <3>3, <3>5, <3>6 DEF MakesJob
    <3> QED
      BY <3>5, <3>7
  <2>2. CASE ~ (Len(batchBuffer) + 1 >= BatchSize)
    BY <1>1, <2>2 DEF OnResponse, queueVars
  <2> QED
    BY <2>1, <2>2
<1>2. CASE RecoverEntry
  <2>1. PICK t \in scan :
          IF carFile[t] # NoFile
          THEN EnqueueJob([conversations |-> <<>>, batchTimestamp |-> t,
                           recovery |-> TRUE])
          ELSE UNCHANGED <<queueVars, jobs, nextJob>>
    BY <1>2 DEF RecoverEntry
  <2>2. UNCHANGED <<settings, clock, registry, disk, carFile, recorded, lastBatchCid,
                    flush, startup>>
    BY <1>2 DEF RecoverEntry, durableVars, ghostVars
  <2>3. CASE carFile[t] # NoFile
    <3> DEFINE job == [conversations |-> <<>>, batchTimestamp |-> t, recovery |-> TRUE]
    <3>1. t \in Timestamp /\ t \in Nat
      BY JobNumbers DEF Types
    <3>2. job \in FlushJob
      BY <3>1 DEF FlushJob
    <3>3. MakesJob(job)
      BY <2>1, <2>2, <2>3, <3>1, <3>2 DEF MakesJob
    <3> QED
      BY <3>2, <3>3
  <2>4. CASE carFile[t] = NoFile
    BY <2>1, <2>2, <2>4 DEF queueVars
  <2> QED
    BY <2>3, <2>4
<1>3. CASE FlushBatch \/ AbandonedUploadEnds
  <2>1. UNCHANGED <<jobs, nextJob, clock, settings>>
    BY <1>3 DEF FlushBatch, AbandonedUploadEnds, StaticVars, SkipEmpty, BeginCar,
       BuildFails, FinishCar, WriteFails, UploadEnds, UploadFails, UploadTimeout,
       RecordBatch, PersistFails, PersistBatch, CleanUp, NothingToPrune, PruneRegistry,
       PersistPruned, PersistPrunedFails
  <2>2. accepted' = accepted
    BY <1>3 DEF FlushBatch, AbandonedUploadEnds, SkipEmpty, BeginCar,
       BuildFails, FinishCar, WriteFails, UploadEnds, UploadFails, UploadTimeout,
       RecordBatch, PersistFails, PersistBatch, CleanUp, NothingToPrune, PruneRegistry,
       PersistPruned, PersistPrunedFails, Continue, Return, Throw, queueVars,
       Q!ExecutorResolves, Q!ExecutorRejects
  <2> QED
    BY <2>1, <2>2
<1>4. CASE QueueStep
  BY <1>4 DEF QueueStep, envVars, Q!BackoffElapses, Q!Finally, Q!DrainCall, Q!DrainIdle,
     Q!DrainDeadline, Q!jobVars
<1>5. CASE LoadRegistry \/ ScanCarDir
  BY <1>5 DEF LoadRegistry, ScanCarDir, queueVars, envVars
<1>6. CASE Crash \/ Exit
  BY <1>6 DEF Crash, Exit, Restart
<1>7. CASE UNCHANGED vars
  BY <1>7 DEF vars, queueVars, envVars
<1> QED
  BY <1>1, <1>2, <1>3, <1>4, <1>5, <1>6, <1>7 DEF Next

\* A job, once made, stays what it is.
JobsStay ==
  /\ settings' = settings /\ nextJob <= nextJob'
  /\ \A j \in Job : j < nextJob => jobs'[j] = jobs[j]

LEMMA JobsStep ==
  ASSUME QP!IInv, Types, JobsOK, [Next]_vars
  PROVE  /\ JobsOK' /\ JobsStay
         /\ jobs' \in [Job -> FlushJob]
         /\ nextJob' \in Nat \ {0} /\ clock' \in Nat /\ clock' < nextJob'
<1>1. CASE UNCHANGED <<jobs, nextJob, clock, settings>> /\ accepted' \in {accepted, <<>>}
  BY <1>1 DEF Types, JobsOK, JobsStay, Made, SameMillisecond
<1>2. ASSUME NEW job \in FlushJob, MakesJob(job)
      PROVE  /\ JobsOK' /\ JobsStay
             /\ jobs' \in [Job -> FlushJob]
             /\ nextJob' \in Nat \ {0} /\ clock' \in Nat /\ clock' < nextJob'
  <2>1. /\ nextJob \in Job /\ nextJob' = nextJob + 1
        /\ jobs' = [jobs EXCEPT ![nextJob] = job]
        /\ accepted' = Append(accepted, nextJob) /\ settings' = settings
    BY <1>2, EnqueueEffect DEF MakesJob
  <2>2. /\ nextJob \in Nat \ {0} /\ nextJob' \in Nat \ {0}
        /\ jobs' \in [Job -> FlushJob]
        /\ clock' \in Nat /\ clock' < nextJob' /\ clock <= clock'
    BY <1>2, <2>1 DEF Types, MakesJob
  <2>3. \A j \in Job : j < nextJob => jobs'[j] = jobs[j] /\ j # nextJob
    BY <2>1, <2>2, JobNumbers DEF Types
  <2>4. \A j \in Job : j < nextJob' => j < nextJob \/ j = nextJob
    BY <2>1, <2>2, JobNumbers
  <2>5. jobs'[nextJob] = job
    BY <2>1 DEF Types
  <2>6. /\ \A i \in DOMAIN accepted' : accepted'[i] < nextJob'
        /\ \A i, k \in DOMAIN accepted' : i < k => accepted'[i] < accepted'[k]
    <3>1. accepted \in Seq(Job) /\ \A i \in DOMAIN accepted : accepted[i] < nextJob
      BY DEF QP!IInv, QP!TypeOK, JobsOK
    <3>2. /\ DOMAIN accepted' = 1 .. Len(accepted) + 1
          /\ accepted'[Len(accepted) + 1] = nextJob
          /\ \A i \in 1 .. Len(accepted) : accepted'[i] = accepted[i]
      BY <2>1, <3>1
    <3>3. \A i \in DOMAIN accepted' :
            accepted'[i] \in Nat /\ (i \in DOMAIN accepted \/ i = Len(accepted) + 1)
      BY <2>2, <3>1, <3>2, JobNumbers
    <3>4. ASSUME NEW i \in DOMAIN accepted' PROVE accepted'[i] < nextJob'
      BY <2>1, <2>2, <3>1, <3>2, <3>3
    <3>5. ASSUME NEW i \in DOMAIN accepted', NEW k \in DOMAIN accepted', i < k
          PROVE  accepted'[i] < accepted'[k]
      <4>1. i \in 1 .. Len(accepted)
        BY <3>1, <3>2, <3>5
      <4>2. CASE k = Len(accepted) + 1
        BY <3>1, <3>2, <4>1, <4>2
      <4>3. CASE k \in 1 .. Len(accepted)
        BY <3>1, <3>2, <3>5, <4>1, <4>3 DEF JobsOK
      <4> QED
        BY <3>2, <4>2, <4>3
    <3> QED
      BY <3>4, <3>5
  <2>7. \A j \in Job : j < nextJob' => jobs'[j].batchTimestamp \in Timestamp
    BY <1>2, <2>3, <2>4, <2>5 DEF JobsOK, MakesJob
  <2>8. \A j \in Job : Made(j)' <=>
          Made(j) \/ (j = nextJob /\ job.conversations # <<>>)
    BY <2>1, <2>2, <2>3, <2>4, <2>5, JobNumbers DEF Made
  <2>9. \A j \in Job : Made(j)' => jobs'[j].batchTimestamp <= clock'
    <3>1. ASSUME NEW j \in Job, Made(j) PROVE jobs'[j].batchTimestamp <= clock'
      <4>1. jobs'[j] = jobs[j] /\ jobs[j].batchTimestamp <= clock
            /\ jobs[j].batchTimestamp \in Nat
        BY <2>3, <3>1 DEF JobsOK, Made, Types, FlushJob
      <4> QED
        BY <2>2, <4>1 DEF Types
    <3>2. ASSUME job.conversations # <<>> PROVE jobs'[nextJob].batchTimestamp <= clock'
      BY <1>2, <2>2, <2>5, <3>2 DEF MakesJob
    <3> QED
      BY <2>8, <3>1, <3>2
  <2>10. ASSUME ~SameMillisecond, NEW j \in Job, NEW k \in Job, Made(j)', Made(k)',
                jobs'[j].batchTimestamp = jobs'[k].batchTimestamp
         PROVE  j = k
    <3>1. \A n \in Job : Made(n) => jobs'[n] = jobs[n] /\ jobs[n].batchTimestamp <= clock
                                    /\ jobs[n].batchTimestamp \in Nat
      BY <2>3 DEF JobsOK, Made, Types, FlushJob
    <3>2. job.conversations # <<>> => job.batchTimestamp = clock + 1
      BY <1>2, <2>10 DEF MakesJob
    <3>3. clock \in Nat
      BY DEF Types
    <3>4. \A n \in Job : Made(n) /\ job.conversations # <<>>
            => jobs'[n].batchTimestamp # jobs'[nextJob].batchTimestamp
      BY <2>5, <3>1, <3>2, <3>3
    <3>5. CASE Made(j) /\ Made(k)
      BY <2>10, <3>1, <3>5 DEF JobsOK
    <3> QED
      BY <2>8, <2>10, <3>4, <3>5
  <2>11. SameMillisecond' <=> SameMillisecond
    BY <2>1 DEF SameMillisecond
  <2>12. JobsOK'
    BY <2>6, <2>7, <2>9, <2>10, <2>11 DEF JobsOK
  <2> QED
    BY <2>1, <2>2, <2>3, <2>12 DEF JobsStay
<1> QED
  BY <1>1, <1>2, OnlyTwoMakeJobs

-----------------------------------------------------------------------------
(* Which steps touch what *)

\* Nothing but a restart leaves the queue's own specification.
LEMMA QueueIInv == ASSUME QP!IInv, Types, [Next]_vars PROVE QP!IInv'
<1>1. CASE OnResponse \/ RecoverEntry
  <2>1. UNCHANGED queueVars \/ \E job : EnqueueJob(job)
    BY <1>1 DEF OnResponse, CutBatch, RecoverEntry, queueVars
  <2>2. QueueMoves
    BY <2>1, EnqueueEffect DEF QueueMoves
  <2> QED
    BY <2>2, QueueKept
<1>2. CASE FlushBatch \/ AbandonedUploadEnds
  <2>1. QueueMoves
    BY <1>2 DEF FlushBatch, AbandonedUploadEnds, SkipEmpty, BeginCar,
       BuildFails, FinishCar, WriteFails, UploadEnds, UploadFails, UploadTimeout,
       RecordBatch, PersistFails, PersistBatch, CleanUp, NothingToPrune, PruneRegistry,
       PersistPruned, PersistPrunedFails, Continue, Return, Throw, QueueMoves
  <2> QED
    BY <2>1, QueueKept
<1>3. CASE QueueStep
  BY <1>3, QueueKept DEF QueueStep, QueueMoves
<1>4. CASE LoadRegistry \/ ScanCarDir \/ UNCHANGED vars
  BY <1>4, QueueKept DEF LoadRegistry, ScanCarDir, vars, QueueMoves
<1>5. CASE Crash \/ Exit
  BY <1>5, QueueStarts DEF Crash, Exit
<1> QED
  BY <1>1, <1>2, <1>3, <1>4, <1>5 DEF Next

\* The steps of flushBatch() that end it without a trace of their own.
Gives == SkipEmpty \/ BuildFails \/ WriteFails \/ UploadFails \/ UploadTimeout
           \/ PersistFails \/ NothingToPrune \/ PersistPrunedFails

\* The steps that flushBatch() has no part in.
Elsewhere == OnResponse \/ AbandonedUploadEnds \/ QueueStep \/ ScanCarDir \/ RecoverEntry
               \/ UNCHANGED vars

LEMMA NextCases ==
  ASSUME [Next]_vars
  PROVE  \/ BeginCar \/ FinishCar \/ UploadEnds \/ RecordBatch \/ PersistBatch
         \/ CleanUp \/ PruneRegistry \/ PersistPruned \/ Gives
         \/ Elsewhere \/ LoadRegistry \/ Restart
BY DEF Next, FlushBatch, Crash, Exit, Gives, Elsewhere

\* Giving up or returning changes nothing that outlives the call.
LEMMA GivesEffect ==
  ASSUME Gives
  PROVE  /\ flush' = Idle
         /\ UNCHANGED <<registry, disk, recorded, carFile, lastBatchCid, startup, jobs,
                        nextJob, settings, scan, batchBuffer, nextConv>>
         /\ \/ Q!ExecutorRejects
            \/ /\ Q!ExecutorResolves
               /\ Current.conversations = <<>> \/ flush.at = "cleaned"
<1>1. CASE SkipEmpty
  BY <1>1 DEF SkipEmpty, Return, StaticVars, durableVars
<1>2. CASE NothingToPrune
  BY <1>2 DEF NothingToPrune, Return, StaticVars, durableVars, At
<1>3. CASE BuildFails \/ WriteFails \/ UploadFails \/ UploadTimeout
  BY <1>3 DEF BuildFails, WriteFails, UploadFails, UploadTimeout, Throw, StaticVars,
     durableVars
<1>4. CASE PersistFails \/ PersistPrunedFails
  BY <1>4 DEF PersistFails, PersistPrunedFails, Throw, StaticVars, durableVars
<1> QED
  BY <1>1, <1>2, <1>3, <1>4 DEF Gives

LEMMA ElsewhereEffect ==
  ASSUME Elsewhere
  PROVE  /\ UNCHANGED <<registry, disk, recorded, carFile, lastBatchCid, flush, settings>>
         /\ startup' = startup \/ (startup = "loaded" /\ startup' = "scanned")
<1>1. CASE OnResponse
  BY <1>1 DEF OnResponse, durableVars, ghostVars
<1>2. CASE AbandonedUploadEnds
  BY <1>2 DEF AbandonedUploadEnds, StaticVars, durableVars
<1>3. CASE QueueStep
  BY <1>3 DEF QueueStep, volatileVars, durableVars, envVars, ghostVars
<1>4. CASE ScanCarDir
  BY <1>4 DEF ScanCarDir, durableVars, envVars, ghostVars
<1>5. CASE RecoverEntry
  BY <1>5 DEF RecoverEntry, durableVars, ghostVars
<1>6. CASE UNCHANGED vars
  BY <1>6 DEF vars, volatileVars, durableVars, envVars, ghostVars
<1> QED
  BY <1>1, <1>2, <1>3, <1>4, <1>5, <1>6 DEF Elsewhere

-----------------------------------------------------------------------------
(* The registry's operations *)

LEMMA AddBatchFacts ==
  ASSUME NEW state, HasRecords(state), NEW b \in BatchRecord
  PROVE  /\ HasRecords(R!AddBatch(state, b))
         /\ R!AddBatch(state, b).batches = Append(state.batches, b)
<1> DEFINE new == R!AddBatch(state, b)
<1>1. new = [totalBatches       |-> state.totalBatches + 1,
             totalConversations |-> state.totalConversations + b.conversationCount,
             batches            |-> Append(state.batches, b),
             lastBatchCid       |-> b.rootCid]
  BY DEF R!AddBatch
<1>2. /\ {"batches", "totalBatches"} \subseteq DOMAIN new
      /\ new.batches = Append(state.batches, b)
      /\ new.totalBatches = state.totalBatches + 1
  BY <1>1
<1>3. Append(state.batches, b) \in Seq(BatchRecord)
      /\ Len(Append(state.batches, b)) = Len(state.batches) + 1
  BY DEF HasRecords
<1> HIDE DEF new
<1>4. HasRecords(new)
  BY <1>2, <1>3 DEF HasRecords
<1> QED
  BY <1>2, <1>4 DEF new

LEMMA PruneFacts ==
  ASSUME NEW state, HasRecords(state), NEW max \in Nat
  PROVE  /\ R!RemoveCount(state, max) \in 0 .. Len(state.batches)
         /\ R!Removed(state, max) \in Seq(BatchRecord)
         /\ \A i \in DOMAIN R!Removed(state, max) :
              i \in DOMAIN state.batches /\ R!Removed(state, max)[i] = state.batches[i]
         /\ R!RemoveCount(state, max) > 0
              => LET n   == R!RemoveCount(state, max)
                     new == R!Prune(state, max)
                 IN /\ HasRecords(new)
                    /\ max > 0 /\ Len(state.batches) - n = max
                    /\ Len(new.batches) = Len(state.batches) - n
                    /\ \A i \in 1 .. Len(state.batches) - n :
                         new.batches[i] = state.batches[n + i]
<1> DEFINE n    == R!RemoveCount(state, max)
           old  == state.batches
           kept == SubSeq(old, n + 1, Len(old))
<1>1. old \in Seq(BatchRecord) /\ Len(old) \in Nat
  BY DEF HasRecords
<1>2. n \in 0 .. Len(old) /\ (n > 0 => max > 0 /\ Len(old) - n = max)
  BY <1>1 DEF R!RemoveCount
<1> HIDE DEF n
<1>3. /\ SubSeq(old, 1, n) \in Seq(BatchRecord)
      /\ \A i \in DOMAIN SubSeq(old, 1, n) :
           i \in DOMAIN old /\ SubSeq(old, 1, n)[i] = old[i]
  BY <1>1, <1>2
<1>4. R!Removed(state, max) = SubSeq(old, 1, n)
  BY DEF R!Removed, n
<1>5. /\ kept \in Seq(BatchRecord) /\ Len(kept) = Len(old) - n
      /\ \A i \in 1 .. Len(old) - n : kept[i] = old[n + i]
  BY <1>1, <1>2
<1>6. ASSUME n > 0
      PROVE  LET new == R!Prune(state, max)
             IN /\ HasRecords(new) /\ new.batches = kept
  <2> DEFINE new == R!Prune(state, max)
             d1  == [state EXCEPT !.batches = kept]
             d2  == [d1 EXCEPT !.totalBatches = Len(kept)]
  <2>1. /\ d1.batches = kept /\ {"batches", "totalBatches"} \subseteq DOMAIN d1
    BY DEF HasRecords
  <2>2. new = [d2 EXCEPT !.totalConversations = R!SumConversations(kept)]
    <3> DEFINE d3 == [d2 EXCEPT !.totalConversations = R!SumConversations(kept)]
    <3>1. new = IF n = 0 THEN state ELSE d3
      BY Zenon DEF R!Prune, n
    <3>2. n # 0
      BY <1>2, <1>6
    <3> HIDE DEF new, d3
    <3> QED
      BY <3>1, <3>2 DEF d3
  <2> HIDE DEF d1
  <2>3. /\ d2.batches = kept /\ d2.totalBatches = Len(kept)
        /\ {"batches", "totalBatches"} \subseteq DOMAIN d2
    BY <2>1
  <2> HIDE DEF d2, new
  <2>4. /\ new.batches = kept /\ new.totalBatches = Len(kept)
        /\ {"batches", "totalBatches"} \subseteq DOMAIN new
    BY <2>2, <2>3
  <2> QED
    BY <1>5, <2>4 DEF HasRecords, new
<1> HIDE DEF old, kept
<1>7. n > 0 => LET new == R!Prune(state, max)
               IN /\ HasRecords(new)
                  /\ max > 0 /\ Len(old) - n = max
                  /\ Len(new.batches) = Len(old) - n
                  /\ \A i \in 1 .. Len(old) - n : new.batches[i] = old[n + i]
  BY <1>2, <1>5, <1>6
<1> QED
  BY <1>2, <1>3, <1>4, <1>7 DEF n, old

\* The record of the batch that flushBatch() has uploaded.
NewRecord == [batchId           |-> Current.batchTimestamp,
              rootCid           |-> CurrentRoot,
              filecoinCid       |-> flush.filecoinCid,
              conversationCount |-> Len(Current.conversations),
              previousBatchCid  |-> lastBatchCid]

\* The registry changes in memory by four steps only.
LEMMA RecordBatchEffect ==
  ASSUME QP!IInv, Types, JobsOK, FlushOK, ChainOK, RecordBatch
  PROVE  /\ registry' = R!AddBatch(registry, NewRecord)
         /\ NewRecord \in BatchRecord /\ Sound(NewRecord) /\ Linked(NewRecord)
         /\ NewRecord.rootCid = CurrentRoot
         /\ HasRecords(registry')
         /\ registry'.batches = Append(registry.batches, NewRecord)
         /\ startup # "loading"
<1>1. registry' = R!AddBatch(registry, NewRecord) /\ startup # "loading"
      /\ Q!In("executing") /\ flush.at = "uploaded"
  BY DEF RecordBatch, NewRecord, At
<1>2. CurrentJob \in Job /\ CurrentJob < nextJob /\ CurrentRoot \in RootCid
  BY <1>1, QueueFacts DEF Types
<1>3. Current \in FlushJob /\ Current.batchTimestamp \in Timestamp
      /\ Current.conversations # <<>> /\ flush.filecoinCid = CurrentRoot
  BY <1>1, <1>2 DEF Types, JobsOK, FlushOK, Current
<1>4. Len(Current.conversations) \in Nat
  BY <1>3 DEF FlushJob
<1>5. NewRecord \in BatchRecord
  BY <1>2, <1>3, <1>4 DEF NewRecord, BatchRecord, Types
<1>6. CurrentRoot[1] = CurrentJob /\ NewRecord.rootCid = CurrentRoot
  BY DEF CurrentRoot, NewRecord
<1>7. Sound(NewRecord)
  BY <1>2, <1>3, <1>6 DEF Sound, Made, RecordIsTrue, NewRecord, Current
<1>8. Linked(NewRecord)
  BY <1>1 DEF Linked, NewRecord, ChainOK
<1> QED
  BY <1>1, <1>5, <1>6, <1>7, <1>8, AddBatchFacts DEF Types

\* persist() writes the registry as it is in memory, which stays as it is.
LEMMA WriteEffect ==
  ASSUME Types, PersistBatch \/ PersistPruned
  PROVE  /\ disk' = registry /\ registry' = registry /\ startup' = startup
         /\ recorded \subseteq recorded' /\ recorded' \subseteq RootCid
         /\ \A i \in DOMAIN registry.batches : registry.batches[i].rootCid \in recorded'
<1>1. /\ disk' = registry /\ registry' = registry /\ startup' = startup
      /\ recorded' = recorded \cup {registry.batches[i].rootCid :
                                      i \in DOMAIN registry.batches}
  BY DEF PersistBatch, PersistPruned, WriteRegistry, StaticVars
<1>2. \A i \in DOMAIN registry.batches : registry.batches[i].rootCid \in RootCid
  <2>1. registry.batches \in Seq(BatchRecord)
    BY DEF Types, HasRecords
  <2>2. \A i \in DOMAIN registry.batches : registry.batches[i] \in BatchRecord
    BY <2>1
  <2> QED
    BY <2>2 DEF BatchRecord
<1> QED
  BY <1>1, <1>2 DEF Types

\* registry.json and the roots it has held change by a persist() only.
LEMMA DiskSteps ==
  ASSUME [Next]_vars
  PROVE  PersistBatch \/ PersistPruned \/ UNCHANGED <<disk, recorded>>
<1>1. CASE BeginCar \/ FinishCar \/ UploadEnds \/ RecordBatch \/ CleanUp \/ PruneRegistry
  BY <1>1 DEF BeginCar, FinishCar, UploadEnds, RecordBatch, CleanUp, PruneRegistry,
     durableVars
<1>2. CASE Gives
  BY <1>2, GivesEffect
<1>3. CASE Elsewhere
  BY <1>3, ElsewhereEffect
<1>4. CASE LoadRegistry \/ Restart
  BY <1>4 DEF LoadRegistry, Restart, durableVars, ghostVars
<1> QED
  BY <1>1, <1>2, <1>3, <1>4, NextCases

\* The registry in memory changes by four steps only.
LEMMA RegistrySteps ==
  ASSUME [Next]_vars
  PROVE  RecordBatch \/ PruneRegistry \/ LoadRegistry \/ Restart \/ registry' = registry
<1>1. CASE BeginCar \/ FinishCar \/ UploadEnds \/ CleanUp \/ PersistBatch \/ PersistPruned
  BY <1>1 DEF BeginCar, FinishCar, UploadEnds, CleanUp, PersistBatch, PersistPruned
<1>2. CASE Gives
  BY <1>2, GivesEffect
<1>3. CASE Elsewhere
  BY <1>3, ElsewhereEffect
<1> QED
  BY <1>1, <1>2, <1>3, NextCases

\* A CAR file changes by four steps only.
LEMMA CarSteps ==
  ASSUME [Next]_vars
  PROVE  BeginCar \/ FinishCar \/ CleanUp \/ PersistPruned \/ carFile' = carFile
<1>1. CASE UploadEnds \/ RecordBatch \/ PruneRegistry \/ PersistBatch
  BY <1>1 DEF UploadEnds, RecordBatch, PruneRegistry, PersistBatch, durableVars
<1>2. CASE Gives
  BY <1>2, GivesEffect
<1>3. CASE Elsewhere
  BY <1>3, ElsewhereEffect
<1>4. CASE LoadRegistry \/ Restart
  BY <1>4 DEF LoadRegistry, Restart, durableVars
<1> QED
  BY <1>1, <1>2, <1>3, <1>4, NextCases

\* The chain moves when persist() has succeeded, and starts anew.
LEMMA ChainSteps ==
  ASSUME [Next]_vars
  PROVE  \/ PersistBatch /\ lastBatchCid' = CurrentRoot
         \/ Restart /\ lastBatchCid' = NoCid
         \/ lastBatchCid' = lastBatchCid
<1>1. CASE BeginCar \/ FinishCar \/ UploadEnds \/ RecordBatch \/ CleanUp \/ PruneRegistry
           \/ PersistPruned \/ LoadRegistry
  BY <1>1 DEF BeginCar, FinishCar, UploadEnds, RecordBatch, CleanUp, PruneRegistry,
     PersistPruned, LoadRegistry
<1>2. CASE Gives
  BY <1>2, GivesEffect
<1>3. CASE Elsewhere
  BY <1>3, ElsewhereEffect
<1>4. CASE PersistBatch \/ Restart
  BY <1>4 DEF PersistBatch, Restart
<1> QED
  BY <1>1, <1>2, <1>3, <1>4, NextCases

\* Where flushBatch() stands next, and how it gets there.
LEMMA FlushSteps ==
  ASSUME Types, [Next]_vars
  PROVE  \/ flush' = flush /\ Elsewhere
         \/ flush' = flush /\ LoadRegistry
         \/ flush' = Idle /\ (Gives \/ PersistPruned \/ Restart)
         \/ /\ UNCHANGED <<queueVars, jobs, nextJob, startup, settings>>
            /\ \/ BeginCar /\ flush'.at = "writing"
               \/ FinishCar /\ flush'.at = "uploading"
               \/ /\ UploadEnds /\ flush'.at = "uploaded"
                  /\ flush'.filecoinCid = carFile[Current.batchTimestamp]
               \/ RecordBatch /\ flush'.at = "added"
               \/ PersistBatch /\ flush'.at = "persisted"
               \/ CleanUp /\ flush'.at = "cleaned"
               \/ /\ PruneRegistry /\ flush'.at = "pruned"
                  /\ flush'.removed = R!Removed(registry, MaxRegistryBatches)
<1>1. CASE Gives
  BY <1>1, GivesEffect
<1>2. CASE Elsewhere
  BY <1>2, ElsewhereEffect
<1>3. CASE PersistPruned
  BY <1>3 DEF PersistPruned, Return
<1>4. CASE Restart
  BY <1>4 DEF Restart
<1>5. CASE LoadRegistry
  BY <1>5 DEF LoadRegistry
<1>6. CASE BeginCar
  BY <1>6 DEF BeginCar, StaticVars, Types
<1>7. CASE FinishCar
  BY <1>7 DEF FinishCar, StaticVars, Types, Continue
<1>8. CASE UploadEnds
  BY <1>8 DEF UploadEnds, StaticVars, Types
<1>9. CASE RecordBatch
  BY <1>9 DEF RecordBatch, StaticVars, Types, Continue
<1>10. CASE PersistBatch
  BY <1>10 DEF PersistBatch, StaticVars, Types, Continue
<1>11. CASE CleanUp
  BY <1>11 DEF CleanUp, StaticVars, Types, Continue
<1>12. CASE PruneRegistry
  BY <1>12 DEF PruneRegistry, StaticVars, Types
<1> QED
  BY <1>1, <1>2, <1>3, <1>4, <1>5, <1>6, <1>7, <1>8, <1>9, <1>10, <1>11, <1>12, NextCases

\* The root of the archive being built.
LEMMA CurrentFacts ==
  ASSUME QP!IInv, Types, JobsOK, FlushOK, flush.at # "start"
  PROVE  /\ CurrentJob \in Job /\ CurrentJob < nextJob /\ CurrentRoot \in RootCid
         /\ Current.batchTimestamp \in Timestamp /\ Made(CurrentJob)
         /\ CurrentRoot[1] = CurrentJob /\ Q!In("executing")
<1>1. Q!In("executing") /\ Current.conversations # <<>>
  BY DEF FlushOK
<1>2. CurrentJob \in Job /\ CurrentJob < nextJob /\ CurrentRoot \in RootCid
  BY <1>1, QueueFacts DEF Types
<1> QED
  BY <1>1, <1>2 DEF JobsOK, Made, Current, CurrentRoot

LEMMA RegistryLimit ==
  ASSUME Types
  PROVE  MaxRegistryBatches \in Nat
BY JobAssumption DEF Types, MaxRegistryBatches

LEMMA HasRecordsKept ==
  ASSUME QP!IInv, Types, JobsOK, FlushOK, ChainOK, [Next]_vars
  PROVE  HasRecords(registry') /\ (disk' # NoFile => HasRecords(disk'))
<1>1. HasRecords(R!FreshState)
  <2>1. R!FreshState.batches = <<>> /\ R!FreshState.totalBatches = 0
        /\ {"batches", "totalBatches"} \subseteq DOMAIN R!FreshState
    BY DEF R!FreshState
  <2> QED
    BY <2>1 DEF HasRecords
<1>2. HasRecords(registry')
  <2>1. CASE RecordBatch
    BY <2>1, RecordBatchEffect
  <2>2. CASE PruneRegistry
    BY <2>2, PruneFacts, RegistryLimit DEF PruneRegistry, Types
  <2>3. CASE LoadRegistry
    BY <2>3, <1>1 DEF LoadRegistry, Types
  <2>4. CASE Restart
    BY <2>4, <1>1 DEF Restart
  <2>5. CASE registry' = registry
    BY <2>5 DEF Types
  <2> QED
    BY <2>1, <2>2, <2>3, <2>4, <2>5, RegistrySteps
<1>3. disk' # NoFile => HasRecords(disk')
  BY DiskSteps, WriteEffect DEF Types
<1> QED
  BY <1>2, <1>3

LEMMA CarTypeKept ==
  ASSUME QP!IInv, Types, JobsOK, FlushOK, [Next]_vars
  PROVE  carFile' \in [Timestamp -> RootCid \cup {NoFile, Truncated}]
<1>1. CASE BeginCar
  BY <1>1 DEF BeginCar, Types
<1>2. CASE FinishCar
  BY <1>2, CurrentFacts DEF FinishCar, Types, At
<1>3. CASE CleanUp
  BY <1>3 DEF CleanUp, Types
<1>4. CASE PersistPruned
  BY <1>4 DEF PersistPruned, Types
<1> QED
  BY <1>1, <1>2, <1>3, <1>4, CarSteps DEF Types

LEMMA FlushTypeKept ==
  ASSUME QP!IInv, Types, JobsOK, FlushOK, [Next]_vars
  PROVE  flush' \in [at : Step, previous : RootCid \cup {NoCid},
                     filecoinCid : RootCid \cup {NoCid}, removed : Seq(BatchRecord)]
<1>1. CASE flush' = Idle
  BY <1>1 DEF Idle, Step
<1>2. CASE BeginCar
  BY <1>2 DEF BeginCar, Types, Step
<1>3. CASE FinishCar \/ RecordBatch \/ PersistBatch \/ CleanUp
  BY <1>3 DEF FinishCar, RecordBatch, PersistBatch, CleanUp, Continue, Types, Step
<1>4. CASE UploadEnds
  <2>1. flush.at = "uploading" /\ carFile[Current.batchTimestamp] \in RootCid
    BY <1>4, CurrentFacts DEF UploadEnds, At, FlushOK
  <2> QED
    BY <1>4, <2>1 DEF UploadEnds, Types, Step
<1>5. CASE PruneRegistry
  <2>1. R!Removed(registry, MaxRegistryBatches) \in Seq(BatchRecord)
    BY PruneFacts, RegistryLimit DEF Types
  <2> QED
    BY <1>5, <2>1 DEF PruneRegistry, Types, Step
<1> QED
  BY <1>1, <1>2, <1>3, <1>4, <1>5, FlushSteps DEF Types

LEMMA StartupKept ==
  ASSUME Types, [Next]_vars
  PROVE  /\ startup' \in {"loading", "loaded", "scanned"}
         /\ startup = "loading" => startup' = "loading" \/ LoadRegistry
<1>1. CASE Restart
  BY <1>1 DEF Restart
<1>2. CASE LoadRegistry
  BY <1>2 DEF LoadRegistry
<1>3. CASE Elsewhere
  BY <1>3, ElsewhereEffect DEF Types
<1>4. CASE Gives
  BY <1>4, GivesEffect DEF Types
<1>5. CASE PersistPruned
  BY <1>5, WriteEffect DEF Types
<1>6. CASE UNCHANGED startup
  BY <1>6 DEF Types
<1> QED
  BY <1>1, <1>2, <1>3, <1>4, <1>5, <1>6, FlushSteps

LEMMA BufferKept ==
  ASSUME Types, [Next]_vars
  PROVE  batchBuffer' \in Seq(Nat) /\ nextConv' \in Nat /\ scan' \subseteq Timestamp
<1>1. CASE OnResponse
  <2>1. nextConv' \in Nat /\ scan' = scan
    BY <1>1 DEF OnResponse, Types
  <2>2. batchBuffer' = <<>> \/ batchBuffer' = Append(batchBuffer, nextConv)
    BY <1>1 DEF OnResponse, CutBatch
  <2>3. batchBuffer' \in Seq(Nat)
    <3>1. batchBuffer \in Seq(Nat) /\ nextConv \in Nat
      BY DEF Types
    <3>2. Append(batchBuffer, nextConv) \in Seq(Nat)
      BY <3>1
    <3>3. <<>> \in Seq(Nat)
      OBVIOUS
    <3> QED
      BY <2>2, <3>2, <3>3, Zenon
  <2> QED
    BY <2>1, <2>3 DEF Types
<1>2. CASE FlushBatch \/ AbandonedUploadEnds
  BY <1>2 DEF FlushBatch, AbandonedUploadEnds, SkipEmpty, BeginCar,
     BuildFails, FinishCar, WriteFails, UploadEnds, UploadFails, UploadTimeout,
     RecordBatch, PersistFails, PersistBatch, CleanUp, NothingToPrune, PruneRegistry,
     PersistPruned, PersistPrunedFails, StaticVars, Types
<1>3. CASE QueueStep
  BY <1>3 DEF QueueStep, volatileVars, envVars, Types
<1>4. CASE LoadRegistry
  BY <1>4 DEF LoadRegistry, Types
<1>5. CASE ScanCarDir
  BY <1>5 DEF ScanCarDir, envVars, Types
<1>6. CASE RecoverEntry
  BY <1>6 DEF RecoverEntry, Types
<1>7. CASE Crash \/ Exit
  <2>1. batchBuffer' = <<>> /\ scan' = {} /\ nextConv' = nextConv
    BY <1>7 DEF Crash, Exit, Restart
  <2> QED
    BY <2>1 DEF Types
<1>8. CASE UNCHANGED vars
  BY <1>8 DEF vars, volatileVars, envVars, Types
<1> QED
  BY <1>1, <1>2, <1>3, <1>4, <1>5, <1>6, <1>7, <1>8 DEF Next

LEMMA TypesKept ==
  ASSUME QP!IInv, Types, JobsOK, FlushOK, ChainOK, [Next]_vars
  PROVE  Types'
<1>1. settings' \in Settings /\ jobs' \in [Job -> FlushJob]
      /\ nextJob' \in Nat \ {0} /\ clock' \in Nat /\ clock' < nextJob'
  BY JobsStep DEF JobsStay, Types
<1>2. recorded' \subseteq RootCid
  BY DiskSteps, WriteEffect DEF Types
<1>3. lastBatchCid' \in RootCid \cup {NoCid}
  <2>1. PersistBatch => CurrentRoot \in RootCid
    BY CurrentFacts DEF PersistBatch, At
  <2> QED
    BY <2>1, ChainSteps DEF Types
<1>4. HasRecords(registry)' /\ (disk # NoFile => HasRecords(disk))'
  BY HasRecordsKept DEF HasRecords
<1> QED
  BY <1>1, <1>2, <1>3, <1>4, CarTypeKept, FlushTypeKept, StartupKept, BufferKept DEF Types

-----------------------------------------------------------------------------
(* The records *)

\* Sound and Linked, of a record after the step.
SoundNext(b) ==
  /\ b.rootCid[1] \in Job /\ b.rootCid[1] < nextJob'
  /\ jobs'[b.rootCid[1]].conversations # <<>>
  /\ b.filecoinCid = b.rootCid
  /\ b.batchId = jobs'[b.rootCid[1]].batchTimestamp
  /\ b.conversationCount = Len(jobs'[b.rootCid[1]].conversations)

LinkedNext(b) ==
  b.previousBatchCid # NoCid
    => b.previousBatchCid \in recorded' /\ Earlier(b.previousBatchCid, b.rootCid)

LEMMA RecordedGrows ==
  ASSUME Types, [Next]_vars
  PROVE  recorded \subseteq recorded'
BY DiskSteps, WriteEffect

\* What is true of a record stays true.
LEMMA RecordStays ==
  ASSUME Types, JobsStay, nextJob' \in Nat, recorded \subseteq recorded',
         NEW b
  PROVE  (Sound(b) => SoundNext(b)) /\ (Linked(b) => LinkedNext(b))
<1>1. ASSUME Sound(b) PROVE SoundNext(b)
  <2>1. b.rootCid[1] \in Job /\ b.rootCid[1] < nextJob
    BY <1>1 DEF Sound, Made
  <2>2. b.rootCid[1] < nextJob' /\ jobs'[b.rootCid[1]] = jobs[b.rootCid[1]]
    BY <2>1, JobNumbers DEF JobsStay, Types
  <2> QED
    BY <1>1, <2>1, <2>2 DEF Sound, Made, RecordIsTrue, SoundNext
<1>2. Linked(b) => LinkedNext(b)
  BY DEF Linked, LinkedNext
<1> QED
  BY <1>1, <1>2

LEMMA MadeStays ==
  ASSUME Types, JobsStay, nextJob' \in Nat, NEW j, Made(j)
  PROVE  /\ j \in Job /\ j < nextJob' /\ jobs'[j].conversations # <<>>
         /\ jobs'[j] = jobs[j]
<1>1. j \in Job /\ j < nextJob /\ jobs'[j] = jobs[j]
  BY DEF Made, JobsStay
<1> QED
  BY <1>1, JobNumbers DEF Made, JobsStay, Types

LEMMA RecordsKept ==
  ASSUME QP!IInv, Types, JobsOK, RecordsOK, FlushOK, ChainOK, [Next]_vars
  PROVE  RecordsOK'
<1>1. JobsStay /\ nextJob' \in Nat
  BY JobsStep
<1>2. recorded \subseteq recorded'
  BY RecordedGrows
<1>3. \A b : (Sound(b) => SoundNext(b)) /\ (Linked(b) => LinkedNext(b))
  BY <1>1, <1>2, RecordStays
<1>4. \A i \in DOMAIN registry'.batches :
        SoundNext(registry'.batches[i]) /\ LinkedNext(registry'.batches[i])
  <2>1. CASE RecordBatch
    <3>1. registry'.batches = Append(registry.batches, NewRecord)
          /\ Sound(NewRecord) /\ Linked(NewRecord)
      BY <2>1, RecordBatchEffect
    <3>2. registry.batches \in Seq(BatchRecord)
      BY DEF Types, HasRecords
    <3>3. ASSUME NEW i \in DOMAIN registry'.batches
          PROVE  \/ registry'.batches[i] = NewRecord
                 \/ i \in DOMAIN registry.batches
                    /\ registry'.batches[i] = registry.batches[i]
      BY <3>1, <3>2
    <3> QED
      BY <1>3, <3>1, <3>3 DEF RecordsOK
  <2>2. CASE PruneRegistry
    <3> DEFINE n == R!RemoveCount(registry, MaxRegistryBatches)
    <3>1. registry' = R!Prune(registry, MaxRegistryBatches) /\ n > 0
      BY <2>2 DEF PruneRegistry
    <3>2. /\ n \in 0 .. Len(registry.batches) /\ HasRecords(registry')
          /\ Len(registry'.batches) = Len(registry.batches) - n
          /\ \A i \in 1 .. Len(registry.batches) - n :
               registry'.batches[i] = registry.batches[n + i]
      BY <3>1, PruneFacts, RegistryLimit DEF Types
    <3>3. registry.batches \in Seq(BatchRecord) /\ registry'.batches \in Seq(BatchRecord)
      BY <3>2 DEF Types, HasRecords
    <3> HIDE DEF n
    <3>4. ASSUME NEW i \in DOMAIN registry'.batches
          PROVE  n + i \in DOMAIN registry.batches
                 /\ registry'.batches[i] = registry.batches[n + i]
      <4>1. i \in 1 .. Len(registry.batches) - n
        BY <3>2, <3>3
      <4>2. Len(registry.batches) \in Nat
        BY <3>3
      <4>3. n + i \in 1 .. Len(registry.batches)
        BY <3>2, <4>1, <4>2
      <4> QED
        BY <3>2, <3>3, <4>1, <4>3
    <3> QED
      BY <1>3, <3>4 DEF RecordsOK
  <2>3. CASE LoadRegistry
    <3>1. \/ registry' = registry
          \/ disk # NoFile /\ registry' = disk
          \/ registry' = R!FreshState
      BY <2>3 DEF LoadRegistry
    <3>2. R!FreshState.batches = <<>>
      BY DEF R!FreshState
    <3> QED
      BY <1>3, <3>1, <3>2 DEF RecordsOK
  <2>4. CASE Restart
    <3>1. registry'.batches = <<>>
      BY <2>4 DEF Restart, R!FreshState
    <3> QED
      BY <3>1
  <2>5. CASE registry' = registry
    BY <1>3, <2>5 DEF RecordsOK
  <2> QED
    BY <2>1, <2>2, <2>3, <2>4, <2>5, RegistrySteps
<1>5. disk' # NoFile => \A i \in DOMAIN disk'.batches :
        /\ SoundNext(disk'.batches[i]) /\ LinkedNext(disk'.batches[i])
        /\ disk'.batches[i].rootCid \in recorded'
  <2>1. CASE PersistBatch \/ PersistPruned
    BY <1>3, <2>1, WriteEffect DEF RecordsOK
  <2>2. CASE UNCHANGED <<disk, recorded>>
    BY <1>3, <2>2 DEF RecordsOK
  <2> QED
    BY <2>1, <2>2, DiskSteps
<1> QED
  BY <1>4, <1>5 DEF RecordsOK, Sound, Linked, Made, RecordIsTrue, SoundNext, LinkedNext

\* A record more at the end of what is in memory.
LEMMA ContinuesMore ==
  ASSUME NEW old, NEW new, NEW b, old \in Seq(BatchRecord), new \in Seq(BatchRecord),
         NEW n \in 0 .. Len(old), Continues(old, new, n)
  PROVE  Continues(old, Append(new, b), n)
<1>1. /\ Len(old) - n <= Len(new) /\ Len(old) \in Nat /\ Len(new) \in Nat
      /\ \A i \in 1 .. Len(old) - n : new[i] = old[n + i]
  BY DEF Continues
<1>2. Len(Append(new, b)) = Len(new) + 1
      /\ \A i \in 1 .. Len(new) : Append(new, b)[i] = new[i]
  OBVIOUS
<1>3. \A i \in 1 .. Len(old) - n : i \in 1 .. Len(new)
  BY <1>1
<1>4. Len(old) - n <= Len(Append(new, b))
  BY <1>1, <1>2
<1>5. \A i \in 1 .. Len(old) - n : Append(new, b)[i] = old[n + i]
  BY <1>1, <1>2, <1>3
<1> QED
  BY <1>4, <1>5 DEF Continues

\* The same records in memory and on disk, or none on disk.
LEMMA ContinuesSame ==
  ASSUME NEW old, NEW new, new \in Seq(BatchRecord), old \in {<<>>, new}
  PROVE  \E n \in 0 .. Len(old) : Continues(old, new, n)
<1>1. 0 \in 0 .. Len(old) /\ Continues(old, new, 0)
  BY DEF Continues
<1> QED
  BY <1>1

LEMMA KeptKept ==
  ASSUME QP!IInv, Types, JobsOK, KeptOK, FlushOK, ChainOK, [Next]_vars
  PROVE  KeptOK'
<1>1. settings' = settings
  BY JobsStep DEF JobsStay
<1>2. RecordsOnDisk \in Seq(BatchRecord) /\ registry.batches \in Seq(BatchRecord)
      /\ registry'.batches \in Seq(BatchRecord)
  BY HasRecordsKept DEF Types, HasRecords, RecordsOnDisk
<1>3. ASSUME ~RegistryReadErrors, startup' # "loading"
      PROVE  \E n \in 0 .. Len(RecordsOnDisk') :
               Continues(RecordsOnDisk', registry'.batches, n)
  <2>1. CASE RecordBatch
    <3>1. RecordsOnDisk' = RecordsOnDisk
      BY <2>1 DEF RecordBatch, durableVars, RecordsOnDisk
    <3>2. PICK n \in 0 .. Len(RecordsOnDisk) :
            Continues(RecordsOnDisk, registry.batches, n)
      BY <1>3, <2>1, RecordBatchEffect DEF KeptOK
    <3>3. registry'.batches = Append(registry.batches, NewRecord)
      BY <2>1, RecordBatchEffect
    <3> QED
      BY <1>2, <3>1, <3>2, <3>3, ContinuesMore
  <2>2. CASE PruneRegistry
    <3> DEFINE n == R!RemoveCount(registry, MaxRegistryBatches)
    <3>1. registry' = R!Prune(registry, MaxRegistryBatches) /\ n > 0
          /\ disk' = disk /\ disk = registry
      BY <2>2 DEF PruneRegistry, durableVars, At, FlushOK
    <3>2. RecordsOnDisk' \in {<<>>, registry.batches}
      BY <3>1 DEF RecordsOnDisk
    <3>3. CASE RecordsOnDisk' = <<>>
      BY <1>2, <3>3, ContinuesSame
    <3>4. CASE RecordsOnDisk' = registry.batches
      <4>1. /\ n \in 0 .. Len(registry.batches)
            /\ MaxRegistryBatches > 0 /\ Len(registry.batches) - n = MaxRegistryBatches
            /\ Len(registry'.batches) = Len(registry.batches) - n
            /\ \A i \in 1 .. Len(registry.batches) - n :
                 registry'.batches[i] = registry.batches[n + i]
        BY <3>1, PruneFacts, RegistryLimit DEF Types
      <4> HIDE DEF n
      <4>2. Len(registry.batches) \in Nat /\ MaxRegistryBatches \in Nat
        BY <1>2, RegistryLimit
      <4>3. Continues(registry.batches, registry'.batches, n)
        BY <4>1, <4>2 DEF Continues
      <4> QED
        BY <3>4, <4>1, <4>3
    <3> QED
      BY <3>2, <3>3, <3>4
  <2>3. CASE LoadRegistry
    <3>1. disk' = disk /\ registry' = IF disk = NoFile THEN R!FreshState ELSE disk
      BY <1>3, <2>3 DEF LoadRegistry, durableVars
    <3>2. RecordsOnDisk' \in {<<>>, registry'.batches}
      BY <3>1 DEF RecordsOnDisk
    <3> QED
      BY <1>2, <3>2, ContinuesSame
  <2>4. CASE Restart
    BY <1>3, <2>4 DEF Restart
  <2>5. CASE registry' = registry /\ ~LoadRegistry
    <3>1. CASE PersistBatch \/ PersistPruned
      <4>1. disk' = registry'
        BY <3>1, WriteEffect
      <4>2. RecordsOnDisk' \in {<<>>, registry'.batches}
        BY <4>1 DEF RecordsOnDisk
      <4> QED
        BY <1>2, <4>2, ContinuesSame
    <3>2. CASE UNCHANGED disk
      <4>1. startup # "loading"
        BY <1>3, <2>5, StartupKept
      <4> QED
        BY <1>3, <2>5, <3>2, <4>1 DEF KeptOK, RecordsOnDisk
    <3> QED
      BY <3>1, <3>2, DiskSteps
  <2> QED
    BY <2>1, <2>2, <2>3, <2>4, <2>5, RegistrySteps
<1> QED
  BY <1>1, <1>3 DEF KeptOK, Continues, RegistryReadErrors, MaxRegistryBatches

-----------------------------------------------------------------------------
(* CAR files *)

LEMMA CarsKept ==
  ASSUME QP!IInv, Types, JobsOK, CarsOK, FlushOK, [Next]_vars
  PROVE  CarsOK'
<1>1. JobsStay /\ nextJob' \in Nat
  BY JobsStep
<1>2. \A t \in Timestamp : carFile'[t] \in RootCid =>
        \/ carFile'[t] = carFile[t]
        \/ /\ carFile'[t][1] = CurrentJob /\ Made(CurrentJob)
           /\ t = jobs[CurrentJob].batchTimestamp
  <2>1. CASE BeginCar
    BY <2>1, JobNumbers DEF BeginCar, Types
  <2>2. CASE FinishCar
    <3>1. flush.at # "start" /\ carFile' = [carFile EXCEPT ![Current.batchTimestamp] = CurrentRoot]
      BY <2>2 DEF FinishCar, At
    <3>2. Made(CurrentJob) /\ CurrentRoot[1] = CurrentJob
      BY <3>1, CurrentFacts
    <3> QED
      BY <3>1, <3>2 DEF Types, Current
  <2>3. CASE CleanUp
    BY <2>3, JobNumbers DEF CleanUp, Types
  <2>4. CASE PersistPruned
    BY <2>4, JobNumbers DEF PersistPruned, Types
  <2> QED
    BY <2>1, <2>2, <2>3, <2>4, CarSteps
<1>3. \A t \in Timestamp : carFile'[t] \in RootCid =>
        Made(carFile'[t][1]) /\ jobs[carFile'[t][1]].batchTimestamp = t
  BY <1>2 DEF CarsOK
<1>4. \A j : Made(j) => /\ j \in Job /\ j < nextJob' /\ jobs'[j].conversations # <<>>
                        /\ jobs'[j] = jobs[j]
  BY <1>1, MadeStays
<1> QED
  BY <1>3, <1>4 DEF CarsOK, Made

-----------------------------------------------------------------------------
(* Where flushBatch() stands *)

\* While flushBatch() runs, the job in the active slot is its own.
LEMMA ElsewhereKeepsFlight ==
  ASSUME QP!IInv, Types, Elsewhere, Q!In("executing")
  PROVE  UNCHANGED <<activeFlush, attempts>>
<1>1. activeFlush # NoFlush /\ activeFlush.phase = "executing"
  BY DEF Q!In
<1>2. ASSUME NEW job, EnqueueJob(job) PROVE UNCHANGED <<activeFlush, attempts>>
  BY <1>1, <1>2, EnqueueEffect
<1>3. CASE OnResponse
  BY <1>2, <1>3 DEF OnResponse, CutBatch, queueVars
<1>4. CASE RecoverEntry
  BY <1>2, <1>4 DEF RecoverEntry, queueVars
<1>5. CASE QueueStep
  BY <1>1, <1>5 DEF QueueStep, Q!BackoffElapses, Q!Finally, Q!In, Q!DrainCall,
     Q!DrainIdle, Q!DrainDeadline, Q!jobVars
<1>6. CASE AbandonedUploadEnds \/ ScanCarDir \/ UNCHANGED vars
  BY <1>6 DEF AbandonedUploadEnds, ScanCarDir, vars, queueVars
<1> QED
  BY <1>3, <1>4, <1>5, <1>6 DEF Elsewhere

LEMMA FlushStays ==
  ASSUME QP!IInv, Types, JobsOK, FlushOK, JobsStay, nextJob' \in Nat, flush' = flush,
         flush.at # "start",
         UNCHANGED <<activeFlush, attempts, disk, carFile, recorded>>,
         startup = "loading" \/ (registry' = registry /\ startup' # "loading")
  PROVE  FlushOK'
<1>1. CurrentJob' = CurrentJob /\ CurrentRoot' = CurrentRoot /\ Q!In("executing")'
      /\ Current' = Current
  <2>1. CurrentJob \in Job /\ CurrentJob < nextJob /\ Q!In("executing")
    BY CurrentFacts
  <2>2. jobs'[CurrentJob] = jobs[CurrentJob]
    BY <2>1 DEF JobsStay
  <2> QED
    BY <2>1, <2>2 DEF CurrentJob, CurrentRoot, Current, Q!In
<1>2. \A b : Sound(b) => SoundNext(b)
  BY RecordStays
<1>3. flush.at = "pruned"
        => MaxRegistryBatches' # 0 /\ \A i \in DOMAIN flush'.removed :
             (Sound(flush.removed[i]) /\ flush.removed[i].rootCid \in recorded)'
  <2>1. MaxRegistryBatches' = MaxRegistryBatches
    BY DEF JobsStay, MaxRegistryBatches
  <2> QED
    BY <1>2, <2>1 DEF FlushOK, Sound, SoundNext, Made, RecordIsTrue
<1>4. CASE startup = "loading"
  BY <1>1, <1>4 DEF FlushOK
<1>5. CASE registry' = registry /\ startup' # "loading"
  BY <1>1, <1>3, <1>5 DEF FlushOK, RecordedAs
<1> QED
  BY <1>4, <1>5

LEMMA FlushKept ==
  ASSUME QP!IInv, Types, JobsOK, RecordsOK, FlushOK, ChainOK, [Next]_vars
  PROVE  FlushOK'
<1>1. JobsStay /\ nextJob' \in Nat
  BY JobsStep
<1>2. CASE flush'.at = "start"
  BY <1>2 DEF FlushOK
<1>3. CASE flush' = flush /\ Elsewhere /\ flush.at # "start"
  <2>1. UNCHANGED <<activeFlush, attempts>>
    BY <1>3, ElsewhereKeepsFlight DEF FlushOK
  <2>2. UNCHANGED <<disk, carFile, recorded, registry>>
        /\ (startup = "loading" \/ startup' # "loading")
    BY <1>3, ElsewhereEffect
  <2> QED
    BY <1>1, <1>3, <2>1, <2>2, FlushStays
<1>4. CASE flush' = flush /\ LoadRegistry /\ flush.at # "start"
  <2>1. UNCHANGED <<activeFlush, attempts, disk, carFile, recorded>>
        /\ startup = "loading"
    BY <1>4 DEF LoadRegistry, queueVars, durableVars, ghostVars
  <2> QED
    BY <1>1, <1>4, <2>1, FlushStays
<1>5. ASSUME UNCHANGED <<queueVars, jobs, nextJob, startup, settings>>,
             flush'.at # "start",
             \/ BeginCar /\ flush'.at = "writing"
             \/ FinishCar /\ flush'.at = "uploading"
             \/ /\ UploadEnds /\ flush'.at = "uploaded"
                /\ flush'.filecoinCid = carFile[Current.batchTimestamp]
             \/ RecordBatch /\ flush'.at = "added"
             \/ PersistBatch /\ flush'.at = "persisted"
             \/ CleanUp /\ flush'.at = "cleaned"
             \/ /\ PruneRegistry /\ flush'.at = "pruned"
                /\ flush'.removed = R!Removed(registry, MaxRegistryBatches)
      PROVE  FlushOK'
  <2>1. Q!In("executing") /\ Current.conversations # <<>>
    BY <1>5 DEF BeginCar, FinishCar, UploadEnds, RecordBatch, PersistBatch, CleanUp,
       PruneRegistry, At, FlushOK
  <2>2. CurrentJob' = CurrentJob /\ CurrentRoot' = CurrentRoot /\ Current' = Current
        /\ Q!In("executing")' /\ startup' = startup
        /\ MaxRegistryBatches' = MaxRegistryBatches
    BY <1>5, <2>1 DEF CurrentJob, CurrentRoot, Current, Q!In, queueVars,
       MaxRegistryBatches
  <2>3. CurrentJob \in Job /\ CurrentJob < nextJob /\ CurrentRoot \in RootCid
        /\ Current.batchTimestamp \in Timestamp /\ CurrentRoot[1] = CurrentJob
    BY <2>1, QueueFacts DEF Types, JobsOK, Current, CurrentRoot
  <2>4. CASE BeginCar /\ flush'.at = "writing"
    BY <2>1, <2>2, <2>4 DEF FlushOK
  <2>5. CASE FinishCar /\ flush'.at = "uploading"
    <3>1. carFile'[Current.batchTimestamp] = CurrentRoot
      BY <2>3, <2>5 DEF FinishCar, Types
    <3> QED
      BY <2>1, <2>2, <2>5, <3>1 DEF FlushOK
  <2>6. CASE UploadEnds /\ flush'.at = "uploaded"
             /\ flush'.filecoinCid = carFile[Current.batchTimestamp]
    <3>1. carFile' = carFile /\ carFile[Current.batchTimestamp] = CurrentRoot
      BY <2>6 DEF UploadEnds, durableVars, At, FlushOK
    <3> QED
      BY <2>1, <2>2, <2>6, <3>1 DEF FlushOK
  <2>7. CASE RecordBatch /\ flush'.at = "added"
    <3>1. carFile' = carFile /\ carFile[Current.batchTimestamp] = CurrentRoot
      BY <2>7 DEF RecordBatch, durableVars, At, FlushOK
    <3>2. \E i \in DOMAIN registry'.batches : registry'.batches[i].rootCid = CurrentRoot
      <4>1. registry'.batches = Append(registry.batches, NewRecord)
            /\ NewRecord.rootCid = CurrentRoot /\ registry.batches \in Seq(BatchRecord)
        BY <2>7, RecordBatchEffect DEF Types, HasRecords
      <4>2. Len(registry.batches) + 1 \in DOMAIN registry'.batches
            /\ registry'.batches[Len(registry.batches) + 1] = NewRecord
        BY <4>1
      <4> QED
        BY <4>1, <4>2
    <3>3. startup # "loading"
      BY <2>7, RecordBatchEffect
    <3> QED
      BY <2>1, <2>2, <2>7, <3>1, <3>2, <3>3 DEF FlushOK
  <2>8. CASE PersistBatch /\ flush'.at = "persisted"
    <3>1. flush.at = "added"
      BY <2>8 DEF PersistBatch, At
    <3>2. disk' = registry' /\ registry' = registry
          /\ \A i \in DOMAIN registry'.batches : registry'.batches[i].rootCid \in recorded'
      BY <2>8, WriteEffect
    <3>3. CurrentRoot \in recorded'
      BY <3>1, <3>2 DEF FlushOK
    <3>4. RecordedAs(CurrentJob)' # {}
      BY <2>2, <2>3, <3>3 DEF RecordedAs
    <3>5. carFile' = carFile /\ carFile[Current.batchTimestamp] = CurrentRoot
          /\ startup # "loading"
      BY <2>8, <3>1 DEF PersistBatch, FlushOK
    <3> QED
      BY <2>1, <2>2, <2>8, <3>2, <3>4, <3>5 DEF FlushOK
  <2>9. CASE CleanUp /\ flush'.at = "cleaned"
    <3>1. flush.at = "persisted" /\ UNCHANGED <<registry, disk, recorded>>
      BY <2>9 DEF CleanUp, At
    <3>2. RecordedAs(CurrentJob)' # {}
      BY <2>2, <3>1 DEF RecordedAs, FlushOK
    <3> QED
      BY <2>1, <2>2, <2>9, <3>1, <3>2 DEF FlushOK
  <2>10. CASE PruneRegistry /\ flush'.at = "pruned"
              /\ flush'.removed = R!Removed(registry, MaxRegistryBatches)
    <3>1. flush.at = "cleaned" /\ UNCHANGED <<jobs, nextJob, recorded>>
          /\ R!RemoveCount(registry, MaxRegistryBatches) > 0
      BY <1>5, <2>10 DEF PruneRegistry, At
    <3>2. RecordedAs(CurrentJob)' # {}
      BY <2>2, <3>1 DEF RecordedAs, FlushOK
    <3>3. /\ MaxRegistryBatches > 0 /\ MaxRegistryBatches \in Nat
          /\ \A i \in DOMAIN flush'.removed :
               i \in DOMAIN registry.batches /\ flush'.removed[i] = registry.batches[i]
      BY <2>10, <3>1, PruneFacts, RegistryLimit DEF Types
    <3>4. \A i \in DOMAIN flush'.removed :
            Sound(registry.batches[i]) /\ registry.batches[i].rootCid \in recorded
      BY <3>1, <3>3 DEF RecordsOK, FlushOK
    <3>5. \A i \in DOMAIN flush'.removed :
            (Sound(flush.removed[i]) /\ flush.removed[i].rootCid \in recorded)'
      BY <3>1, <3>3, <3>4 DEF Sound, Made, RecordIsTrue
    <3>6. MaxRegistryBatches' # 0
      BY <2>2, <3>3
    <3> QED
      BY <2>1, <2>2, <2>10, <3>1, <3>2, <3>5, <3>6 DEF FlushOK
  <2> QED
    BY <1>5, <2>4, <2>5, <2>6, <2>7, <2>8, <2>9, <2>10
<1>6. Idle.at = "start"
  BY DEF Idle
<1> QED
  BY <1>2, <1>3, <1>4, <1>5, <1>6, FlushSteps

-----------------------------------------------------------------------------
(* The provenance chain *)

\* ChainOK, of the queue and the active slot alone.
ChainAhead ==
  /\ \A i \in DOMAIN queue : NotAfter(queue[i].job)
  /\ Q!In("executing") \/ Q!In("backoff") => NotAfter(activeFlush.job)
  /\ Q!In("executing") /\ flush.at \notin {"persisted", "cleaned", "pruned"}
       => Earlier(lastBatchCid, CurrentRoot)

\* The next job to start begins an attempt of its own.
LEMMA DrainNextChain ==
  ASSUME NEW q \in Seq(QP!Entry), attempts \in [Job -> Nat], Q!DrainNext(q),
         \A i \in DOMAIN q : NotAfter(q[i].job),
         lastBatchCid \in RootCid, lastBatchCid' = lastBatchCid
  PROVE  ChainAhead'
<1>1. CASE q = <<>> /\ queue' = <<>> /\ activeFlush' = NoFlush
  BY <1>1 DEF ChainAhead, Q!In
<1>2. CASE /\ q # <<>> /\ Head(q).job \in Job
           /\ queue' = Tail(q) /\ activeFlush' # NoFlush
           /\ activeFlush'.job = Head(q).job /\ activeFlush'.phase = "executing"
           /\ attempts' = [attempts EXCEPT ![Head(q).job] = @ + 1]
  <2>1. lastBatchCid[1] \in Nat /\ lastBatchCid[2] \in Nat
    BY JobNumbers
  <2>2. \A i \in DOMAIN q : q[i] \in QP!Entry
    OBVIOUS
  <2>3. \A i \in DOMAIN q : q[i].job \in Job
    BY <2>2 DEF QP!Entry
  <2>4. \A j \in Job : attempts[j] \in Nat /\ attempts'[j] \in Nat
                       /\ attempts[j] <= attempts'[j]
    BY <1>2
  <2>5. \A j \in Job : NotAfter(j) =>
          lastBatchCid[1] < j \/ (lastBatchCid[1] = j /\ lastBatchCid[2] <= attempts'[j])
    BY <2>1, <2>4 DEF NotAfter
  <2>6. \A i \in DOMAIN Tail(q) : i + 1 \in DOMAIN q /\ Tail(q)[i] = q[i + 1]
    BY <1>2
  <2>7. \A i \in DOMAIN Tail(q) : Tail(q)[i].job \in Job /\ NotAfter(Tail(q)[i].job)
    BY <2>3, <2>6
  <2>8. 1 \in DOMAIN q /\ Head(q) = q[1]
    BY <1>2
  <2>9. NotAfter(Head(q).job)
    BY <2>8
  <2>10. lastBatchCid[1] < Head(q).job
         \/ (lastBatchCid[1] = Head(q).job /\ lastBatchCid[2] < attempts'[Head(q).job])
    BY <1>2, <2>1, <2>4, <2>9 DEF NotAfter
  <2>11. Earlier(lastBatchCid', CurrentRoot')
    BY <1>2, <2>10 DEF Earlier, CurrentRoot, CurrentJob
  <2>12. NotAfter(activeFlush.job)'
    BY <1>2, <2>5, <2>9 DEF NotAfter
  <2>13. (\A i \in DOMAIN queue : NotAfter(queue[i].job))'
    BY <1>2, <2>5, <2>7 DEF NotAfter
  <2> QED
    BY <2>11, <2>12, <2>13 DEF ChainAhead
<1> QED
  BY <1>1, <1>2, DrainNextEffect

\* A job handed over now is later than every batch of the chain.
LEMMA EnqueueChain ==
  ASSUME QP!IInv, Types, ChainOK, lastBatchCid # NoCid, lastBatchCid' = lastBatchCid,
         flush' = flush, NEW job, EnqueueJob(job)
  PROVE  ChainAhead'
<1> DEFINE q == Append(queue, [job |-> nextJob, retryCount |-> 0])
<1>1. /\ nextJob \in Job /\ q \in Seq(QP!Entry)
      /\ IF activeFlush = NoFlush
         THEN Q!DrainNext(q)
         ELSE queue' = q /\ UNCHANGED <<activeFlush, attempts>>
  BY EnqueueEffect
<1>2. queue \in Seq(QP!Entry) /\ attempts \in [Job -> Nat]
  BY DEF QP!IInv, QP!TypeOK
<1>3. lastBatchCid \in RootCid
  BY DEF Types
<1>4. \A i \in DOMAIN q : NotAfter(q[i].job)
  <2>1. \A i \in DOMAIN q : \/ i \in DOMAIN queue /\ q[i] = queue[i]
                            \/ q[i] = [job |-> nextJob, retryCount |-> 0]
    BY <1>2
  <2>2. NotAfter(nextJob)
    BY DEF ChainOK, NotAfter
  <2> HIDE DEF q
  <2>3. ASSUME NEW i \in DOMAIN q PROVE NotAfter(q[i].job)
    <3>1. CASE i \in DOMAIN queue /\ q[i] = queue[i]
      BY <3>1 DEF ChainOK
    <3>2. CASE q[i] = [job |-> nextJob, retryCount |-> 0]
      BY <2>2, <3>2
    <3> QED
      BY <2>1, <3>1, <3>2
  <2> QED
    BY <2>3
<1> HIDE DEF q
<1>5. CASE activeFlush = NoFlush
  BY <1>1, <1>2, <1>3, <1>4, <1>5, DrainNextChain
<1>6. CASE activeFlush # NoFlush
  <2>1. queue' = q /\ activeFlush' = activeFlush /\ attempts' = attempts
    BY <1>1, <1>6
  <2>2. (\A i \in DOMAIN queue : NotAfter(queue[i].job))'
    BY <1>4, <2>1 DEF NotAfter
  <2> QED
    BY <2>1, <2>2 DEF ChainOK, ChainAhead, NotAfter, CurrentRoot, CurrentJob, Q!In
<1> QED
  BY <1>5, <1>6

\* The queue goes on by itself.
LEMMA QueueStepChain ==
  ASSUME QP!IInv, Types, ChainOK, lastBatchCid # NoCid, QueueStep
  PROVE  ChainAhead'
<1>1. queue \in Seq(QP!Entry) /\ attempts \in [Job -> Nat] /\ lastBatchCid \in RootCid
  BY DEF QP!IInv, QP!TypeOK, Types
<1>2. lastBatchCid' = lastBatchCid /\ flush' = flush
  BY DEF QueueStep, volatileVars
<1>3. \A i \in DOMAIN queue : NotAfter(queue[i].job)
  BY DEF ChainOK
<1>4. CASE Q!Finally
  BY <1>1, <1>2, <1>3, <1>4, DrainNextChain DEF Q!Finally
<1>5. CASE Q!BackoffElapses
  <2> DEFINE e == [job |-> activeFlush.job, retryCount |-> activeFlush.retryCount + 1]
  <2>1. Q!In("backoff") /\ queue' = <<e>> \o queue /\ attempts' = attempts
        /\ activeFlush' = [activeFlush EXCEPT !.phase = "returned"]
    BY <1>5 DEF Q!BackoffElapses
  <2>2. activeFlush \in QP!Flight
    BY <2>1 DEF Q!In, QP!IInv, QP!TypeOK
  <2>3. activeFlush'.phase = "returned"
    BY <2>1, <2>2 DEF QP!Flight
  <2>4. NotAfter(e.job)
    BY <2>1 DEF ChainOK
  <2> HIDE DEF e
  <2>5. \A i \in DOMAIN queue' :
          \/ queue'[i] = e
          \/ i - 1 \in DOMAIN queue /\ queue'[i] = queue[i - 1]
    BY <1>1, <2>1
  <2>6. (\A i \in DOMAIN queue : NotAfter(queue[i].job))'
    BY <1>2, <1>3, <2>1, <2>4, <2>5 DEF NotAfter
  <2> QED
    BY <2>3, <2>6 DEF ChainAhead, Q!In
<1>6. CASE Q!DrainCall \/ Q!DrainIdle \/ Q!DrainDeadline
  <2>1. UNCHANGED <<queue, activeFlush, attempts>>
    BY <1>6 DEF Q!DrainCall, Q!DrainIdle, Q!DrainDeadline, Q!jobVars
  <2> QED
    BY <1>2, <2>1 DEF ChainOK, ChainAhead, NotAfter, CurrentRoot, CurrentJob, Q!In
<1> QED
  BY <1>4, <1>5, <1>6 DEF QueueStep

\* flushBatch() settles: the job sleeps, or is over.
LEMMA SettleChain ==
  ASSUME QP!IInv, ChainOK, lastBatchCid # NoCid, lastBatchCid' = lastBatchCid,
         Q!ExecutorResolves \/ Q!ExecutorRejects
  PROVE  ChainAhead'
<1>1. Q!In("executing") /\ queue' = queue /\ attempts' = attempts
      /\ \E p \in {"returned", "backoff"} :
           activeFlush' = [activeFlush EXCEPT !.phase = p]
  BY DEF Q!ExecutorResolves, Q!ExecutorRejects, Q!Retry, Q!DeadLetter
<1>2. activeFlush \in QP!Flight
  BY <1>1 DEF Q!In, QP!IInv, QP!TypeOK
<1>3. activeFlush'.phase # "executing" /\ activeFlush'.job = activeFlush.job
  BY <1>1, <1>2 DEF QP!Flight
<1> QED
  BY <1>1, <1>3 DEF ChainOK, ChainAhead, NotAfter, Q!In

LEMMA ChainKept ==
  ASSUME QP!IInv, Types, JobsOK, RecordsOK, FlushOK, ChainOK, [Next]_vars
  PROVE  ChainOK'
<1>1. recorded \subseteq recorded' /\ nextJob \in Nat /\ nextJob' \in Nat
      /\ nextJob <= nextJob'
  BY RecordedGrows, JobsStep DEF JobsStay, Types
<1>2. CASE lastBatchCid' = NoCid
  BY <1>2 DEF ChainOK
<1>3. CASE PersistBatch /\ lastBatchCid' = CurrentRoot
  <2>1. flush.at = "added" /\ UNCHANGED <<queueVars, nextJob>> /\ flush'.at = "persisted"
    BY <1>3 DEF PersistBatch, At, Continue, StaticVars, Types
  <2>2. CurrentJob \in Job /\ CurrentJob < nextJob /\ CurrentRoot \in RootCid
        /\ \A i \in DOMAIN queue : CurrentJob < queue[i].job
    BY <2>1, CurrentFacts, QueueFacts DEF Types
  <2>3. CurrentRoot \in recorded'
    BY <1>3, <2>1, WriteEffect DEF FlushOK
  <2>4. CurrentRoot[1] = CurrentJob /\ CurrentRoot[2] = attempts[CurrentJob]
        /\ attempts[CurrentJob] \in Nat
    BY <2>2, JobNumbers DEF CurrentRoot
  <2>5. (\A i \in DOMAIN queue : NotAfter(queue[i].job))'
    BY <1>3, <2>1, <2>2, <2>4 DEF NotAfter, queueVars
  <2>6. NotAfter(activeFlush.job)'
    BY <1>3, <2>1, <2>4 DEF NotAfter, queueVars, CurrentJob
  <2> QED
    BY <1>3, <2>1, <2>2, <2>3, <2>4, <2>5, <2>6 DEF ChainOK
<1>4. CASE lastBatchCid' = lastBatchCid /\ lastBatchCid # NoCid
  <2>1. lastBatchCid \in recorded' /\ lastBatchCid[1] < nextJob'
    <3>1. lastBatchCid[1] \in Nat
      BY <1>4, JobNumbers DEF Types
    <3> QED
      BY <1>1, <1>4, <3>1 DEF ChainOK
  <2>2. ChainAhead'
    <3>1. CASE Elsewhere /\ ~QueueStep
      <4>1. flush' = flush
        BY <3>1, ElsewhereEffect
      <4>2. CASE \E job : EnqueueJob(job)
        BY <1>4, <4>1, <4>2, EnqueueChain
      <4>3. CASE UNCHANGED queueVars
        BY <1>4, <4>1, <4>3 DEF ChainOK, ChainAhead, NotAfter, CurrentRoot, CurrentJob,
           Q!In, queueVars
      <4>4. (\E job : EnqueueJob(job)) \/ UNCHANGED queueVars
        BY <3>1 DEF Elsewhere, OnResponse, CutBatch, RecoverEntry, AbandonedUploadEnds,
           ScanCarDir, vars, queueVars
      <4> QED
        BY <4>2, <4>3, <4>4
    <3>2. CASE QueueStep
      BY <1>4, <3>2, QueueStepChain
    <3>3. CASE Gives \/ PersistPruned
      BY <1>4, <3>3, GivesEffect, SettleChain DEF PersistPruned, Return
    <3>4. CASE Restart
      BY <3>4 DEF Restart, ChainAhead, Q!In
    <3>5. CASE LoadRegistry /\ flush' = flush
      BY <1>4, <3>5 DEF LoadRegistry, ChainOK, ChainAhead, NotAfter, CurrentRoot,
         CurrentJob, Q!In, queueVars
    <3>6. CASE /\ UNCHANGED queueVars
               /\ \/ flush'.at \in {"persisted", "cleaned", "pruned"}
                  \/ flush.at \notin {"persisted", "cleaned", "pruned"}
      BY <1>4, <3>6 DEF ChainOK, ChainAhead, NotAfter, CurrentRoot, CurrentJob,
         Q!In, queueVars
    <3>7. CASE BeginCar \/ FinishCar \/ UploadEnds \/ RecordBatch
      <4>1. flush.at \notin {"persisted", "cleaned", "pruned"}
        BY <3>7 DEF BeginCar, FinishCar, UploadEnds, RecordBatch, At
      <4>2. UNCHANGED queueVars
        BY <3>7 DEF BeginCar, FinishCar, UploadEnds, RecordBatch, Continue
      <4> QED
        BY <3>6, <4>1, <4>2
    <3> QED
      BY <3>1, <3>2, <3>3, <3>4, <3>5, <3>6, <3>7, FlushSteps
  <2> QED
    BY <1>4, <2>1, <2>2 DEF ChainOK, ChainAhead
<1> QED
  BY <1>2, <1>3, <1>4, ChainSteps DEF ChainOK

-----------------------------------------------------------------------------
(* Outcomes *)

\* A job is reported done only when there was nothing to flush or its batch is
\* recorded.
LEMMA SettledSteps ==
  ASSUME QP!IInv, Types, FlushOK, [Next]_vars
  PROVE  \/ settled' \in {settled, <<>>}
         \/ \E ok \in BOOLEAN :
              /\ settled' = Append(settled, [job |-> CurrentJob, ok |-> ok])
              /\ Q!In("executing")
              /\ ok => Current.conversations = <<>> \/ RecordedAs(CurrentJob) # {}
<1>1. CASE Q!ExecutorRejects
  BY <1>1 DEF Q!ExecutorRejects, Q!Retry, Q!DeadLetter, Q!NotifyComplete, CurrentJob
<1>2. CASE Q!ExecutorResolves
           /\ (Current.conversations = <<>> \/ RecordedAs(CurrentJob) # {})
  BY <1>2 DEF Q!ExecutorResolves, Q!NotifyComplete, CurrentJob
<1>3. CASE Gives
  BY <1>1, <1>2, <1>3, GivesEffect DEF FlushOK
<1>4. CASE PersistPruned
  BY <1>2, <1>4 DEF PersistPruned, Return, At, FlushOK
<1>5. CASE Elsewhere \/ LoadRegistry
  <2>1. \A job : EnqueueJob(job) => settled' = settled
    BY EnqueueEffect
  <2> QED
    BY <1>5, <2>1 DEF Elsewhere, LoadRegistry, OnResponse, CutBatch, RecoverEntry,
       AbandonedUploadEnds, ScanCarDir, QueueStep, vars, queueVars, Q!BackoffElapses,
       Q!Finally, Q!DrainCall, Q!DrainIdle, Q!DrainDeadline, Q!jobVars
<1>6. CASE Restart
  BY <1>6 DEF Restart
<1>7. CASE UNCHANGED queueVars
  BY <1>7 DEF queueVars
<1> QED
  BY <1>3, <1>4, <1>5, <1>6, <1>7, FlushSteps

LEMMA DoneKept ==
  ASSUME QP!IInv, Types, JobsOK, FlushOK, DoneOK, [Next]_vars
  PROVE  DoneOK'
<1>1. JobsStay /\ recorded \subseteq recorded'
  BY JobsStep, RecordedGrows
<1>2. settled \in Seq([job : Job, ok : BOOLEAN])
      /\ \A i \in DOMAIN settled : settled[i].job \in Job /\ settled[i].job < nextJob
  BY QueueFacts DEF Types
<1>3. ASSUME NEW j \in Job, j < nextJob,
             jobs[j].conversations # <<>> => RecordedAs(j) # {}
      PROVE  jobs'[j].conversations # <<>> => RecordedAs(j)' # {}
  BY <1>1, <1>3 DEF JobsStay, RecordedAs
<1>4. CASE settled' \in {settled, <<>>}
  BY <1>2, <1>3, <1>4 DEF DoneOK, RecordedAs
<1>5. ASSUME NEW ok \in BOOLEAN,
             settled' = Append(settled, [job |-> CurrentJob, ok |-> ok]),
             Q!In("executing"),
             ok => Current.conversations = <<>> \/ RecordedAs(CurrentJob) # {}
      PROVE  DoneOK'
  <2> DEFINE last == [job |-> CurrentJob, ok |-> ok]
  <2>1. CurrentJob \in Job /\ CurrentJob < nextJob
    BY <1>5, QueueFacts DEF Types
  <2>2. \A i \in DOMAIN settled' : \/ i \in DOMAIN settled /\ settled'[i] = settled[i]
                                   \/ settled'[i] = last
    BY <1>2, <1>5
  <2>3. last.job = CurrentJob /\ last.ok = ok
    OBVIOUS
  <2> HIDE DEF last
  <2>4. ASSUME NEW i \in DOMAIN settled', settled'[i].ok,
               jobs'[settled'[i].job].conversations # <<>>
        PROVE  \E r \in recorded' : r[1] = settled'[i].job
    <3>1. CASE i \in DOMAIN settled /\ settled'[i] = settled[i]
      BY <1>2, <1>3, <2>4, <3>1 DEF DoneOK, RecordedAs
    <3>2. CASE settled'[i] = last
      BY <1>3, <1>5, <2>1, <2>3, <2>4, <3>2 DEF RecordedAs, Current
    <3> QED
      BY <2>2, <3>1, <3>2
  <2> QED
    BY <2>4 DEF DoneOK, RecordedAs
<1> QED
  BY <1>4, <1>5, SettledSteps

-----------------------------------------------------------------------------
(* The theorems *)

LEMMA IInvInit == Init => IInv
<1> SUFFICES ASSUME Init PROVE IInv
  OBVIOUS
<1>1. QP!IInv
  BY QueueStarts DEF Init
<1>2. accepted = <<>> /\ settled = <<>> /\ activeFlush = NoFlush /\ queue = <<>>
  BY DEF Init, Q!Init
<1>3. EmptyJob \in FlushJob /\ Idle.at = "start"
      /\ Idle \in [at : Step, previous : RootCid \cup {NoCid},
                   filecoinCid : RootCid \cup {NoCid}, removed : Seq(BatchRecord)]
  BY DEF EmptyJob, FlushJob, Idle, Step
<1>4. registry.batches = <<>> /\ HasRecords(registry)
  <2>1. registry.batches = <<>> /\ registry.totalBatches = 0
        /\ {"batches", "totalBatches"} \subseteq DOMAIN registry
    BY DEF Init, R!FreshState
  <2> QED
    BY <2>1 DEF HasRecords
<1>5. Types
  BY <1>3, <1>4 DEF Init, Types
<1>6. JobsOK
  BY <1>2, JobNumbers DEF Init, JobsOK, Made
<1>7. RecordsOK /\ KeptOK
  BY <1>4 DEF Init, RecordsOK, KeptOK
<1>8. CarsOK
  BY JobNumbers DEF Init, CarsOK
<1>9. FlushOK /\ ChainOK /\ DoneOK
  BY <1>2, <1>3 DEF Init, FlushOK, ChainOK, DoneOK
<1> QED
  BY <1>1, <1>5, <1>6, <1>7, <1>8, <1>9 DEF IInv

LEMMA IInvStep == IInv /\ [Next]_vars => IInv'
<1> SUFFICES ASSUME IInv, [Next]_vars PROVE IInv'
  OBVIOUS
<1>1. /\ QP!IInv /\ Types /\ JobsOK /\ RecordsOK /\ KeptOK
      /\ CarsOK /\ FlushOK /\ ChainOK /\ DoneOK
  BY DEF IInv
<1>2. QP!IInv' /\ Types' /\ JobsOK'
  BY <1>1, QueueIInv, TypesKept, JobsStep
<1>3. RecordsOK' /\ KeptOK' /\ CarsOK'
  BY <1>1, RecordsKept, KeptKept, CarsKept
<1>4. FlushOK' /\ ChainOK' /\ DoneOK'
  BY <1>1, FlushKept, ChainKept, DoneKept
<1> QED
  BY <1>2, <1>3, <1>4 DEF IInv

LEMMA Inductive == Spec => []IInv
BY IInvInit, IInvStep, PTL DEF Spec

\* "Completed" is the truth: a batch whose job the queue reported done has been
\* in registry.json (upload.ts, flushBatch; flush-queue.ts, notifyComplete).
THEOREM CompletedCorrect == Spec => []CompletedMeansRecorded
<1>1. IInv => CompletedMeansRecorded
  BY DEF IInv, DoneOK, CompletedMeansRecorded, Outcome
<1> QED
  BY <1>1, Inductive, PTL

\* The provenance chain leads only to batches that reached registry.json, and
\* backwards, through every failed save, retry and restart (upload.ts, where
\* lastBatchCid is set).
THEOREM ChainCorrect == Spec => []ChainIsRecorded
<1>1. IInv => ChainIsRecorded
  BY DEF IInv, ChainOK, RecordsOK, Linked, ChainIsRecorded
<1> QED
  BY <1>1, Inductive, PTL

\* registry.json loses records only from its old end and only down to the limit:
\* no restart, early batch or failed save forgets the past, as long as the file
\* can be read (registry.ts, load, persist and prune).
THEOREM ForgetsCorrect == Spec => OnlyPruningForgets
<1>1. ASSUME IInv, Next, disk' # disk, ~RegistryReadErrors
      PROVE  PrunesOnly
  <2>1. PersistBatch \/ PersistPruned
    BY <1>1, DiskSteps
  <2>2. disk' = registry
    BY <1>1, <2>1, WriteEffect DEF IInv
  <2>3. startup # "loading"
    BY <1>1, <2>1 DEF IInv, FlushOK, PersistBatch, PersistPruned, At
  <2>4. PICK n \in 0 .. Len(RecordsOnDisk) :
          Continues(RecordsOnDisk, registry.batches, n)
    BY <1>1, <2>3 DEF IInv, KeptOK
  <2>5. RecordsOnDisk \in Seq(BatchRecord) /\ registry.batches \in Seq(BatchRecord)
    BY <1>1 DEF IInv, Types, HasRecords, RecordsOnDisk
  <2> DEFINE old  == RecordsOnDisk
             new  == registry.batches
             kept == SubSeq(old, n + 1, Len(old))
  <2> HIDE DEF old, new
  <2>6. Len(old) \in Nat /\ Len(new) \in Nat /\ n \in 0 .. Len(old)
        /\ old \in Seq(BatchRecord) /\ new \in Seq(BatchRecord)
    BY <2>5 DEF old, new
  <2>7. /\ Len(old) - n <= Len(new)
        /\ \A i \in 1 .. Len(old) - n : new[i] = old[n + i]
        /\ n > 0 => MaxRegistryBatches > 0 /\ Len(old) - n >= MaxRegistryBatches
    BY <2>4 DEF Continues, old, new
  <2>8. /\ kept \in Seq(BatchRecord) /\ Len(kept) = Len(old) - n
        /\ \A i \in 1 .. Len(old) - n : kept[i] = old[n + i]
    BY <2>6
  <2>9. IsPrefix(kept, new)
    <3> HIDE DEF kept
    <3>1. SubSeq(kept, 1, Len(kept)) = SubSeq(new, 1, Len(kept))
      BY <2>6, <2>7, <2>8
    <3> QED
      BY <2>7, <2>8, <3>1 DEF IsPrefix
  <2>10. n > 0 => MaxRegistryBatches > 0 /\ Len(kept) >= MaxRegistryBatches
    BY <2>7, <2>8
  <2> QED
    BY <2>2, <2>9, <2>10 DEF PrunesOnly, old, new
<1>2. IInv /\ [Next]_vars => [disk' # disk /\ ~RegistryReadErrors => PrunesOnly]_vars
  BY <1>1
<1> QED
  BY <1>2, Inductive, PTL DEF Spec, OnlyPruningForgets

\* No two batches share a directory, or pruning leaves the directories alone.
OwnDirectories ==
  \A s \in Settings :
    s.sameMillisecond => ~s.cleanupAfterUpload \/ s.maxRegistryBatches = 0

\* A complete CAR file is removed only when its batch has reached registry.json
\* (upload.ts, the two rm() calls), unless two batches cut in one millisecond
\* share the directory that pruning the first of them removes.
THEOREM CarsCorrect == OwnDirectories => (Spec => CarRemovedOnlyWhenRecorded)
<1> SUFFICES ASSUME OwnDirectories PROVE Spec => CarRemovedOnlyWhenRecorded
  OBVIOUS
<1>1. ASSUME IInv, Next, NEW t \in Timestamp, carFile[t] \in RootCid,
             carFile'[t] = NoFile
      PROVE  RecordedAs(carFile[t][1]) # {}
  <2>1. QP!IInv /\ Types /\ JobsOK /\ CarsOK /\ FlushOK
    BY <1>1 DEF IInv
  <2>2. carFile[t] # NoFile
    BY <1>1, JobNumbers
  <2>3. CASE BeginCar
    BY <1>1, <2>1, <2>2, <2>3, JobNumbers DEF BeginCar, Types
  <2>4. CASE FinishCar
    <3>1. CurrentRoot # NoFile
      BY <2>1, <2>4, CurrentFacts, JobNumbers DEF FinishCar, At
    <3> QED
      BY <1>1, <2>1, <2>2, <2>4, <3>1 DEF FinishCar, Types
  <2>5. CASE CleanUp
    <3>1. flush.at = "persisted" /\ t = Current.batchTimestamp
      BY <1>1, <2>1, <2>2, <2>5 DEF CleanUp, At, Types
    <3>2. carFile[t] = CurrentRoot /\ RecordedAs(CurrentJob) # {}
      BY <2>1, <3>1 DEF FlushOK
    <3> QED
      BY <3>2 DEF CurrentRoot
  <2>6. CASE PersistPruned
    <3>1. flush.at = "pruned" /\ CleanupAfterUpload
          /\ \E i \in DOMAIN flush.removed : flush.removed[i].batchId = t
      BY <1>1, <2>1, <2>2, <2>6 DEF PersistPruned, At, Types
    <3>2. PICK i \in DOMAIN flush.removed : flush.removed[i].batchId = t
      BY <3>1
    <3> DEFINE b == flush.removed[i]
    <3>3. Made(b.rootCid[1]) /\ t = jobs[b.rootCid[1]].batchTimestamp
          /\ b.rootCid \in recorded /\ MaxRegistryBatches # 0
      BY <2>1, <3>1, <3>2 DEF FlushOK, Sound, RecordIsTrue
    <3>4. Made(carFile[t][1]) /\ jobs[carFile[t][1]].batchTimestamp = t
      BY <1>1, <2>1 DEF CarsOK
    <3>5. ~SameMillisecond
      BY <2>1, <3>1, <3>3 DEF Types, OwnDirectories, SameMillisecond, CleanupAfterUpload,
         MaxRegistryBatches
    <3>6. b.rootCid[1] = carFile[t][1]
      BY <2>1, <3>3, <3>4, <3>5 DEF JobsOK, Made
    <3> QED
      BY <3>3, <3>6 DEF RecordedAs
  <2> QED
    BY <1>1, <2>2, <2>3, <2>4, <2>5, <2>6, CarSteps
<1>2. IInv /\ [Next]_vars
        => [\A t \in Timestamp : carFile[t] \in RootCid /\ carFile'[t] = NoFile
              => RecordedAs(carFile[t][1]) # {}]_vars
  BY <1>1
<1> QED
  BY <1>2, Inductive, PTL DEF Spec, CarRemovedOnlyWhenRecorded
-----------------------------------------------------------------------------
(***************************************************************************)
(* The conversations.  On top of IInv: those that are held have numbers    *)
(* below the next one, and a job that has not been made holds none, so     *)
(* that a batch that is cut goes where the buffer's place was.             *)
(***************************************************************************)

Numbered ==
  /\ \A p \in Place : \A i \in DOMAIN Held(p) : Held(p)[i] < nextConv
  /\ \A j \in Job : j >= nextJob => jobs[j].conversations = <<>>

Capture == Numbered /\ CapturedOnce

\* What the steps do to the conversations: one is captured, into the buffer or with
\* the buffer into a job; a job without any is made; the buffer is lost; nothing.
Captures(held, buffer) ==
  /\ nextConv <= MaxConversations /\ nextConv' = nextConv + 1
  /\ held = Append(batchBuffer, nextConv) /\ batchBuffer' = buffer

Makes(held) ==
  /\ nextJob \in Job /\ nextJob' = nextJob + 1
  /\ \E job \in FlushJob : jobs' = [jobs EXCEPT ![nextJob] = job] /\ job.conversations = held

Buffers == /\ Captures(batchBuffer', batchBuffer') /\ Len(batchBuffer) + 1 < BatchSize
           /\ UNCHANGED <<jobs, nextJob, lost>>
Cuts == \E held : /\ Captures(held, <<>>) /\ Makes(held) /\ Len(held) >= BatchSize
                  /\ lost' = lost
Recovers == Makes(<<>>) /\ UNCHANGED <<batchBuffer, nextConv, lost>>
Loses == /\ batchBuffer' = <<>> /\ UNCHANGED <<jobs, nextJob, nextConv>>
         /\ lost \cup {batchBuffer[i] : i \in DOMAIN batchBuffer} \subseteq lost'
Keeps == UNCHANGED <<jobs, nextJob, batchBuffer, nextConv, lost>>

LEMMA ConversationSteps ==
  ASSUME QP!IInv, Types, [Next]_vars
  PROVE  Buffers \/ Cuts \/ Recovers \/ Loses \/ Keeps
<1>0. batchBuffer \in Seq(Nat) /\ nextConv \in Nat
  BY DEF Types
<1>1. CASE OnResponse
  <2>1. nextConv <= MaxConversations /\ nextConv' = nextConv + 1 /\ lost' = lost
    BY <1>1 DEF OnResponse, ghostVars
  <2>2. BatchSize \in Nat /\ Len(Append(batchBuffer, nextConv)) = Len(batchBuffer) + 1
        /\ Len(batchBuffer) \in Nat
    BY <1>0, JobAssumption DEF Types, BatchSize
  <2>3. CASE Len(batchBuffer) + 1 >= BatchSize
    <3>1. PICK t \in (IF SameMillisecond /\ clock > 0 THEN clock ELSE clock + 1)
                       .. clock + 1 :
            /\ EnqueueJob([conversations  |-> Append(batchBuffer, nextConv),
                           batchTimestamp |-> t, recovery |-> FALSE])
            /\ batchBuffer' = <<>>
      BY <1>1, <2>3 DEF OnResponse, CutBatch
    <3> DEFINE job == [conversations  |-> Append(batchBuffer, nextConv),
                       batchTimestamp |-> t, recovery |-> FALSE]
    <3>2. nextJob \in Job /\ nextJob' = nextJob + 1 /\ jobs' = [jobs EXCEPT ![nextJob] = job]
      BY <3>1, EnqueueEffect
    <3>3. t \in Nat /\ Append(batchBuffer, nextConv) \in Seq(Nat)
      BY <1>0, <3>1 DEF Types
    <3>4. job \in FlushJob /\ job.conversations = Append(batchBuffer, nextConv)
      BY <3>3 DEF FlushJob
    <3>5. Makes(Append(batchBuffer, nextConv))
      BY <3>2, <3>4 DEF Makes
    <3>6. Cuts
      BY <2>1, <2>2, <2>3, <3>1, <3>5 DEF Cuts, Captures
    <3> QED
      BY <3>6
  <2>4. CASE ~ (Len(batchBuffer) + 1 >= BatchSize)
    <3>1. batchBuffer' = Append(batchBuffer, nextConv) /\ UNCHANGED <<jobs, nextJob>>
      BY <1>1, <2>4 DEF OnResponse
    <3>2. Len(batchBuffer) + 1 < BatchSize
      BY <2>2, <2>4
    <3> QED
      BY <2>1, <3>1, <3>2 DEF Buffers, Captures
  <2> QED
    BY <2>3, <2>4
<1>2. CASE RecoverEntry
  <2>1. PICK t \in scan :
          IF carFile[t] # NoFile
          THEN EnqueueJob([conversations |-> <<>>, batchTimestamp |-> t,
                           recovery |-> TRUE])
          ELSE UNCHANGED <<queueVars, jobs, nextJob>>
    BY <1>2 DEF RecoverEntry
  <2>2. UNCHANGED <<batchBuffer, nextConv, lost>>
    BY <1>2 DEF RecoverEntry, ghostVars
  <2>3. CASE carFile[t] # NoFile
    <3> DEFINE job == [conversations |-> <<>>, batchTimestamp |-> t, recovery |-> TRUE]
    <3>1. t \in Nat
      BY JobNumbers DEF Types
    <3>2. job \in FlushJob /\ job.conversations = <<>>
      BY <3>1 DEF FlushJob
    <3>3. nextJob \in Job /\ nextJob' = nextJob + 1 /\ jobs' = [jobs EXCEPT ![nextJob] = job]
      BY <2>1, <2>3, EnqueueEffect
    <3> QED
      BY <2>2, <3>2, <3>3 DEF Recovers, Makes
  <2>4. CASE carFile[t] = NoFile
    BY <2>1, <2>2, <2>4 DEF Keeps
  <2> QED
    BY <2>3, <2>4
<1>3. CASE FlushBatch \/ AbandonedUploadEnds
  BY <1>3 DEF FlushBatch, AbandonedUploadEnds, StaticVars, SkipEmpty, BeginCar,
     BuildFails, FinishCar, WriteFails, UploadEnds, UploadFails, UploadTimeout,
     RecordBatch, PersistFails, PersistBatch, CleanUp, NothingToPrune, PruneRegistry,
     PersistPruned, PersistPrunedFails, Keeps
<1>4. CASE QueueStep
  BY <1>4 DEF QueueStep, volatileVars, envVars, ghostVars, Keeps
<1>5. CASE LoadRegistry \/ ScanCarDir
  BY <1>5 DEF LoadRegistry, ScanCarDir, envVars, ghostVars, Keeps
<1>6. CASE Crash \/ Exit
  BY <1>6 DEF Crash, Exit, Restart, InMemoryOnly, Loses
<1>7. CASE UNCHANGED vars
  BY <1>7 DEF vars, volatileVars, envVars, ghostVars, Keeps
<1> QED
  BY <1>1, <1>2, <1>3, <1>4, <1>5, <1>6, <1>7 DEF Next

\* The places: jobs, and the buffer after all of them.
LEMMA PlaceFacts ==
  ASSUME Types
  PROVE  /\ \A j \in Job : j \in Place /\ j \in Nat /\ Held(j) = jobs[j].conversations
                            /\ Held(j) \in Seq(Nat)
         /\ Cardinality(Job) + 1 \in Place \ Job
         /\ Held(Cardinality(Job) + 1) = batchBuffer /\ batchBuffer \in Seq(Nat)
         /\ Place = Job \cup {Cardinality(Job) + 1} /\ Place \subseteq Nat
         /\ \A j \in Job : j < Cardinality(Job) + 1
         /\ \A p \in Place : Held(p) \in Seq(Nat)
<1>1. Cardinality(Job) \in Nat /\ Job = 1 .. Cardinality(Job)
  BY JobNumbers
<1>2. \A j \in Job : jobs[j].conversations \in Seq(Nat)
  BY DEF Types, FlushJob
<1>3. batchBuffer \in Seq(Nat)
  BY DEF Types
<1>4. /\ \A j \in Job : j \in Place /\ j \in Nat /\ j < Cardinality(Job) + 1
      /\ Cardinality(Job) + 1 \in Place \ Job
      /\ Place = Job \cup {Cardinality(Job) + 1} /\ Place \subseteq Nat
  BY <1>1 DEF Place
<1>5. Held(Cardinality(Job) + 1) = batchBuffer
  BY <1>4 DEF Held
<1>6. \A j \in Job : Held(j) = jobs[j].conversations
  BY DEF Held
<1> QED
  BY <1>2, <1>3, <1>4, <1>5, <1>6

LEMMA Appended ==
  ASSUME NEW s \in Seq(Nat), NEW e \in Nat
  PROVE  /\ \A i \in DOMAIN s : i \in DOMAIN Append(s, e) /\ Append(s, e)[i] = s[i]
         /\ Len(s) + 1 \in DOMAIN Append(s, e) /\ Append(s, e)[Len(s) + 1] = e
         /\ \A i, k \in DOMAIN Append(s, e) : i < k => i \in DOMAIN s
OBVIOUS

\* What is held at a place after the step.
HeldNext(p) == IF p \in Job THEN jobs'[p].conversations ELSE batchBuffer'

\* A job that is made holds what it is given; the others hold what they held.
LEMMA MakesEffect ==
  ASSUME Types, NEW held, Makes(held)
  PROVE  /\ \A p \in Place : p \in Job /\ p # nextJob => HeldNext(p) = Held(p)
         /\ HeldNext(nextJob) = held /\ nextJob \in Place
<1>1. PICK job \in FlushJob : jobs' = [jobs EXCEPT ![nextJob] = job]
                              /\ job.conversations = held
  BY DEF Makes
<1>2. nextJob \in Job /\ jobs \in [Job -> FlushJob]
  BY DEF Makes, Types
<1>3. jobs'[nextJob] = job /\ \A j \in Job : j # nextJob => jobs'[j] = jobs[j]
  BY <1>1, <1>2
<1>4. nextJob \in Place
  BY <1>2, PlaceFacts
<1> QED
  BY <1>1, <1>2, <1>3, <1>4 DEF Held, HeldNext

LEMMA NumberedNext ==
  ASSUME \A p \in Place : \A i \in DOMAIN HeldNext(p) : HeldNext(p)[i] < nextConv',
         \A j \in Job : j >= nextJob' => jobs'[j].conversations = <<>>
  PROVE  Numbered'
BY DEF Numbered, Held, HeldNext

\* The order of the places, of any two of them.
Ordered(p, q) ==
  \A i \in DOMAIN Held(p), k \in DOMAIN Held(q) :
    p < q \/ (p = q /\ i < k) => Held(p)[i] < Held(q)[k]

LEMMA NumberedKept ==
  ASSUME QP!IInv, Types, Types', Numbered, [Next]_vars
  PROVE  Numbered'
<1> DEFINE last == Cardinality(Job) + 1
<1>0. nextConv \in Nat /\ nextJob \in Nat /\ \A p \in Place : p \in Job \/ p = last
  BY PlaceFacts DEF Types
<1>1. /\ \A p \in Place : \A i \in DOMAIN Held(p) : Held(p)[i] \in Nat /\ Held(p)[i] < nextConv
      /\ \A j \in Job : j >= nextJob => jobs[j].conversations = <<>>
      /\ last \in Place \ Job /\ Held(last) = batchBuffer /\ HeldNext(last) = batchBuffer'
      /\ batchBuffer \in Seq(Nat) /\ \A j \in Job : j \in Place /\ j \in Nat
  <2>1. /\ last \in Place \ Job /\ Held(last) = batchBuffer /\ batchBuffer \in Seq(Nat)
        /\ \A j \in Job : j \in Place /\ j \in Nat
        /\ \A p \in Place : Held(p) \in Seq(Nat)
    BY PlaceFacts
  <2>2. HeldNext(last) = batchBuffer'
    BY <2>1 DEF HeldNext
  <2> QED
    BY <2>1, <2>2 DEF Numbered
<1>2. CASE Keeps \/ Loses
  <2>1. UNCHANGED <<jobs, nextJob, nextConv>> /\ batchBuffer' \in {batchBuffer, <<>>}
    BY <1>2 DEF Keeps, Loses
  <2>2. \A p \in Place : HeldNext(p) \in {Held(p), <<>>}
    BY <2>1 DEF Held, HeldNext
  <2>3. \A p \in Place : \A i \in DOMAIN HeldNext(p) : HeldNext(p)[i] < nextConv
    BY <1>1, <2>2
  <2> QED
    BY <1>1, <2>1, <2>3, NumberedNext
<1>3. CASE Buffers
  <2>1. /\ UNCHANGED <<jobs, nextJob>> /\ nextConv' = nextConv + 1
        /\ batchBuffer' = Append(batchBuffer, nextConv)
    BY <1>3 DEF Buffers, Captures
  <2>2. \A p \in Place : p \in Job => HeldNext(p) = Held(p)
    BY <2>1 DEF Held, HeldNext
  <2>3. \A i \in DOMAIN batchBuffer' : batchBuffer'[i] < nextConv'
    BY <1>0, <1>1, <2>1
  <2>4. \A p \in Place : \A i \in DOMAIN HeldNext(p) : HeldNext(p)[i] < nextConv'
    BY <1>0, <1>1, <2>1, <2>2, <2>3
  <2> QED
    BY <1>1, <2>1, <2>4, NumberedNext
<1>4. CASE Cuts \/ Recovers
  <2>1. PICK held : /\ Makes(held) /\ nextConv' >= nextConv /\ nextConv' \in Nat
                    /\ \A i \in DOMAIN held : held[i] < nextConv'
                    /\ batchBuffer' \in {batchBuffer, <<>>}
    <3>1. CASE Recovers
      BY <1>0, <3>1 DEF Recovers
    <3>2. CASE Cuts
      <4>1. PICK held : Captures(held, <<>>) /\ Makes(held)
        BY <3>2 DEF Cuts
      <4>2. nextConv' = nextConv + 1 /\ held = Append(batchBuffer, nextConv)
            /\ batchBuffer' = <<>>
        BY <4>1 DEF Captures
      <4>3. \A i \in DOMAIN held : held[i] < nextConv'
        BY <1>0, <1>1, <4>2
      <4>4. nextConv' >= nextConv /\ nextConv' \in Nat /\ batchBuffer' \in {batchBuffer, <<>>}
        BY <1>0, <4>2
      <4> QED
        BY <4>1, <4>3, <4>4
    <3> QED
      BY <1>4, <3>1, <3>2
  <2>2. /\ \A p \in Place : p \in Job /\ p # nextJob => HeldNext(p) = Held(p)
        /\ HeldNext(nextJob) = held /\ nextJob \in Job /\ nextJob' = nextJob + 1
    BY <2>1, MakesEffect DEF Makes
  <2>3. \A p \in Place : \A i \in DOMAIN HeldNext(p) : HeldNext(p)[i] < nextConv'
    <3> SUFFICES ASSUME NEW p \in Place, NEW i \in DOMAIN HeldNext(p)
                 PROVE  HeldNext(p)[i] < nextConv'
      OBVIOUS
    <3>1. CASE p = nextJob
      BY <2>1, <2>2, <3>1
    <3>2. CASE p = last
      BY <1>0, <1>1, <2>1, <3>2
    <3>3. CASE p \in Job /\ p # nextJob
      BY <1>0, <1>1, <2>1, <2>2, <3>3
    <3> QED
      BY <1>0, <3>1, <3>2, <3>3
  <2>4. \A j \in Job : j >= nextJob' => jobs'[j].conversations = <<>>
    <3>1. \A j \in Job : HeldNext(j) = jobs'[j].conversations /\ Held(j) = jobs[j].conversations
      BY DEF Held, HeldNext
    <3> QED
      BY <1>0, <1>1, <2>2, <3>1
  <2> QED
    BY <2>3, <2>4, NumberedNext
<1> QED
  BY <1>2, <1>3, <1>4, ConversationSteps

OrderedNext(p, q) ==
  \A i \in DOMAIN HeldNext(p), k \in DOMAIN HeldNext(q) :
    p < q \/ (p = q /\ i < k) => HeldNext(p)[i] < HeldNext(q)[k]

LEMMA OrderedKept ==
  ASSUME QP!IInv, Types, Types', Numbered, [Next]_vars,
         \A p, q \in Place : Ordered(p, q)
  PROVE  \A p, q \in Place : OrderedNext(p, q)
<1> DEFINE last == Cardinality(Job) + 1
<1>0. /\ nextConv \in Nat /\ nextJob \in Nat /\ \A p \in Place : p \in Job \/ p = last
      /\ \A j \in Job : j \in Place /\ j \in Nat /\ j < last
      /\ last \in Place \ Job /\ last \in Nat
      /\ Held(last) = batchBuffer /\ HeldNext(last) = batchBuffer'
      /\ \A p \in Place : Held(p) \in Seq(Nat) /\ p \in Nat
  <2>1. /\ \A p \in Place : p \in Job \/ p = last
        /\ \A j \in Job : j \in Place /\ j \in Nat /\ j < last
        /\ last \in Place \ Job /\ last \in Nat
        /\ Held(last) = batchBuffer
        /\ \A p \in Place : Held(p) \in Seq(Nat) /\ p \in Nat
    BY PlaceFacts
  <2>2. HeldNext(last) = batchBuffer'
    BY <2>1 DEF HeldNext
  <2> QED
    BY <2>1, <2>2 DEF Types
<1>1. /\ \A p \in Place : \A i \in DOMAIN Held(p) : Held(p)[i] < nextConv
      /\ \A j \in Job : j >= nextJob => Held(j) = <<>>
  BY PlaceFacts DEF Numbered
<1>2. CASE \A p \in Place : HeldNext(p) \in {Held(p), <<>>}
  BY <1>2 DEF Ordered, OrderedNext
<1>3. CASE Buffers
  <2>1. /\ \A p \in Place : p \in Job => HeldNext(p) = Held(p)
        /\ HeldNext(last) = Append(Held(last), nextConv)
    BY <1>0, <1>3 DEF Buffers, Captures, Held, HeldNext
  <2> SUFFICES ASSUME NEW p \in Place, NEW q \in Place,
                      NEW i \in DOMAIN HeldNext(p), NEW k \in DOMAIN HeldNext(q),
                      p < q \/ (p = q /\ i < k)
               PROVE  HeldNext(p)[i] < HeldNext(q)[k]
    BY DEF OrderedNext
  <2>2. CASE q \in Job
    <3>1. p \in Job
      BY <1>0, <2>2
    <3> QED
      BY <2>1, <2>2, <3>1 DEF Ordered
  <2>3. CASE q = last
    <3>1. HeldNext(q) = Append(Held(q), nextConv) /\ Held(q) \in Seq(Nat) /\ nextConv \in Nat
      BY <1>0, <2>1, <2>3
    <3>2. i \in DOMAIN Held(p) /\ HeldNext(p)[i] = Held(p)[i]
      <4>1. CASE p \in Job
        BY <2>1, <4>1
      <4>2. CASE p = q
        <5>1. i < k
          BY <1>0, <4>2
        <5> QED
          BY <3>1, <4>2, <5>1, Appended
      <4> QED
        BY <1>0, <2>3, <4>1, <4>2
    <3>3. CASE k \in DOMAIN Held(q)
      BY <3>1, <3>2, <3>3 DEF Ordered
    <3>4. CASE k \notin DOMAIN Held(q)
      <4>1. HeldNext(q)[k] = nextConv
        BY <3>1, <3>4
      <4> QED
        BY <1>1, <3>2, <4>1
    <3> QED
      BY <3>3, <3>4
  <2> QED
    BY <1>0, <2>2, <2>3
<1>4. CASE Cuts
  <2>1. PICK held : Captures(held, <<>>) /\ Makes(held)
    BY <1>4 DEF Cuts
  <2>2. /\ held = Append(Held(last), nextConv) /\ HeldNext(last) = <<>>
        /\ \A p \in Place : p \in Job /\ p # nextJob => HeldNext(p) = Held(p)
        /\ HeldNext(nextJob) = held /\ nextJob \in Job
    BY <1>0, <2>1, MakesEffect DEF Captures, Makes
  <2> SUFFICES ASSUME NEW p \in Place, NEW q \in Place,
                      NEW i \in DOMAIN HeldNext(p), NEW k \in DOMAIN HeldNext(q),
                      p < q \/ (p = q /\ i < k)
               PROVE  HeldNext(p)[i] < HeldNext(q)[k]
    BY DEF OrderedNext
  \* Nothing is held behind the job that is made.
  <2>3. p \in Job /\ q \in Job /\ p <= nextJob /\ q <= nextJob
    <3>1. \A r \in Place : r \in Job /\ r > nextJob => HeldNext(r) = <<>>
      BY <1>0, <1>1, <2>2
    <3>2. \A r \in Place : HeldNext(r) # <<>> => r \in Job /\ r <= nextJob
      BY <1>0, <2>2, <3>1
    <3>3. HeldNext(p) # <<>> /\ HeldNext(q) # <<>>
      OBVIOUS
    <3> QED
      BY <3>2, <3>3
  <2>4. CASE q # nextJob
    <3>1. p # nextJob
      BY <1>0, <2>3, <2>4
    <3> QED
      BY <2>2, <2>3, <2>4, <3>1 DEF Ordered
  <2>5. CASE q = nextJob
    <3>1. HeldNext(q) = Append(Held(last), nextConv) /\ Held(last) \in Seq(Nat)
      BY <1>0, <2>2, <2>5
    <3>2. \/ p # nextJob /\ HeldNext(p) = Held(p)
          \/ p = nextJob /\ i < k /\ i \in DOMAIN Held(last) /\ HeldNext(p)[i] = Held(last)[i]
      <4>1. CASE p # nextJob
        BY <2>2, <2>3, <4>1
      <4>2. CASE p = nextJob
        <5>1. i < k
          BY <1>0, <2>5, <4>2
        <5> QED
          BY <2>5, <3>1, <4>2, <5>1, <1>0, Appended
      <4> QED
        BY <4>1, <4>2
    <3>3. CASE k \in DOMAIN Held(last)
      <4>1. HeldNext(q)[k] = Held(last)[k]
        BY <1>0, <3>1, <3>3
      <4>2. p # nextJob => Held(p)[i] < Held(last)[k]
        BY <1>0, <2>3, <3>2, <3>3 DEF Ordered
      <4>3. p = nextJob => Held(last)[i] < Held(last)[k]
        BY <1>0, <3>2, <3>3 DEF Ordered
      <4> QED
        BY <3>2, <4>1, <4>2, <4>3
    <3>4. CASE k \notin DOMAIN Held(last)
      <4>1. HeldNext(q)[k] = nextConv
        BY <1>0, <3>1, <3>4
      <4> QED
        BY <1>0, <1>1, <3>2, <4>1
    <3> QED
      BY <3>3, <3>4
  <2> QED
    BY <2>4, <2>5
<1>5. CASE Keeps \/ Loses \/ Recovers
  <2>1. CASE Recovers
    <3>1. /\ \A p \in Place : p \in Job /\ p # nextJob => HeldNext(p) = Held(p)
          /\ HeldNext(nextJob) = <<>> /\ batchBuffer' = batchBuffer
      BY <2>1, MakesEffect DEF Recovers
    <3> QED
      BY <1>0, <1>2, <3>1
  <2>2. CASE Keeps \/ Loses
    BY <1>2, <2>2 DEF Keeps, Loses, Held, HeldNext
  <2> QED
    BY <1>5, <2>1, <2>2
<1> QED
  BY <1>3, <1>4, <1>5, ConversationSteps

\* A conversation is lost or in its place.
Kept(c) == c \in lost \/ \E p \in Place : \E i \in DOMAIN Held(p) : Held(p)[i] = c
KeptNext(c) ==
  c \in lost' \/ \E p \in Place : \E i \in DOMAIN HeldNext(p) : HeldNext(p)[i] = c

LEMMA KeptAll ==
  ASSUME QP!IInv, Types, Numbered, \A c \in 1 .. nextConv - 1 : Kept(c), [Next]_vars
  PROVE  \A c \in 1 .. nextConv' - 1 : KeptNext(c)
<1> DEFINE last == Cardinality(Job) + 1
<1>0. /\ nextConv \in Nat /\ \A p \in Place : p \in Job \/ p = last
      /\ last \in Place \ Job /\ Held(last) = batchBuffer /\ HeldNext(last) = batchBuffer'
      /\ batchBuffer \in Seq(Nat) /\ \A j \in Job : j \in Place
  <2>1. /\ \A p \in Place : p \in Job \/ p = last
        /\ last \in Place \ Job /\ Held(last) = batchBuffer /\ batchBuffer \in Seq(Nat)
        /\ \A j \in Job : j \in Place
    BY PlaceFacts
  <2> QED
    BY <2>1 DEF Types, HeldNext
\* What is held stays where it is, or goes from the buffer to the job that is made.
<1>1. CASE Buffers \/ Keeps
  <2>1. /\ lost' = lost /\ \A j \in Job : HeldNext(j) = Held(j)
        /\ \/ nextConv' = nextConv /\ batchBuffer' = batchBuffer
           \/ nextConv' = nextConv + 1 /\ batchBuffer' = Append(batchBuffer, nextConv)
    BY <1>1 DEF Buffers, Captures, Keeps, Held, HeldNext
  <2>2. \A p \in Place : \A i \in DOMAIN Held(p) :
          i \in DOMAIN HeldNext(p) /\ HeldNext(p)[i] = Held(p)[i]
    <3>1. \A i \in DOMAIN batchBuffer : i \in DOMAIN batchBuffer' /\ batchBuffer'[i] = batchBuffer[i]
      BY <1>0, <2>1, Appended
    <3> QED
      BY <1>0, <2>1, <3>1
  <2>3. \A c : Kept(c) => KeptNext(c)
    BY <2>1, <2>2 DEF Kept, KeptNext
  <2>4. nextConv' = nextConv + 1 => KeptNext(nextConv)
    <3> SUFFICES ASSUME nextConv' = nextConv + 1 PROVE KeptNext(nextConv)
      OBVIOUS
    <3>1. batchBuffer' = Append(batchBuffer, nextConv)
      BY <1>0, <2>1
    <3>2. Len(batchBuffer) + 1 \in DOMAIN batchBuffer' /\ batchBuffer'[Len(batchBuffer) + 1] = nextConv
      BY <1>0, <3>1, Appended
    <3> QED
      BY <1>0, <3>2 DEF KeptNext
  <2> QED
    BY <1>0, <2>1, <2>3, <2>4
<1>2. CASE Cuts \/ Recovers
  <2>1. PICK held : Makes(held) /\ lost' = lost
                    /\ \/ Captures(held, <<>>)
                       \/ held = <<>> /\ UNCHANGED <<batchBuffer, nextConv>>
    BY <1>2 DEF Cuts, Recovers
  <2>2. /\ \A p \in Place : p \in Job /\ p # nextJob => HeldNext(p) = Held(p)
        /\ HeldNext(nextJob) = held /\ nextJob \in Place /\ nextJob \in Job
        /\ Held(nextJob) = <<>>
    <3>1. Held(nextJob) = <<>>
      BY <2>1 DEF Makes, Numbered, Held, Types
    <3> QED
      BY <2>1, <3>1, MakesEffect DEF Makes
  <2>3. CASE held = <<>> /\ UNCHANGED <<batchBuffer, nextConv>>
    <3>1. \A p \in Place : HeldNext(p) = Held(p)
      BY <1>0, <2>2, <2>3
    <3> QED
      BY <2>1, <2>3, <3>1 DEF Kept, KeptNext
  <2>4. CASE Captures(held, <<>>)
    <3>1. held = Append(batchBuffer, nextConv) /\ nextConv' = nextConv + 1
      BY <2>4 DEF Captures
    <3>2. /\ \A i \in DOMAIN batchBuffer : i \in DOMAIN held /\ held[i] = batchBuffer[i]
          /\ Len(batchBuffer) + 1 \in DOMAIN held /\ held[Len(batchBuffer) + 1] = nextConv
      BY <1>0, <3>1
    <3>3. ASSUME NEW c, NEW p \in Place, NEW i \in DOMAIN Held(p), Held(p)[i] = c
          PROVE  KeptNext(c)
      <4>1. CASE p = last
        BY <1>0, <2>2, <3>2, <3>3, <4>1 DEF KeptNext
      <4>2. CASE p \in Job
        <5>1. p # nextJob
          BY <2>2, <3>3
        <5> QED
          BY <2>2, <3>3, <4>2, <5>1 DEF KeptNext
      <4> QED
        BY <1>0, <4>1, <4>2
    <3>4. \A c : Kept(c) => KeptNext(c)
      BY <2>1, <3>3 DEF Kept, KeptNext
    <3>5. KeptNext(nextConv)
      BY <2>2, <3>2 DEF KeptNext
    <3> QED
      BY <1>0, <3>1, <3>4, <3>5
  <2> QED
    BY <2>1, <2>3, <2>4
<1>3. CASE Loses
  <2>1. /\ nextConv' = nextConv /\ lost \subseteq lost'
        /\ \A i \in DOMAIN batchBuffer : batchBuffer[i] \in lost'
        /\ \A j \in Job : HeldNext(j) = Held(j)
    BY <1>3 DEF Loses, Held, HeldNext
  <2>2. ASSUME NEW c, Kept(c) PROVE KeptNext(c)
    <3>1. CASE c \in lost
      BY <2>1, <3>1 DEF KeptNext
    <3>2. ASSUME NEW p \in Place, NEW i \in DOMAIN Held(p), Held(p)[i] = c
          PROVE  KeptNext(c)
      BY <1>0, <2>1, <3>2 DEF KeptNext
    <3> QED
      BY <2>2, <3>1, <3>2 DEF Kept
  <2> QED
    BY <2>1, <2>2
<1> QED
  BY <1>1, <1>2, <1>3, ConversationSteps

LEMMA CapturedMeaning ==
  /\ CapturedOnce <=> /\ \A p, q \in Place : Ordered(p, q)
                      /\ \A c \in 1 .. nextConv - 1 : Kept(c)
  /\ CapturedOnce' <=> /\ \A p, q \in Place : OrderedNext(p, q)
                       /\ \A c \in 1 .. nextConv' - 1 : KeptNext(c)
BY DEF CapturedOnce, Ordered, OrderedNext, Kept, KeptNext, Held, HeldNext

LEMMA CaptureStep == IInv /\ IInv' /\ Capture /\ [Next]_vars => Capture'
<1> SUFFICES ASSUME IInv, IInv', Capture, [Next]_vars PROVE Capture'
  OBVIOUS
<1>1. QP!IInv /\ Types /\ Types' /\ Numbered /\ CapturedOnce
  BY DEF IInv, Capture
<1>2. /\ \A p, q \in Place : Ordered(p, q)
      /\ \A c \in 1 .. nextConv - 1 : Kept(c)
  BY <1>1, CapturedMeaning
<1>3. Numbered'
  BY <1>1, NumberedKept
<1>4. \A p, q \in Place : OrderedNext(p, q)
  BY <1>1, <1>2, OrderedKept
<1>5. \A c \in 1 .. nextConv' - 1 : KeptNext(c)
  BY <1>1, <1>2, KeptAll
<1>6. CapturedOnce'
  BY <1>4, <1>5, CapturedMeaning
<1> QED
  BY <1>3, <1>6 DEF Capture

LEMMA CaptureInit == Init => Capture
<1>1. Init => /\ \A j \in Job : jobs[j].conversations = <<>>
              /\ batchBuffer = <<>> /\ nextConv = 1
  BY DEF Init, EmptyJob
<1>2. Init => \A p \in Place : Held(p) = <<>>
  BY <1>1 DEF Held
<1>3. Init => Numbered
  BY <1>1, <1>2 DEF Numbered
<1>4. Init => CapturedOnce
  BY <1>1, <1>2 DEF CapturedOnce
<1> QED
  BY <1>3, <1>4 DEF Capture

\* Every captured conversation is in the buffer or in one batch, in the order of
\* capture, or died with the process: requests end around the splice of the buffer,
\* recovery jobs and restarts in any order (upload.ts, onResponse).
THEOREM CapturedCorrect == Spec => []CapturedOnce
<1>1. Capture => CapturedOnce
  BY DEF Capture
<1> QED
  BY <1>1, CaptureInit, CaptureStep, Inductive, PTL DEF Spec

-----------------------------------------------------------------------------
(***************************************************************************)
(* The totals and the types.  On top of IInv: no batch is larger than      *)
(* BatchSize, and a registry counts what its records hold.                 *)
(***************************************************************************)

Clean(state) == state \in RegistryState /\ R!TotalsMatch(state)

Sized ==
  /\ nextConv \in 1 .. MaxConversations + 1 /\ nextJob <= Cardinality(Job) + 1
  /\ batchBuffer \in Seq(1 .. MaxConversations) /\ Len(batchBuffer) < BatchSize
  /\ \A j \in Job : Len(jobs[j].conversations) <= BatchSize
  /\ flush.removed \in Seq(Record) /\ uploads \subseteq RootCid
  /\ Clean(registry) /\ (disk # NoFile => Clean(disk))

LEMMA Interval ==
  ASSUME NEW n \in Nat
  PROVE  IsFiniteSet(1 .. n) /\ Cardinality(1 .. n) = n
<1>1. 1 \in Int /\ n \in Int
  OBVIOUS
<1>2. IsFiniteSet(1 .. n) /\ Cardinality(1 .. n) = IF 1 > n THEN 0 ELSE n - 1 + 1
  BY <1>1, FS_Interval
<1> QED
  BY <1>2

LEMMA SameCardinality == \A S : R!Cardinality(S) = Cardinality(S)
BY DEF R!Cardinality, Cardinality

\* Records are finitely many, and so are the conversations they count.
LEMMA CountsFinite ==
  ASSUME NEW s, s \in Seq(Record), BatchSize \in Nat
  PROVE  IsFiniteSet(UNION {R!Counts(s, i) : i \in DOMAIN s})
<1> DEFINE Of(i) == R!Counts(s, i)
           all   == {Of(i) : i \in DOMAIN s}
           f     == [i \in DOMAIN s |-> Of(i)]
<1>1. Len(s) \in Nat /\ DOMAIN s = 1 .. Len(s) /\ IsFiniteSet(DOMAIN s)
  BY Interval
<1>2. f \in Surjection(DOMAIN s, all)
  BY DEF Surjection
<1>3. IsFiniteSet(all)
  <2> HIDE DEF f, all
  <2> QED
    BY <1>1, <1>2, FS_Surjection
<1>4. ASSUME NEW i \in DOMAIN s PROVE IsFiniteSet(Of(i))
  <2>1. s[i].conversationCount \in 1 .. BatchSize
    <3>1. s[i] \in Record
      OBVIOUS
    <3> QED
      BY <3>1 DEF Record
  <2>2. IsFiniteSet(1 .. s[i].conversationCount)
    BY <2>1, Interval
  <2>3. IsFiniteSet({i})
    BY FS_Singleton
  <2> QED
    BY <2>2, <2>3, FS_Product DEF R!Counts
<1>5. \A T \in all : IsFiniteSet(T)
  BY <1>4
<1> HIDE DEF all
<1>6. IsFiniteSet(UNION all)
  BY <1>3, <1>5, FS_UNION
<1> QED
  BY <1>6 DEF all

LEMMA SumType ==
  ASSUME NEW s, s \in Seq(Record), BatchSize \in Nat
  PROVE  R!SumConversations(s) \in Nat
BY CountsFinite, FS_CardinalityType, SameCardinality DEF R!SumConversations

LEMMA SumEmpty == R!SumConversations(<<>>) = 0
<1>1. UNION {R!Counts(<<>>, i) : i \in DOMAIN <<>>} = {}
  OBVIOUS
<1> QED
  BY <1>1, FS_EmptySet, SameCardinality DEF R!SumConversations

\* push() and += agree with reduce().
LEMMA SumAppend ==
  ASSUME NEW s, s \in Seq(Record), NEW b \in Record, BatchSize \in Nat
  PROVE  R!SumConversations(Append(s, b)) = R!SumConversations(s) + b.conversationCount
<1> DEFINE t   == Append(s, b)
           n   == Len(s) + 1
           old == UNION {R!Counts(s, i) : i \in DOMAIN s}
           new == {n} \X (1 .. b.conversationCount)
<1>1. /\ t \in Seq(Record) /\ DOMAIN t = DOMAIN s \cup {n} /\ n \notin DOMAIN s
      /\ t[n] = b /\ \A i \in DOMAIN s : t[i] = s[i]
  OBVIOUS
<1>2. R!Counts(t, n) = new /\ \A i \in DOMAIN s : R!Counts(t, i) = R!Counts(s, i)
  BY <1>1 DEF R!Counts
<1>3. UNION {R!Counts(t, i) : i \in DOMAIN t} = old \cup new
  BY <1>1, <1>2
<1>4. old \cap new = {}
  <2>1. \A p \in old : p[1] \in DOMAIN s
    BY DEF R!Counts
  <2>2. \A p \in new : p[1] = n
    OBVIOUS
  <2> QED
    BY <1>1, <2>1, <2>2
<1>5. IsFiniteSet(old)
  BY CountsFinite
<1>6. IsFiniteSet(new) /\ Cardinality(new) = b.conversationCount
  <2>1. b.conversationCount \in Nat
    BY DEF Record
  <2>2. /\ IsFiniteSet(1 .. b.conversationCount)
        /\ Cardinality(1 .. b.conversationCount) = b.conversationCount
    BY <2>1, Interval
  <2>3. IsFiniteSet({n}) /\ Cardinality({n}) = 1
    BY FS_Singleton
  <2>4. /\ IsFiniteSet(new)
        /\ Cardinality(new) = Cardinality({n}) * Cardinality(1 .. b.conversationCount)
    BY <2>2, <2>3, FS_Product, Zenon
  <2> QED
    BY <2>1, <2>2, <2>3, <2>4
<1> HIDE DEF old, new
<1>7. Cardinality(old \cup new) = Cardinality(old) + b.conversationCount
  <2>1. Cardinality(old) \in Nat /\ b.conversationCount \in Nat
    BY <1>5, FS_CardinalityType DEF Record
  <2>2. Cardinality(old \cup new) = Cardinality(old) + Cardinality(new) - 0
    BY <1>4, <1>5, <1>6, FS_Union, FS_EmptySet
  <2> QED
    BY <1>6, <2>1, <2>2
<1> QED
  BY <1>3, <1>7, SameCardinality DEF R!SumConversations, old

LEMMA CleanFresh == Clean(R!FreshState)
BY SumEmpty DEF Clean, R!FreshState, RegistryState, R!TotalsMatch

LEMMA CleanAdd ==
  ASSUME NEW state, Clean(state), NEW b \in Record, BatchSize \in Nat
  PROVE  Clean(R!AddBatch(state, b))
<1> DEFINE new == [totalBatches       |-> state.totalBatches + 1,
                   totalConversations |-> state.totalConversations + b.conversationCount,
                   batches            |-> Append(state.batches, b),
                   lastBatchCid       |-> b.rootCid]
<1>1. R!AddBatch(state, b) = new
  BY DEF R!AddBatch
<1>2. /\ state.batches \in Seq(Record) /\ state.totalBatches = Len(state.batches)
      /\ state.totalConversations = R!SumConversations(state.batches)
      /\ state.totalBatches \in Nat /\ state.totalConversations \in Nat
  BY DEF Clean, RegistryState, R!TotalsMatch
<1>3. b.conversationCount \in Nat /\ b.rootCid \in RootCid
  BY DEF Record
<1>4. Append(state.batches, b) \in Seq(Record)
      /\ Len(Append(state.batches, b)) = Len(state.batches) + 1
  BY <1>2
<1>5. new \in RegistryState
  BY <1>2, <1>3, <1>4 DEF RegistryState
<1>6. R!TotalsMatch(new)
  BY <1>2, <1>4, SumAppend DEF R!TotalsMatch
<1> QED
  BY <1>1, <1>5, <1>6 DEF Clean

LEMMA CleanPrune ==
  ASSUME NEW state, Clean(state), NEW max \in Nat, BatchSize \in Nat
  PROVE  Clean(R!Prune(state, max)) /\ R!Removed(state, max) \in Seq(Record)
<1> DEFINE n    == R!RemoveCount(state, max)
           kept == SubSeq(state.batches, n + 1, Len(state.batches))
<1>1. state \in RegistryState /\ state.batches \in Seq(Record)
  BY DEF Clean, RegistryState
<1>2. n \in 0 .. Len(state.batches)
  BY <1>1 DEF R!RemoveCount
<1> HIDE DEF n
<1>3. kept \in Seq(Record) /\ Len(kept) \in Nat
      /\ SubSeq(state.batches, 1, n) \in Seq(Record)
  BY <1>1, <1>2
<1> HIDE DEF kept
<1> DEFINE new == [state EXCEPT !.batches            = kept,
                                !.totalBatches       = Len(kept),
                                !.totalConversations = R!SumConversations(kept)]
<1>4. R!SumConversations(kept) \in Nat
  BY <1>3, SumType
<1>5. new = [totalBatches       |-> Len(kept),
             totalConversations |-> R!SumConversations(kept),
             batches            |-> kept,
             lastBatchCid       |-> state.lastBatchCid]
  <2>1. PICK tb, tc, bs, last :
          state = [totalBatches |-> tb, totalConversations |-> tc,
                   batches |-> bs, lastBatchCid |-> last]
    BY <1>1 DEF RegistryState
  <2> DEFINE d1 == [state EXCEPT !.batches = kept]
             d2 == [d1 EXCEPT !.totalBatches = Len(kept)]
             d3 == [d2 EXCEPT !.totalConversations = R!SumConversations(kept)]
  <2>2. d1 = [totalBatches |-> tb, totalConversations |-> tc,
              batches |-> kept, lastBatchCid |-> last]
    BY <2>1
  <2> HIDE DEF d1
  <2>3. d2 = [totalBatches |-> Len(kept), totalConversations |-> tc,
              batches |-> kept, lastBatchCid |-> last]
    BY <2>2
  <2> HIDE DEF d2
  <2>4. d3 = [totalBatches |-> Len(kept), totalConversations |-> R!SumConversations(kept),
              batches |-> kept, lastBatchCid |-> last]
    BY <2>3
  <2>5. new = d3 /\ state.lastBatchCid = last
    BY <2>1 DEF d1, d2
  <2> QED
    BY <2>4, <2>5
<1>6. new \in RegistryState /\ R!TotalsMatch(new)
  BY <1>1, <1>3, <1>4, <1>5 DEF RegistryState, R!TotalsMatch
<1>7. R!Prune(state, max) = IF n = 0 THEN state ELSE new
  BY Zenon DEF R!Prune, n, kept
<1> HIDE DEF new
<1>8. R!Removed(state, max) = SubSeq(state.batches, 1, n)
  BY DEF R!Removed, n
<1> QED
  BY <1>3, <1>6, <1>7, <1>8 DEF Clean

LEMMA SizeTypes ==
  ASSUME Types
  PROVE  BatchSize \in Nat \ {0} /\ MaxConversations \in Nat /\ MaxRegistryBatches \in Nat
BY JobAssumption DEF Types, BatchSize, MaxConversations, MaxRegistryBatches

\* The settings stay, and with them what a record may be.
LEMMA SizesStay ==
  ASSUME settings' = settings
  PROVE  /\ BatchSize' = BatchSize /\ MaxConversations' = MaxConversations
         /\ Record' = Record /\ RegistryState' = RegistryState
<1>1. BatchSize' = BatchSize /\ MaxConversations' = MaxConversations
  BY DEF BatchSize, MaxConversations
<1>2. Record' = Record
  BY <1>1 DEF Record
<1> QED
  BY <1>1, <1>2 DEF RegistryState

LEMMA BufferSized ==
  ASSUME QP!IInv, Types, Numbered, Sized, [Next]_vars
  PROVE  /\ nextConv' \in 1 .. MaxConversations + 1 /\ nextJob' <= Cardinality(Job) + 1
         /\ batchBuffer' \in Seq(1 .. MaxConversations) /\ Len(batchBuffer') < BatchSize
         /\ \A j \in Job : Len(jobs'[j].conversations) <= BatchSize
<1>1. /\ nextConv \in 1 .. MaxConversations + 1 /\ nextJob <= Cardinality(Job) + 1
      /\ batchBuffer \in Seq(1 .. MaxConversations) /\ Len(batchBuffer) < BatchSize
      /\ \A j \in Job : Len(jobs[j].conversations) <= BatchSize
      /\ BatchSize \in Nat \ {0} /\ MaxConversations \in Nat
  BY SizeTypes DEF Sized
<1>2. <<>> \in Seq(1 .. MaxConversations) /\ Len(<<>>) = 0
  OBVIOUS
<1>3. ASSUME NEW held, Makes(held), Len(held) <= BatchSize
      PROVE  /\ nextJob' <= Cardinality(Job) + 1
             /\ \A j \in Job : Len(jobs'[j].conversations) <= BatchSize
  <2>1. PICK job \in FlushJob :
          jobs' = [jobs EXCEPT ![nextJob] = job] /\ job.conversations = held
    BY <1>3 DEF Makes
  <2>2. nextJob' = nextJob + 1 /\ nextJob \in 1 .. Cardinality(Job) /\ Cardinality(Job) \in Nat
    BY <1>3, JobNumbers DEF Makes
  <2>3. \A j \in Job : jobs'[j].conversations \in {jobs[j].conversations, held}
    BY <2>1 DEF Types
  <2>4. \A j \in Job : Len(jobs'[j].conversations) <= BatchSize
    BY <1>1, <1>3, <2>3
  <2> QED
    BY <2>2, <2>4
<1>4. ASSUME nextConv <= MaxConversations
      PROVE  /\ Append(batchBuffer, nextConv) \in Seq(1 .. MaxConversations)
             /\ Len(Append(batchBuffer, nextConv)) = Len(batchBuffer) + 1
             /\ nextConv + 1 \in 1 .. MaxConversations + 1
  <2>1. nextConv \in 1 .. MaxConversations
    BY <1>1, <1>4
  <2> QED
    BY <1>1, <2>1
<1>5. CASE Buffers
  BY <1>1, <1>4, <1>5 DEF Buffers, Captures
<1>6. CASE Cuts
  <2>1. PICK held : Captures(held, <<>>) /\ Makes(held)
    BY <1>6 DEF Cuts
  <2>2. /\ nextConv <= MaxConversations /\ nextConv' = nextConv + 1
        /\ held = Append(batchBuffer, nextConv) /\ batchBuffer' = <<>>
    BY <2>1 DEF Captures
  <2>3. Len(held) <= BatchSize
    BY <1>1, <1>4, <2>2
  <2>4. /\ nextJob' <= Cardinality(Job) + 1
        /\ \A j \in Job : Len(jobs'[j].conversations) <= BatchSize
    BY <1>3, <2>1, <2>3
  <2>5. nextConv' \in 1 .. MaxConversations + 1
    BY <1>4, <2>2
  <2>6. batchBuffer' \in Seq(1 .. MaxConversations) /\ Len(batchBuffer') < BatchSize
    BY <1>1, <1>2, <2>2
  <2> QED
    BY <2>4, <2>5, <2>6
<1>7. CASE Recovers
  BY <1>1, <1>2, <1>3, <1>7 DEF Recovers
<1>8. CASE Loses
  BY <1>1, <1>2, <1>8 DEF Loses
<1>9. CASE Keeps
  BY <1>1, <1>9 DEF Keeps
<1> QED
  BY <1>5, <1>6, <1>7, <1>8, <1>9, ConversationSteps

LEMMA RegistryClean ==
  ASSUME IInv, Sized, [Next]_vars
  PROVE  Clean(registry') /\ (disk' # NoFile => Clean(disk'))
<1>1. /\ QP!IInv /\ Types /\ JobsOK /\ FlushOK /\ ChainOK
      /\ Clean(registry) /\ (disk # NoFile => Clean(disk))
      /\ BatchSize \in Nat /\ MaxRegistryBatches \in Nat
  BY SizeTypes DEF IInv, Sized
<1>2. ASSUME RecordBatch PROVE Clean(registry')
  <2>1. /\ registry' = R!AddBatch(registry, NewRecord)
        /\ NewRecord \in BatchRecord /\ Sound(NewRecord)
    BY <1>1, <1>2, RecordBatchEffect
  <2>2. NewRecord.conversationCount \in 1 .. BatchSize
    <3>1. /\ NewRecord.rootCid[1] \in Job
          /\ NewRecord.conversationCount = Len(jobs[NewRecord.rootCid[1]].conversations)
          /\ jobs[NewRecord.rootCid[1]].conversations # <<>>
      BY <2>1 DEF Sound, Made, RecordIsTrue
    <3>2. jobs[NewRecord.rootCid[1]].conversations \in Seq(Nat)
      BY <1>1, <3>1 DEF Types, FlushJob
    <3>3. Len(jobs[NewRecord.rootCid[1]].conversations) <= BatchSize
      BY <3>1 DEF Sized
    <3> QED
      BY <1>1, <3>1, <3>2, <3>3
  <2>3. NewRecord \in Record
    BY <2>1, <2>2 DEF BatchRecord, Record
  <2> QED
    BY <1>1, <2>1, <2>3, CleanAdd
<1>3. ASSUME PruneRegistry PROVE Clean(registry')
  BY <1>1, <1>3, CleanPrune DEF PruneRegistry
<1>4. ASSUME LoadRegistry PROVE Clean(registry')
  BY <1>1, <1>4, CleanFresh DEF LoadRegistry
<1>5. ASSUME Restart PROVE Clean(registry')
  BY <1>5, CleanFresh DEF Restart
<1>6. Clean(registry')
  BY <1>1, <1>2, <1>3, <1>4, <1>5, RegistrySteps
<1>7. disk' # NoFile => Clean(disk')
  BY <1>1, DiskSteps, WriteEffect
<1> QED
  BY <1>6, <1>7

LEMMA SizedStep == IInv /\ IInv' /\ Capture /\ Sized /\ [Next]_vars => Sized'
<1> SUFFICES ASSUME IInv, IInv', Capture, Sized, [Next]_vars PROVE Sized'
  OBVIOUS
<1>1. /\ QP!IInv /\ Types /\ JobsOK /\ FlushOK /\ ChainOK /\ Numbered
  BY DEF IInv, Capture
<1>2. settings' = settings
  BY <1>1, JobsStep DEF JobsStay
<1>3. flush'.removed \in Seq(Record)
  <2>1. CASE flush' = Idle
    BY <2>1 DEF Idle
  <2>2. CASE PruneRegistry /\ flush'.removed = R!Removed(registry, MaxRegistryBatches)
    BY <2>2, CleanPrune, SizeTypes, <1>1 DEF Sized
  <2>3. CASE UploadEnds \/ BeginCar
    BY <1>1, <2>3 DEF UploadEnds, BeginCar, Sized, Types
  <2>4. CASE FinishCar \/ RecordBatch \/ PersistBatch \/ CleanUp
    BY <1>1, <2>4 DEF FinishCar, RecordBatch, PersistBatch, CleanUp, Continue, Sized, Types
  <2>5. CASE flush' = flush
    BY <2>5 DEF Sized
  <2> QED
    BY <1>1, <2>1, <2>2, <2>3, <2>4, <2>5, FlushSteps
<1>4. uploads' \subseteq RootCid
  <2>1. FinishCar => CurrentRoot \in RootCid
    BY <1>1, CurrentFacts DEF FinishCar, At
  <2>2. FinishCar \/ uploads' \subseteq uploads
    BY DEF Next, FlushBatch, SkipEmpty, BeginCar, BuildFails, WriteFails, UploadEnds,
       UploadFails, UploadTimeout, RecordBatch, PersistFails, PersistBatch, CleanUp,
       NothingToPrune, PruneRegistry, PersistPruned, PersistPrunedFails,
       AbandonedUploadEnds, OnResponse, QueueStep, LoadRegistry, ScanCarDir, RecoverEntry,
       Crash, Exit, Restart, vars, volatileVars
  <2> QED
    BY <2>1, <2>2 DEF FinishCar, Sized
<1>5. /\ nextConv' \in 1 .. MaxConversations + 1 /\ nextJob' <= Cardinality(Job) + 1
      /\ batchBuffer' \in Seq(1 .. MaxConversations) /\ Len(batchBuffer') < BatchSize
      /\ \A j \in Job : Len(jobs'[j].conversations) <= BatchSize
  BY <1>1, BufferSized
<1>6. Clean(registry') /\ (disk' # NoFile => Clean(disk'))
  BY RegistryClean
<1>7. Clean(registry)' /\ (disk # NoFile => Clean(disk))'
  BY <1>2, <1>6, SizesStay DEF Clean
<1> QED
  BY <1>2, <1>3, <1>4, <1>5, <1>7, SizesStay DEF Sized

LEMMA SizedInit == Init => Sized
<1> SUFFICES ASSUME Init PROVE Sized
  OBVIOUS
<1>1. Types /\ registry = R!FreshState /\ disk = NoFile
  BY IInvInit DEF IInv, Init
<1>2. BatchSize \in Nat \ {0} /\ MaxConversations \in Nat
  BY <1>1, SizeTypes
<1>3. Cardinality(Job) \in Nat /\ nextJob = 1 /\ nextConv = 1
  BY JobNumbers DEF Init
<1>4. batchBuffer = <<>> /\ flush.removed = <<>> /\ uploads = {}
  BY DEF Init, Idle
<1>5. \A j \in Job : jobs[j].conversations = <<>>
  BY DEF Init, EmptyJob
<1> QED
  BY <1>1, <1>2, <1>3, <1>4, <1>5, CleanFresh DEF Sized

\* Every reachable state of the upload middleware, the queue inside it included, is
\* type correct; no batch is larger than the configured size.
THEOREM TypeCorrect == Spec => []TypeOK
<1>1. ASSUME IInv, Sized PROVE TypeOK
  <2>1. QP!IInv /\ Types /\ JobsOK
    BY <1>1 DEF IInv
  <2>2. Q!TypeOK
    BY <2>1 DEF QP!IInv, QP!TypeOK, Q!TypeOK, QP!Entry, Q!Entry, QP!Flight, Q!Flight,
       QP!Phase, Q!Phase
  <2>3. /\ batchBuffer \in Seq(1 .. MaxConversations) /\ flush.removed \in Seq(Record)
        /\ uploads \subseteq RootCid /\ registry \in RegistryState
        /\ disk \in RegistryState \cup {NoFile} /\ nextJob <= Cardinality(Job) + 1
    BY <1>1 DEF Sized, Clean
  <2>4. clock \in Timestamp \cup {0}
    BY <2>1, <2>3, JobNumbers DEF Types
  <2>5. flush \in [at : {"start", "writing", "uploading", "uploaded", "added",
                         "persisted", "cleaned", "pruned"},
                   previous : RootCid \cup {NoCid},
                   filecoinCid : RootCid \cup {NoCid}, removed : Seq(Record)]
    BY <2>1, <2>3 DEF Types, Step
  <2> QED
    BY <2>1, <2>2, <2>3, <2>4, <2>5 DEF TypeOK, Types
<1> QED
  BY <1>1, CaptureInit, CaptureStep, SizedInit, SizedStep, Inductive, PTL DEF Spec

\* A record never claims more than what happened: its Filecoin CID is that of the
\* very archive under its root, and it counts the conversations of its batch; the
\* totals beside the records are theirs, in memory and on disk (upload.ts, addBatch
\* after synapseUpload; registry.ts, addBatch and prune).
THEOREM RecordsCorrect == Spec => []RegistryTellsTruth
<1>1. ASSUME IInv, Sized PROVE RegistryTellsTruth
  <2>1. RecordsOK /\ Clean(registry) /\ (disk # NoFile => Clean(disk))
    BY <1>1 DEF IInv, Sized
  <2> QED
    BY <2>1 DEF RecordsOK, Sound, Clean, RegistryTellsTruth
<1> QED
  BY <1>1, CaptureInit, CaptureStep, SizedInit, SizedStep, Inductive, PTL DEF Spec
=============================================================================
