----------------------------- MODULE FlushQueue -----------------------------
(***************************************************************************)
(* The serial background queue of src/lib/flush-queue.ts: class FlushQueue *)
(* with its retry loop, its dead letters and drain().                      *)
(*                                                                         *)
(* JavaScript runs one callback at a time, so each action is the code      *)
(* between two points where the event loop may run something else: an      *)
(* await, a timer, or the microtask that runs .finally().  The executor    *)
(* is opaque here: its promise resolves or rejects at some later step.     *)
(***************************************************************************)
EXTENDS Naturals, Sequences

CONSTANTS Job,          \* identities of the jobs handed to the queue
          MaxRetries,   \* config.maxRetries
          NoFlush       \* activeFlush = null

Phase == {"executing", "backoff", "returned"}

\* A FlushJob: its identity and the only field the queue itself reads.
Entry  == [job : Job, retryCount : 0 .. MaxRetries]

\* The job inside processJob, and the await at which processJob stands.
Flight == [job : Job, retryCount : 0 .. MaxRetries, phase : Phase]

ASSUME MaxRetriesAssumption == MaxRetries \in Nat
ASSUME NoFlushAssumption    == NoFlush \notin Flight

VARIABLES
  queue,        \* this.queue
  activeFlush,  \* this.activeFlush, with the state of the promise it holds
  stats,        \* this.stats
  drainer,      \* a caller of drain(): where it stands
  accepted,     \* history: every job handed to pushJob, in order
  settled,      \* history: every call of notifyComplete, in order
  attempts      \* history: how often the executor was called for each job

jobVars == <<queue, activeFlush, stats, accepted, settled, attempts>>
vars    == <<jobVars, drainer>>

Busy == activeFlush # NoFlush \/ queue # <<>>

Init == /\ queue       = <<>>
        /\ activeFlush = NoFlush
        /\ stats       = [completed |-> 0, failed |-> 0, deadLettered |-> 0]
        /\ drainer     = "away"
        /\ accepted    = <<>>
        /\ settled     = <<>>
        /\ attempts    = [j \in Job |-> 0]

(***************************************************************************)
(* drainNext and the synchronous start of processJob                       *)
(***************************************************************************)

\* shift() the head of q and call the executor with it.
StartHead(q) ==
  LET e == Head(q) IN
  /\ activeFlush' = [job |-> e.job, retryCount |-> e.retryCount,
                     phase |-> "executing"]
  /\ queue'       = Tail(q)
  /\ attempts'    = [attempts EXCEPT ![e.job] = @ + 1]

\* drainNext() when nothing is active and the queue holds q.
DrainNext(q) ==
  \/ /\ q # <<>>
     /\ StartHead(q)
  \/ /\ q = <<>>
     /\ activeFlush' = NoFlush
     /\ queue'       = q
     /\ UNCHANGED attempts

(***************************************************************************)
(* enqueue() and enqueueRecovery(): both end in pushJob().  The depth check *)
(* only warns and calls a callback: no job is ever refused.                *)
(***************************************************************************)
BugPushJob(j) ==  \* starts the new job although another one is active
  LET q == Append(queue, [job |-> j, retryCount |-> 0]) IN
  /\ accepted' = Append(accepted, j)
  /\ DrainNext(q)

PushJob(j) ==
  LET q == Append(queue, [job |-> j, retryCount |-> 0]) IN
  /\ accepted' = Append(accepted, j)
  /\ IF activeFlush = NoFlush
     THEN DrainNext(q)
     ELSE queue' = q /\ UNCHANGED <<activeFlush, attempts>>

Enqueue(j) ==
  /\ \A i \in DOMAIN accepted : accepted[i] # j  \* every call makes a new job
  /\ PushJob(j)
  /\ UNCHANGED <<stats, drainer, settled>>

(***************************************************************************)
(* processJob after its awaits                                             *)
(***************************************************************************)
In(phase) == activeFlush # NoFlush /\ activeFlush.phase = phase

NotifyComplete(ok) ==
  settled' = Append(settled, [job |-> activeFlush.job, ok |-> ok])

BugExecutorResolves ==  \* the success path forgets the onComplete callbacks
  /\ In("executing")
  /\ stats' = [stats EXCEPT !.completed = @ + 1]
  /\ activeFlush' = [activeFlush EXCEPT !.phase = "returned"]
  /\ UNCHANGED <<queue, drainer, accepted, settled, attempts>>

ExecutorResolves ==
  /\ In("executing")
  /\ stats' = [stats EXCEPT !.completed = @ + 1]
  /\ NotifyComplete(TRUE)
  /\ activeFlush' = [activeFlush EXCEPT !.phase = "returned"]
  /\ UNCHANGED <<queue, drainer, accepted, attempts>>

BugRetryBound ==  \* one retry too many
  /\ activeFlush.retryCount <= MaxRetries
  /\ activeFlush' = [activeFlush EXCEPT !.phase = "backoff"]
  /\ UNCHANGED <<stats, settled>>

\* catch, attempts left: sleep, keeping the active slot.
Retry ==
  /\ activeFlush.retryCount < MaxRetries
  /\ activeFlush' = [activeFlush EXCEPT !.phase = "backoff"]
  /\ UNCHANGED <<stats, settled>>

BugDeadLetter ==  \* gives up one attempt too early
  /\ activeFlush.retryCount + 1 >= MaxRetries
  /\ stats' = [stats EXCEPT !.failed = @ + 1, !.deadLettered = @ + 1]
  /\ NotifyComplete(FALSE)
  /\ activeFlush' = [activeFlush EXCEPT !.phase = "returned"]

\* catch, no attempts left: count the job and notify with the error.
DeadLetter ==
  /\ activeFlush.retryCount >= MaxRetries
  /\ stats' = [stats EXCEPT !.failed = @ + 1, !.deadLettered = @ + 1]
  /\ NotifyComplete(FALSE)
  /\ activeFlush' = [activeFlush EXCEPT !.phase = "returned"]

ExecutorRejects ==
  /\ In("executing")
  /\ Retry \/ DeadLetter
  /\ UNCHANGED <<queue, drainer, accepted, attempts>>

BugBackoffElapses ==  \* re-queues at the back instead of the front
  /\ In("backoff")
  /\ queue' = Append(queue, [job        |-> activeFlush.job,
                             retryCount |-> activeFlush.retryCount + 1])
  /\ activeFlush' = [activeFlush EXCEPT !.phase = "returned"]
  /\ UNCHANGED <<stats, drainer, accepted, settled, attempts>>

\* The backoff timer fires: unshift the job with its retry count raised.
BackoffElapses ==
  /\ In("backoff")
  /\ queue' = <<[job        |-> activeFlush.job,
                 retryCount |-> activeFlush.retryCount + 1]>> \o queue
  /\ activeFlush' = [activeFlush EXCEPT !.phase = "returned"]
  /\ UNCHANGED <<stats, drainer, accepted, settled, attempts>>

BugFinally ==  \* frees the slot and forgets to look at the queue again
  /\ In("returned")
  /\ activeFlush' = NoFlush
  /\ UNCHANGED <<queue, stats, drainer, accepted, settled, attempts>>

\* .finally(): the slot is free, and the next job starts in the same step.
Finally ==
  /\ In("returned")
  /\ DrainNext(queue)
  /\ UNCHANGED <<stats, drainer, accepted, settled>>

(***************************************************************************)
(* drain(timeoutMs): poll every 200 ms until idle or past the deadline.    *)
(* The deadline is a free choice of the environment.                       *)
(***************************************************************************)
DrainCall ==
  /\ drainer \in {"away", "drained", "timedOut"}
  /\ drainer' = IF Busy THEN "polling" ELSE "drained"
  /\ UNCHANGED jobVars

BugDrainIdle ==  \* looks at the queue and forgets the active job
  /\ drainer = "polling"
  /\ queue = <<>>
  /\ drainer' = "drained"
  /\ UNCHANGED jobVars

DrainIdle ==
  /\ drainer = "polling"
  /\ ~Busy
  /\ drainer' = "drained"
  /\ UNCHANGED jobVars

DrainDeadline ==
  /\ drainer = "polling"
  /\ Busy
  /\ drainer' = "timedOut"
  /\ UNCHANGED jobVars

Next == \/ \E j \in Job : Enqueue(j)
        \/ ExecutorResolves \/ ExecutorRejects
        \/ BackoffElapses \/ Finally
        \/ DrainCall \/ DrainIdle \/ DrainDeadline

Spec == Init /\ [][Next]_vars

(***************************************************************************)
(* Fairness.  The executor's promise settles (the upload it awaits is      *)
(* raced with a timer), timers fire and microtasks run.  Nobody has to     *)
(* submit a job or to call drain().                                        *)
(***************************************************************************)
Fairness == /\ WF_vars(ExecutorResolves \/ ExecutorRejects)
            /\ WF_vars(BackoffElapses)
            /\ WF_vars(Finally)

FairSpec == Spec /\ Fairness

-----------------------------------------------------------------------------
(* Properties *)

TypeOK ==
  /\ queue \in Seq(Entry)
  /\ activeFlush \in Flight \cup {NoFlush}
  /\ stats \in [completed : Nat, failed : Nat, deadLettered : Nat]
  /\ drainer \in {"away", "polling", "drained", "timedOut"}
  /\ accepted \in Seq(Job)
  /\ settled \in Seq([job : Job, ok : BOOLEAN])
  /\ attempts \in [Job -> Nat]

\* A job sleeps in its backoff only while it has an attempt left.
RetryLeft == In("backoff") => activeFlush.retryCount < MaxRetries

\* Every call of enqueue() makes a job of its own.
AcceptedOnce ==
  \A i, k \in 1 .. Len(accepted) : accepted[i] = accepted[k] => i = k

\* The executor has never seen a job that nobody handed over.
NotYetAttempted ==
  \A j \in Job : (\A i \in 1 .. Len(accepted) : accepted[i] # j)
                   => attempts[j] = 0

\* 1 while processJob still owes its job an outcome or a place in the queue.
InFlight == IF In("executing") \/ In("backoff") THEN 1 ELSE 0

(* No job is lost, duplicated or overtaken: the jobs notified so far, then *)
(* the one inside processJob, then the queue are exactly the accepted jobs *)
(* in their order, although a failed job leaves the queue and comes back   *)
(* while others are enqueued (the "FIFO order" of flush-queue.ts:5-6).     *)
InOrder ==
  /\ Len(accepted) = Len(settled) + InFlight + Len(queue)
  /\ \A i \in 1 .. Len(settled) : settled[i].job = accepted[i]
  /\ InFlight = 1 => activeFlush.job = accepted[Len(settled) + 1]
  /\ \A i \in 1 .. Len(queue) :
       queue[i].job = accepted[Len(settled) + InFlight + i]

(* A free slot means an empty queue: no interleaving of enqueue with the   *)
(* end of a job leaves a job waiting that nobody will start.               *)
NothingStranded == activeFlush = NoFlush => queue = <<>>

(* The retry count travels with the job: the executor has run exactly      *)
(* retryCount times for a queued job, so a job is dead-lettered after      *)
(* exactly MaxRetries + 1 attempts and none is attempted more often.       *)
AttemptsCounted ==
  /\ \A i \in 1 .. Len(queue) : attempts[queue[i].job] = queue[i].retryCount
  /\ InFlight = 1 => attempts[activeFlush.job] = activeFlush.retryCount + 1
  /\ \A i \in 1 .. Len(settled) :
       LET n == attempts[settled[i].job] IN
       IF settled[i].ok THEN n \in 1 .. MaxRetries + 1 ELSE n = MaxRetries + 1

\* The inductive invariant behind InOrder and AttemptsCounted.
IInv == /\ TypeOK /\ RetryLeft
        /\ InOrder /\ AcceptedOnce
        /\ NotYetAttempted /\ AttemptsCounted

(* drain() reports completion only when every job handed over so far has   *)
(* its outcome: not while one sleeps in its backoff with an empty queue,   *)
(* nor between the end of a job and the start of the next.                 *)
DrainedMeansSettled ==
  [][drainer' = "drained" /\ drainer # "drained"
       => Len(settled) = Len(accepted)]_vars

(* Every job handed over gets its outcome, however often it fails.         *)
EveryJobSettles ==
  \A j \in Job : (\E i \in DOMAIN accepted : accepted[i] = j)
                   ~> (\E i \in DOMAIN settled : settled[i].job = j)

(* The queue keeps the promise of SerialQueue, liveness included.          *)
Serial == INSTANCE SerialQueue
ImplementsSerialQueue == Serial!Spec
=============================================================================
