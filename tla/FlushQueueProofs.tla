-------------------------- MODULE FlushQueueProofs --------------------------
(***************************************************************************)
(* Theorems about FlushQueue for every set of jobs and every MaxRetries.   *)
(***************************************************************************)
EXTENDS FlushQueue, TLAPS

-----------------------------------------------------------------------------
(* The pieces the actions are made of *)

\* What activeFlush holds while processJob is running.
LEMMA FlightFields ==
  ASSUME TypeOK, NEW p, In(p)
  PROVE  /\ activeFlush \in Flight
         /\ activeFlush.job \in Job
         /\ activeFlush.retryCount \in 0 .. MaxRetries
         /\ activeFlush.phase = p
         /\ \A ph \in Phase :
              /\ [activeFlush EXCEPT !.phase = ph] \in Flight
              /\ [activeFlush EXCEPT !.phase = ph].job = activeFlush.job
              /\ [activeFlush EXCEPT !.phase = ph].retryCount
                   = activeFlush.retryCount
              /\ [activeFlush EXCEPT !.phase = ph].phase = ph
              /\ [activeFlush EXCEPT !.phase = ph] # NoFlush
<1>1. activeFlush \in Flight /\ activeFlush.phase = p
  BY DEF TypeOK, In
<1> QED
  BY <1>1, NoFlushAssumption DEF Flight

\* A new job or a retried one is a well-formed queue entry.
LEMMA EntryFields ==
  ASSUME NEW j \in Job, NEW r \in 0 .. MaxRetries
  PROVE  [job |-> j, retryCount |-> r] \in Entry
  BY DEF Entry

\* What drainNext() does to the slot, the queue and the attempt counts.
LEMMA StartHeadEffect ==
  ASSUME NEW q \in Seq(Entry), q # <<>>, StartHead(q), attempts \in [Job -> Nat]
  PROVE  /\ Head(q) \in Entry
         /\ activeFlush' \in Flight
         /\ activeFlush' # NoFlush
         /\ activeFlush'.job = Head(q).job
         /\ activeFlush'.retryCount = Head(q).retryCount
         /\ activeFlush'.phase = "executing"
         /\ queue' = Tail(q)
         /\ queue' \in Seq(Entry)
         /\ attempts' = [attempts EXCEPT ![Head(q).job] = @ + 1]
         /\ attempts' \in [Job -> Nat]
<1>1. Head(q) \in Entry /\ Tail(q) \in Seq(Entry)
  OBVIOUS
<1>2. Head(q).job \in Job /\ Head(q).retryCount \in 0 .. MaxRetries
  BY <1>1 DEF Entry
<1>3. activeFlush' = [job |-> Head(q).job, retryCount |-> Head(q).retryCount,
                      phase |-> "executing"]
  BY DEF StartHead
<1>4. activeFlush' \in Flight
  BY <1>2, <1>3 DEF Flight, Phase
<1>5. attempts' = [attempts EXCEPT ![Head(q).job] = @ + 1]
  BY DEF StartHead
<1>6. queue' = Tail(q)
  BY DEF StartHead
<1> QED
  BY <1>1, <1>2, <1>3, <1>4, <1>5, <1>6, NoFlushAssumption

-----------------------------------------------------------------------------
(* Type correctness *)

LEMMA DrainNextType ==
  ASSUME TypeOK, NEW q \in Seq(Entry), DrainNext(q)
  PROVE  /\ queue' \in Seq(Entry)
         /\ activeFlush' \in Flight \cup {NoFlush}
         /\ attempts' \in [Job -> Nat]
<1>1. CASE q # <<>> /\ StartHead(q)
  BY <1>1, StartHeadEffect DEF TypeOK
<1>2. CASE q = <<>>
  BY <1>2 DEF DrainNext, TypeOK
<1> QED
  BY <1>1, <1>2 DEF DrainNext

LEMMA NotifyType ==
  ASSUME TypeOK, activeFlush.job \in Job, NEW ok \in BOOLEAN, NotifyComplete(ok)
  PROVE  settled' \in Seq([job : Job, ok : BOOLEAN])
<1>1. [job |-> activeFlush.job, ok |-> ok] \in [job : Job, ok : BOOLEAN]
  OBVIOUS
<1> QED
  BY <1>1 DEF NotifyComplete, TypeOK

LEMMA StatsUpdate ==
  ASSUME NEW s \in [completed : Nat, failed : Nat, deadLettered : Nat],
         NEW m \in Nat, NEW n \in Nat
  PROVE  /\ [s EXCEPT !.completed = m]
              \in [completed : Nat, failed : Nat, deadLettered : Nat]
         /\ [s EXCEPT !.failed = m, !.deadLettered = n]
              \in [completed : Nat, failed : Nat, deadLettered : Nat]
  OBVIOUS

LEMMA StatsType ==
  ASSUME TypeOK
  PROVE  /\ [stats EXCEPT !.completed = @ + 1]
              \in [completed : Nat, failed : Nat, deadLettered : Nat]
         /\ [stats EXCEPT !.failed = @ + 1, !.deadLettered = @ + 1]
              \in [completed : Nat, failed : Nat, deadLettered : Nat]
<1>1. stats \in [completed : Nat, failed : Nat, deadLettered : Nat]
  BY DEF TypeOK
<1>2. /\ stats.completed + 1 \in Nat
      /\ stats.failed + 1 \in Nat
      /\ stats.deadLettered + 1 \in Nat
  BY <1>1
<1> HIDE DEF TypeOK
<1> QED
  BY <1>1, <1>2, StatsUpdate, Zenon

LEMMA TypeStep == TypeOK /\ RetryLeft /\ [Next]_vars => TypeOK'
<1> SUFFICES ASSUME TypeOK, RetryLeft, [Next]_vars
             PROVE  TypeOK'
  OBVIOUS
<1>1. ASSUME NEW j \in Job, Enqueue(j)
      PROVE  TypeOK'
  <2> DEFINE q == Append(queue, [job |-> j, retryCount |-> 0])
  <2>1. q \in Seq(Entry)
    BY EntryFields, MaxRetriesAssumption DEF TypeOK
  <2>2. /\ queue' \in Seq(Entry)
        /\ activeFlush' \in Flight \cup {NoFlush}
        /\ attempts' \in [Job -> Nat]
    <3>1. CASE activeFlush = NoFlush
      BY <1>1, <2>1, <3>1, DrainNextType DEF Enqueue, PushJob
    <3>2. CASE activeFlush # NoFlush
      BY <1>1, <2>1, <3>2 DEF Enqueue, PushJob, TypeOK
    <3> QED
      BY <3>1, <3>2
  <2>3. accepted' \in Seq(Job)
    BY <1>1 DEF Enqueue, PushJob, TypeOK
  <2> QED
    BY <1>1, <2>2, <2>3 DEF Enqueue, TypeOK
<1>2. CASE ExecutorResolves
  <2>1. In("executing")
    BY <1>2 DEF ExecutorResolves
  <2>2. activeFlush' \in Flight
    BY <1>2, <2>1, FlightFields DEF ExecutorResolves, Phase
  <2>3. settled' \in Seq([job : Job, ok : BOOLEAN])
    BY <1>2, <2>1, FlightFields, NotifyType DEF ExecutorResolves
  <2>4. stats' \in [completed : Nat, failed : Nat, deadLettered : Nat]
    BY <1>2, StatsType DEF ExecutorResolves
  <2> QED
    BY <1>2, <2>2, <2>3, <2>4 DEF ExecutorResolves, TypeOK
<1>3. CASE ExecutorRejects
  <2>1. In("executing")
    BY <1>3 DEF ExecutorRejects
  <2>2. CASE Retry
    <3>1. activeFlush' \in Flight
      BY <2>1, <2>2, FlightFields DEF Retry, Phase
    <3> QED
      BY <1>3, <2>2, <3>1 DEF ExecutorRejects, Retry, TypeOK
  <2>3. CASE DeadLetter
    <3>1. activeFlush' \in Flight
      BY <2>1, <2>3, FlightFields DEF DeadLetter, Phase
    <3>2. settled' \in Seq([job : Job, ok : BOOLEAN])
      BY <2>1, <2>3, FlightFields, NotifyType DEF DeadLetter
    <3>3. stats' \in [completed : Nat, failed : Nat, deadLettered : Nat]
      BY <2>3, StatsType DEF DeadLetter
    <3> QED
      BY <1>3, <3>1, <3>2, <3>3 DEF ExecutorRejects, TypeOK
  <2> QED
    BY <1>3, <2>2, <2>3 DEF ExecutorRejects
<1>4. CASE BackoffElapses
  <2>1. In("backoff")
    BY <1>4 DEF BackoffElapses
  <2>2. activeFlush' \in Flight
    BY <1>4, <2>1, FlightFields DEF BackoffElapses, Phase
  <2>3. activeFlush.retryCount + 1 \in 0 .. MaxRetries
    BY <2>1, FlightFields, MaxRetriesAssumption DEF RetryLeft
  <2>4. [job |-> activeFlush.job, retryCount |-> activeFlush.retryCount + 1]
          \in Entry
    BY <2>1, <2>3, FlightFields, EntryFields
  <2>5. queue' \in Seq(Entry)
    BY <1>4, <2>4 DEF BackoffElapses, TypeOK
  <2> QED
    BY <1>4, <2>2, <2>5 DEF BackoffElapses, TypeOK
<1>5. CASE Finally
  BY <1>5, DrainNextType DEF Finally, TypeOK
<1>6. CASE DrainCall \/ DrainIdle \/ DrainDeadline
  BY <1>6 DEF DrainCall, DrainIdle, DrainDeadline, jobVars, TypeOK
<1>7. CASE UNCHANGED vars
  BY <1>7 DEF vars, jobVars, TypeOK
<1> QED
  BY <1>1, <1>2, <1>3, <1>4, <1>5, <1>6, <1>7 DEF Next

\* Only a rejected executor puts a job to sleep, and only below the limit.
LEMMA RetryLeftStep == TypeOK /\ RetryLeft /\ [Next]_vars => RetryLeft'
<1> SUFFICES ASSUME TypeOK, RetryLeft, [Next]_vars
             PROVE  RetryLeft'
  OBVIOUS
<1>1. ASSUME NEW q \in Seq(Entry), DrainNext(q)
      PROVE  RetryLeft'
  <2>1. CASE q # <<>> /\ StartHead(q)
    BY <2>1, StartHeadEffect DEF TypeOK, RetryLeft, In
  <2>2. CASE activeFlush' = NoFlush
    BY <2>2 DEF RetryLeft, In
  <2> QED
    BY <1>1, <2>1, <2>2 DEF DrainNext
<1>2. ASSUME NEW j \in Job, Enqueue(j)
      PROVE  RetryLeft'
  <2>1. Append(queue, [job |-> j, retryCount |-> 0]) \in Seq(Entry)
    BY EntryFields, MaxRetriesAssumption DEF TypeOK
  <2> QED
    BY <1>1, <1>2, <2>1 DEF Enqueue, PushJob, RetryLeft, In
<1>3. CASE ExecutorResolves
  BY <1>3, FlightFields DEF ExecutorResolves, Phase, RetryLeft, In
<1>4. CASE ExecutorRejects
  <2>1. CASE Retry
    BY <1>4, <2>1, FlightFields DEF ExecutorRejects, Retry, Phase, RetryLeft, In
  <2>2. CASE DeadLetter
    BY <1>4, <2>2, FlightFields
       DEF ExecutorRejects, DeadLetter, Phase, RetryLeft, In
  <2> QED
    BY <1>4, <2>1, <2>2 DEF ExecutorRejects
<1>5. CASE BackoffElapses
  BY <1>5, FlightFields DEF BackoffElapses, Phase, RetryLeft, In
<1>6. CASE Finally
  BY <1>1, <1>6 DEF Finally, TypeOK
<1>7. CASE DrainCall \/ DrainIdle \/ DrainDeadline \/ UNCHANGED vars
  BY <1>7 DEF DrainCall, DrainIdle, DrainDeadline, vars, jobVars, RetryLeft, In
<1> QED
  BY <1>2, <1>3, <1>4, <1>5, <1>6, <1>7 DEF Next

\* Type correctness: the slot, the queue and the histories hold only what
\* flush-queue.ts puts there, and retryCount never passes maxRetries.
THEOREM TypeCorrect == Spec => [](TypeOK /\ RetryLeft)
<1>1. Init => TypeOK /\ RetryLeft
  BY DEF Init, TypeOK, RetryLeft, In
<1>2. TypeOK /\ RetryLeft /\ [Next]_vars => (TypeOK /\ RetryLeft)'
  BY TypeStep, RetryLeftStep
<1> QED
  BY <1>1, <1>2, PTL DEF Spec
-----------------------------------------------------------------------------
(***************************************************************************)
(* The inductive invariant.  InOrder alone is not inductive for the        *)
(* attempt counts: that a job started now does not disturb the count of    *)
(* another one needs that no job is accepted twice (AcceptedOnce), and     *)
(* that a new job starts at zero needs NotYetAttempted.                    *)
(***************************************************************************)

\* InFlight, spelled out for the two ways a slot can look after a step.
LEMMA InFlightPrimed ==
  ASSUME TypeOK'
  PROVE  /\ InFlight' \in {0, 1}
         /\ activeFlush' = NoFlush => InFlight' = 0
         /\ activeFlush' # NoFlush =>
              InFlight' = IF activeFlush'.phase \in {"executing", "backoff"}
                          THEN 1 ELSE 0
  BY DEF InFlight, In

LEMMA InFlightNow ==
  ASSUME TypeOK
  PROVE  /\ InFlight \in {0, 1}
         /\ activeFlush = NoFlush => InFlight = 0
         /\ \A p \in Phase :
              In(p) => InFlight = IF p \in {"executing", "backoff"} THEN 1 ELSE 0
  BY DEF InFlight, In, Phase

\* drainNext() on a queue that continues the settled jobs keeps the order
\* and the attempt counts.
LEMMA DrainNextKeeps ==
  ASSUME TypeOK, TypeOK', NEW q \in Seq(Entry), DrainNext(q),
         settled' = settled, accepted' \in Seq(Job), AcceptedOnce',
         Len(accepted') = Len(settled) + Len(q),
         \A i \in 1 .. Len(settled) : settled[i].job = accepted'[i],
         \A i \in 1 .. Len(q) : q[i].job = accepted'[Len(settled) + i],
         \A i \in 1 .. Len(q) : attempts[q[i].job] = q[i].retryCount,
         \A i \in 1 .. Len(settled) :
           LET n == attempts[settled[i].job] IN
           IF settled[i].ok THEN n \in 1 .. MaxRetries + 1
                            ELSE n = MaxRetries + 1,
         \A j \in Job : (\A i \in 1 .. Len(accepted') : accepted'[i] # j)
                           => attempts[j] = 0
  PROVE  InOrder' /\ AttemptsCounted' /\ NotYetAttempted'
<1>1. CASE q = <<>>
  <2>1. /\ activeFlush' = NoFlush /\ queue' = <<>> /\ attempts' = attempts
        /\ InFlight' = 0
    BY <1>1, InFlightPrimed DEF DrainNext, StartHead
  <2> QED
    BY <1>1, <2>1 DEF InOrder, AttemptsCounted, NotYetAttempted
<1>2. CASE q # <<>>
  <2>1. StartHead(q)
    BY <1>2 DEF DrainNext
  <2>2. /\ Head(q) = q[1]
        /\ Len(q) \in Nat \ {0}
        /\ Len(Tail(q)) = Len(q) - 1
        /\ \A i \in 1 .. Len(Tail(q)) : Tail(q)[i] = q[i + 1]
    BY <1>2
  <2>3. /\ activeFlush' # NoFlush
        /\ activeFlush'.phase = "executing"
        /\ activeFlush'.job = q[1].job
        /\ activeFlush'.retryCount = q[1].retryCount
        /\ queue' = Tail(q)
        /\ attempts' = [attempts EXCEPT ![q[1].job] = @ + 1]
        /\ q[1] \in Entry
    BY <1>2, <2>1, <2>2, StartHeadEffect DEF TypeOK
  <2>4. /\ InFlight' = 1
        /\ Len(queue') = Len(q) - 1
        /\ \A i \in 1 .. Len(queue') : queue'[i] = q[i + 1]
        /\ Len(settled) \in Nat
        /\ q[1].job \in Job
        /\ q[1].job = accepted'[Len(settled) + 1]
    <3>1. InFlight' = 1
      BY <2>3, InFlightPrimed
    <3>2. 1 \in 1 .. Len(q)
      BY <2>2
    <3>3. q[1].job = accepted'[Len(settled) + 1]
      BY <3>2
    <3>4. Len(settled) \in Nat /\ q[1].job \in Job
      BY <2>3 DEF TypeOK, Entry
    <3> QED
      BY <2>2, <2>3, <3>1, <3>3, <3>4
  <2>5. InOrder'
    <3>1. Len(accepted') = Len(settled') + InFlight' + Len(queue')
      BY <2>2, <2>4
    <3>2. \A i \in 1 .. Len(queue') :
            queue'[i].job = accepted'[Len(settled') + InFlight' + i]
      <4> TAKE i \in 1 .. Len(queue')
      <4>1. i \in Nat /\ i + 1 \in 1 .. Len(q) /\ queue'[i] = q[i + 1]
        BY <2>2, <2>4
      <4>2. q[i + 1].job = accepted'[Len(settled) + (i + 1)]
        BY <4>1
      <4>3. Len(settled) + (i + 1) = Len(settled') + InFlight' + i
        BY <2>4, <4>1
      <4> QED
        BY <4>1, <4>2, <4>3
    <3> QED
      BY <2>3, <2>4, <3>1, <3>2 DEF InOrder
  <2>6. attempts'[q[1].job] = q[1].retryCount + 1
    <3>1. attempts' = [attempts EXCEPT ![q[1].job] = @ + 1]
      BY <2>3
    <3>2. q[1].job \in DOMAIN attempts
      BY <2>4 DEF TypeOK
    <3>3. attempts'[q[1].job] = attempts[q[1].job] + 1
      BY <3>1, <3>2
    <3>4. 1 \in 1 .. Len(q)
      BY <2>2
    <3>5. attempts[q[1].job] = q[1].retryCount
      BY <3>4
    <3> QED
      BY <3>3, <3>5
  <2>7. \A k \in 1 .. Len(accepted') :
          k # Len(settled) + 1 => attempts'[accepted'[k]] = attempts[accepted'[k]]
    <3> TAKE k \in 1 .. Len(accepted')
    <3> HAVE k # Len(settled) + 1
    <3>1. Len(settled) + 1 \in 1 .. Len(accepted')
      BY <2>2, <2>4
    <3>2. accepted'[k] # q[1].job
      BY <2>4, <3>1 DEF AcceptedOnce
    <3>3. accepted'[k] \in Job
      OBVIOUS
    <3> QED
      BY <2>3, <3>2, <3>3 DEF TypeOK
  <2>8. \A i \in 1 .. Len(queue') : attempts'[queue'[i].job] = queue'[i].retryCount
    <3> TAKE i \in 1 .. Len(queue')
    <3>1. i \in Nat /\ i + 1 \in 1 .. Len(q) /\ queue'[i] = q[i + 1]
      BY <2>2, <2>4
    <3>2. q[i + 1].job = accepted'[Len(settled) + (i + 1)]
      BY <3>1
    <3>3. /\ Len(settled) + (i + 1) \in 1 .. Len(accepted')
          /\ Len(settled) + (i + 1) # Len(settled) + 1
      BY <3>1, <2>2, <2>4
    <3>4. attempts'[q[i + 1].job] = attempts[q[i + 1].job]
      BY <3>2, <3>3, <2>7
    <3>5. attempts[q[i + 1].job] = q[i + 1].retryCount
      BY <3>1
    <3> QED
      BY <3>1, <3>4, <3>5
  <2>9. \A i \in 1 .. Len(settled) :
          attempts'[settled[i].job] = attempts[settled[i].job]
    <3> TAKE i \in 1 .. Len(settled)
    <3>1. i \in 1 .. Len(accepted') /\ i # Len(settled) + 1
      BY <2>2, <2>4
    <3>2. settled[i].job = accepted'[i]
      OBVIOUS
    <3> QED
      BY <3>1, <3>2, <2>7
  <2>10. AttemptsCounted'
    BY <2>3, <2>4, <2>6, <2>8, <2>9 DEF AttemptsCounted
  <2>11. NotYetAttempted'
    <3> SUFFICES ASSUME NEW j \in Job,
                        \A i \in 1 .. Len(accepted') : accepted'[i] # j
                 PROVE  attempts'[j] = 0
      BY DEF NotYetAttempted
    <3>1. attempts[j] = 0
      OBVIOUS
    <3>2. Len(settled) + 1 \in 1 .. Len(accepted')
      BY <2>2, <2>4
    <3>3. j # q[1].job
      BY <2>4, <3>2
    <3> QED
      BY <2>3, <3>1, <3>3 DEF TypeOK
  <2> QED
    BY <2>5, <2>10, <2>11
<1> QED
  BY <1>1, <1>2

\* A step that leaves accepted, settled and attempts alone and moves the
\* active job between the slot and the queue keeps order and counts.
LEMMA UnchangedJobs ==
  ASSUME IInv, TypeOK', UNCHANGED jobVars
  PROVE  IInv'
  BY DEF IInv, jobVars, TypeOK, RetryLeft, InOrder, AcceptedOnce,
         NotYetAttempted, AttemptsCounted, InFlight, In

LEMMA EnqueueKeeps ==
  ASSUME IInv, TypeOK', NEW j \in Job, Enqueue(j)
  PROVE  InOrder' /\ AcceptedOnce' /\ NotYetAttempted' /\ AttemptsCounted'
<1> DEFINE e == [job |-> j, retryCount |-> 0]
           q == Append(queue, e)
<1>0. /\ TypeOK /\ InOrder /\ AcceptedOnce /\ NotYetAttempted /\ AttemptsCounted
      /\ settled' = settled
      /\ accepted' = Append(accepted, j)
      /\ \A i \in 1 .. Len(accepted) : accepted[i] # j
  <2>1. /\ TypeOK /\ InOrder /\ AcceptedOnce /\ NotYetAttempted
        /\ AttemptsCounted
    BY DEF IInv
  <2>2. \A i \in 1 .. Len(accepted) : accepted[i] # j
    BY <2>1 DEF Enqueue, TypeOK
  <2>3. settled' = settled /\ accepted' = Append(accepted, j)
    BY DEF Enqueue, PushJob
  <2> QED
    BY <2>1, <2>2, <2>3
<1>1. /\ e \in Entry /\ e.job = j /\ e.retryCount = 0
      /\ q \in Seq(Entry)
      /\ Len(q) = Len(queue) + 1
      /\ q[Len(queue) + 1] = e
      /\ \A i \in 1 .. Len(queue) : q[i] = queue[i]
  <2>1. e \in Entry /\ e.job = j /\ e.retryCount = 0
    BY MaxRetriesAssumption, EntryFields
  <2>2. queue \in Seq(Entry)
    BY <1>0 DEF TypeOK
  <2> HIDE DEF e
  <2> QED
    BY <2>1, <2>2
<1> HIDE DEF e, q
<1>2. /\ Len(accepted') = Len(accepted) + 1
      /\ accepted'[Len(accepted) + 1] = j
      /\ \A i \in 1 .. Len(accepted) : accepted'[i] = accepted[i]
      /\ Len(accepted) \in Nat /\ Len(settled) \in Nat /\ Len(queue) \in Nat
      /\ accepted' \in Seq(Job)
  BY <1>0 DEF TypeOK
<1>3. AcceptedOnce'
  BY <1>0, <1>2 DEF AcceptedOnce
<1>4. attempts[j] = 0
  BY <1>0 DEF NotYetAttempted
<1>5. \A i \in 1 .. Len(settled) : settled[i].job = accepted'[i]
  <2> TAKE i \in 1 .. Len(settled)
  <2>1. i \in 1 .. Len(accepted)
    BY <1>0, <1>2, InFlightNow DEF InOrder
  <2>2. settled[i].job = accepted[i]
    BY <1>0 DEF InOrder
  <2> QED
    BY <1>2, <2>1, <2>2
<1>6. \A i \in 1 .. Len(q) : q[i].job = accepted'[Len(settled) + InFlight + i]
  <2> TAKE i \in 1 .. Len(q)
  <2>1. Len(accepted) = Len(settled) + InFlight + Len(queue)
    BY <1>0 DEF InOrder
  <2>2. CASE i = Len(queue) + 1
    <3>1. Len(settled) + InFlight + i = Len(accepted) + 1
      BY <1>0, <1>2, <2>1, <2>2, InFlightNow
    <3> QED
      BY <1>1, <1>2, <2>2, <3>1
  <2>3. CASE i # Len(queue) + 1
    <3>1. i \in 1 .. Len(queue)
      BY <1>1, <1>2, <2>3
    <3>2. q[i].job = accepted[Len(settled) + InFlight + i]
      BY <1>0, <1>1, <3>1 DEF InOrder
    <3>3. Len(settled) + InFlight + i \in 1 .. Len(accepted)
      BY <1>0, <1>2, <2>1, <3>1, InFlightNow
    <3> QED
      BY <1>2, <3>2, <3>3
  <2> QED
    BY <2>2, <2>3
<1>7. \A i \in 1 .. Len(q) : attempts[q[i].job] = q[i].retryCount
  <2> TAKE i \in 1 .. Len(q)
  <2>1. CASE i = Len(queue) + 1
    BY <1>1, <1>4, <2>1
  <2>2. CASE i # Len(queue) + 1
    <3>1. i \in 1 .. Len(queue)
      BY <1>1, <1>2, <2>2
    <3> QED
      BY <1>0, <1>1, <3>1 DEF AttemptsCounted
  <2> QED
    BY <2>1, <2>2
<1>8. \A k \in Job : (\A i \in 1 .. Len(accepted') : accepted'[i] # k)
                       => attempts[k] = 0
  BY <1>0, <1>2 DEF NotYetAttempted
<1>9. CASE activeFlush = NoFlush
  <2>1. InFlight = 0
    BY <1>0, <1>9, InFlightNow
  <2>2. DrainNext(q)
    BY <1>9 DEF Enqueue, PushJob, q, e
  <2>3. Len(accepted') = Len(settled) + Len(q)
    BY <1>0, <1>1, <1>2, <2>1 DEF InOrder
  <2>4. \A i \in 1 .. Len(q) : q[i].job = accepted'[Len(settled) + i]
    BY <1>1, <1>2, <1>6, <2>1
  <2>5. InOrder' /\ AttemptsCounted' /\ NotYetAttempted'
    BY <1>0, <1>1, <1>2, <1>3, <1>5, <1>7, <1>8, <2>2, <2>3, <2>4, DrainNextKeeps
       DEF AttemptsCounted
  <2> QED
    BY <1>3, <2>5
<1>10. CASE activeFlush # NoFlush
  <2>1. /\ activeFlush' = activeFlush /\ attempts' = attempts /\ queue' = q
        /\ InFlight' = InFlight
    BY <1>10 DEF Enqueue, PushJob, q, e, InFlight, In
  <2>2. InOrder'
    <3>1. Len(accepted') = Len(settled') + InFlight' + Len(queue')
      <4>1. InFlight \in {0, 1}
        BY <1>0, InFlightNow
      <4>2. Len(accepted) = Len(settled) + InFlight + Len(queue)
        BY <1>0 DEF InOrder
      <4>3. Len(accepted') = Len(accepted) + 1
        BY <1>2
      <4>4. Len(settled') = Len(settled) /\ InFlight' = InFlight
        BY <1>0, <2>1
      <4>5. Len(queue') = Len(queue) + 1
        BY <1>1, <2>1
      <4> QED
        BY <1>2, <4>1, <4>2, <4>3, <4>4, <4>5
    <3>2. InFlight' = 1 => activeFlush'.job = accepted'[Len(settled') + 1]
      <4> HAVE InFlight' = 1
      <4>1. activeFlush.job = accepted[Len(settled) + 1]
        BY <1>0, <2>1 DEF InOrder
      <4>2. Len(settled) + 1 \in 1 .. Len(accepted)
        BY <1>0, <1>2, <2>1 DEF InOrder
      <4> QED
        BY <1>0, <1>2, <2>1, <4>1, <4>2
    <3> QED
      BY <1>0, <1>5, <1>6, <2>1, <3>1, <3>2 DEF InOrder
  <2>3. AttemptsCounted'
    BY <1>0, <1>7, <2>1 DEF AttemptsCounted
  <2>4. NotYetAttempted'
    BY <1>8, <2>1 DEF NotYetAttempted
  <2> QED
    BY <1>3, <2>2, <2>3, <2>4
<1> QED
  BY <1>9, <1>10

LEMMA SettleKeeps ==
  ASSUME IInv, TypeOK', In("executing"), NEW ok \in BOOLEAN, NotifyComplete(ok),
         ~ok => activeFlush.retryCount = MaxRetries,
         activeFlush' = [activeFlush EXCEPT !.phase = "returned"],
         UNCHANGED <<queue, accepted, attempts>>
  PROVE  InOrder' /\ AcceptedOnce' /\ NotYetAttempted' /\ AttemptsCounted'
<1>1. /\ TypeOK /\ InOrder /\ AcceptedOnce /\ NotYetAttempted /\ AttemptsCounted
  BY DEF IInv
<1>2. InFlight = 1 /\ InFlight' = 0
  <2>1. activeFlush' # NoFlush /\ activeFlush'.phase = "returned"
    BY <1>1, FlightFields DEF Phase
  <2> QED
    BY <1>1, <2>1, InFlightNow, InFlightPrimed DEF Phase
<1> DEFINE o == [job |-> activeFlush.job, ok |-> ok]
<1>3. /\ o \in [job : Job, ok : BOOLEAN]
      /\ o.job = activeFlush.job /\ o.ok = ok
      /\ settled' = Append(settled, o)
  BY <1>1, FlightFields DEF NotifyComplete
<1> HIDE DEF o
<1>4. /\ Len(settled') = Len(settled) + 1
      /\ settled'[Len(settled) + 1] = o
      /\ \A i \in 1 .. Len(settled) : settled'[i] = settled[i]
      /\ Len(accepted) \in Nat /\ Len(settled) \in Nat /\ Len(queue) \in Nat
  BY <1>1, <1>3 DEF TypeOK
<1>5. InOrder'
  <2>1. Len(accepted') = Len(settled') + InFlight' + Len(queue')
    BY <1>1, <1>2, <1>4 DEF InOrder
  <2>2. \A i \in 1 .. Len(settled') : settled'[i].job = accepted'[i]
    <3> TAKE i \in 1 .. Len(settled')
    <3>1. CASE i = Len(settled) + 1
      BY <1>1, <1>2, <1>3, <1>4, <3>1 DEF InOrder
    <3>2. CASE i # Len(settled) + 1
      <4>1. i \in 1 .. Len(settled)
        BY <1>4, <3>2
      <4> QED
        BY <1>1, <1>4, <4>1 DEF InOrder
    <3> QED
      BY <3>1, <3>2
  <2>3. \A i \in 1 .. Len(queue') :
          queue'[i].job = accepted'[Len(settled') + InFlight' + i]
    <3> TAKE i \in 1 .. Len(queue')
    <3>1. Len(settled') + InFlight' + i = Len(settled) + InFlight + i
      BY <1>2, <1>4
    <3> QED
      BY <1>1, <3>1 DEF InOrder
  <2> QED
    BY <1>2, <2>1, <2>2, <2>3 DEF InOrder
<1>6. AttemptsCounted'
  <2>1. attempts[activeFlush.job] = activeFlush.retryCount + 1
    BY <1>1, <1>2 DEF AttemptsCounted
  <2>2. activeFlush.retryCount \in 0 .. MaxRetries
    BY <1>1, FlightFields
  <2>3. \A i \in 1 .. Len(settled') :
          LET n == attempts'[settled'[i].job] IN
          IF settled'[i].ok THEN n \in 1 .. MaxRetries + 1
                            ELSE n = MaxRetries + 1
    <3> TAKE i \in 1 .. Len(settled')
    <3>1. CASE i = Len(settled) + 1
      BY <1>3, <1>4, <2>1, <2>2, <3>1, MaxRetriesAssumption
    <3>2. CASE i # Len(settled) + 1
      <4>1. i \in 1 .. Len(settled)
        BY <1>4, <3>2
      <4> QED
        BY <1>1, <1>4, <4>1 DEF AttemptsCounted
    <3> QED
      BY <3>1, <3>2
  <2> QED
    BY <1>1, <1>2, <2>3 DEF AttemptsCounted
<1> QED
  BY <1>1, <1>5, <1>6 DEF AcceptedOnce, NotYetAttempted

LEMMA BackoffKeeps ==
  ASSUME IInv, TypeOK', BackoffElapses
  PROVE  InOrder' /\ AcceptedOnce' /\ NotYetAttempted' /\ AttemptsCounted'
<1>1. /\ TypeOK /\ InOrder /\ AcceptedOnce /\ NotYetAttempted /\ AttemptsCounted
      /\ In("backoff")
      /\ UNCHANGED <<accepted, settled, attempts>>
  BY DEF IInv, BackoffElapses
<1>2. InFlight = 1 /\ InFlight' = 0
  <2>1. activeFlush' # NoFlush /\ activeFlush'.phase = "returned"
    BY <1>1, FlightFields DEF Phase, BackoffElapses
  <2> QED
    BY <1>1, <2>1, InFlightNow, InFlightPrimed DEF Phase
<1> DEFINE e == [job        |-> activeFlush.job,
                 retryCount |-> activeFlush.retryCount + 1]
<1>3. /\ e.job = activeFlush.job /\ e.retryCount = activeFlush.retryCount + 1
      /\ queue' = <<e>> \o queue
      /\ e \in Entry
  <2>1. activeFlush.retryCount + 1 \in 0 .. MaxRetries
    BY <1>1, FlightFields, MaxRetriesAssumption DEF IInv, RetryLeft
  <2> QED
    BY <1>1, <2>1, FlightFields, EntryFields DEF BackoffElapses
<1> HIDE DEF e
<1>4. /\ Len(queue') = Len(queue) + 1
      /\ queue'[1] = e
      /\ \A i \in 2 .. Len(queue) + 1 : queue'[i] = queue[i - 1]
      /\ Len(accepted) \in Nat /\ Len(settled) \in Nat /\ Len(queue) \in Nat
  BY <1>1, <1>3 DEF TypeOK
<1>5. \A i \in 1 .. Len(queue') :
        /\ queue'[i].job = accepted[Len(settled) + i]
        /\ attempts[queue'[i].job] = queue'[i].retryCount
  <2> TAKE i \in 1 .. Len(queue')
  <2>1. CASE i = 1
    BY <1>1, <1>2, <1>3, <1>4, <2>1 DEF InOrder, AttemptsCounted
  <2>2. CASE i # 1
    <3>1. i - 1 \in 1 .. Len(queue) /\ queue'[i] = queue[i - 1]
      BY <1>4, <2>2
    <3>2. queue[i - 1].job = accepted[Len(settled) + InFlight + (i - 1)]
      BY <1>1, <3>1 DEF InOrder
    <3>3. Len(settled) + InFlight + (i - 1) = Len(settled) + i
      BY <1>2, <1>4, <3>1
    <3>4. attempts[queue[i - 1].job] = queue[i - 1].retryCount
      BY <1>1, <3>1 DEF AttemptsCounted
    <3> QED
      BY <3>1, <3>2, <3>3, <3>4
  <2> QED
    BY <2>1, <2>2
<1>6. InOrder'
  <2>1. Len(accepted') = Len(settled') + InFlight' + Len(queue')
    BY <1>1, <1>2, <1>4 DEF InOrder
  <2>2. \A i \in 1 .. Len(queue') :
          queue'[i].job = accepted'[Len(settled') + InFlight' + i]
    <3> TAKE i \in 1 .. Len(queue')
    <3>1. Len(settled') + InFlight' + i = Len(settled) + i
      BY <1>1, <1>2, <1>4
    <3> QED
      BY <1>1, <1>5, <3>1
  <2>3. \A i \in 1 .. Len(settled') : settled'[i].job = accepted'[i]
    BY <1>1 DEF InOrder
  <2>4. ~ (InFlight' = 1)
    BY <1>2
  <2> QED
    BY <2>1, <2>2, <2>3, <2>4 DEF InOrder
<1>7. AttemptsCounted'
  BY <1>1, <1>2, <1>5 DEF AttemptsCounted
<1> QED
  BY <1>1, <1>6, <1>7 DEF AcceptedOnce, NotYetAttempted

LEMMA FinallyKeeps ==
  ASSUME IInv, TypeOK', Finally
  PROVE  InOrder' /\ AcceptedOnce' /\ NotYetAttempted' /\ AttemptsCounted'
<1>1. /\ TypeOK /\ InOrder /\ AcceptedOnce /\ NotYetAttempted /\ AttemptsCounted
      /\ In("returned") /\ DrainNext(queue)
      /\ accepted' = accepted /\ settled' = settled
  BY DEF IInv, Finally
<1>2. InFlight = 0
  BY <1>1, InFlightNow DEF Phase
<1>3. /\ Len(accepted') = Len(settled) + Len(queue)
      /\ \A i \in 1 .. Len(queue) : queue[i].job = accepted'[Len(settled) + i]
  <2>1. Len(settled) \in Nat /\ Len(queue) \in Nat
    BY <1>1 DEF TypeOK
  <2> QED
    BY <1>1, <1>2, <2>1 DEF InOrder
<1>4. AcceptedOnce'
  BY <1>1 DEF AcceptedOnce
<1>5. /\ queue \in Seq(Entry) /\ accepted' \in Seq(Job)
      /\ \A i \in 1 .. Len(settled) : settled[i].job = accepted'[i]
      /\ \A i \in 1 .. Len(queue) : attempts[queue[i].job] = queue[i].retryCount
      /\ \A i \in 1 .. Len(settled) :
           LET n == attempts[settled[i].job] IN
           IF settled[i].ok THEN n \in 1 .. MaxRetries + 1
                            ELSE n = MaxRetries + 1
      /\ \A j \in Job : (\A i \in 1 .. Len(accepted') : accepted'[i] # j)
                           => attempts[j] = 0
  BY <1>1 DEF TypeOK, InOrder, AttemptsCounted, NotYetAttempted
<1> QED
  BY <1>1, <1>3, <1>4, <1>5, DrainNextKeeps

LEMMA IInvStep == IInv /\ [Next]_vars => IInv'
<1> SUFFICES ASSUME IInv, [Next]_vars
             PROVE  IInv'
  OBVIOUS
<1>0. TypeOK /\ RetryLeft /\ TypeOK' /\ RetryLeft'
  BY TypeStep, RetryLeftStep DEF IInv
<1>1. ASSUME NEW j \in Job, Enqueue(j)
      PROVE  IInv'
  BY <1>0, <1>1, EnqueueKeeps DEF IInv
<1>2. CASE ExecutorResolves
  BY <1>0, <1>2, SettleKeeps DEF ExecutorResolves, IInv
<1>3. CASE ExecutorRejects
  <2>1. CASE Retry
    <3>1. /\ In("executing") /\ activeFlush' # NoFlush
          /\ activeFlush'.job = activeFlush.job
          /\ activeFlush'.retryCount = activeFlush.retryCount
          /\ activeFlush'.phase = "backoff"
      BY <1>0, <1>3, <2>1, FlightFields DEF ExecutorRejects, Retry, Phase
    <3>2. InFlight = 1 /\ InFlight' = 1
      BY <1>0, <3>1, InFlightNow, InFlightPrimed DEF Phase
    <3>3. UNCHANGED <<queue, accepted, settled, attempts>>
      BY <1>3, <2>1 DEF ExecutorRejects, Retry
    <3> QED
      BY <1>0, <3>1, <3>2, <3>3
         DEF IInv, InOrder, AcceptedOnce, NotYetAttempted, AttemptsCounted
  <2>2. CASE DeadLetter
    <3>1. In("executing") /\ activeFlush.retryCount = MaxRetries
      BY <1>0, <1>3, <2>2, FlightFields, MaxRetriesAssumption
         DEF ExecutorRejects, DeadLetter
    <3> QED
      BY <1>0, <1>3, <2>2, <3>1, SettleKeeps DEF ExecutorRejects, DeadLetter, IInv
  <2> QED
    BY <1>3, <2>1, <2>2 DEF ExecutorRejects
<1>4. CASE BackoffElapses
  BY <1>0, <1>4, BackoffKeeps DEF IInv
<1>5. CASE Finally
  BY <1>0, <1>5, FinallyKeeps DEF IInv
<1>6. CASE DrainCall \/ DrainIdle \/ DrainDeadline \/ UNCHANGED vars
  BY <1>0, <1>6, UnchangedJobs DEF DrainCall, DrainIdle, DrainDeadline, vars
<1> QED
  BY <1>1, <1>2, <1>3, <1>4, <1>5, <1>6 DEF Next

LEMMA IInvInit == Init => IInv
<1> SUFFICES ASSUME Init
             PROVE  IInv
  OBVIOUS
<1>1. TypeOK /\ RetryLeft
  BY DEF Init, TypeOK, RetryLeft, In
<1>2. InFlight = 0
  BY DEF Init, InFlight, In
<1> QED
  BY <1>1, <1>2
     DEF Init, IInv, InOrder, AcceptedOnce, NotYetAttempted, AttemptsCounted

LEMMA InductiveInvariant == Spec => []IInv
  BY IInvInit, IInvStep, PTL DEF Spec

\* No job is lost, duplicated or overtaken between enqueue() and the
\* onComplete callbacks, retries included (flush-queue.ts:5-6, 148-207).
THEOREM OrderKept == Spec => []InOrder
<1>1. IInv => InOrder
  BY DEF IInv
<1> QED
  BY <1>1, InductiveInvariant, PTL

\* A job is dead-lettered after exactly MaxRetries + 1 attempts and no job is
\* attempted more often (the retryCount test of flush-queue.ts:180).
THEOREM AttemptsBounded == Spec => []AttemptsCounted
<1>1. IInv => AttemptsCounted
  BY DEF IInv
<1> QED
  BY <1>1, InductiveInvariant, PTL

-----------------------------------------------------------------------------
(* No lost wakeup *)

\* When no job is active the queue is empty: every path that frees the slot
\* runs drainNext() again (flush-queue.ts:162-170).
THEOREM NeverStranded == Spec => []NothingStranded
<1>1. Init => NothingStranded
  BY DEF Init, NothingStranded
<1>2. TypeOK /\ TypeOK' /\ NothingStranded /\ [Next]_vars => NothingStranded'
  <2> SUFFICES ASSUME TypeOK, TypeOK', NothingStranded, [Next]_vars
               PROVE  NothingStranded'
    OBVIOUS
  <2>1. ASSUME NEW q \in Seq(Entry), DrainNext(q)
        PROVE  NothingStranded'
    <3>1. CASE q # <<>> /\ StartHead(q)
      BY <3>1, StartHeadEffect DEF TypeOK, NothingStranded
    <3>2. CASE q = <<>> /\ queue' = q
      BY <3>2 DEF NothingStranded
    <3> QED
      BY <2>1, <3>1, <3>2 DEF DrainNext
  <2>2. ASSUME NEW j \in Job, Enqueue(j)
        PROVE  NothingStranded'
    <3>1. Append(queue, [job |-> j, retryCount |-> 0]) \in Seq(Entry)
      BY EntryFields, MaxRetriesAssumption DEF TypeOK
    <3> QED
      BY <2>1, <2>2, <3>1 DEF Enqueue, PushJob, NothingStranded
  <2>3. CASE ExecutorResolves \/ ExecutorRejects \/ BackoffElapses
    BY <2>3, FlightFields
       DEF ExecutorResolves, ExecutorRejects, Retry, DeadLetter, BackoffElapses,
           Phase, NothingStranded
  <2>4. CASE Finally
    BY <2>1, <2>4 DEF Finally, TypeOK
  <2>5. CASE DrainCall \/ DrainIdle \/ DrainDeadline \/ UNCHANGED vars
    BY <2>5 DEF DrainCall, DrainIdle, DrainDeadline, vars, jobVars, NothingStranded
  <2> QED
    BY <2>2, <2>3, <2>4, <2>5 DEF Next
<1> QED
  BY <1>1, <1>2, TypeCorrect, PTL DEF Spec

-----------------------------------------------------------------------------
(* drain() and the abstract queue *)

\* drain() reports completion only when every accepted job has its outcome.
THEOREM DrainIsSound == Spec => DrainedMeansSettled
<1>1. IInv /\ [Next]_vars
        => [drainer' = "drained" /\ drainer # "drained"
              => Len(settled) = Len(accepted)]_vars
  <2> SUFFICES ASSUME IInv, Next, drainer' = "drained", drainer # "drained"
               PROVE  Len(settled) = Len(accepted)
    OBVIOUS
  <2>1. ~Busy
    BY DEF Next, Enqueue, ExecutorResolves, ExecutorRejects, BackoffElapses,
           Finally, DrainCall, DrainIdle, DrainDeadline
  <2>2. InFlight = 0 /\ Len(queue) = 0
    BY <2>1, InFlightNow DEF Busy, IInv
  <2>3. Len(accepted) = Len(settled) + InFlight + Len(queue)
    BY DEF IInv, InOrder
  <2>4. Len(settled) \in Nat
    BY DEF IInv, TypeOK
  <2> QED
    BY <2>2, <2>3, <2>4
<1> QED
  BY <1>1, InductiveInvariant, PTL DEF Spec, DrainedMeansSettled

\* Every step of the queue is a step of SerialQueue or changes nothing there:
\* one outcome per job, in the order of acceptance.
THEOREM Refinement == Spec => Serial!SafeSpec
<1>1. Init => Serial!Init
  BY DEF Init, Serial!Init
<1>2. IInv /\ [Next]_vars => [Serial!Next]_(Serial!vars)
  <2> SUFFICES ASSUME IInv, [Next]_vars
               PROVE  Serial!Next \/ UNCHANGED Serial!vars
    OBVIOUS
  <2>1. ASSUME NEW j \in Job, Enqueue(j)
        PROVE  Serial!Next
    BY <2>1 DEF Enqueue, PushJob, Serial!Next, Serial!Accept
  <2>2. ASSUME NEW ok \in BOOLEAN, In("executing"), NotifyComplete(ok),
               UNCHANGED accepted
        PROVE  Serial!Next
    <3>1. InFlight = 1
      BY <2>2, InFlightNow DEF IInv, Phase
    <3>2. activeFlush.job = accepted[Len(settled) + 1]
      BY <3>1 DEF IInv, InOrder
    <3>3. Len(settled) < Len(accepted)
      BY <3>1 DEF IInv, InOrder, TypeOK
    <3> QED
      BY <2>2, <3>2, <3>3 DEF NotifyComplete, Serial!Next, Serial!Settle
  <2>3. CASE ExecutorResolves
    BY <2>2, <2>3 DEF ExecutorResolves
  <2>4. CASE ExecutorRejects
    BY <2>2, <2>4 DEF ExecutorRejects, Retry, DeadLetter, Serial!vars
  <2>5. CASE BackoffElapses \/ Finally
    BY <2>5 DEF BackoffElapses, Finally, Serial!vars
  <2>6. CASE DrainCall \/ DrainIdle \/ DrainDeadline \/ UNCHANGED vars
    BY <2>6 DEF DrainCall, DrainIdle, DrainDeadline, vars, jobVars, Serial!vars
  <2> QED
    BY <2>1, <2>3, <2>4, <2>5, <2>6 DEF Next
<1> QED
  BY <1>1, <1>2, InductiveInvariant, PTL DEF Spec, Serial!SafeSpec
=============================================================================
