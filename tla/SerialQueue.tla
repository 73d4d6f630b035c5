---------------------------- MODULE SerialQueue ----------------------------
(***************************************************************************)
(* What src/lib/flush-queue.ts promises its callers: jobs are accepted at  *)
(* any time and never refused, each gets exactly one outcome, and the      *)
(* outcomes come in the order in which the jobs were accepted.  Retries,   *)
(* backoff, the active slot and the counters are not visible here.         *)
(***************************************************************************)
EXTENDS Naturals, Sequences

CONSTANT Job        \* identities of the jobs handed to the queue

VARIABLES accepted, \* the jobs in the order in which they were handed over
          settled   \* the outcomes [job, ok], in the order of the callbacks

vars == <<accepted, settled>>

Outcome == [job : Job, ok : BOOLEAN]

Init == /\ accepted = <<>>
        /\ settled  = <<>>

Accept(j) == /\ \A i \in DOMAIN accepted : accepted[i] # j
             /\ accepted' = Append(accepted, j)
             /\ UNCHANGED settled

\* The oldest job without an outcome gets one, good or bad.
Settle(ok) == /\ Len(settled) < Len(accepted)
              /\ settled' = Append(settled,
                                   [job |-> accepted[Len(settled) + 1],
                                    ok  |-> ok])
              /\ UNCHANGED accepted

Next == \/ \E j \in Job : Accept(j)
        \/ \E ok \in BOOLEAN : Settle(ok)

SafeSpec == Init /\ [][Next]_vars

\* Callers may stop submitting; a job that was accepted is settled.
Spec == SafeSpec /\ WF_vars(\E ok \in BOOLEAN : Settle(ok))
=============================================================================
