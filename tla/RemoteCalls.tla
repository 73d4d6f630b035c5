---------------------------- MODULE RemoteCalls ----------------------------
(***************************************************************************)
(* What a transport that may lose messages promises to the one who calls   *)
(* a program through it: every call gets one outcome at most, and is       *)
(* carried out once at most.  An answer is the answer of the program, a    *)
(* call that was refused or never sent is not carried out; a caller that   *)
(* has given up knows nothing, for the call may still be carried out.      *)
(* DataChannel implements it, with both pairs of programs.                 *)
(***************************************************************************)
EXTENDS Naturals

CONSTANT Call

VARIABLES outcome,    \* what each caller knows
          served      \* how often each call was carried out

vars == <<outcome, served>>

Unsent   == {"notReady", "sendFailed"}
Answers  == {"response", "error"}
Silences == {"timeout", "lost"}

Init == /\ outcome = [c \in Call |-> "new"]
        /\ served  = [c \in Call |-> 0]

Becomes(c, result) == /\ outcome' = [outcome EXCEPT ![c] = result]
                      /\ UNCHANGED served

\* The call is sent, or fails at once.
Make(c) == /\ outcome[c] = "new"
           /\ \E result \in {"waiting"} \cup Unsent : Becomes(c, result)

\* The program takes the call, whether or not the caller still waits.
Serve(c) == /\ outcome[c] \in {"waiting"} \cup Silences
            /\ served[c] = 0
            /\ served' = [served EXCEPT ![c] = 1]
            /\ UNCHANGED outcome

Answer(c) == /\ outcome[c] = "waiting" /\ served[c] = 1
             /\ \E result \in Answers : Becomes(c, result)

\* The program did not take the call and never will.
Refuse(c) == /\ outcome[c] = "waiting" /\ served[c] = 0
             /\ Becomes(c, "refused")

\* Callers stop waiting: one whose time is up, all when the channel is gone.
GiveUp(C) == /\ \A c \in C : outcome[c] = "waiting"
             /\ \E why \in Silences :
                  outcome' = [c \in Call |-> IF c \in C THEN why ELSE outcome[c]]
             /\ UNCHANGED served

Next == \/ \E c \in Call : Make(c) \/ Serve(c) \/ Answer(c) \/ Refuse(c)
        \/ \E C \in SUBSET Call : GiveUp(C)

Spec == Init /\ [][Next]_vars

\* The values of the two sides.
TypeOK ==
  /\ outcome \in [Call -> {"new", "waiting", "refused"} \cup Unsent \cup Answers
                           \cup Silences]
  /\ served \in [Call -> Nat]

\* What follows for the two sides, whatever implements this: no call is carried
\* out twice, an answer means that it was carried out, any other outcome that is
\* certain means that it was not.
SidesAgree ==
  \A c \in Call :
    /\ served[c] <= 1
    /\ outcome[c] \in Answers => served[c] = 1
    /\ outcome[c] \in {"new", "refused"} \cup Unsent => served[c] = 0
=============================================================================
