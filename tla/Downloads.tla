------------------------------ MODULE Downloads ------------------------------
(***************************************************************************)
(* What a program that reads archived conversations back promises to the   *)
(* one who asked: a single answer that has an outcome for every item asked *)
(* for, and under an item nothing but what came in when that item was      *)
(* fetched.  It does not promise that this is what was archived under the  *)
(* item: none of the programs compares what it gets with the CID.  The     *)
(* retrieval client (Retrieval) and the data-recovery tool (Recovery) both *)
(* implement it.                                                           *)
(***************************************************************************)
CONSTANTS Failed,     \* the outcome of an item that could not be read
          NotYet,     \* no answer so far
          GivenUp     \* the program ended without an answer

VARIABLES arrived,    \* for every item asked for, what has come in under it
          answer      \* NotYet, GivenUp, or an outcome for every item

IsOutcome(outcome, item) == outcome = Failed \/ outcome \in arrived[item]

IsAnswer(reply) ==
  /\ reply \notin {NotYet, GivenUp}
  /\ DOMAIN reply = DOMAIN arrived
  /\ \A item \in DOMAIN arrived : IsOutcome(reply[item], item)

Init == /\ answer = NotYet
        /\ \A item \in DOMAIN arrived : arrived[item] = {}

Arrive == /\ answer = NotYet
          /\ DOMAIN arrived' = DOMAIN arrived
          /\ \A item \in DOMAIN arrived : arrived[item] \subseteq arrived'[item]
          /\ UNCHANGED answer

Deliver == /\ answer = NotYet
           /\ IsAnswer(answer')
           /\ UNCHANGED arrived

GiveUp == /\ answer = NotYet
          /\ answer' = GivenUp
          /\ UNCHANGED arrived

\* The next run of the program asks for a list of its own.
AskAgain == /\ answer # NotYet
            /\ answer' = NotYet
            /\ \A item \in DOMAIN arrived' : arrived'[item] = {}

Next == Arrive \/ Deliver \/ GiveUp \/ AskAgain

\* What may be answered, and that an answer comes.
Safe     == Init /\ [][Next]_<<arrived, answer>>
Answered == (answer = NotYet) ~> (answer # NotYet)
=============================================================================
