-------------------------- MODULE SignalingServer --------------------------
(***************************************************************************)
(* src/client/signaling-server.ts: the ephemeral HTTP server of a client   *)
(* bridge, request by request.  Pairing takes it as one step per request;  *)
(* here the body of POST /answer arrives after its headers, requests       *)
(* overlap, and the timer and stop() fall between the two.                 *)
(* A request stands for the answer it carries.                             *)
(***************************************************************************)
EXTENDS Naturals, FiniteSets

CONSTANTS Request,   \* requests, each made at most once
          Nobody     \* null, and a promise not settled

VARIABLES
  offerSdp,         \* setOffer() has been called
  answerConsumed,
  promise,          \* waitForAnswer(): "none", "waiting", "rejected", an answer
  listening,        \* connections are accepted
  timeoutTimer,     \* the 60 second timer is pending
  request,          \* "none", "body" (headers read), "offer" (it was
                    \* served), or the status sent
  winner            \* history: the first answer told 200 once the owner waits

vars == <<offerSdp, answerConsumed, promise, listening, timeoutTimer, request,
          winner>>

Open == {r \in Request : request[r] = "body"}

\* close() is done once the open connections are.
ShutDown == ~listening /\ Open = {}

TypeOK ==
  /\ {offerSdp, answerConsumed, listening, timeoutTimer} \subseteq BOOLEAN
  /\ promise \in {"none", "waiting", "rejected"} \cup Request
  /\ request \in [Request -> {"none", "body", "offer", "200", "400", "401", "404", "409",
                              "503", "aborted"}]
  /\ winner \in Request \cup {Nobody}

\* start() has resolved: the timer runs from the moment the server listens.
Init ==
  /\ offerSdp \in BOOLEAN /\ answerConsumed = FALSE /\ promise = "none"
  /\ listening = TRUE /\ timeoutTimer = TRUE
  /\ request = [r \in Request |-> "none"] /\ winner = Nobody

Reply(r, status) == request' = [request EXCEPT ![r] = status]

Stop == listening' = FALSE /\ timeoutTimer' = FALSE

SetOffer ==
  /\ ~offerSdp /\ offerSdp' = TRUE
  /\ UNCHANGED <<answerConsumed, promise, listening, timeoutTimer, request, winner>>

WaitForAnswer ==
  /\ promise = "none" /\ promise' = "waiting"
  /\ UNCHANGED <<offerSdp, answerConsumed, listening, timeoutTimer, request, winner>>

\* The headers of a request: token, method and path decide.
GetOffer(r)   == Reply(r, IF offerSdp THEN "offer" ELSE "503")
PostAnswer(r) == Reply(r, IF answerConsumed THEN "409" ELSE "body")

Headers(r) ==
  /\ listening /\ request[r] = "none"
  /\ Reply(r, "401") \/ Reply(r, "404") \/ GetOffer(r) \/ PostAnswer(r)
  /\ UNCHANGED <<offerSdp, answerConsumed, promise, listening, timeoutTimer, winner>>

BugAnswer(r) ==  \* a callback called for each answer
  /\ request[r] = "body"
  /\ answerConsumed' = TRUE
  /\ Reply(r, "200")
  /\ promise' = IF promise = "none" THEN "none" ELSE r
  /\ winner' = IF promise # "none" /\ winner = Nobody THEN r ELSE winner
  /\ Stop
  /\ UNCHANGED offerSdp

\* The end of the body.  A second resolve() of a promise does nothing.
Answer(r) ==
  /\ request[r] = "body"
  /\ answerConsumed' = TRUE
  /\ Reply(r, "200")
  /\ promise' = IF promise = "waiting" THEN r ELSE promise
  /\ winner' = IF promise # "none" /\ winner = Nobody THEN r ELSE winner
  /\ Stop
  /\ UNCHANGED offerSdp

\* No JSON, no answer in it, more than 64 KB; or the client goes away.
BadBody(r) ==
  /\ request[r] = "body"
  /\ Reply(r, "400") \/ Reply(r, "aborted")
  /\ UNCHANGED <<offerSdp, answerConsumed, promise, listening, timeoutTimer, winner>>

Timeout ==
  /\ timeoutTimer
  /\ promise' = IF promise = "waiting" /\ ~answerConsumed THEN "rejected" ELSE promise
  /\ Stop
  /\ UNCHANGED <<offerSdp, answerConsumed, request, winner>>

\* stop() by the owner, at shutdown.
CallStop ==
  /\ listening /\ Stop
  /\ UNCHANGED <<offerSdp, answerConsumed, promise, request, winner>>

Next == \/ SetOffer \/ WaitForAnswer \/ Timeout \/ CallStop
        \/ \E r \in Request : Headers(r) \/ Answer(r) \/ BadBody(r)

Spec == Init /\ [][Next]_vars

\* The timer fires; a request that was begun ends (node's request timeout ends
\* it if the client does not).
FairSpec == /\ Spec /\ WF_vars(Timeout)
            /\ \A r \in Request : WF_vars(Answer(r) \/ BadBody(r))

-----------------------------------------------------------------------------

\* What Pairing builds on: the answer that comes out is the first one that was
\* told 200 since the owner waits, however many POST /answer overlap, and a
\* request that carried no answer does not use the server up (answerConsumed,
\* answerResolve).
FirstAnswerWins ==
  /\ promise \in Request => promise = winner
  /\ answerConsumed => \E r \in Request : request[r] = "200"

\* The port does not stay open: the server is gone after the timer at the latest,
\* whatever the requests in hand do (SIGNALING_TIMEOUT_MS, stop).
ServerGoesAway == <>[]ShutDown

-----------------------------------------------------------------------------
(* Refuted *)

\* A client that was told OK has its answer used, and one only.  Not so: a second
\* POST whose headers came before the first body's end is told 200 too, and so is
\* one whose body ends after the timer has rejected the promise.
AcknowledgedIsUsed ==
  /\ Cardinality({r \in Request : request[r] = "200"}) <= 1
  /\ promise = "rejected" => winner = Nobody

\* waitForAnswer() settles.  Not so if it is called after the answer or the timer.
WaitSettles == promise = "waiting" ~> promise # "waiting"
=============================================================================
