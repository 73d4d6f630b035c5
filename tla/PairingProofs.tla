---------------------------- MODULE PairingProofs ----------------------------
(***************************************************************************)
(* Theorems about Pairing for every set of bridges, finite or not, every   *)
(* number of attempts and every number of faults.                          *)
(***************************************************************************)
EXTENDS Pairing, FiniteSetTheorems, TLAPS

-----------------------------------------------------------------------------
(***************************************************************************)
(* The inductive invariant.  OnePairingAtATime counts; what is inductive   *)
(* is that any two handlers under way are one.  PeerIsLatest needs that a  *)
(* bridge that has not asked yet is nobody's peer (FreshBridges): its      *)
(* POST /pair would otherwise take a peer out of "connected".              *)
(***************************************************************************)

FreshBridges ==
  \A b \in Bridge : bridge[b] = "starting" => step[b] = "new"

\* fetchOfferWithRetry() goes on only below maxAttempts, and every callback that
\* is queued was paid for by a fault.
CountsOK ==
  /\ \A b \in Bridge : step[b] \in {"new", "fetching"} => attempt[b] < MaxAttempts
  /\ \A b \in Bridge : callbacks[b] <= faults

OneActive ==
  /\ \A b, c \in Bridge : step[b] \in Active /\ step[c] \in Active => b = c
  /\ pairingInProgress <=> \E b \in Bridge : step[b] \in Active

IInv ==
  /\ TypeOK /\ FreshBridges /\ CountsOK
  /\ OneActive /\ PeerIsLatest

-----------------------------------------------------------------------------
(* Types *)

LEMMA FaultType ==
  ASSUME TypeOK, Fault
  PROVE  faults' \in 0 .. MaxFaults /\ faults' = faults + 1
  BY BoundsAssumption DEF TypeOK, Fault

LEMMA FailType ==
  ASSUME TypeOK, NEW b \in Bridge, Fail(b)
  PROVE  /\ step' \in [Bridge -> Active \cup {"new", "connected", "failed", "refused"}]
         /\ bridge' \in [Bridge -> {"starting", "pairing", "handshake", "ready", "failed"}]
         /\ signaling' \in [Bridge -> BOOLEAN]
         /\ state' = "awaiting_repair" /\ pairingInProgress' = FALSE
  BY DEF TypeOK, Fail, BridgeDies, StopSignaling

LEMMA TypeStep == TypeOK /\ CountsOK /\ [Next]_vars => TypeOK'
<1> SUFFICES ASSUME TypeOK, CountsOK, [Next]_vars
             PROVE  TypeOK'
  OBVIOUS
<1>1. ASSUME NEW b \in Bridge, PostPair(b)
      PROVE  TypeOK'
  BY <1>1 DEF TypeOK, PostPair, BridgeDies, StopSignaling, Active
<1>2. ASSUME NEW b \in Bridge, FetchOffer(b)
      PROVE  TypeOK'
  <2>1. attempt' \in [Bridge -> 0 .. MaxAttempts]
    BY <1>2, BoundsAssumption DEF TypeOK, CountsOK, FetchOffer
  <2>2. faults' \in 0 .. MaxFaults
    BY <1>2, FaultType DEF FetchOffer, TypeOK
  <2>3. CASE Fail(b) /\ UNCHANGED <<pc, dcPromise>>
    BY <1>2, <2>1, <2>2, <2>3, FailType DEF TypeOK, FetchOffer
  <2>4. CASE UNCHANGED <<pairingInProgress, state, step, bridge, signaling, pc, dcPromise>>
    BY <1>2, <2>1, <2>2, <2>4 DEF TypeOK, FetchOffer
  <2>5. CASE /\ step' = [step EXCEPT ![b] = "answering"] /\ CreatePeer(b)
             /\ UNCHANGED <<pairingInProgress, state, bridge, signaling>>
    BY <1>2, <2>1, <2>2, <2>5 DEF TypeOK, FetchOffer, CreatePeer, Active
  <2> QED
    BY <1>2, <2>3, <2>4, <2>5 DEF FetchOffer
<1>3. ASSUME NEW b \in Bridge, SubmitAnswer(b)
      PROVE  TypeOK'
  <2>1. faults' \in 0 .. MaxFaults
    BY <1>3, FaultType DEF SubmitAnswer, TypeOK
  <2>2. answered' \in [Bridge -> BOOLEAN]
    BY <1>3 DEF SubmitAnswer, AcceptAnswer, TypeOK
  <2>3. CASE Fail(b)
    BY <1>3, <2>1, <2>2, <2>3, FailType DEF TypeOK, SubmitAnswer
  <2>4. CASE /\ AcceptAnswer(b) /\ step' = [step EXCEPT ![b] = "waiting"]
             /\ UNCHANGED <<pairingInProgress, state, bridge>>
    BY <1>3, <2>1, <2>2, <2>4
       DEF TypeOK, SubmitAnswer, AcceptAnswer, StopSignaling, Active
  <2> QED
    BY <1>3, <2>3, <2>4 DEF SubmitAnswer
<1>4. ASSUME NEW b \in Bridge, ChannelArrives(b)
      PROVE  TypeOK'
  BY <1>4 DEF TypeOK, ChannelArrives, shimVars, bridgeVars
<1>5. ASSUME NEW b \in Bridge, ChannelTimeout(b)
      PROVE  TypeOK'
  <2>1. faults' \in 0 .. MaxFaults
    BY <1>5, BoundsAssumption DEF ChannelTimeout, Smaller, TypeOK
  <2>2. CASE Fail(b) /\ UNCHANGED shimUp
    BY <1>5, <2>1, <2>2, FailType DEF TypeOK, ChannelTimeout
  <2>3. CASE /\ shimUp' = FALSE
             /\ UNCHANGED <<pairingInProgress, state, step, bridge, signaling>>
    BY <1>5, <2>1, <2>3 DEF TypeOK, ChannelTimeout
  <2> QED
    BY <1>5, <2>2, <2>3 DEF ChannelTimeout
<1>6. ASSUME NEW b \in Bridge, PairDone(b)
      PROVE  TypeOK'
  <2>1. CASE Fail(b) /\ UNCHANGED latest
    BY <1>6, <2>1, FailType DEF TypeOK, PairDone
  <2>2. CASE /\ latest' = b /\ state' = "connected" /\ pairingInProgress' = FALSE
             /\ step' = [step EXCEPT ![b] = "connected"]
             /\ bridge' = [bridge EXCEPT ![b] = IF @ = "pairing" THEN "handshake" ELSE @]
             /\ UNCHANGED signaling
    BY <1>6, <2>2 DEF TypeOK, PairDone
  <2> QED
    BY <1>6, <2>1, <2>2 DEF PairDone
<1>7. ASSUME NEW b \in Bridge, HandshakeMessage(b)
      PROVE  TypeOK'
  BY <1>7 DEF TypeOK, HandshakeMessage, bridgeVars
<1>8. ASSUME NEW b \in Bridge, BridgeReady(b)
      PROVE  TypeOK'
  BY <1>8 DEF TypeOK, BridgeReady, shimVars, pairVars
<1>9. ASSUME NEW b \in Bridge, ConnectionLost(b) \/ Disconnected(b)
      PROVE  TypeOK'
  <2>1. faults' \in 0 .. MaxFaults /\ faults' = faults + 1
    BY <1>9, FaultType DEF ConnectionLost, Disconnected
  <2>2. callbacks' \in [Bridge -> 0 .. MaxFaults]
    BY <1>9, <2>1, BoundsAssumption DEF ConnectionLost, Disconnected, TypeOK, CountsOK
  <2>3. pc' \in [Bridge -> {"none", "live", "lost"}]
    BY <1>9 DEF ConnectionLost, Disconnected, TypeOK
  <2> QED
    BY <1>9, <2>1, <2>2, <2>3
       DEF TypeOK, ConnectionLost, Disconnected, shimVars, bridgeVars
<1>10. ASSUME NEW b \in Bridge, OnStateChange(b)
       PROVE  TypeOK'
  <2>1. callbacks' \in [Bridge -> 0 .. MaxFaults]
    BY <1>10, BoundsAssumption DEF OnStateChange, TypeOK
  <2> QED
    BY <1>10, <2>1 DEF TypeOK, OnStateChange, bridgeVars
<1>11. ASSUME NEW b \in Bridge, SignalingTimeout(b)
       PROVE  TypeOK'
  BY <1>11, FaultType DEF TypeOK, SignalingTimeout, StopSignaling, shimVars, pairVars
<1>12. ASSUME NEW b \in Bridge, BridgeGivesUp(b)
       PROVE  TypeOK'
  <2>1. faults' \in 0 .. MaxFaults
    BY <1>12, FaultType DEF BridgeGivesUp, TypeOK
  <2> QED
    BY <1>12, <2>1 DEF TypeOK, BridgeGivesUp, BridgeDies, StopSignaling, shimVars, pairVars
<1>13. CASE UNCHANGED vars
  BY <1>13 DEF TypeOK, vars, shimVars, pairVars, bridgeVars
<1> QED
  BY <1>1, <1>2, <1>3, <1>4, <1>5, <1>6, <1>7, <1>8, <1>9, <1>10, <1>11, <1>12, <1>13
     DEF Next

-----------------------------------------------------------------------------
(* What a step does to the handlers *)

Moves(b, from, to) == step[b] \in from /\ \E s \in to : step' = [step EXCEPT ![b] = s]

\* A handler begins, is refused, goes on or ends; or it stands still.  It never
\* ends but with pairingInProgress reset, and never begins while that is set.
LEMMA HandlerChange ==
  ASSUME TypeOK, FreshBridges, [Next]_vars
  PROVE  \/ UNCHANGED <<step, pairingInProgress>>
         \/ \E b \in Bridge :
              \/ /\ PostPair(b) /\ Moves(b, {"new"}, {"fetching"})
                 /\ ~pairingInProgress /\ pairingInProgress'
              \/ /\ PostPair(b) /\ Moves(b, {"new"}, {"refused"})
                 /\ UNCHANGED pairingInProgress
              \/ Moves(b, Active, {"answering", "waiting"}) /\ UNCHANGED pairingInProgress
              \/ Moves(b, Active, {"failed", "connected"}) /\ ~pairingInProgress'
<1>1. \A b \in Bridge : step[b] \in Active /\ Fail(b) =>
        Moves(b, Active, {"failed", "connected"}) /\ ~pairingInProgress'
  BY DEF Fail, Moves
<1>2. \A b \in Bridge : bridge[b] = "starting" => step[b] = "new"
  BY DEF FreshBridges
<1>3. ASSUME NEW b \in Bridge, PostPair(b)
      PROVE  \/ /\ Moves(b, {"new"}, {"fetching"})
                /\ ~pairingInProgress /\ pairingInProgress'
             \/ Moves(b, {"new"}, {"refused"}) /\ UNCHANGED pairingInProgress
  BY <1>2, <1>3 DEF PostPair, Moves
<1>4. ASSUME NEW b \in Bridge, FetchOffer(b)
      PROVE  \/ UNCHANGED <<step, pairingInProgress>>
             \/ Moves(b, Active, {"answering", "waiting"}) /\ UNCHANGED pairingInProgress
             \/ Moves(b, Active, {"failed", "connected"}) /\ ~pairingInProgress'
  BY <1>1, <1>4 DEF FetchOffer, Moves, Active
<1>5. ASSUME NEW b \in Bridge, SubmitAnswer(b)
      PROVE  \/ Moves(b, Active, {"answering", "waiting"}) /\ UNCHANGED pairingInProgress
             \/ Moves(b, Active, {"failed", "connected"}) /\ ~pairingInProgress'
  BY <1>1, <1>5 DEF SubmitAnswer, Moves, Active
<1>6. ASSUME NEW b \in Bridge, ChannelTimeout(b) \/ PairDone(b)
      PROVE  \/ UNCHANGED <<step, pairingInProgress>>
             \/ Moves(b, Active, {"failed", "connected"}) /\ ~pairingInProgress'
  BY <1>1, <1>6 DEF ChannelTimeout, PairDone, Moves, Active
<1>7. ASSUME NEW b \in Bridge,
             \/ ChannelArrives(b) \/ HandshakeMessage(b) \/ BridgeReady(b)
             \/ ConnectionLost(b) \/ Disconnected(b) \/ OnStateChange(b)
             \/ SignalingTimeout(b) \/ BridgeGivesUp(b)
      PROVE  UNCHANGED <<step, pairingInProgress>>
  BY <1>7 DEF ChannelArrives, HandshakeMessage, BridgeReady, ConnectionLost, Disconnected,
              OnStateChange, SignalingTimeout, BridgeGivesUp, shimVars, pairVars
<1>8. CASE UNCHANGED vars
  BY <1>8 DEF vars, shimVars, pairVars
<1> QED
  BY <1>3, <1>4, <1>5, <1>6, <1>7, <1>8 DEF Next

LEMMA OneActiveStep ==
  TypeOK /\ FreshBridges /\ OneActive /\ [Next]_vars => OneActive'
<1> SUFFICES ASSUME TypeOK, FreshBridges, OneActive, [Next]_vars
             PROVE  OneActive'
  OBVIOUS
<1>0. step \in [Bridge -> Active \cup {"new", "connected", "failed", "refused"}]
  BY DEF TypeOK
<1>1. CASE UNCHANGED <<step, pairingInProgress>>
  BY <1>1 DEF OneActive
<1>2. ASSUME NEW b \in Bridge, Moves(b, {"new"}, {"fetching"}),
             ~pairingInProgress, pairingInProgress'
      PROVE  OneActive'
  BY <1>0, <1>2 DEF OneActive, Moves, Active
<1>3. ASSUME NEW b \in Bridge,
             \/ Moves(b, {"new"}, {"refused"}) \/ Moves(b, Active, {"answering", "waiting"}),
             UNCHANGED pairingInProgress
      PROVE  OneActive'
  BY <1>0, <1>3 DEF OneActive, Moves, Active
<1>4. ASSUME NEW b \in Bridge, Moves(b, Active, {"failed", "connected"}),
             ~pairingInProgress'
      PROVE  OneActive'
  BY <1>0, <1>4 DEF OneActive, Moves, Active
<1> QED
  BY <1>1, <1>2, <1>3, <1>4, HandlerChange

LEMMA FreshStep ==
  TypeOK /\ FreshBridges /\ [Next]_vars => FreshBridges'
<1> SUFFICES ASSUME TypeOK, FreshBridges, [Next]_vars, NEW c \in Bridge,
                    bridge'[c] = "starting"
             PROVE  step'[c] = "new"
  BY DEF FreshBridges
<1>1. bridge[c] = "starting" /\ ~PostPair(c)
  <2>1. ASSUME NEW b \in Bridge, PostPair(b)
        PROVE  bridge[c] = "starting" /\ b # c
    BY <2>1 DEF PostPair, BridgeDies, TypeOK
  <2>2. ASSUME NEW b \in Bridge, FetchOffer(b) \/ SubmitAnswer(b) \/ ChannelTimeout(b)
        PROVE  bridge[c] = "starting"
    BY <2>2 DEF FetchOffer, SubmitAnswer, ChannelTimeout, Fail, BridgeDies, TypeOK
  <2>3. ASSUME NEW b \in Bridge, PairDone(b) \/ BridgeReady(b) \/ BridgeGivesUp(b)
        PROVE  bridge[c] = "starting"
    BY <2>3 DEF PairDone, BridgeReady, BridgeGivesUp, Fail, BridgeDies, TypeOK
  <2>4. ASSUME NEW b \in Bridge,
               \/ ChannelArrives(b) \/ HandshakeMessage(b) \/ ConnectionLost(b)
               \/ Disconnected(b) \/ OnStateChange(b) \/ SignalingTimeout(b)
        PROVE  UNCHANGED bridge
    BY <2>4 DEF ChannelArrives, HandshakeMessage, ConnectionLost, Disconnected,
                OnStateChange, SignalingTimeout, bridgeVars
  <2>5. UNCHANGED vars => UNCHANGED bridge
    BY DEF vars, bridgeVars
  <2>6. PostPair(c) => bridge'[c] # "starting"
    BY DEF PostPair, BridgeDies, TypeOK
  <2> QED
    BY <2>1, <2>2, <2>3, <2>4, <2>5, <2>6 DEF Next
<1>2. step[c] = "new"
  BY <1>1 DEF FreshBridges
<1>3. ASSUME NEW b \in Bridge, PostPair(b)
      PROVE  step'[c] = "new"
  BY <1>1, <1>2, <1>3 DEF PostPair, TypeOK
<1>4. ASSUME NEW b \in Bridge, Moves(b, Active, {"answering", "waiting", "failed", "connected"})
      PROVE  step'[c] = "new"
  BY <1>2, <1>4 DEF Moves, Active, TypeOK
<1>5. ASSUME NEW b \in Bridge,
             Moves(b, Active, {"answering", "waiting"}) \/ Moves(b, Active, {"failed", "connected"})
      PROVE  step'[c] = "new"
  BY <1>4, <1>5 DEF Moves
<1> QED
  BY <1>2, <1>3, <1>5, HandlerChange

\* Attempts stay below the limit while there are any, callbacks below the faults.
LEMMA CountsStep ==
  TypeOK /\ CountsOK /\ FreshBridges /\ [Next]_vars => CountsOK'
<1> SUFFICES ASSUME TypeOK, CountsOK, FreshBridges, [Next]_vars
             PROVE  CountsOK'
  OBVIOUS
<1> DEFINE AttemptsOK == \A b \in Bridge : step[b] \in {"new", "fetching"} =>
                                             attempt[b] < MaxAttempts
           CallbacksOK == \A b \in Bridge : callbacks[b] <= faults
<1>0. AttemptsOK /\ CallbacksOK
  BY DEF CountsOK
<1>1. AttemptsOK'
  <2>1. ASSUME NEW b \in Bridge, FetchOffer(b)
        PROVE  AttemptsOK'
    <3>1. attempt[b] \in 0 .. MaxAttempts /\ attempt[b] < MaxAttempts
      BY <1>0, <2>1 DEF FetchOffer, TypeOK
    <3>2. CASE UNCHANGED attempt /\ \E s \in {"answering", "failed"} :
                                      step' = [step EXCEPT ![b] = s]
      BY <1>0, <3>2 DEF TypeOK
    <3>3. CASE /\ attempt' = [attempt EXCEPT ![b] = @ + 1]
               /\ IF attempt'[b] = MaxAttempts
                  THEN step' = [step EXCEPT ![b] = "failed"] ELSE UNCHANGED step
      BY <1>0, <3>1, <3>3, BoundsAssumption DEF TypeOK
    <3> QED
      BY <2>1, <3>2, <3>3 DEF FetchOffer, Fail
  <2>2. ASSUME UNCHANGED attempt
        PROVE  AttemptsOK'
    BY <1>0, <2>2, HandlerChange DEF Moves, Active, TypeOK
  <2>3. ASSUME NEW b \in Bridge, ~FetchOffer(b),
               \/ PostPair(b) \/ SubmitAnswer(b) \/ ChannelArrives(b)
               \/ ChannelTimeout(b) \/ PairDone(b) \/ HandshakeMessage(b)
               \/ BridgeReady(b) \/ ConnectionLost(b) \/ Disconnected(b)
               \/ OnStateChange(b) \/ SignalingTimeout(b) \/ BridgeGivesUp(b)
        PROVE  UNCHANGED attempt
    BY <2>3 DEF PostPair, SubmitAnswer, ChannelArrives, ChannelTimeout, PairDone,
                HandshakeMessage, BridgeReady, ConnectionLost, Disconnected,
                OnStateChange, SignalingTimeout, BridgeGivesUp, pairVars
  <2>4. UNCHANGED vars => UNCHANGED attempt
    BY DEF vars, pairVars
  <2> HIDE DEF AttemptsOK
  <2> QED
    BY <2>1, <2>2, <2>3, <2>4 DEF Next
<1>2. CallbacksOK'
  <2>0. faults \in Nat /\ callbacks \in [Bridge -> Nat]
    BY BoundsAssumption DEF TypeOK
  <2>1. ASSUME NEW b \in Bridge, ConnectionLost(b) \/ Disconnected(b)
        PROVE  CallbacksOK'
    BY <1>0, <2>0, <2>1 DEF ConnectionLost, Disconnected, Fault
  <2>2. ASSUME NEW b \in Bridge, OnStateChange(b)
        PROVE  CallbacksOK'
    BY <1>0, <2>0, <2>2 DEF OnStateChange
  <2>3. ASSUME UNCHANGED callbacks, faults' \in Nat, faults' >= faults
        PROVE  CallbacksOK'
    BY <1>0, <2>0, <2>3
  <2>4. ASSUME NEW b \in Bridge, ~ConnectionLost(b), ~Disconnected(b), ~OnStateChange(b),
               \/ PostPair(b) \/ FetchOffer(b) \/ SubmitAnswer(b) \/ ChannelArrives(b)
               \/ PairDone(b) \/ HandshakeMessage(b)
               \/ BridgeReady(b) \/ SignalingTimeout(b) \/ BridgeGivesUp(b)
        PROVE  UNCHANGED callbacks /\ (faults' = faults \/ faults' = faults + 1)
    BY <2>4 DEF PostPair, FetchOffer, SubmitAnswer, ChannelArrives, PairDone,
                HandshakeMessage, BridgeReady, SignalingTimeout, BridgeGivesUp, Fault,
                pairVars
  <2>5. ASSUME NEW b \in Bridge, ChannelTimeout(b)
        PROVE  UNCHANGED callbacks /\ (faults' = faults \/ faults' = faults + 1)
    BY <2>5, BoundsAssumption DEF ChannelTimeout, Smaller, TypeOK
  <2>6. UNCHANGED vars => UNCHANGED <<callbacks, faults>>
    BY DEF vars, pairVars
  <2> HIDE DEF CallbacksOK
  <2> QED
    BY <2>0, <2>1, <2>2, <2>3, <2>4, <2>5, <2>6 DEF Next
<1> QED
  BY <1>1, <1>2 DEF CountsOK

LEMMA PeerIsLatestStep ==
  TypeOK /\ FreshBridges /\ PeerIsLatest /\ [Next]_vars => PeerIsLatest'
<1> SUFFICES ASSUME TypeOK, FreshBridges, PeerIsLatest, [Next]_vars
             PROVE  PeerIsLatest'
  OBVIOUS
<1>0. /\ step \in [Bridge -> Active \cup {"new", "connected", "failed", "refused"}]
      /\ peer \in Bridge \cup {NoBridge}
  BY DEF TypeOK
<1>1. ASSUME NEW b \in Bridge, PostPair(b)
      PROVE  PeerIsLatest'
  <2>1. step[b] = "new"
    BY <1>1 DEF PostPair, FreshBridges
  <2> QED
    BY <1>0, <1>1, <2>1 DEF PostPair, PeerIsLatest
<1>2. ASSUME NEW b \in Bridge, step[b] \in Active, Fail(b), UNCHANGED <<peer, latest>>
      PROVE  PeerIsLatest'
  BY <1>0, <1>2 DEF Fail, PeerIsLatest, Active
<1>3. ASSUME NEW b \in Bridge, FetchOffer(b)
      PROVE  PeerIsLatest'
  <2>1. CASE Fail(b)
    BY <1>2, <1>3, <2>1 DEF FetchOffer, Active
  <2>2. CASE /\ UNCHANGED state
             /\ step' = [step EXCEPT ![b] = "answering"] \/ UNCHANGED step
    BY <1>0, <1>3, <2>2 DEF FetchOffer, PeerIsLatest
  <2> QED
    BY <1>3, <2>1, <2>2 DEF FetchOffer
<1>4. ASSUME NEW b \in Bridge, SubmitAnswer(b)
      PROVE  PeerIsLatest'
  <2>1. CASE Fail(b)
    BY <1>2, <1>4, <2>1 DEF SubmitAnswer, Active
  <2>2. CASE UNCHANGED state /\ step' = [step EXCEPT ![b] = "waiting"]
    BY <1>0, <1>4, <2>2 DEF SubmitAnswer, PeerIsLatest
  <2> QED
    BY <1>4, <2>1, <2>2 DEF SubmitAnswer
<1>5. ASSUME NEW b \in Bridge, ChannelTimeout(b)
      PROVE  PeerIsLatest'
  <2>1. CASE step[b] = "waiting" /\ Fail(b)
    BY <1>2, <1>5, <2>1 DEF ChannelTimeout, Active
  <2>2. CASE UNCHANGED <<state, step>>
    BY <1>0, <1>5, <2>2 DEF ChannelTimeout, PeerIsLatest
  <2> QED
    BY <1>5, <2>1, <2>2 DEF ChannelTimeout
<1>6. ASSUME NEW b \in Bridge, PairDone(b)
      PROVE  PeerIsLatest'
  <2>1. peer' = b /\ b # NoBridge
    BY <1>6, BridgeAssumption DEF PairDone
  <2>2. \/ latest' = b /\ step' = [step EXCEPT ![b] = "connected"]
        \/ Fail(b)
    BY <1>6 DEF PairDone
  <2> QED
    BY <1>0, <2>1, <2>2 DEF Fail, PeerIsLatest
<1>7. ASSUME NEW b \in Bridge, OnStateChange(b)
      PROVE  PeerIsLatest'
  BY <1>7 DEF OnStateChange, PeerIsLatest
<1>8. ASSUME NEW b \in Bridge,
             \/ ChannelArrives(b) \/ HandshakeMessage(b) \/ BridgeReady(b)
             \/ ConnectionLost(b) \/ Disconnected(b)
             \/ SignalingTimeout(b) \/ BridgeGivesUp(b)
      PROVE  UNCHANGED <<state, peer, step, latest>>
  BY <1>8 DEF ChannelArrives, HandshakeMessage, BridgeReady, ConnectionLost, Disconnected,
              SignalingTimeout, BridgeGivesUp, shimVars, pairVars
<1>9. UNCHANGED vars => UNCHANGED <<state, peer, step, latest>>
  BY DEF vars, shimVars, pairVars
<1>10. UNCHANGED <<state, peer, step, latest>> => PeerIsLatest'
  BY DEF PeerIsLatest
<1> QED
  BY <1>1, <1>3, <1>4, <1>5, <1>6, <1>7, <1>8, <1>9, <1>10 DEF Next

-----------------------------------------------------------------------------
(* The theorems *)

LEMMA InitIInv == Init => IInv
<1> SUFFICES ASSUME Init
             PROVE  IInv
  OBVIOUS
<1>1. TypeOK
  <2>1. 0 \in 0 .. MaxAttempts /\ 0 \in 0 .. MaxFaults
    BY BoundsAssumption
  <2>2. /\ attempt \in [Bridge -> 0 .. MaxAttempts]
        /\ callbacks \in [Bridge -> 0 .. MaxFaults] /\ faults \in 0 .. MaxFaults
    BY <2>1 DEF Init
  <2>3. /\ handshaken \in [Bridge -> BOOLEAN] /\ answered \in [Bridge -> BOOLEAN]
        /\ signaling \in [Bridge -> BOOLEAN]
    BY DEF Init
  <2> QED
    BY <2>2, <2>3 DEF Init, TypeOK
<1>2. FreshBridges /\ CountsOK
  BY BoundsAssumption DEF Init, FreshBridges, CountsOK
<1>3. OneActive /\ PeerIsLatest
  BY DEF Init, OneActive, PeerIsLatest, Active
<1> QED
  BY <1>1, <1>2, <1>3 DEF IInv

LEMMA Inductive == Spec => []IInv
<1>1. Init => IInv
  BY InitIInv
<1>2. IInv /\ [Next]_vars => IInv'
  BY TypeStep, FreshStep, CountsStep, OneActiveStep, PeerIsLatestStep DEF IInv
<1> QED
  BY <1>1, <1>2, PTL DEF Spec

\* Every variable of the pairing keeps its type: no round of fetchOfferWithRetry()
\* goes beyond maxAttempts, and no more loss callbacks are queued than there were
\* faults.
THEOREM TypeCorrect == Spec => []TypeOK
<1>1. IInv => TypeOK
  BY DEF IInv
<1> QED
  BY <1>1, Inductive, PTL

\* However many bridges post /pair, and wherever a pairing fails, one pairing is
\* under way at most, and pairingInProgress is set exactly while one is.
THEOREM OnePairingCorrect == Spec => []OnePairingAtATime
<1>1. ASSUME OneActive
      PROVE  OnePairingAtATime
  <2> DEFINE A == {b \in Bridge : step[b] \in Active}
  <2>1. CASE A = {}
    BY <1>1, <2>1, FS_EmptySet DEF OneActive, OnePairingAtATime
  <2>2. ASSUME NEW b \in A
        PROVE  OnePairingAtATime
    <3>1. A = {b}
      BY <1>1 DEF OneActive
    <3>2. Cardinality(A) = 1
      BY <3>1, FS_Singleton
    <3> QED
      BY <1>1, <3>2 DEF OneActive, OnePairingAtATime
  <2> QED
    BY <2>1, <2>2
<1>2. IInv => OnePairingAtATime
  BY <1>1 DEF IInv
<1> QED
  BY <1>2, Inductive, PTL

\* "connected" is only said of a shim that has a peer, and that peer is never one
\* paired before the latest, whatever callbacks of older PeerConnections come.
THEOREM PeerCorrect == Spec => []PeerIsLatest
<1>1. IInv => PeerIsLatest
  BY DEF IInv
<1> QED
  BY <1>1, Inductive, PTL
=============================================================================
