------------------------------ MODULE Pairing ------------------------------
(***************************************************************************)
(* Pairing over HTTP: client bridges (startWebRTCClient of                 *)
(* client/client-bridge.ts, each with its signaling server) ask one shim   *)
(* (transport/webrtc.ts) to connect to them.  The shim's POST /pair        *)
(* handler fetches the bridge's offer, submits its answer and waits for    *)
(* the DataChannel; requests of other bridges, callbacks of older          *)
(* PeerConnections and timers run between its awaits.                      *)
(*                                                                         *)
(* node-datachannel is external: a channel arrives at the shim once the    *)
(* bridge has passed the answer to its PeerConnection.  client-bridge.ts   *)
(* never does: it calls neither waitForAnswer() nor setAnswer().  The shim *)
(* cannot tell who asks it to pair, so Applying holds the bridges that are *)
(* NOT that program, external ones that follow the flow of README.md; all  *)
(* others are client-bridge.ts.                                            *)
(***************************************************************************)
EXTENDS Naturals, FiniteSets

CONSTANTS
  Bridge,          \* client bridge processes; each pairs once
  NoBridge,        \* null
  Applying,        \* external bridges, which hand the answer to setAnswer()
  MaxAttempts,     \* fetchOfferWithRetry(): maxAttempts
  MaxFaults        \* bound: transport errors, losses and slow peers

ASSUME BridgeAssumption == NoBridge \notin Bridge /\ Applying \subseteq Bridge
\* The code makes 5 attempts.
ASSUME BoundsAssumption == MaxAttempts \in Nat \ {0} /\ MaxFaults \in Nat

VARIABLES
  state, peer, pairingInProgress,  \* of createWebRTCTransport(); peer is
                                   \* named by its bridge
  shimUp,          \* the shim's process has not died
  step,            \* where the /pair handler stands for each bridge
  attempt,         \* fetchOfferWithRetry(): attempts so far
  pc,              \* the shim's PeerConnection for this bridge
  dcPromise,       \* the promise for its DataChannel
  callbacks,       \* queued onStateChange calls that tell of a loss
  handshaken,      \* peer.handshakeComplete of the PeerState of this bridge
  bridge,          \* where startWebRTCClient() stands
  signaling,       \* the bridge's signaling server listens
  answered,        \* the signaling server has accepted an answer
  faults,
  latest           \* history: the bridge of the last completed pairing

shimVars   == <<state, peer, pairingInProgress, shimUp>>
pairVars   == <<step, attempt, pc, dcPromise, callbacks, handshaken>>
bridgeVars == <<bridge, signaling, answered>>
vars == <<shimVars, pairVars, bridgeVars, faults, latest>>

Init ==
  /\ state = "waiting" /\ peer = NoBridge /\ pairingInProgress = FALSE
  /\ shimUp = TRUE
  /\ step = [b \in Bridge |-> "new"] /\ attempt = [b \in Bridge |-> 0]
  /\ pc = [b \in Bridge |-> "none"] /\ dcPromise = [b \in Bridge |-> "none"]
  /\ callbacks = [b \in Bridge |-> 0]
  /\ handshaken = [b \in Bridge |-> FALSE]
  /\ bridge = [b \in Bridge |-> "starting"]
  /\ signaling = [b \in Bridge |-> TRUE] /\ answered = [b \in Bridge |-> FALSE]
  /\ faults = 0 /\ latest = NoBridge

Active == {"fetching", "answering", "waiting"}

Smaller(m, n) == IF m < n THEN m ELSE n

Fault == faults < MaxFaults /\ faults' = faults + 1

-----------------------------------------------------------------------------
(* The bridge's signaling server *)

\* GET /offer: the server listens; its offer was set before POST /pair.
ServesOffer(b) == signaling[b]

\* stop(): after the answer, the timeout, or with the process.
StopSignaling(b) == signaling' = [signaling EXCEPT ![b] = FALSE]

\* POST /answer: the first well-formed answer is kept, and the server stops.
AcceptAnswer(b) ==
  /\ ServesOffer(b)
  /\ answered' = [answered EXCEPT ![b] = TRUE]
  /\ StopSignaling(b)

-----------------------------------------------------------------------------

\* startWebRTCClient() throws and the bridge's process ends with it.
BridgeDies(b) ==
  /\ bridge' = [bridge EXCEPT ![b] = "failed"]
  /\ StopSignaling(b)

\* The catch block of the handler: status 500.  The PeerConnection stays.
Fail(b) ==
  /\ pairingInProgress' = FALSE
  /\ state' = "awaiting_repair"
  /\ step' = [step EXCEPT ![b] = "failed"]
  /\ BridgeDies(b)

-----------------------------------------------------------------------------
(* POST /pair *)

BugPostPair(b) ==  \* does not look whether a pairing is under way
  /\ shimUp /\ bridge[b] = "starting"
  /\ step' = [step EXCEPT ![b] = "fetching"]
  /\ pairingInProgress' = TRUE
  /\ state' = "connecting"
  /\ bridge' = [bridge EXCEPT ![b] = "pairing"]
  /\ UNCHANGED <<peer, shimUp, attempt, pc, dcPromise, callbacks, handshaken,
                 signaling, answered, faults, latest>>

\* One pairing at a time: 409 while another is under way.
PostPair(b) ==
  /\ shimUp /\ bridge[b] = "starting"
  /\ \/ /\ pairingInProgress
        /\ step' = [step EXCEPT ![b] = "refused"]
        /\ BridgeDies(b)
        /\ UNCHANGED <<pairingInProgress, state>>
     \/ /\ ~pairingInProgress
        /\ step' = [step EXCEPT ![b] = "fetching"]
        /\ pairingInProgress' = TRUE
        /\ state' = "connecting"
        /\ bridge' = [bridge EXCEPT ![b] = "pairing"]
        /\ UNCHANGED signaling
  /\ UNCHANGED <<peer, shimUp, attempt, pc, dcPromise, callbacks, handshaken,
                 answered, faults, latest>>

BugFetchOffer(b) ==  \* one attempt too many
  /\ shimUp /\ step[b] = "fetching"
  /\ IF signaling[b] THEN Fault ELSE UNCHANGED faults
  /\ attempt' = [attempt EXCEPT ![b] = @ + 1]
  /\ IF attempt'[b] > MaxAttempts
     THEN Fail(b)
     ELSE UNCHANGED <<pairingInProgress, state, step, bridge, signaling>>
  /\ UNCHANGED <<peer, shimUp, pc, dcPromise, callbacks, handshaken, answered, latest>>

\* The PeerConnection, its answer, and the promise of the DataChannel with its
\* 30 second timer.
CreatePeer(b) ==
  /\ pc' = [pc EXCEPT ![b] = "live"]
  /\ dcPromise' = [dcPromise EXCEPT ![b] = "open"]

\* One round of fetchOfferWithRetry().  Errors are retried, 401 is not.
FetchOffer(b) ==
  /\ shimUp /\ step[b] = "fetching"
  /\ \/ /\ ServesOffer(b)
        /\ step' = [step EXCEPT ![b] = "answering"]
        /\ CreatePeer(b)
        /\ UNCHANGED <<attempt, pairingInProgress, state, bridge, signaling, faults>>
     \/ /\ IF ServesOffer(b) THEN Fault ELSE UNCHANGED faults
        /\ attempt' = [attempt EXCEPT ![b] = @ + 1]
        /\ IF attempt'[b] = MaxAttempts
           THEN Fail(b)
           ELSE UNCHANGED <<pairingInProgress, state, step, bridge, signaling>>
        /\ UNCHANGED <<pc, dcPromise>>
     \/ /\ Fault          \* 401: someone else listens at that address
        /\ Fail(b)
        /\ UNCHANGED <<attempt, pc, dcPromise>>
  /\ UNCHANGED <<peer, shimUp, callbacks, handshaken, answered, latest>>

\* POST /answer.  An accepted answer closes the signaling server; its reply
\* may still be lost (5 second limit).
SubmitAnswer(b) ==
  /\ shimUp /\ step[b] = "answering"
  /\ \/ /\ AcceptAnswer(b)
        /\ step' = [step EXCEPT ![b] = "waiting"]
        /\ UNCHANGED <<pairingInProgress, state, bridge, faults>>
     \/ /\ AcceptAnswer(b) /\ Fault
        /\ Fail(b)
     \/ /\ IF ServesOffer(b) THEN Fault ELSE UNCHANGED faults
        /\ Fail(b)
        /\ UNCHANGED answered
  /\ UNCHANGED <<peer, shimUp, attempt, pc, dcPromise, callbacks, handshaken, latest>>

\* The bridge has what it needs to open the channel: never client-bridge.ts.
OnItsWay(b) ==
  b \in Applying /\ answered[b] /\ bridge[b] # "failed" /\ pc[b] = "live"

\* pc.onDataChannel: resolves the promise and clears its timer.
ChannelArrives(b) ==
  /\ shimUp /\ dcPromise[b] = "open" /\ OnItsWay(b)
  /\ dcPromise' = [dcPromise EXCEPT ![b] = "resolved"]
  /\ UNCHANGED <<shimVars, step, attempt, pc, callbacks, handshaken, bridgeVars,
                 faults, latest>>

BugNoChannelTimer(b) == FALSE  \* the channel is awaited without a timer

\* The 30 second timer rejects the promise.  The handler fails if it awaits
\* it; if it has failed before, nobody handles the rejection and the process
\* dies.  (The 5 second limit of POST /answer is over by then.)
ChannelTimeout(b) ==
  /\ shimUp /\ dcPromise[b] = "open" /\ step[b] \in {"waiting", "failed"}
  /\ dcPromise' = [dcPromise EXCEPT ![b] = "rejected"]
  /\ faults' = IF OnItsWay(b) THEN Smaller(faults + 1, MaxFaults) ELSE faults
  /\ \/ step[b] = "waiting" /\ Fail(b) /\ UNCHANGED shimUp
     \/ /\ step[b] = "failed"
        /\ shimUp' = FALSE
        /\ UNCHANGED <<pairingInProgress, state, step, bridge, signaling>>
  /\ UNCHANGED <<peer, attempt, pc, callbacks, handshaken, answered, latest>>

BugPairDone(b) ==  \* keeps an older peer that is still there
  /\ shimUp /\ step[b] = "waiting" /\ dcPromise[b] = "resolved" /\ pc[b] = "live"
  /\ peer' = (IF peer = NoBridge THEN b ELSE peer)
  /\ latest' = b
  /\ state' = "connected" /\ pairingInProgress' = FALSE
  /\ step' = [step EXCEPT ![b] = "connected"]
  /\ bridge' = [bridge EXCEPT ![b] = IF @ = "pairing" THEN "handshake" ELSE @]
  /\ UNCHANGED <<shimUp, attempt, pc, dcPromise, callbacks, handshaken,
                 signaling, answered, faults>>

\* The channel is there: store the peer, send the handshake, register the
\* callbacks and reply.  Sending on a channel that is lost again throws, after
\* the peer has been stored.
PairDone(b) ==
  /\ shimUp /\ step[b] = "waiting" /\ dcPromise[b] = "resolved"
  /\ peer' = b
  /\ \/ /\ pc[b] = "live"
        /\ latest' = b
        /\ state' = "connected" /\ pairingInProgress' = FALSE
        /\ step' = [step EXCEPT ![b] = "connected"]
        /\ bridge' = [bridge EXCEPT ![b] = IF @ = "pairing" THEN "handshake" ELSE @]
        /\ UNCHANGED signaling
     \/ /\ pc[b] = "lost"
        /\ Fail(b)
        /\ UNCHANGED latest
  /\ UNCHANGED <<shimUp, attempt, pc, dcPromise, callbacks, handshaken,
                 answered, faults>>

-----------------------------------------------------------------------------
(* Connections *)

Connected(b) == shimUp /\ step[b] = "connected" /\ pc[b] = "live"

\* The bridge's handshake.  The handler of every channel reads the shared
\* variable `peer': null ends the process.
HandshakeMessage(b) ==
  /\ Connected(b) /\ bridge[b] \in {"handshake", "ready"} /\ ~handshaken[b]
  /\ IF peer = NoBridge
     THEN shimUp' = FALSE /\ UNCHANGED handshaken
     ELSE handshaken' = [handshaken EXCEPT ![peer] = TRUE] /\ UNCHANGED shimUp
  /\ UNCHANGED <<state, peer, pairingInProgress, step, attempt, pc, dcPromise,
                 callbacks, bridgeVars, faults, latest>>

\* The bridge completes its own handshake and opens its HTTP proxy.
BridgeReady(b) ==
  /\ Connected(b) /\ bridge[b] = "handshake"
  /\ bridge' = [bridge EXCEPT ![b] = "ready"]
  /\ UNCHANGED <<shimVars, pairVars, signaling, answered, faults, latest>>

\* The connection is lost, or only disconnected for a while; either way
\* onStateChange is called, once the shim has registered it.
ConnectionLost(b) ==
  /\ pc[b] = "live" /\ Fault
  /\ pc' = [pc EXCEPT ![b] = "lost"]
  /\ callbacks' = [callbacks EXCEPT ![b] = IF step[b] = "connected" THEN @ + 1 ELSE @]
  /\ UNCHANGED <<shimVars, step, attempt, dcPromise, handshaken, bridgeVars, latest>>

Disconnected(b) ==
  /\ Connected(b) /\ Fault
  /\ callbacks' = [callbacks EXCEPT ![b] = @ + 1]
  /\ UNCHANGED <<shimVars, step, attempt, pc, dcPromise, handshaken, bridgeVars, latest>>

\* pc.onStateChange: also that of a PeerConnection which is not peer.pc.
OnStateChange(b) ==
  /\ shimUp /\ callbacks[b] > 0
  /\ callbacks' = [callbacks EXCEPT ![b] = @ - 1]
  /\ state' = "awaiting_repair"
  /\ peer' = NoBridge
  /\ UNCHANGED <<pairingInProgress, shimUp, step, attempt, pc, dcPromise,
                 handshaken, bridgeVars, faults, latest>>

-----------------------------------------------------------------------------
(* The bridge's timers *)

\* 60 seconds: the signaling server shuts down.
SignalingTimeout(b) ==
  /\ signaling[b] /\ bridge[b] = "pairing" /\ Fault
  /\ StopSignaling(b)
  /\ UNCHANGED <<shimVars, pairVars, bridge, answered, latest>>

\* 65 seconds for POST /pair, 300 for the handshake.
BridgeGivesUp(b) ==
  /\ bridge[b] \in {"pairing", "handshake"}
  /\ IF shimUp THEN Fault ELSE UNCHANGED faults
  /\ BridgeDies(b)
  /\ UNCHANGED <<shimVars, pairVars, answered, latest>>

-----------------------------------------------------------------------------
Next == \E b \in Bridge :
          \/ PostPair(b) \/ FetchOffer(b) \/ SubmitAnswer(b)
          \/ ChannelArrives(b) \/ ChannelTimeout(b) \/ PairDone(b)
          \/ HandshakeMessage(b) \/ BridgeReady(b)
          \/ ConnectionLost(b) \/ Disconnected(b) \/ OnStateChange(b)
          \/ SignalingTimeout(b) \/ BridgeGivesUp(b)

Spec == Init /\ [][Next]_vars

(* Each HTTP request of the handler has a time limit and the wait for the  *)
(* channel has its timer.                                                  *)
FairSpec == /\ Spec
            /\ \A b \in Bridge : /\ WF_vars(FetchOffer(b))
                                 /\ WF_vars(SubmitAnswer(b))
                                 /\ WF_vars(ChannelTimeout(b))
                                 /\ WF_vars(PairDone(b))

-----------------------------------------------------------------------------
(* Properties *)

TypeOK ==
  /\ state \in {"waiting", "connecting", "connected", "awaiting_repair"}
  /\ peer \in Bridge \cup {NoBridge} /\ latest \in Bridge \cup {NoBridge}
  /\ pairingInProgress \in BOOLEAN /\ shimUp \in BOOLEAN
  /\ step \in [Bridge -> Active \cup {"new", "connected", "failed", "refused"}]
  /\ attempt \in [Bridge -> 0 .. MaxAttempts]
  /\ pc \in [Bridge -> {"none", "live", "lost"}]
  /\ dcPromise \in [Bridge -> {"none", "open", "resolved", "rejected"}]
  /\ callbacks \in [Bridge -> 0 .. MaxFaults]
  /\ handshaken \in [Bridge -> BOOLEAN]
  /\ bridge \in [Bridge -> {"starting", "pairing", "handshake", "ready", "failed"}]
  /\ signaling \in [Bridge -> BOOLEAN] /\ answered \in [Bridge -> BOOLEAN]
  /\ faults \in 0 .. MaxFaults

(* One pairing at a time, and the flag that says so is set exactly while   *)
(* one is under way: an early return or an error on any of its awaits      *)
(* neither leaves it set, which would refuse every later bridge with 409,  *)
(* nor lets a second pairing in.                                           *)
OnePairingAtATime ==
  /\ Cardinality({b \in Bridge : step[b] \in Active}) <= 1
  /\ pairingInProgress <=> \E b \in Bridge : step[b] \in Active

(* "connected" at GET /status means that there is a peer, and the peer is  *)
(* never an older one than the last that was paired, although older        *)
(* PeerConnections and their callbacks stay around.                        *)
PeerIsLatest ==
  /\ state = "connected" => peer # NoBridge /\ step[peer] = "connected"
  /\ peer # NoBridge /\ step[peer] = "connected" => peer = latest

(* A bridge that was let in fails only if something went wrong around the  *)
(* programs.  Refuted for client-bridge.ts: "WebRTC DataChannel opens"     *)
(* (README.md) never happens.                                              *)
FailsOnlyByFault ==
  faults = 0 => \A b \in Bridge : bridge[b] = "failed" => step[b] = "refused"

(* Every call of POST /pair ends.                                          *)
PairingEnds ==
  \A b \in Bridge : step[b] \in Active ~> (step[b] \notin Active \/ ~shimUp)

-----------------------------------------------------------------------------
(* What comments say and the code does not keep: the model refutes each.    *)

(* "connected": "DataChannel open, handshake done".                        *)
ConnectedMeansHandshake == state = "connected" => handshaken[peer]

(* "awaiting_repair": "Reconnection exhausted".  The callback of an older  *)
(* PeerConnection withdraws a newer one that is alive.                     *)
OnlyPeerLossDropsPeer ==
  [][\A b \in Bridge : peer = b /\ peer' = NoBridge
                        => callbacks'[b] < callbacks[b]]_vars

(* A failed pairing is answered with "Pairing could not be completed" and  *)
(* leaves the shim waiting for the next one.                               *)
ShimSurvivesFailure == shimUp
=============================================================================
