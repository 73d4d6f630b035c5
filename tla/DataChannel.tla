---------------------------- MODULE DataChannel ----------------------------
(***************************************************************************)
(* LLM requests over one established WebRTC DataChannel, from the opening  *)
(* handshake to the loss of the channel.  The code has this protocol       *)
(* twice; `programs' says which pair of programs is running:               *)
(*   "bridge": WebRTCClient (client/webrtc-client.ts), behind the HTTP     *)
(*             proxy of client-bridge.ts, and the shim                     *)
(*             (transport/webrtc.ts);                                      *)
(*   "qr":     qr-client.ts and qr-server.ts.                              *)
(*                                                                         *)
(* The channel is ordered but not reliable (maxRetransmits = 3): a message *)
(* may be lost.  The PeerConnection may be disconnected for a while and    *)
(* come back with the channel intact, or go down for good.                 *)
(***************************************************************************)
EXTENDS Naturals, Sequences, FiniteSets

CONSTANTS
  Request,            \* calls of POST /v1/chat/completions at the client
  Programs,           \* the pairs of programs that may be running
  ClientProtocol, ServerProtocol, \* protocol_version of createHandshake()
  NoVersion,          \* null
  MaxLosses,          \* bound: messages lost
  MaxDisconnects      \* bound: times the connection is disconnected

\* min_supported and max_supported of each side are numbers.
ASSUME ProtocolAssumption ==
  {ClientProtocol, ServerProtocol} \subseteq [min : Nat, max : Nat]

VARIABLES
  programs,           \* the pair that is running; never changes
  link,               \* the PeerConnection and its DataChannel
  toServer, toClient, \* messages under way, in order
  clientOpen, serverOpen,     \* onOpen (or onDataChannel) has run
  clientNotice, serverNotice, \* a loss callback is queued at this side
  clientReady, clientVersion, \* handshakeComplete, negotiatedVersion
  serverReady, serverVersion,
  peerGone,           \* shim: peer is null again
  pending,            \* pendingRequests: the keys of the map
  outcome,            \* what each HTTP request at the client got
  working,            \* requests inside engine.handleChatCompletion
  engineCalls,        \* history: calls of the engine per request
  serverUp,           \* the server process has not died
  losses, disconnects

linkVars   == <<programs, link, disconnects>>
clientVars == <<clientOpen, clientReady, clientVersion, pending, outcome>>
serverVars == <<serverOpen, serverReady, serverVersion, peerGone, working,
                engineCalls, serverUp>>
vars == <<linkVars, toServer, toClient, clientNotice, serverNotice,
          clientVars, serverVars, losses>>

Settled == {"response", "error", "refused", "timeout", "lost", "sendFailed",
            "notReady"}

Message == [type : {"handshake"}, protocol : {ClientProtocol, ServerProtocol}]
             \cup [type : {"request", "response", "error", "refused"}, id : Request]

Qr == programs = "qr"

Init ==
  /\ programs \in Programs
  /\ link = "connecting" /\ disconnects = 0 /\ losses = 0
  /\ toServer = <<>> /\ toClient = <<>>
  /\ clientOpen = FALSE /\ serverOpen = FALSE
  /\ clientNotice = FALSE /\ serverNotice = FALSE
  /\ clientReady = FALSE /\ clientVersion = NoVersion
  /\ serverReady = FALSE /\ serverVersion = NoVersion
  /\ peerGone = FALSE /\ serverUp = TRUE
  /\ pending = {} /\ working = {}
  /\ outcome = [r \in Request |-> "new"]
  /\ engineCalls = [r \in Request |-> 0]

Greater(m, n) == IF m > n THEN m ELSE n
Smaller(m, n) == IF m < n THEN m ELSE n

BugNegotiateRemote(local, remote) ==  \* takes the other side's highest version
  IF Greater(local.min, remote.min) > Smaller(local.max, remote.max)
  THEN NoVersion ELSE remote.max

\* negotiateVersion(): the highest version both sides support, or null.
Negotiate(local, remote) ==
  IF Greater(local.min, remote.min) > Smaller(local.max, remote.max)
  THEN NoVersion ELSE Smaller(local.max, remote.max)

\* dc.sendMessage() throws on a closed channel.
Sendable == link \in {"open", "disconnected"}

-----------------------------------------------------------------------------
(* The connection *)

Connect ==
  /\ link = "connecting"
  /\ link' = "open"
  /\ UNCHANGED <<programs, disconnects, toServer, toClient, clientNotice, serverNotice,
                 clientVars, serverVars, losses>>

\* onStateChange("disconnected") is queued where a handler is registered (the
\* shim does so when it opens); the QR programs ignore this state.
Disconnect ==
  /\ link = "open"
  /\ disconnects < MaxDisconnects
  /\ disconnects' = disconnects + 1
  /\ link' = "disconnected"
  /\ UNCHANGED programs
  /\ clientNotice' = (clientNotice \/ ~Qr)
  /\ serverNotice' = (serverNotice \/ (~Qr /\ serverOpen))
  /\ UNCHANGED <<toServer, toClient, clientVars, serverVars, losses>>

Reconnect ==
  /\ link = "disconnected"
  /\ link' = "open"
  /\ UNCHANGED <<programs, disconnects, toServer, toClient, clientNotice, serverNotice,
                 clientVars, serverVars, losses>>

\* Failed or closed: what was under way is gone, and both sides will hear it.
GoDown ==
  /\ link' = "down"
  /\ toServer' = <<>> /\ toClient' = <<>>
  /\ clientNotice' = TRUE /\ serverNotice' = serverOpen
  /\ UNCHANGED <<programs, disconnects, losses>>

Down == Sendable /\ GoDown /\ UNCHANGED <<clientVars, serverVars>>

Without(s, i) == SubSeq(s, 1, i - 1) \o SubSeq(s, i + 1, Len(s))

\* A message runs out of retransmissions.
Lose ==
  /\ losses < MaxLosses
  /\ losses' = losses + 1
  /\ \/ /\ \E i \in DOMAIN toServer : toServer' = Without(toServer, i)
        /\ UNCHANGED toClient
     \/ /\ \E i \in DOMAIN toClient : toClient' = Without(toClient, i)
        /\ UNCHANGED toServer
  /\ UNCHANGED <<linkVars, clientNotice, serverNotice, clientVars, serverVars>>

-----------------------------------------------------------------------------
(* The client *)

ClientStep == UNCHANGED <<linkVars, serverNotice, serverVars, losses>>

BugClientOnOpen ==  \* leaves the handshake to the other side
  /\ Sendable /\ ~clientOpen
  /\ clientOpen' = TRUE
  /\ ClientStep
  /\ UNCHANGED <<toServer, toClient, clientNotice, clientReady, clientVersion,
                 pending, outcome>>

ClientOnOpen ==
  /\ Sendable /\ ~clientOpen
  /\ clientOpen' = TRUE
  /\ toServer' = Append(toServer, [type |-> "handshake", protocol |-> ClientProtocol])
  /\ ClientStep
  /\ UNCHANGED <<toClient, clientNotice, clientReady, clientVersion, pending, outcome>>

\* The HTTP proxy listens once the first handshake is complete.
ProxyUp == clientVersion # NoVersion

\* The promise of a pending request settles and its map entry goes.
Settle(r, result) ==
  /\ pending' = pending \ {r}
  /\ outcome' = [outcome EXCEPT ![r] = result]

BugSendRequest(r) ==  \* a failed send leaves its map entry behind
  /\ ProxyUp /\ outcome[r] = "new"
  /\ IF ~clientReady
     THEN /\ outcome' = [outcome EXCEPT ![r] = "notReady"]
          /\ UNCHANGED <<pending, toServer>>
     ELSE /\ outcome' = [outcome EXCEPT ![r] = IF Sendable THEN "waiting"
                                               ELSE "sendFailed"]
          /\ pending' = pending \cup {r}
          /\ toServer' = IF Sendable
                         THEN Append(toServer, [type |-> "request", id |-> r])
                         ELSE toServer
  /\ ClientStep
  /\ UNCHANGED <<toClient, clientNotice, clientOpen, clientReady, clientVersion>>

\* POST /v1/chat/completions: 503 unless the handshake is complete; register
\* the request with its timer, send it, and take it back if that throws.
SendRequest(r) ==
  /\ ProxyUp /\ outcome[r] = "new"
  /\ \/ /\ ~clientReady
        /\ outcome' = [outcome EXCEPT ![r] = "notReady"]
        /\ UNCHANGED <<pending, toServer>>
     \/ /\ clientReady /\ Sendable
        /\ pending' = pending \cup {r}
        /\ outcome' = [outcome EXCEPT ![r] = "waiting"]
        /\ toServer' = Append(toServer, [type |-> "request", id |-> r])
     \/ /\ clientReady /\ ~Sendable
        /\ Settle(r, "sendFailed")
        /\ UNCHANGED toServer
  /\ ClientStep
  /\ UNCHANGED <<toClient, clientNotice, clientOpen, clientReady, clientVersion>>

BugTimeout(r) ==  \* sends the request again and waits on
  /\ r \in pending /\ Sendable /\ Len(toServer) < 3
  /\ toServer' = Append(toServer, [type |-> "request", id |-> r])
  /\ ClientStep
  /\ UNCHANGED <<toClient, clientNotice, clientOpen, clientReady, clientVersion,
                 pending, outcome>>

BugNoTimeout(r) == FALSE  \* a request without a timer

Timeout(r) ==
  /\ r \in pending
  /\ Settle(r, "timeout")
  /\ ClientStep
  /\ UNCHANGED <<toServer, toClient, clientNotice, clientOpen, clientReady, clientVersion>>

\* handleMessage(): complete the handshake, or settle the request by its id;
\* an answer to an unknown id (it timed out) is dropped.
ClientReceive ==
  /\ link = "open" /\ clientOpen /\ toClient # <<>>
  /\ toClient' = Tail(toClient)
  /\ LET msg == Head(toClient) IN
     \/ /\ msg.type = "handshake"
        /\ LET v == Negotiate(ClientProtocol, msg.protocol) IN
           IF v = NoVersion
           THEN UNCHANGED <<clientReady, clientVersion>>
           ELSE clientReady' = TRUE /\ clientVersion' = v
        /\ UNCHANGED <<pending, outcome>>
     \/ /\ msg.type # "handshake"
        /\ IF msg.id \in pending THEN Settle(msg.id, msg.type)
           ELSE UNCHANGED <<pending, outcome>>
        /\ UNCHANGED <<clientReady, clientVersion>>
  /\ ClientStep
  /\ UNCHANGED <<toServer, clientNotice, clientOpen>>

\* rejectAllPending()
RejectAllPending ==
  /\ pending' = {}
  /\ outcome' = [r \in Request |-> IF r \in pending THEN "lost" ELSE outcome[r]]

BugClientOnLost ==  \* leaves the open requests to their timers
  /\ clientNotice
  /\ clientNotice' = FALSE
  /\ clientReady' = (clientReady /\ Qr)
  /\ ClientStep
  /\ UNCHANGED <<toServer, toClient, clientOpen, clientVersion, pending, outcome>>

\* dc.onClosed and pc.onStateChange; qr-client.ts keeps handshakeComplete.
ClientOnLost ==
  /\ clientNotice
  /\ clientNotice' = FALSE
  /\ RejectAllPending
  /\ clientReady' = (clientReady /\ Qr)
  /\ ClientStep
  /\ UNCHANGED <<toServer, toClient, clientOpen, clientVersion>>

\* WebRTCClient.close(), called by the bridge's shutdown.
Close ==
  /\ ~Qr /\ Sendable
  /\ RejectAllPending
  /\ clientReady' = FALSE
  /\ GoDown
  /\ UNCHANGED <<clientOpen, clientVersion, serverVars>>

-----------------------------------------------------------------------------
(* The server: the shim, or qr-server.ts *)

ServerStep == UNCHANGED <<linkVars, clientNotice, clientVars, losses>>

ServerOnOpen ==
  /\ Sendable /\ ~serverOpen /\ serverUp
  /\ serverOpen' = TRUE
  /\ toClient' = Append(toClient, [type |-> "handshake", protocol |-> ServerProtocol])
  /\ ServerStep
  /\ UNCHANGED <<toServer, serverNotice, serverReady, serverVersion, peerGone,
                 working, engineCalls, serverUp>>

ServerHandshake(protocol) ==
  LET v == Negotiate(ServerProtocol, protocol) IN
  /\ IF v = NoVersion \/ peerGone
     THEN UNCHANGED <<serverReady, serverVersion>>
     ELSE serverReady' = TRUE /\ serverVersion' = v
  /\ serverUp' = (v = NoVersion \/ ~peerGone)
  /\ UNCHANGED <<toClient, working, engineCalls>>

ServerRequest(r) ==
  \/ /\ peerGone                       \* reads a property of null: the process dies
     /\ serverUp' = FALSE
     /\ UNCHANGED <<toClient, working, engineCalls>>
  \/ /\ ~peerGone /\ ~serverReady
     /\ toClient' = Append(toClient, [type |-> "refused", id |-> r])
     /\ UNCHANGED <<working, engineCalls, serverUp>>
  \/ /\ ~peerGone /\ serverReady
     /\ working' = working \cup {r}
     /\ engineCalls' = [engineCalls EXCEPT ![r] = @ + 1]
     /\ UNCHANGED <<toClient, serverUp>>

ServerReceive ==
  /\ link = "open" /\ serverOpen /\ serverUp /\ toServer # <<>>
  /\ toServer' = Tail(toServer)
  /\ LET msg == Head(toServer) IN
     \/ msg.type = "handshake" /\ ServerHandshake(msg.protocol)
     \/ /\ msg.type = "request"
        /\ ServerRequest(msg.id)
        /\ UNCHANGED <<serverReady, serverVersion>>
  /\ ServerStep
  /\ UNCHANGED <<serverNotice, serverOpen, peerGone>>

\* engine.handleChatCompletion() settles and the answer is sent.  The shim
\* catches a failing send; in qr-server.ts it fails again inside .catch(), and
\* the rejection nobody handles ends the process.
EngineSettles(r) ==
  /\ r \in working /\ serverUp
  /\ working' = working \ {r}
  /\ \E type \in {"response", "error"} :
       toClient' = IF Sendable THEN Append(toClient, [type |-> type, id |-> r])
                   ELSE toClient
  /\ serverUp' = (Sendable \/ ~Qr)
  /\ ServerStep
  /\ UNCHANGED <<toServer, serverNotice, serverOpen, serverReady, serverVersion,
                 peerGone, engineCalls>>

\* pc.onStateChange: the shim drops its peer, qr-server.ts only logs.
ServerOnLost ==
  /\ serverNotice /\ serverUp
  /\ serverNotice' = FALSE
  /\ peerGone' = ~Qr
  /\ ServerStep
  /\ UNCHANGED <<toServer, toClient, serverOpen, serverReady, serverVersion,
                 working, engineCalls, serverUp>>

-----------------------------------------------------------------------------
ClientNext == \/ ClientOnOpen \/ ClientReceive \/ ClientOnLost \/ Close
              \/ \E r \in Request : SendRequest(r) \/ Timeout(r)

ServerNext == \/ ServerOnOpen \/ ServerReceive \/ ServerOnLost
              \/ \E r \in Request : EngineSettles(r)

Next == \/ Connect \/ Disconnect \/ Reconnect \/ Down \/ Lose
        \/ ClientNext \/ ServerNext

Spec == Init /\ [][Next]_vars

(* Timers fire; the network, the engine and the user owe nothing.          *)
FairSpec == Spec /\ \A r \in Request : WF_vars(Timeout(r))

-----------------------------------------------------------------------------
(* Properties *)

TypeOK ==
  /\ programs \in Programs
  /\ link \in {"connecting", "open", "disconnected", "down"}
  /\ toServer \in Seq(Message) /\ toClient \in Seq(Message)
  /\ {clientOpen, serverOpen, clientNotice, serverNotice, clientReady,
      serverReady, peerGone, serverUp} \subseteq BOOLEAN
  /\ clientVersion \in ClientProtocol.min .. ClientProtocol.max \cup {NoVersion}
  /\ serverVersion \in ServerProtocol.min .. ServerProtocol.max \cup {NoVersion}
  /\ pending \subseteq Request /\ working \subseteq Request
  /\ outcome \in [Request -> Settled \cup {"new", "waiting"}]
  /\ engineCalls \in [Request -> Nat]
  /\ losses \in Nat /\ disconnects \in Nat

(* The map of pending requests holds exactly the calls whose promise is    *)
(* open: whatever order timer, answer, failed send and loss come in, no    *)
(* call is settled twice and none is forgotten.                            *)
PendingIsOpen == pending = {r \in Request : outcome[r] = "waiting"}

(* The requests are remote calls of the engine: it sees each at most once, *)
(* also one that is late, refused or given up; a client that got a         *)
(* response got it from the engine, and what a request got it keeps.       *)
Promise == INSTANCE RemoteCalls WITH Call <- Request, served <- engineCalls

ImplementsRemoteCalls == Promise!Spec

(* A server asks for a handshake ("HANDSHAKE_REQUIRED") only when the      *)
(* channel lost one: on an ordered channel the client's handshake always   *)
(* overtakes its first request, whichever side opens first.                *)
RefusedOnlyAfterLoss ==
  (\E r \in Request : outcome[r] = "refused") => losses > 0

(* Once the client has heard that the channel is gone no request waits for *)
(* it until its timeout.                                                   *)
NothingWaitsOnDeadChannel == link = "down" /\ ~clientNotice => pending = {}

(* GET /health of the client reports "ok" only while there is a channel.   *)
HealthIsHonest == link = "down" /\ ~clientNotice => ~clientReady

(* Every request accepted by the HTTP proxy is answered in the end.        *)
EveryRequestSettles ==
  \A r \in Request : outcome[r] = "waiting" ~> outcome[r] \in Settled

(* The server outlives its peer ("awaiting re-pair" in webrtc.ts, "server  *)
(* running. Press Ctrl+C to stop." in qr-server.ts): the model refutes it   *)
(* for each pair of programs.                                              *)
ServerSurvives == serverUp
=============================================================================
