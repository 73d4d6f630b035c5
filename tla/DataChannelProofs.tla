-------------------------- MODULE DataChannelProofs --------------------------
(***************************************************************************)
(* Theorems about DataChannel for every set of requests, every two ranges  *)
(* of protocol versions and any number of losses and disconnections.       *)
(***************************************************************************)
EXTENDS DataChannel, TLAPS

-----------------------------------------------------------------------------
(***************************************************************************)
(* The inductive invariant.  ImplementsRemoteCalls speaks of what the      *)
(* engine and the client have seen; that a step keeps to it depends on     *)
(* what is still under way.  A request on its way to the server must be    *)
(* the only one of its id and must not have reached the engine             *)
(* (AskedOnce), one that could not be sent must have left no trace         *)
(* (UnsentIsFresh), and an answer on its way must be one the engine gave   *)
(* or refused for want of a handshake (AnswersOK).  RefusedOnlyAfterLoss needs the order of the     *)
(* channel: as long as nothing was lost, what the server reads first is    *)
(* the client's handshake (HandshakeFirst).                                *)
(***************************************************************************)

Asks(m, r)    == m.type = "request" /\ m.id = r
Answers(m, r) == m.type \in {"response", "error"} /\ m.id = r
Refuses(m, r) == m.type = "refused" /\ m.id = r

Asked(s, r) == \E i \in DOMAIN s : Asks(s[i], r)

\* The two sides have a version in common.
Compatible == Negotiate(ClientProtocol, ServerProtocol) # NoVersion

\* What may be on its way, and whose handshake it is.
ToServerOK(s) ==
  /\ s \in Seq(Message)
  /\ \A i \in DOMAIN s :
       \/ s[i].type = "handshake" /\ s[i].protocol = ClientProtocol
       \/ s[i].type = "request"

ToClientOK(s) ==
  /\ s \in Seq(Message)
  /\ \A i \in DOMAIN s :
       \/ s[i].type = "handshake" /\ s[i].protocol = ServerProtocol
       \/ s[i].type \in {"response", "error", "refused"}

ChannelsOK == ToServerOK(toServer) /\ ToClientOK(toClient)

\* What the engine has seen of a request agrees with what its client got.
EngineOnce(r) ==
  /\ engineCalls[r] <= 1
  /\ outcome[r] \in {"response", "error"} => engineCalls[r] = 1
  /\ outcome[r] = "refused" => engineCalls[r] = 0

\* A request under way is the only one of its id; neither the engine nor the
\* client has anything on it yet.
AskedOnce(r) ==
  /\ \A i, j \in DOMAIN toServer :
       Asks(toServer[i], r) /\ Asks(toServer[j], r) => i = j
  /\ Asked(toServer, r) =>
       /\ engineCalls[r] = 0
       /\ outcome[r] # "refused"
       /\ \A k \in DOMAIN toClient : ~Refuses(toClient[k], r)

\* The answers under way, and the engine at work on it.
AnswersOK(r) ==
  /\ \A k \in DOMAIN toClient :
       /\ Answers(toClient[k], r) => engineCalls[r] = 1
       /\ Refuses(toClient[k], r) => engineCalls[r] = 0
  /\ r \in working => engineCalls[r] = 1

\* Of a request that has not been made, or could not be sent, there is no trace.
UnsentIsFresh(r) ==
  outcome[r] \in {"new", "notReady", "sendFailed"} =>
    /\ engineCalls[r] = 0
    /\ ~Asked(toServer, r)
    /\ \A k \in DOMAIN toClient : ~Refuses(toClient[k], r)

TraceOK(r) == EngineOnce(r) /\ AskedOnce(r) /\ AnswersOK(r) /\ UnsentIsFresh(r)

RefusalsOK ==
  losses = 0 => \A k \in DOMAIN toClient : toClient[k].type # "refused"

\* A client that has a version agreed on it with this server, and nothing is
\* asked, nor anything sent, before.
ReadyIsCompatible ==
  /\ clientVersion # NoVersion => clientOpen /\ Compatible
  /\ \A r \in Request : Asked(toServer, r) => clientOpen /\ Compatible
  /\ ~clientOpen => toServer = <<>>

HandshakeFirst ==
  losses = 0 /\ clientOpen /\ link # "down" /\ Compatible =>
    \/ serverReady \/ peerGone
    \/ toServer # <<>> /\ Head(toServer).type = "handshake"

\* qr-server.ts keeps its peer.
PeerOK == peerGone => ~Qr

IInv ==
  /\ TypeOK /\ ChannelsOK
  /\ PendingIsOpen /\ NothingWaitsOnDeadChannel
  /\ \A r \in Request : TraceOK(r)
  /\ PeerOK /\ ReadyIsCompatible /\ HandshakeFirst
  /\ RefusalsOK /\ RefusedOnlyAfterLoss

-----------------------------------------------------------------------------
(* Channels *)

\* t holds some of the messages of s, each once, in the places f gives.
From(s, t, f) ==
  /\ f \in [DOMAIN t -> DOMAIN s]
  /\ \A i, j \in DOMAIN t : f[i] = f[j] => i = j
  /\ \A i \in DOMAIN t : t[i] = s[f[i]]

Fewer(s, t) == t \in Seq(Message) /\ \E f : From(s, t, f)

\* Reading a message, losing one, and the loss of the whole channel.
LEMMA TailIsFewer ==
  ASSUME NEW s \in Seq(Message), s # <<>>
  PROVE  Fewer(s, Tail(s))
<1> DEFINE f == [i \in DOMAIN Tail(s) |-> i + 1]
<1>1. From(s, Tail(s), f)
  BY DEF From
<1> QED
  BY <1>1 DEF Fewer

LEMMA ConcatElements ==
  ASSUME NEW Elem, NEW a \in Seq(Elem), NEW b \in Seq(Elem)
  PROVE  /\ a \o b \in Seq(Elem) /\ Len(a \o b) = Len(a) + Len(b)
         /\ \A j \in 1 .. Len(a) : (a \o b)[j] = a[j]
         /\ \A j \in 1 .. Len(b) : (a \o b)[Len(a) + j] = b[j]
  OBVIOUS

LEMMA WithoutElements ==
  ASSUME NEW s \in Seq(Message), NEW i \in DOMAIN s
  PROVE  /\ Without(s, i) \in Seq(Message)
         /\ DOMAIN Without(s, i) = 1 .. Len(s) - 1
         /\ \A j \in 1 .. Len(s) - 1 :
              Without(s, i)[j] = IF j < i THEN s[j] ELSE s[j + 1]
<1>1. /\ SubSeq(s, 1, i - 1) \in Seq(Message)
      /\ Len(SubSeq(s, 1, i - 1)) = i - 1
      /\ \A j \in 1 .. i - 1 : SubSeq(s, 1, i - 1)[j] = s[j]
  OBVIOUS
<1>2. /\ SubSeq(s, i + 1, Len(s)) \in Seq(Message)
      /\ Len(SubSeq(s, i + 1, Len(s))) = Len(s) - i
      /\ \A j \in 1 .. Len(s) - i : SubSeq(s, i + 1, Len(s))[j] = s[i + j]
  OBVIOUS
<1> DEFINE a == SubSeq(s, 1, i - 1)
           b == SubSeq(s, i + 1, Len(s))
<1>3. a \in Seq(Message) /\ b \in Seq(Message) /\ Len(s) \in Nat /\ i \in 1 .. Len(s)
  BY <1>1, <1>2
<1>4. /\ a \o b \in Seq(Message) /\ Len(a \o b) = Len(s) - 1
      /\ \A j \in 1 .. Len(s) - 1 :
           (a \o b)[j] = IF j < i THEN s[j] ELSE s[j + 1]
  <2>1. Len(a) = i - 1 /\ Len(b) = Len(s) - i
    BY <1>1, <1>2
  <2>2. ASSUME NEW j \in 1 .. Len(s) - 1
        PROVE  (a \o b)[j] = IF j < i THEN s[j] ELSE s[j + 1]
    <3>1. CASE j < i
      <4>1. j \in 1 .. i - 1
        BY <1>3, <3>1
      <4>2. a[j] = s[j]
        BY <1>1, <4>1
      <4> HIDE DEF a, b
      <4>3. (a \o b)[j] = a[j]
        BY <1>3, <2>1, <4>1, ConcatElements
      <4> QED
        BY <3>1, <4>2, <4>3
    <3>2. CASE ~(j < i)
      <4> DEFINE k == j - (i - 1)
      <4>0. i \in Nat /\ j \in Nat /\ Len(s) \in Nat /\ 1 <= i /\ i <= j /\ j <= Len(s) - 1
        BY <3>2
      <4>1. k \in 1 .. Len(s) - i /\ i + k = j + 1 /\ (i - 1) + k = j
        BY <4>0
      <4>2. b[k] = s[j + 1]
        BY <1>2, <4>1
      <4> HIDE DEF a, b, k
      <4>3. (a \o b)[Len(a) + k] = b[k]
        <5>1. k \in 1 .. Len(b)
          BY <2>1, <4>1
        <5> QED
          BY <1>3, <5>1, ConcatElements
      <4>4. Len(a) + k = j
        BY <2>1, <4>1
      <4> QED
        BY <3>2, <4>2, <4>3, <4>4
    <3> QED
      BY <3>1, <3>2
  <2>3. a \o b \in Seq(Message) /\ Len(a \o b) = Len(s) - 1
    <3> HIDE DEF a, b
    <3>1. /\ a \o b \in Seq(Message) /\ Len(a \o b) = Len(a) + Len(b)
      BY <1>3, ConcatElements
    <3> QED
      BY <1>3, <2>1, <3>1
  <2> QED
    BY <2>2, <2>3
<1> HIDE DEF a, b
<1>5. Without(s, i) = a \o b
  BY DEF Without, a, b
<1> QED
  BY <1>3, <1>4, <1>5

LEMMA WithoutIsFewer ==
  ASSUME NEW s \in Seq(Message), NEW i \in DOMAIN s
  PROVE  Fewer(s, Without(s, i))
<1> DEFINE t == Without(s, i)
           f == [j \in DOMAIN t |-> IF j < i THEN j ELSE j + 1]
<1>1. /\ t \in Seq(Message)
      /\ DOMAIN t = 1 .. Len(s) - 1
      /\ \A j \in DOMAIN t : t[j] = IF j < i THEN s[j] ELSE s[j + 1]
  BY WithoutElements
<1>2. From(s, t, f)
  <2> HIDE DEF t
  <2> QED
    BY <1>1 DEF From
<1> QED
  BY <1>1, <1>2 DEF Fewer

LEMMA EmptyIsFewer ==
  ASSUME NEW s \in Seq(Message)
  PROVE  Fewer(s, <<>>) /\ Fewer(s, s)
<1>1. From(s, <<>>, [i \in {} |-> i])
  BY DEF From
<1>2. From(s, s, [i \in DOMAIN s |-> i])
  BY DEF From
<1>3. <<>> \in Seq(Message)
  OBVIOUS
<1> QED
  BY <1>1, <1>2, <1>3 DEF Fewer

\* What a longer channel does not hold, a shorter one does not either.
LEMMA FewerElements ==
  ASSUME NEW s \in Seq(Message), NEW t, Fewer(s, t)
  PROVE  /\ t \in Seq(Message)
         /\ \A i \in DOMAIN t : \E j \in DOMAIN s : t[i] = s[j]
         /\ \A r : Asked(t, r) => Asked(s, r)
         /\ ToServerOK(s) => ToServerOK(t)
         /\ ToClientOK(s) => ToClientOK(t)
<1>1. PICK f : From(s, t, f)
  BY DEF Fewer
<1>2. \A i \in DOMAIN t : \E j \in DOMAIN s : t[i] = s[j]
  BY <1>1 DEF From
<1>3. t \in Seq(Message)
  BY DEF Fewer
<1> QED
  BY <1>2, <1>3 DEF Asked, ToServerOK, ToClientOK

LEMMA AppendElements ==
  ASSUME NEW s \in Seq(Message), NEW m \in Message
  PROVE  /\ Append(s, m) \in Seq(Message)
         /\ DOMAIN Append(s, m) = DOMAIN s \cup {Len(s) + 1}
         /\ Len(s) + 1 \notin DOMAIN s
         /\ \A i \in DOMAIN s : Append(s, m)[i] = s[i]
         /\ Append(s, m)[Len(s) + 1] = m
         /\ s # <<>> => Head(Append(s, m)) = Head(s)
         /\ s = <<>> => Head(Append(s, m)) = m
         /\ Append(s, m) # <<>>
  OBVIOUS

LEMMA HeadElement ==
  ASSUME NEW s \in Seq(Message), s # <<>>
  PROVE  1 \in DOMAIN s /\ Head(s) = s[1] /\ Head(s) \in Message
  OBVIOUS

LEMMA MessageForms ==
  /\ [type |-> "handshake", protocol |-> ClientProtocol] \in Message
  /\ [type |-> "handshake", protocol |-> ServerProtocol] \in Message
  /\ \A r \in Request : \A ty \in {"request", "response", "error", "refused"} :
       [type |-> ty, id |-> r] \in Message
  /\ \A m \in Message : m.type # "handshake" => m.id \in Request
  BY DEF Message

LEMMA NegotiateFacts ==
  /\ Negotiate(ServerProtocol, ClientProtocol)
       = Negotiate(ClientProtocol, ServerProtocol)
  /\ Negotiate(ClientProtocol, ServerProtocol)
       \in ClientProtocol.min .. ClientProtocol.max \cup {NoVersion}
  /\ Negotiate(ServerProtocol, ClientProtocol)
       \in ServerProtocol.min .. ServerProtocol.max \cup {NoVersion}
<1>1. /\ ClientProtocol.min \in Nat /\ ClientProtocol.max \in Nat
      /\ ServerProtocol.min \in Nat /\ ServerProtocol.max \in Nat
  BY ProtocolAssumption
<1> QED
  BY <1>1 DEF Negotiate, Greater, Smaller

-----------------------------------------------------------------------------
(* Types *)

LEMMA ToServerAppend ==
  ASSUME NEW s, ToServerOK(s), NEW m \in Message,
         \/ m.type = "handshake" /\ m.protocol = ClientProtocol
         \/ m.type = "request"
  PROVE  ToServerOK(Append(s, m))
  BY AppendElements DEF ToServerOK

LEMMA ToClientAppend ==
  ASSUME NEW s, ToClientOK(s), NEW m \in Message,
         \/ m.type = "handshake" /\ m.protocol = ServerProtocol
         \/ m.type \in {"response", "error", "refused"}
  PROVE  ToClientOK(Append(s, m))
  BY AppendElements DEF ToClientOK

\* The message that is read, and what it can be.
LEMMA ToServerHead ==
  ASSUME ToServerOK(toServer), toServer # <<>>
  PROVE  /\ Fewer(toServer, Tail(toServer)) /\ ToServerOK(Tail(toServer))
         /\ Head(toServer).type = "handshake" =>
              Head(toServer).protocol = ClientProtocol
         /\ Head(toServer).type # "handshake" =>
              Head(toServer).type = "request" /\ Head(toServer).id \in Request
<1>1. toServer \in Seq(Message)
  BY DEF ToServerOK
<1>2. Fewer(toServer, Tail(toServer))
  BY <1>1, TailIsFewer
<1>3. ToServerOK(Tail(toServer))
  BY <1>1, <1>2, FewerElements
<1>4. 1 \in DOMAIN toServer /\ Head(toServer) = toServer[1] /\ Head(toServer) \in Message
  BY <1>1, HeadElement
<1> QED
  BY <1>2, <1>3, <1>4, MessageForms DEF ToServerOK

LEMMA ToClientHead ==
  ASSUME ToClientOK(toClient), toClient # <<>>
  PROVE  /\ Fewer(toClient, Tail(toClient)) /\ ToClientOK(Tail(toClient))
         /\ Head(toClient).type = "handshake" =>
              Head(toClient).protocol = ServerProtocol
         /\ Head(toClient).type # "handshake" =>
              /\ Head(toClient).type \in {"response", "error", "refused"}
              /\ Head(toClient).id \in Request
<1>1. toClient \in Seq(Message)
  BY DEF ToClientOK
<1>2. Fewer(toClient, Tail(toClient))
  BY <1>1, TailIsFewer
<1>3. ToClientOK(Tail(toClient))
  BY <1>1, <1>2, FewerElements
<1>4. 1 \in DOMAIN toClient /\ Head(toClient) = toClient[1] /\ Head(toClient) \in Message
  BY <1>1, HeadElement
<1> QED
  BY <1>2, <1>3, <1>4, MessageForms DEF ToClientOK

\* What the loss of a message, or of the channel, leaves of the two directions.
LEMMA LossEffect ==
  ASSUME ChannelsOK, Lose \/ GoDown
  PROVE  /\ Fewer(toServer, toServer') /\ Fewer(toClient, toClient')
         /\ ChannelsOK'
<1>1. toServer \in Seq(Message) /\ toClient \in Seq(Message)
  BY DEF ChannelsOK, ToServerOK, ToClientOK
<1>2. Fewer(toServer, toServer') /\ Fewer(toClient, toClient')
  BY <1>1, WithoutIsFewer, EmptyIsFewer DEF Lose, GoDown
<1> QED
  BY <1>1, <1>2, FewerElements DEF ChannelsOK

LEMMA ChannelsStep == TypeOK /\ ChannelsOK /\ [Next]_vars => ChannelsOK'
<1> SUFFICES ASSUME TypeOK, ChannelsOK, [Next]_vars
             PROVE  ChannelsOK'
  OBVIOUS
<1>1. CASE Lose \/ Down \/ Close
  BY <1>1, LossEffect DEF Down, Close
<1>2. CASE ClientOnOpen
  BY <1>2, ToServerAppend, MessageForms DEF ClientOnOpen, ChannelsOK
<1>3. ASSUME NEW r \in Request, SendRequest(r)
      PROVE  ChannelsOK'
  <2> DEFINE m == [type |-> "request", id |-> r]
  <2>1. m \in Message /\ m.type = "request"
    BY MessageForms
  <2>2. ToServerOK(Append(toServer, m))
    BY <2>1, ToServerAppend DEF ChannelsOK
  <2>3. UNCHANGED toClient /\ (UNCHANGED toServer \/ toServer' = Append(toServer, m))
    BY <1>3 DEF SendRequest
  <2> QED
    BY <2>2, <2>3 DEF ChannelsOK
<1>4. CASE ClientReceive
  BY <1>4, ToClientHead DEF ClientReceive, ChannelsOK
<1>5. CASE ServerOnOpen
  BY <1>5, ToClientAppend, MessageForms DEF ServerOnOpen, ChannelsOK
<1>6. CASE ServerReceive
  <2>1. ToServerOK(toServer')
    BY <1>6, ToServerHead DEF ServerReceive, ChannelsOK
  <2>2. toClient' = toClient \/ \E r \in Request :
          toClient' = Append(toClient, [type |-> "refused", id |-> r])
    BY <1>6, ToServerHead DEF ServerReceive, ServerHandshake, ServerRequest, ChannelsOK
  <2> QED
    BY <2>1, <2>2, ToClientAppend, MessageForms DEF ChannelsOK
<1>7. ASSUME NEW r \in Request, EngineSettles(r)
      PROVE  ChannelsOK'
  BY <1>7, ToClientAppend, MessageForms DEF EngineSettles, ChannelsOK
<1>8. CASE \/ Connect \/ Disconnect \/ Reconnect \/ ClientOnLost \/ ServerOnLost
           \/ \E r \in Request : Timeout(r)
           \/ UNCHANGED vars
  BY <1>8 DEF Connect, Disconnect, Reconnect, ClientOnLost, ServerOnLost, Timeout,
              vars, ChannelsOK
<1> QED
  BY <1>1, <1>2, <1>3, <1>4, <1>5, <1>6, <1>7, <1>8
     DEF Next, ClientNext, ServerNext

LEMMA ServerRequestType ==
  ASSUME TypeOK, NEW r \in Request, ServerRequest(r)
  PROVE  /\ working' \subseteq Request
         /\ engineCalls' \in [Request -> Nat]
         /\ serverUp' \in BOOLEAN
<1>1. working' \subseteq Request /\ serverUp' \in BOOLEAN
  BY DEF ServerRequest, TypeOK
<1>2. engineCalls' = engineCalls
        \/ engineCalls' = [engineCalls EXCEPT ![r] = @ + 1]
  BY DEF ServerRequest
<1>3. engineCalls' \in [Request -> Nat]
  BY <1>2 DEF TypeOK
<1> QED
  BY <1>1, <1>3

\* What no step of the server touches.
LEMMA ServerLeaves == ServerNext => ServerStep
<1>1. \A r \in Request : EngineSettles(r) => ServerStep
  BY DEF EngineSettles
<1> QED
  BY <1>1 DEF ServerNext, ServerOnOpen, ServerReceive, ServerOnLost

\* ... and what no step of the client touches but Close.
LEMMA ClientLeaves == ClientNext => ClientStep \/ Close
<1>1. \A r \in Request : SendRequest(r) \/ Timeout(r) => ClientStep
  BY DEF SendRequest, Timeout
<1> QED
  BY <1>1 DEF ClientNext, ClientOnOpen, ClientReceive, ClientOnLost

\* A loss is counted; nothing else changes the count.
LEMMA CountsStep ==
  ASSUME TypeOK, [Next]_vars
  PROVE  /\ losses' \in Nat /\ disconnects' \in Nat
         /\ losses' = losses \/ losses' = losses + 1
         /\ Lose => losses' = losses + 1
<1>1. CASE Connect \/ Disconnect \/ Reconnect \/ Down \/ UNCHANGED vars
  <2>1. losses' = losses /\ disconnects' \in {disconnects, disconnects + 1}
    BY <1>1 DEF Connect, Disconnect, Reconnect, Down, GoDown, vars, linkVars
  <2>2. ~Lose \/ losses' = losses + 1
    BY DEF Lose
  <2> QED
    BY <2>1, <2>2 DEF TypeOK
<1>2. CASE Lose
  BY <1>2 DEF Lose, linkVars, TypeOK
<1>3. CASE ClientNext
  <2>1. losses' = losses /\ disconnects' = disconnects
    BY <1>3 DEF ClientNext, ClientOnOpen, ClientReceive, ClientOnLost, Close, GoDown,
                SendRequest, Timeout, ClientStep, linkVars
  <2> QED
    BY <2>1 DEF TypeOK, Lose
<1>4. CASE ServerNext
  <2>1. losses' = losses /\ disconnects' = disconnects
    BY <1>4, ServerLeaves DEF ServerStep, linkVars
  <2> QED
    BY <2>1 DEF TypeOK, Lose
<1> QED
  BY <1>1, <1>2, <1>3, <1>4 DEF Next

LEMMA TypeStep == TypeOK /\ ChannelsOK /\ [Next]_vars => TypeOK'
<1> SUFFICES ASSUME TypeOK, ChannelsOK, [Next]_vars
             PROVE  TypeOK'
  OBVIOUS
<1>0. /\ toServer' \in Seq(Message) /\ toClient' \in Seq(Message)
      /\ losses' \in Nat /\ disconnects' \in Nat
  BY ChannelsStep, CountsStep DEF ChannelsOK, ToServerOK, ToClientOK
<1>1. CASE Connect \/ Disconnect \/ Reconnect \/ Down \/ Lose
  BY <1>0, <1>1 DEF Connect, Disconnect, Reconnect, Down, GoDown, Lose, linkVars,
                    clientVars, serverVars, TypeOK
<1>2. CASE ClientOnOpen \/ ClientOnLost \/ Close
  BY <1>0, <1>2 DEF ClientOnOpen, ClientOnLost, Close, GoDown, RejectAllPending,
                    ClientStep, linkVars, serverVars, Settled, TypeOK
<1>3. ASSUME NEW r \in Request, SendRequest(r) \/ Timeout(r)
      PROVE  TypeOK'
  BY <1>0, <1>3 DEF SendRequest, Timeout, Settle, ClientStep, linkVars, serverVars,
                    Settled, TypeOK
<1>4. CASE ClientReceive
  <2>1. CASE /\ Head(toClient).type = "handshake"
             /\ UNCHANGED <<pending, outcome>>
    <3>1. \/ UNCHANGED <<clientReady, clientVersion>>
          \/ /\ clientReady' = TRUE
             /\ clientVersion' = Negotiate(ClientProtocol, ServerProtocol)
      BY <1>4, <2>1, ToClientHead DEF ClientReceive, ChannelsOK
    <3> QED
      BY <1>0, <1>4, <2>1, <3>1, NegotiateFacts
         DEF ClientReceive, ClientStep, linkVars, serverVars, TypeOK
  <2>2. CASE /\ Head(toClient).type # "handshake"
             /\ UNCHANGED <<clientReady, clientVersion>>
    <3>1. \/ UNCHANGED <<pending, outcome>>
          \/ \E r \in Request, ty \in Settled : Settle(r, ty)
      BY <1>4, <2>2, ToClientHead DEF ClientReceive, ChannelsOK, Settled
    <3>2. /\ pending' \subseteq Request
          /\ outcome' \in [Request -> Settled \cup {"new", "waiting"}]
      BY <3>1 DEF Settle, TypeOK
    <3> QED
      BY <1>0, <1>4, <2>2, <3>2
         DEF ClientReceive, ClientStep, linkVars, serverVars, TypeOK
  <2> QED
    BY <1>4, <2>1, <2>2 DEF ClientReceive
<1>5. CASE ServerOnOpen \/ ServerOnLost
  BY <1>0, <1>5 DEF ServerOnOpen, ServerOnLost, ServerStep, linkVars, clientVars, Qr, TypeOK
<1>6. CASE ServerReceive
  <2>1. CASE Head(toServer).type = "handshake" /\ ServerHandshake(Head(toServer).protocol)
    <3>1. Head(toServer).protocol = ClientProtocol
      BY <1>6, <2>1, ToServerHead DEF ServerReceive, ChannelsOK
    <3> QED
      BY <1>0, <1>6, <2>1, <3>1, NegotiateFacts
         DEF ServerReceive, ServerHandshake, ServerStep, linkVars, clientVars, TypeOK
  <2>2. CASE /\ Head(toServer).type = "request" /\ ServerRequest(Head(toServer).id)
             /\ UNCHANGED <<serverReady, serverVersion>>
    <3>1. Head(toServer).id \in Request
      BY <1>6, <2>2, ToServerHead DEF ServerReceive, ChannelsOK
    <3>2. /\ working' \subseteq Request
          /\ engineCalls' \in [Request -> Nat]
          /\ serverUp' \in BOOLEAN
      BY <2>2, <3>1, ServerRequestType
    <3> QED
      BY <1>0, <1>6, <2>2, <3>2
         DEF ServerReceive, ServerStep, linkVars, clientVars, TypeOK
  <2> QED
    BY <1>6, <2>1, <2>2 DEF ServerReceive
<1>7. ASSUME NEW r \in Request, EngineSettles(r)
      PROVE  TypeOK'
  BY <1>0, <1>7 DEF EngineSettles, ServerStep, linkVars, clientVars, Qr, Sendable, TypeOK
<1>8. CASE UNCHANGED vars
  BY <1>8 DEF vars, linkVars, clientVars, serverVars, TypeOK
<1> QED
  BY <1>1, <1>2, <1>3, <1>4, <1>5, <1>6, <1>7, <1>8
     DEF Next, ClientNext, ServerNext

-----------------------------------------------------------------------------
(* The books of the client *)

\* What the client's entry for a request can become.
LEMMA OutcomeChange ==
  ASSUME TypeOK, ChannelsOK, PendingIsOpen, [Next]_vars, NEW r \in Request
  PROVE  \/ outcome'[r] = outcome[r] /\ (r \in pending' <=> r \in pending)
         \/ /\ outcome[r] = "new" /\ clientReady /\ Sendable
            /\ outcome'[r] = "waiting" /\ r \in pending'
         \/ /\ outcome[r] = "new" /\ outcome'[r] \in {"notReady", "sendFailed"}
            /\ r \notin pending'
         \/ /\ outcome[r] = "waiting" /\ outcome'[r] \in {"timeout", "lost"}
            /\ r \notin pending'
         \/ /\ outcome[r] = "waiting" /\ r \notin pending'
            /\ toClient # <<>> /\ outcome'[r] = Head(toClient).type
            /\ Head(toClient).type \in {"response", "error", "refused"}
            /\ Head(toClient).id = r
<1>0. /\ outcome \in [Request -> Settled \cup {"new", "waiting"}]
      /\ pending = {s \in Request : outcome[s] = "waiting"}
  BY DEF TypeOK, PendingIsOpen
<1>1. CASE UNCHANGED <<pending, outcome>>
  BY <1>1
<1>2. ASSUME NEW s \in Request, SendRequest(s)
      PROVE  \/ outcome'[r] = outcome[r] /\ (r \in pending' <=> r \in pending)
             \/ /\ outcome[r] = "new" /\ clientReady /\ Sendable
                /\ outcome'[r] = "waiting" /\ r \in pending'
             \/ /\ outcome[r] = "new" /\ outcome'[r] \in {"notReady", "sendFailed"}
                /\ r \notin pending'
  BY <1>0, <1>2 DEF SendRequest, Settle
<1>3. ASSUME NEW s \in Request, Timeout(s)
      PROVE  \/ outcome'[r] = outcome[r] /\ (r \in pending' <=> r \in pending)
             \/ /\ outcome[r] = "waiting" /\ outcome'[r] = "timeout"
                /\ r \notin pending'
  BY <1>0, <1>3 DEF Timeout, Settle
<1>4. CASE ClientReceive
  BY <1>0, <1>4, ToClientHead DEF ClientReceive, Settle, ChannelsOK
<1>5. CASE ClientOnLost \/ Close
  BY <1>0, <1>5 DEF ClientOnLost, Close, RejectAllPending
<1>6. CASE \/ Connect \/ Disconnect \/ Reconnect \/ Down \/ Lose \/ ClientOnOpen
           \/ ServerNext \/ UNCHANGED vars
  BY <1>1, <1>6 DEF Connect, Disconnect, Reconnect, Down, Lose, ClientOnOpen, vars,
                    clientVars, ServerNext, ServerOnOpen, ServerReceive, ServerOnLost,
                    EngineSettles, ServerStep
<1> QED
  BY <1>2, <1>3, <1>4, <1>5, <1>6 DEF Next, ClientNext

LEMMA PendingStep ==
  TypeOK /\ ChannelsOK /\ PendingIsOpen /\ [Next]_vars => PendingIsOpen'
<1> SUFFICES ASSUME TypeOK, ChannelsOK, PendingIsOpen, [Next]_vars
             PROVE  PendingIsOpen'
  OBVIOUS
<1>1. pending' \subseteq Request
  BY TypeStep DEF TypeOK
<1>2. ASSUME NEW r \in Request
      PROVE  r \in pending' <=> outcome'[r] = "waiting"
  BY <1>2, OutcomeChange DEF PendingIsOpen
<1> QED
  BY <1>1, <1>2 DEF PendingIsOpen

\* The only step that adds to pendingRequests needs a channel, and the two that
\* take the channel away leave a loss callback to run.
LEMMA DeadChannelStep ==
  /\ TypeOK /\ ChannelsOK /\ PendingIsOpen /\ NothingWaitsOnDeadChannel /\ [Next]_vars
  => NothingWaitsOnDeadChannel'
<1> SUFFICES ASSUME TypeOK, ChannelsOK, PendingIsOpen, NothingWaitsOnDeadChannel,
                    [Next]_vars, link' = "down", ~clientNotice'
             PROVE  pending' = {}
  BY DEF NothingWaitsOnDeadChannel
<1>1. CASE ClientOnLost
  BY <1>1 DEF ClientOnLost, RejectAllPending
<1>2. CASE ~ClientOnLost
  <2>1. link = "down" /\ ~clientNotice
    <3>1. CASE Connect \/ Disconnect \/ Reconnect \/ Down
      BY <3>1 DEF Connect, Disconnect, Reconnect, Down, GoDown
    <3>4. CASE Lose \/ UNCHANGED vars
      BY <3>4 DEF Lose, vars, linkVars
    <3>2. CASE ClientOnOpen \/ ClientReceive \/ Close
      BY <1>2, <3>2 DEF ClientOnOpen, ClientReceive, Close, GoDown,
                        ClientStep, linkVars
    <3>5. ASSUME NEW r \in Request, SendRequest(r) \/ Timeout(r)
          PROVE link = "down" /\ ~clientNotice
      BY <1>2, <3>5 DEF SendRequest, Timeout, ClientStep, linkVars
    <3>3. CASE ServerNext
      BY <3>3, ServerLeaves DEF ServerStep, linkVars
    <3> QED
      BY <1>2, <3>1, <3>2, <3>3, <3>4, <3>5 DEF Next, ClientNext
  <2>2. pending = {} /\ ~Sendable
    BY <2>1 DEF NothingWaitsOnDeadChannel, Sendable
  <2>3. \A r \in Request : r \notin pending'
    BY <2>2, OutcomeChange DEF PendingIsOpen
  <2> QED
    BY <2>3, TypeStep DEF TypeOK
<1> QED
  BY <1>1, <1>2

-----------------------------------------------------------------------------
(* What is under way for one request *)

About(m, r) == m.type # "handshake" /\ m.id = r

\* t holds nothing about r that s does not hold.
NoMore(s, t, r) ==
  /\ \A i \in DOMAIN t : About(t[i], r) => \E j \in DOMAIN s : t[i] = s[j]
  /\ (\A i, j \in DOMAIN s : Asks(s[i], r) /\ Asks(s[j], r) => i = j)
     => \A i, j \in DOMAIN t : Asks(t[i], r) /\ Asks(t[j], r) => i = j

LEMMA FewerIsNoMore ==
  ASSUME NEW s \in Seq(Message), NEW t, Fewer(s, t)
  PROVE  \A r : NoMore(s, t, r)
<1>1. PICK f : From(s, t, f)
  BY DEF Fewer
<1>2. SUFFICES ASSUME NEW r
               PROVE  NoMore(s, t, r)
  OBVIOUS
<1>3. \A i \in DOMAIN t : f[i] \in DOMAIN s /\ t[i] = s[f[i]]
  BY <1>1 DEF From
<1> QED
  BY <1>1, <1>3 DEF From, NoMore

LEMMA AppendIsNoMore ==
  ASSUME NEW s \in Seq(Message), NEW m \in Message, NEW r, ~About(m, r)
  PROVE  NoMore(s, Append(s, m), r)
<1>1. ~Asks(m, r)
  BY DEF About, Asks
<1> QED
  BY <1>1, AppendElements DEF NoMore

\* What becomes of a request's outcome without an answer.
QuietOutcome(r) ==
  \/ outcome'[r] = outcome[r]
  \/ outcome'[r] \in {"waiting", "timeout", "lost"}
  \/ outcome[r] = "new" /\ outcome'[r] \in {"notReady", "sendFailed"}

\* A step that brings no news of r and at most closes its book leaves all well.
LEMMA QuietStep ==
  ASSUME NEW r \in Request, TraceOK(r),
         NoMore(toServer, toServer', r), NoMore(toClient, toClient', r),
         engineCalls'[r] = engineCalls[r], r \in working' => r \in working,
         QuietOutcome(r)
  PROVE  TraceOK(r)'
<1>1. Asked(toServer', r) => Asked(toServer, r)
  BY DEF NoMore, Asked, Asks, About
<1>2. \A k \in DOMAIN toClient' : Refuses(toClient'[k], r) =>
        \E j \in DOMAIN toClient : Refuses(toClient[j], r)
  BY DEF NoMore, Refuses, About
<1>3. \A k \in DOMAIN toClient' : Answers(toClient'[k], r) =>
        \E j \in DOMAIN toClient : Answers(toClient[j], r)
  BY DEF NoMore, Answers, About
<1>4. EngineOnce(r)'
  BY DEF TraceOK, EngineOnce, QuietOutcome
<1>5. AskedOnce(r)'
  BY <1>1, <1>2 DEF TraceOK, AskedOnce, NoMore, QuietOutcome
<1>6. AnswersOK(r)'
  BY <1>2, <1>3 DEF TraceOK, AnswersOK
<1>7. UnsentIsFresh(r)'
  BY <1>1, <1>2 DEF TraceOK, UnsentIsFresh, QuietOutcome
<1> QED
  BY <1>4, <1>5, <1>6, <1>7 DEF TraceOK

\* Both channels are sequences of messages.
LEMMA ChannelsAreSeq ==
  ASSUME ChannelsOK
  PROVE  toServer \in Seq(Message) /\ toClient \in Seq(Message)
  BY DEF ChannelsOK, ToServerOK, ToClientOK

\* A new request goes out.
LEMMA SendTrace ==
  ASSUME TypeOK, ChannelsOK, NEW r \in Request, TraceOK(r), outcome[r] = "new",
         toServer' = Append(toServer, [type |-> "request", id |-> r]),
         outcome'[r] = "waiting", UNCHANGED <<toClient, engineCalls, working>>
  PROVE  TraceOK(r)'
<1>1. /\ \A i \in DOMAIN toServer' : Asks(toServer'[i], r) => i = Len(toServer) + 1
      /\ engineCalls[r] = 0
      /\ \A k \in DOMAIN toClient : ~Refuses(toClient[k], r)
  BY ChannelsAreSeq, AppendElements, MessageForms DEF TraceOK, UnsentIsFresh, Asked
<1>2. EngineOnce(r)' /\ AnswersOK(r)' /\ UnsentIsFresh(r)'
  BY <1>1 DEF TraceOK, EngineOnce, AnswersOK, UnsentIsFresh
<1>3. AskedOnce(r)'
  BY <1>1 DEF AskedOnce
<1> QED
  BY <1>2, <1>3 DEF TraceOK

\* An answer is read and settles the request.
LEMMA AnswerTrace ==
  ASSUME TypeOK, ChannelsOK, NEW r \in Request, TraceOK(r),
         toClient # <<>>, toClient' = Tail(toClient),
         Head(toClient).id = r, outcome'[r] = Head(toClient).type,
         Head(toClient).type \in {"response", "error", "refused"},
         UNCHANGED <<toServer, engineCalls, working>>
  PROVE  TraceOK(r)'
<1>1. NoMore(toClient, toClient', r)
  BY ChannelsAreSeq, ToClientHead, FewerIsNoMore DEF ChannelsOK
<1>2. \E k \in DOMAIN toClient : toClient[k] = Head(toClient)
  BY ChannelsAreSeq, HeadElement
<1>3. /\ Head(toClient).type # "refused" => engineCalls[r] = 1
      /\ Head(toClient).type = "refused" =>
           engineCalls[r] = 0 /\ ~Asked(toServer, r)
  BY <1>2 DEF TraceOK, AnswersOK, AskedOnce, Answers, Refuses
<1>4. EngineOnce(r)'
  BY <1>3 DEF TraceOK, EngineOnce
<1>5. \A k \in DOMAIN toClient' : \E j \in DOMAIN toClient :
        About(toClient'[k], r) => toClient'[k] = toClient[j]
  BY <1>1, <1>2 DEF NoMore
<1>6. AnswersOK(r)'
  BY <1>5 DEF TraceOK, AnswersOK, Answers, Refuses, About
<1>7. AskedOnce(r)'
  BY <1>3, <1>5 DEF TraceOK, AskedOnce, Refuses, About
<1>8. UnsentIsFresh(r)'
  BY DEF UnsentIsFresh
<1> QED
  BY <1>4, <1>6, <1>7, <1>8 DEF TraceOK

\* The server reads the request: it was the only one, and nobody had seen it.
LEMMA ReadTrace ==
  ASSUME TypeOK, ChannelsOK, NEW r \in Request, TraceOK(r),
         toServer # <<>>, Asks(Head(toServer), r)
  PROVE  /\ engineCalls[r] = 0
         /\ outcome[r] \notin {"new", "notReady", "sendFailed",
                               "response", "error", "refused"}
         /\ \A k \in DOMAIN toClient : ~About(toClient[k], r)
         /\ ~Asked(Tail(toServer), r)
<1>1. toServer \in Seq(Message) /\ 1 \in DOMAIN toServer /\ Head(toServer) = toServer[1]
  BY ChannelsAreSeq, HeadElement
<1>2. Asked(toServer, r)
  BY <1>1 DEF Asked
<1>3. /\ engineCalls[r] = 0
      /\ outcome[r] \notin {"refused", "new", "notReady", "sendFailed"}
  BY <1>2 DEF TraceOK, AskedOnce, UnsentIsFresh
<1>4. outcome[r] \notin {"response", "error"}
  BY <1>3 DEF TraceOK, EngineOnce
<1>5. ASSUME NEW k \in DOMAIN toClient, About(toClient[k], r)
      PROVE  FALSE
  <2>1. toClient[k].type \in {"response", "error", "refused"}
    BY <1>5 DEF ChannelsOK, ToClientOK, About
  <2> QED
    BY <1>2, <1>3, <1>5, <2>1
       DEF TraceOK, AnswersOK, AskedOnce, About, Answers, Refuses
<1>6. ASSUME NEW i \in DOMAIN Tail(toServer), Asks(Tail(toServer)[i], r)
      PROVE  FALSE
  <2>1. i + 1 \in DOMAIN toServer /\ Tail(toServer)[i] = toServer[i + 1]
    BY <1>1
  <2>2. i + 1 = 1
    BY <1>1, <1>6, <2>1 DEF TraceOK, AskedOnce
  <2> QED
    BY <1>1, <2>2
<1> QED
  BY <1>3, <1>4, <1>5, <1>6 DEF Asked

\* ... so it may be refused, or handed to the engine.
LEMMA RequestTrace ==
  ASSUME TypeOK, ChannelsOK, NEW r \in Request, TraceOK(r),
         toServer # <<>>, Asks(Head(toServer), r), toServer' = Tail(toServer),
         ServerRequest(r), UNCHANGED outcome
  PROVE  TraceOK(r)'
<1>1. /\ engineCalls[r] = 0
      /\ outcome[r] \notin {"new", "notReady", "sendFailed",
                            "response", "error", "refused"}
      /\ \A k \in DOMAIN toClient : ~About(toClient[k], r)
      /\ ~Asked(toServer', r)
  BY ReadTrace
<1>2. /\ engineCalls'[r] \in {0, 1}
      /\ r \in working' => engineCalls'[r] = 1
      /\ \A k \in DOMAIN toClient' :
           About(toClient'[k], r) => toClient'[k].type = "refused" /\ engineCalls'[r] = 0
  <2>1. r \notin working
    BY <1>1 DEF TraceOK, AnswersOK
  <2>2. CASE UNCHANGED <<toClient, working, engineCalls>>
    BY <1>1, <2>1, <2>2
  <2>3. CASE /\ toClient' = Append(toClient, [type |-> "refused", id |-> r])
             /\ UNCHANGED <<working, engineCalls>>
    BY <1>1, <2>1, <2>3, ChannelsAreSeq, MessageForms, AppendElements
  <2>4. CASE /\ working' = working \cup {r} /\ UNCHANGED toClient
             /\ engineCalls' = [engineCalls EXCEPT ![r] = @ + 1]
    BY <1>1, <2>4 DEF TypeOK
  <2> QED
    BY <2>2, <2>3, <2>4 DEF ServerRequest
<1>3. AskedOnce(r)'
  BY <1>1 DEF AskedOnce, Asked
<1>4. EngineOnce(r)' /\ UnsentIsFresh(r)'
  BY <1>1, <1>2 DEF EngineOnce, UnsentIsFresh
<1>5. AnswersOK(r)'
  BY <1>2 DEF AnswersOK, Answers, Refuses, About
<1> QED
  BY <1>3, <1>4, <1>5 DEF TraceOK

\* The engine answers a request it was given.
LEMMA EngineTrace ==
  ASSUME TypeOK, ChannelsOK, NEW r \in Request, TraceOK(r), EngineSettles(r)
  PROVE  TraceOK(r)'
<1>1. /\ engineCalls[r] = 1 /\ ~Asked(toServer, r)
      /\ outcome[r] \notin {"new", "notReady", "sendFailed"}
  BY DEF EngineSettles, TraceOK, AnswersOK, AskedOnce, UnsentIsFresh
<1>2. UNCHANGED <<toServer, outcome, engineCalls>>
  BY DEF EngineSettles, ServerStep, clientVars
<1>3. ASSUME NEW k \in DOMAIN toClient', Refuses(toClient'[k], r)
      PROVE  \E j \in DOMAIN toClient : Refuses(toClient[j], r)
  <2>1. PICK ty \in {"response", "error"} :
          toClient' = IF Sendable THEN Append(toClient, [type |-> ty, id |-> r])
                      ELSE toClient
    BY DEF EngineSettles
  <2> QED
    BY <1>3, <2>1, ChannelsAreSeq, MessageForms, AppendElements DEF Refuses
<1>4. EngineOnce(r)' /\ UnsentIsFresh(r)'
  BY <1>1, <1>2 DEF TraceOK, EngineOnce, UnsentIsFresh
<1>5. AskedOnce(r)'
  BY <1>1, <1>2 DEF TraceOK, AskedOnce
<1>6. AnswersOK(r)'
  BY <1>1, <1>2, <1>3 DEF TraceOK, AnswersOK
<1> QED
  BY <1>4, <1>5, <1>6 DEF TraceOK

\* Every action, for one request: what it does to others is quiet.
LEMMA TraceStep ==
  ASSUME TypeOK, ChannelsOK, PendingIsOpen, [Next]_vars,
         NEW r \in Request, TraceOK(r)
  PROVE  TraceOK(r)'
<1>0. /\ toServer \in Seq(Message) /\ toClient \in Seq(Message)
      /\ NoMore(toServer, toServer, r) /\ NoMore(toClient, toClient, r)
      /\ toServer # <<>> => NoMore(toServer, Tail(toServer), r)
      /\ toClient # <<>> => NoMore(toClient, Tail(toClient), r)
  BY ChannelsAreSeq, EmptyIsFewer, TailIsFewer, FewerIsNoMore
<1>1. \/ QuietOutcome(r)
      \/ outcome'[r] = Head(toClient).type /\ Head(toClient).id = r /\ toClient # <<>>
         /\ Head(toClient).type \in {"response", "error", "refused"}
  BY OutcomeChange DEF QuietOutcome
<1>2. CASE Connect \/ Disconnect \/ Reconnect \/ UNCHANGED vars
  BY <1>0, <1>2, QuietStep
     DEF Connect, Disconnect, Reconnect, vars, clientVars, serverVars, QuietOutcome
<1>3. CASE Lose \/ Down \/ Close
  <2>1. NoMore(toServer, toServer', r) /\ NoMore(toClient, toClient', r)
    BY <1>0, <1>3, LossEffect, FewerIsNoMore DEF Down, Close
  <2>2. UNCHANGED <<engineCalls, working>>
    BY <1>3 DEF Lose, Down, Close, serverVars
  <2>3. outcome'[r] = outcome[r] \/ outcome'[r] = "lost"
    BY <1>3 DEF Lose, Down, Close, RejectAllPending, clientVars
  <2> QED
    BY <2>1, <2>2, <2>3, QuietStep DEF QuietOutcome
<1>4. CASE ClientOnOpen
  <2>1. NoMore(toServer, toServer', r)
    BY <1>0, <1>4, AppendIsNoMore, MessageForms DEF ClientOnOpen, About
  <2> QED
    BY <1>0, <1>4, <2>1, QuietStep DEF ClientOnOpen, ClientStep, serverVars, QuietOutcome
<1>5. ASSUME NEW q \in Request, SendRequest(q)
      PROVE  TraceOK(r)'
  <2>1. UNCHANGED <<toClient, engineCalls, working>>
    BY <1>5 DEF SendRequest, ClientStep, serverVars
  <2>2. CASE /\ UNCHANGED toServer
             /\ \E result \in {"notReady", "sendFailed"} :
                  outcome' = [outcome EXCEPT ![q] = result]
    BY <1>0, <1>5, <2>1, <2>2, QuietStep DEF TypeOK, SendRequest, QuietOutcome
  <2>3. CASE /\ outcome' = [outcome EXCEPT ![q] = "waiting"]
             /\ toServer' = Append(toServer, [type |-> "request", id |-> q])
    <3>1. CASE q = r
      BY <1>5, <2>1, <2>3, <3>1, SendTrace DEF SendRequest, TypeOK
    <3>2. CASE q # r
      <4>1. NoMore(toServer, toServer', r)
        BY <1>0, <2>3, <3>2, AppendIsNoMore, MessageForms DEF About
      <4> QED
        BY <1>0, <2>1, <2>3, <3>2, <4>1, QuietStep DEF TypeOK, QuietOutcome
    <3> QED
      BY <3>1, <3>2
  <2> QED
    BY <1>5, <2>2, <2>3 DEF SendRequest, Settle
<1>6. ASSUME NEW q \in Request, Timeout(q)
      PROVE  TraceOK(r)'
  BY <1>0, <1>6, QuietStep DEF Timeout, Settle, ClientStep, serverVars, TypeOK, QuietOutcome
<1>7. CASE ClientReceive
  <2>1. /\ UNCHANGED <<toServer, engineCalls, working>>
        /\ toClient # <<>> /\ toClient' = Tail(toClient)
    BY <1>7 DEF ClientReceive, ClientStep, serverVars
  <2>2. CASE /\ outcome'[r] = Head(toClient).type /\ Head(toClient).id = r
             /\ Head(toClient).type \in {"response", "error", "refused"}
    BY <2>1, <2>2, AnswerTrace
  <2>3. CASE QuietOutcome(r)
    BY <1>0, <2>1, <2>3, QuietStep
  <2> QED
    BY <1>1, <2>2, <2>3
<1>8. CASE ClientOnLost
  BY <1>0, <1>8, QuietStep
     DEF ClientOnLost, RejectAllPending, ClientStep, serverVars, QuietOutcome
<1>9. CASE ServerOnOpen \/ ServerOnLost
  <2>1. NoMore(toClient, toClient', r)
    BY <1>0, <1>9, AppendIsNoMore, MessageForms DEF ServerOnOpen, ServerOnLost, About
  <2> QED
    BY <1>0, <1>9, <2>1, QuietStep
       DEF ServerOnOpen, ServerOnLost, ServerStep, clientVars, QuietOutcome
<1>10. CASE ServerReceive
  <2>1. toServer # <<>> /\ toServer' = Tail(toServer) /\ UNCHANGED outcome
    BY <1>10 DEF ServerReceive, ServerStep, clientVars
  <2>2. CASE ServerHandshake(Head(toServer).protocol)
    BY <1>0, <2>1, <2>2, QuietStep DEF ServerHandshake, QuietOutcome
  <2>3. CASE Head(toServer).type = "request" /\ ServerRequest(Head(toServer).id)
    <3>1. CASE Head(toServer).id = r
      BY <2>1, <2>3, <3>1, RequestTrace DEF Asks
    <3>2. CASE Head(toServer).id # r
      <4>1. Head(toServer).id \in Request
        BY <2>1, <2>3, ToServerHead DEF ChannelsOK
      <4>2. NoMore(toClient, toClient', r)
        BY <1>0, <2>3, <3>2, <4>1, AppendIsNoMore, MessageForms DEF ServerRequest, About
      <4>3. engineCalls'[r] = engineCalls[r] /\ (r \in working' => r \in working)
        BY <2>3, <3>2, <4>1 DEF ServerRequest, TypeOK
      <4> QED
        BY <1>0, <2>1, <4>2, <4>3, QuietStep DEF QuietOutcome
    <3> QED
      BY <3>1, <3>2
  <2> QED
    BY <1>10, <2>2, <2>3 DEF ServerReceive
<1>11. ASSUME NEW q \in Request, EngineSettles(q)
       PROVE  TraceOK(r)'
  <2>1. CASE q = r
    BY <1>11, <2>1, EngineTrace
  <2>2. CASE q # r
    <3>1. NoMore(toClient, toClient', r)
      BY <1>0, <1>11, <2>2, AppendIsNoMore, MessageForms DEF EngineSettles, About
    <3> QED
      BY <1>0, <1>11, <3>1, QuietStep
         DEF EngineSettles, ServerStep, clientVars, QuietOutcome
  <2> QED
    BY <2>1, <2>2
<1> QED
  BY <1>2, <1>3, <1>4, <1>5, <1>6, <1>7, <1>8, <1>9, <1>10, <1>11
     DEF Next, ClientNext, ServerNext

-----------------------------------------------------------------------------
(* The order of the channel *)

\* What the steps do to the flags of the handshake: none is taken back, and the
\* link that is down stays down.
LEMMA FlagsStep ==
  ASSUME TypeOK, ChannelsOK, PeerOK, [Next]_vars
  PROVE  /\ PeerOK'
         /\ clientOpen => clientOpen'
         /\ clientOpen' => clientOpen \/ ClientOnOpen
         /\ serverReady => serverReady'
         /\ peerGone => peerGone'
         /\ link = "down" => link' = "down"
         /\ \/ clientVersion' = clientVersion
            \/ clientOpen /\ Compatible
<1>1. CASE Connect \/ Disconnect \/ Reconnect \/ Down \/ Lose \/ UNCHANGED vars
  BY <1>1 DEF Connect, Disconnect, Reconnect, Down, GoDown, Lose, vars, linkVars,
              clientVars, serverVars, PeerOK, Qr, Sendable
<1>2. CASE ClientNext
  <2>1. UNCHANGED <<programs, peerGone, serverReady>> /\ (link' = link \/ link' = "down")
    BY <1>2, ClientLeaves DEF ClientStep, Close, GoDown, linkVars, serverVars
  <2>2. CASE ClientOnOpen
    BY <2>1, <2>2 DEF ClientOnOpen, PeerOK, Qr
  <2>3. CASE ClientReceive
    <3>1. UNCHANGED clientOpen /\ clientOpen
      BY <2>3 DEF ClientReceive
    <3>2. clientVersion' = clientVersion \/ Compatible
      BY <2>3, ToClientHead DEF ClientReceive, ChannelsOK, Compatible
    <3> QED
      BY <2>1, <3>1, <3>2 DEF PeerOK, Qr
  <2>4. CASE UNCHANGED <<clientOpen, clientVersion>>
    BY <2>1, <2>4 DEF PeerOK, Qr
  <2>5. \A r \in Request : SendRequest(r) \/ Timeout(r) =>
          UNCHANGED <<clientOpen, clientVersion>>
    BY DEF SendRequest, Timeout
  <2>6. ClientOnLost \/ Close => UNCHANGED <<clientOpen, clientVersion>>
    BY DEF ClientOnLost, Close
  <2> QED
    BY <1>2, <2>2, <2>3, <2>4, <2>5, <2>6 DEF ClientNext
<1>3. CASE ServerNext
  <2>1. UNCHANGED <<programs, link, clientOpen, clientVersion>>
    BY <1>3, ServerLeaves DEF ServerStep, linkVars, clientVars
  <2>2. CASE ServerOnLost
    BY <2>1, <2>2 DEF ServerOnLost, PeerOK, Qr
  <2>3. ServerReceive => UNCHANGED peerGone /\ (serverReady => serverReady')
    BY DEF ServerReceive, ServerHandshake
  <2>4. ServerOnOpen => UNCHANGED <<peerGone, serverReady>>
    BY DEF ServerOnOpen
  <2>5. \A r \in Request : EngineSettles(r) => UNCHANGED <<peerGone, serverReady>>
    BY DEF EngineSettles
  <2> QED
    BY <1>3, <2>1, <2>2, <2>3, <2>4, <2>5 DEF ServerNext, PeerOK, Qr
<1> QED
  BY <1>1, <1>2, <1>3 DEF Next

\* A step changes what is on its way to the server by reading, losing or adding.
LEMMA ToServerChange ==
  ASSUME TypeOK, ChannelsOK, ReadyIsCompatible, [Next]_vars
  PROVE  \/ UNCHANGED toServer
         \/ Fewer(toServer, toServer') /\ (Lose \/ link' = "down")
         \/ ServerReceive
         \/ ClientOnOpen
         \/ /\ clientOpen /\ Compatible
            /\ \E r \in Request :
                 toServer' = Append(toServer, [type |-> "request", id |-> r])
<1>1. CASE Lose \/ Down \/ Close
  BY <1>1, LossEffect DEF Down, Close, GoDown
<1>2. ASSUME NEW r \in Request, SendRequest(r)
      PROVE  \/ UNCHANGED toServer
             \/ /\ clientOpen /\ Compatible
                /\ toServer' = Append(toServer, [type |-> "request", id |-> r])
  BY <1>2 DEF SendRequest, ProxyUp, ReadyIsCompatible
<1>3. \A r \in Request : Timeout(r) \/ EngineSettles(r) => UNCHANGED toServer
  BY DEF Timeout, EngineSettles
<1>4. Connect \/ Disconnect \/ Reconnect \/ UNCHANGED vars => UNCHANGED toServer
  BY DEF Connect, Disconnect, Reconnect, vars
<1>5. ClientReceive \/ ClientOnLost \/ ServerOnOpen \/ ServerOnLost => UNCHANGED toServer
  BY DEF ClientReceive, ClientOnLost, ServerOnOpen, ServerOnLost
<1> QED
  BY <1>1, <1>2, <1>3, <1>4, <1>5 DEF Next, ClientNext, ServerNext

LEMMA ReadyStep ==
  /\ TypeOK /\ ChannelsOK /\ PeerOK /\ ReadyIsCompatible /\ [Next]_vars
  => ReadyIsCompatible'
<1> SUFFICES ASSUME TypeOK, ChannelsOK, PeerOK, ReadyIsCompatible, [Next]_vars
             PROVE  ReadyIsCompatible'
  OBVIOUS
<1>0. toServer \in Seq(Message) /\ Compatible' = Compatible
  BY ChannelsAreSeq DEF Compatible
<1>1. clientVersion' # NoVersion => clientOpen' /\ Compatible
  BY FlagsStep DEF ReadyIsCompatible
<1>2. ASSUME Fewer(toServer, toServer')
      PROVE  ReadyIsCompatible'
  <2>1. \A r \in Request : Asked(toServer', r) => Asked(toServer, r)
    BY <1>0, <1>2, FewerElements
  <2>2. toServer = <<>> => toServer' = <<>>
    <3>1. toServer' \in Seq(Message)
             /\ \A i \in DOMAIN toServer' : \E j \in DOMAIN toServer : TRUE
      BY <1>0, <1>2, FewerElements
    <3> QED
      BY <3>1
  <2> QED
    BY <1>0, <1>1, <2>1, <2>2, FlagsStep DEF ReadyIsCompatible
<1>3. CASE UNCHANGED toServer
  BY <1>2, <1>3, <1>0, EmptyIsFewer
<1>4. CASE ServerReceive
  BY <1>2, <1>4, ToServerHead DEF ServerReceive, ChannelsOK
<1>5. CASE ClientOnOpen
  <2>1. \A r \in Request : Asked(toServer', r) => Asked(toServer, r)
    BY <1>0, <1>5, AppendElements, MessageForms DEF ClientOnOpen, Asked, Asks
  <2> QED
    BY <1>0, <1>1, <1>5, <2>1 DEF ClientOnOpen, ReadyIsCompatible
<1>6. CASE clientOpen /\ Compatible
  BY <1>0, <1>1, <1>6, FlagsStep DEF ReadyIsCompatible
<1> QED
  BY <1>2, <1>3, <1>4, <1>5, <1>6, ToServerChange

\* The client's handshake is the first thing it sends, and stays at the head of
\* the channel until the server has read it.
LEMMA HandshakeStep ==
  /\ TypeOK /\ ChannelsOK /\ PeerOK /\ ReadyIsCompatible /\ HandshakeFirst /\ [Next]_vars
  => HandshakeFirst'
<1> SUFFICES ASSUME TypeOK, ChannelsOK, PeerOK, ReadyIsCompatible, HandshakeFirst,
                    [Next]_vars, losses' = 0, clientOpen', link' # "down", Compatible,
                    ~serverReady', ~peerGone'
             PROVE  toServer' # <<>> /\ Head(toServer').type = "handshake"
  BY DEF HandshakeFirst, Compatible
<1>1. toServer \in Seq(Message) /\ losses = 0 /\ ~Lose
  BY CountsStep, ChannelsAreSeq DEF TypeOK
<1>2. link # "down" /\ ~serverReady /\ ~peerGone
  BY FlagsStep
<1>3. CASE ClientOnOpen
  <2>1. toServer = <<>>
    BY <1>3 DEF ClientOnOpen, ReadyIsCompatible
  <2> QED
    BY <1>1, <1>3, <2>1, AppendElements, MessageForms DEF ClientOnOpen
<1>4. CASE ~ClientOnOpen
  <2>1. clientOpen
    BY <1>4, FlagsStep
  <2>2. toServer # <<>> /\ Head(toServer).type = "handshake"
    BY <1>1, <1>2, <2>1 DEF HandshakeFirst
  <2>3. ~ServerReceive
    <3>1. SUFFICES ASSUME ServerReceive
                   PROVE  FALSE
      OBVIOUS
    <3>2. ServerHandshake(ClientProtocol)
      BY <2>2, <3>1, ToServerHead DEF ServerReceive, ChannelsOK
    <3> QED
      BY <1>2, <3>2, NegotiateFacts DEF ServerHandshake, Compatible
  <2>4. \/ UNCHANGED toServer
        \/ \E r \in Request :
             toServer' = Append(toServer, [type |-> "request", id |-> r])
    BY <1>1, <1>4, <2>3, ToServerChange
  <2>5. ASSUME NEW m \in Message, toServer' = Append(toServer, m)
        PROVE  toServer' # <<>> /\ Head(toServer').type = "handshake"
    BY <1>1, <2>2, <2>5, AppendElements
  <2> QED
    BY <2>2, <2>4, <2>5, MessageForms
<1> QED
  BY <1>3, <1>4

LEMMA RefusalsStep ==
  /\ TypeOK /\ ChannelsOK /\ ReadyIsCompatible /\ HandshakeFirst /\ RefusalsOK
  /\ [Next]_vars
  => RefusalsOK'
<1> SUFFICES ASSUME TypeOK, ChannelsOK, ReadyIsCompatible, HandshakeFirst, RefusalsOK,
                    [Next]_vars, losses' = 0
             PROVE  \A k \in DOMAIN toClient' : toClient'[k].type # "refused"
  BY DEF RefusalsOK
<1>1. /\ toClient \in Seq(Message) /\ losses = 0 /\ ~Lose
      /\ \A k \in DOMAIN toClient : toClient[k].type # "refused"
  BY CountsStep, ChannelsAreSeq DEF TypeOK, RefusalsOK
<1>2. ASSUME Fewer(toClient, toClient')
      PROVE  \A k \in DOMAIN toClient' : toClient'[k].type # "refused"
  BY <1>1, <1>2, FewerElements
<1>3. ASSUME NEW m \in Message, m.type # "refused", toClient' = Append(toClient, m)
      PROVE  \A k \in DOMAIN toClient' : toClient'[k].type # "refused"
  BY <1>1, <1>3, AppendElements
<1>4. CASE Down \/ Close
  BY <1>2, <1>4, LossEffect DEF Down, Close
<1>5. CASE ClientReceive
  BY <1>2, <1>5, ToClientHead DEF ClientReceive, ChannelsOK
<1>6. CASE ServerOnOpen
  BY <1>3, <1>6, MessageForms DEF ServerOnOpen
<1>7. CASE UNCHANGED toClient
  BY <1>1, <1>7
<1>8. CASE ServerReceive
  <2>1. ASSUME Head(toServer).type = "request", ~peerGone, ~serverReady
        PROVE  FALSE
    <3>1. Asked(toServer, Head(toServer).id) /\ Head(toServer).id \in Request
      BY <1>8, <2>1, ChannelsAreSeq, HeadElement, ToServerHead
         DEF ServerReceive, Asked, Asks, ChannelsOK
    <3>2. clientOpen /\ Compatible
      BY <3>1 DEF ReadyIsCompatible
    <3> QED
      BY <1>1, <1>8, <2>1, <3>2 DEF HandshakeFirst, ServerReceive
  <2>2. UNCHANGED toClient
    <3>1. CASE ServerHandshake(Head(toServer).protocol)
      BY <3>1 DEF ServerHandshake
    <3>2. CASE Head(toServer).type = "request" /\ ServerRequest(Head(toServer).id)
      BY <2>1, <3>2, <1>8, ToServerHead DEF ServerReceive, ServerRequest, ChannelsOK
    <3> QED
      BY <1>8, <3>1, <3>2 DEF ServerReceive
  <2> QED
    BY <1>7, <2>2
<1>9. ASSUME NEW r \in Request, EngineSettles(r)
      PROVE  \A k \in DOMAIN toClient' : toClient'[k].type # "refused"
  BY <1>3, <1>7, <1>9, MessageForms DEF EngineSettles
<1>10. /\ Connect \/ Disconnect \/ Reconnect \/ UNCHANGED vars => UNCHANGED toClient
       /\ ClientOnOpen \/ ClientOnLost \/ ServerOnLost => UNCHANGED toClient
       /\ \A r \in Request : SendRequest(r) \/ Timeout(r) => UNCHANGED toClient
  BY DEF Connect, Disconnect, Reconnect, vars, ClientOnOpen, ClientOnLost, ServerOnLost,
         SendRequest, Timeout
<1> QED
  BY <1>1, <1>4, <1>5, <1>6, <1>7, <1>8, <1>9, <1>10 DEF Next, ClientNext, ServerNext

LEMMA RefusedStep ==
  /\ TypeOK /\ ChannelsOK /\ PendingIsOpen /\ RefusalsOK /\ RefusedOnlyAfterLoss
  /\ [Next]_vars
  => RefusedOnlyAfterLoss'
<1> SUFFICES ASSUME TypeOK, ChannelsOK, PendingIsOpen, RefusalsOK, RefusedOnlyAfterLoss,
                    [Next]_vars, NEW r \in Request, outcome'[r] = "refused"
             PROVE  losses' > 0
  BY DEF RefusedOnlyAfterLoss
<1>1. CASE outcome[r] = "refused"
  BY <1>1, CountsStep DEF RefusedOnlyAfterLoss, TypeOK
<1>2. CASE outcome[r] # "refused"
  <2>1. toClient # <<>> /\ Head(toClient).type = "refused"
    BY <1>2, OutcomeChange
  <2>2. losses # 0
    BY <2>1, ChannelsAreSeq, HeadElement DEF RefusalsOK
  <2> QED
    BY <2>2, CountsStep DEF TypeOK
<1> QED
  BY <1>1, <1>2

-----------------------------------------------------------------------------
(* The theorems *)

LEMMA InitIInv == Init => IInv
<1> SUFFICES ASSUME Init
             PROVE  IInv
  OBVIOUS
<1> USE DEF Init
<1>0. /\ outcome \in [Request -> Settled \cup {"new", "waiting"}]
      /\ engineCalls \in [Request -> Nat]
  OBVIOUS
<1>1. TypeOK
  <2> USE <1>0
  <2>1. {clientOpen, serverOpen, clientNotice, serverNotice, clientReady,
         serverReady, peerGone, serverUp} \subseteq BOOLEAN
    OBVIOUS
  <2>2. toServer \in Seq(Message) /\ toClient \in Seq(Message)
    OBVIOUS
  <2>3. losses \in Nat /\ disconnects \in Nat /\ pending \subseteq Request
        /\ working \subseteq Request
    OBVIOUS
  <2> QED
    BY <1>0, <2>1, <2>2, <2>3 DEF TypeOK
<1>2. ChannelsOK
  BY DEF ChannelsOK, ToServerOK, ToClientOK
<1>3. PendingIsOpen /\ NothingWaitsOnDeadChannel
  BY DEF PendingIsOpen, NothingWaitsOnDeadChannel
<1>4. \A r \in Request : TraceOK(r)
  BY DEF TraceOK, EngineOnce, AskedOnce, AnswersOK, UnsentIsFresh, Asked
<1>5. PeerOK /\ ReadyIsCompatible /\ HandshakeFirst
  BY DEF PeerOK, ReadyIsCompatible, HandshakeFirst, Asked
<1>6. RefusalsOK /\ RefusedOnlyAfterLoss
  BY DEF RefusalsOK, RefusedOnlyAfterLoss
<1> QED
  BY <1>1, <1>2, <1>3, <1>4, <1>5, <1>6 DEF IInv

LEMMA IInvStep == IInv /\ [Next]_vars => IInv'
<1> SUFFICES ASSUME IInv, [Next]_vars
             PROVE  IInv'
  OBVIOUS
<1>1. TypeOK' /\ ChannelsOK'
  BY TypeStep, ChannelsStep DEF IInv
<1>2. PendingIsOpen' /\ NothingWaitsOnDeadChannel'
  BY PendingStep, DeadChannelStep DEF IInv
<1>3. \A r \in Request : TraceOK(r)'
  BY TraceStep DEF IInv
<1>4. PeerOK' /\ ReadyIsCompatible' /\ HandshakeFirst'
  BY FlagsStep, ReadyStep, HandshakeStep DEF IInv
<1>5. RefusalsOK' /\ RefusedOnlyAfterLoss'
  BY RefusalsStep, RefusedStep DEF IInv
<1> QED
  BY <1>1, <1>2, <1>3, <1>4, <1>5 DEF IInv

LEMMA Inductive == Spec => []IInv
<1> QED
  BY InitIInv, IInvStep, PTL DEF Spec

\* The state is of its types whatever the channel loses.
THEOREM TypeCorrect == Spec => []TypeOK
<1>1. IInv => TypeOK
  BY DEF IInv
<1> QED
  BY <1>1, Inductive, PTL

\* The map of pending requests is exactly the set of open promises, in whatever
\* order timer, answer, failed send, loss and close() come.
THEOREM PendingCorrect == Spec => []PendingIsOpen
<1>1. IInv => PendingIsOpen
  BY DEF IInv
<1> QED
  BY <1>1, Inductive, PTL

\* On a channel that has lost nothing no request is refused for want of a
\* handshake.
THEOREM RefusalCorrect == Spec => []RefusedOnlyAfterLoss
<1>1. IInv => RefusedOnlyAfterLoss
  BY DEF IInv
<1> QED
  BY <1>1, Inductive, PTL

\* After the loss callback nothing waits on a channel that is gone.
THEOREM DeadChannelCorrect == Spec => []NothingWaitsOnDeadChannel
<1>1. IInv => NothingWaitsOnDeadChannel
  BY DEF IInv
<1> QED
  BY <1>1, Inductive, PTL

\* What a request got it keeps: an answer, a timer, a loss or a late answer to an
\* id that is settled changes nothing any more.
SettledOnce ==
  [][\A r \in Request : outcome[r] \in Settled => outcome'[r] = outcome[r]]_vars

\* Every request of the HTTP proxy is settled at most once, although its timer, its
\* answer and the loss of the channel race for it.
THEOREM SettledCorrect == Spec => SettledOnce
<1>1. ASSUME IInv, [Next]_vars
      PROVE  \A r \in Request : outcome[r] \in Settled => outcome'[r] = outcome[r]
  BY <1>1, OutcomeChange DEF IInv, Settled
<1> QED
  BY <1>1, Inductive, PTL DEF Spec, SettledOnce
-----------------------------------------------------------------------------
(* The abstract specification *)

LEMMA PromiseInductive ==
  Promise!TypeOK /\ Promise!SidesAgree /\ [Promise!Next]_(Promise!vars)
  => Promise!TypeOK' /\ Promise!SidesAgree'
<1> SUFFICES ASSUME Promise!TypeOK, Promise!SidesAgree,
                    [Promise!Next]_(Promise!vars)
             PROVE  Promise!TypeOK' /\ Promise!SidesAgree'
  OBVIOUS
<1> USE DEF Promise!TypeOK, Promise!SidesAgree, Promise!Unsent, Promise!Answers,
            Promise!Silences
<1>1. ASSUME NEW c \in Request, Promise!Make(c)
      PROVE  Promise!TypeOK' /\ Promise!SidesAgree'
  BY <1>1 DEF Promise!Make, Promise!Becomes
<1>2. ASSUME NEW c \in Request, Promise!Serve(c)
      PROVE  Promise!TypeOK' /\ Promise!SidesAgree'
  BY <1>2 DEF Promise!Serve
<1>3. ASSUME NEW c \in Request, Promise!Answer(c)
      PROVE  Promise!TypeOK' /\ Promise!SidesAgree'
  BY <1>3 DEF Promise!Answer, Promise!Becomes
<1>4. ASSUME NEW c \in Request, Promise!Refuse(c)
      PROVE  Promise!TypeOK' /\ Promise!SidesAgree'
  BY <1>4 DEF Promise!Refuse, Promise!Becomes
<1>5. ASSUME NEW C \in SUBSET Request, Promise!GiveUp(C)
      PROVE  Promise!TypeOK' /\ Promise!SidesAgree'
  BY <1>5 DEF Promise!GiveUp
<1>6. CASE UNCHANGED Promise!vars
  BY <1>6 DEF Promise!vars
<1> QED
  BY <1>1, <1>2, <1>3, <1>4, <1>5, <1>6 DEF Promise!Next

\* Remote calls keep the two sides in agreement, whatever implements them.
LEMMA PromiseKeepsSides == Promise!Spec => []Promise!SidesAgree
<1>1. Promise!Init => Promise!TypeOK /\ Promise!SidesAgree
  BY DEF Promise!Init, Promise!TypeOK, Promise!SidesAgree, Promise!Unsent,
         Promise!Answers, Promise!Silences
<1> QED
  BY <1>1, PromiseInductive, PTL DEF Promise!Spec

-----------------------------------------------------------------------------
(* The refinement *)

\* A request that is read is carried out, refused or dropped.
LEMMA ServerImplements ==
  ASSUME IInv, ServerReceive
  PROVE  Promise!Next \/ UNCHANGED Promise!vars
<1>1. TypeOK /\ ChannelsOK /\ UNCHANGED outcome /\ toServer # <<>>
  BY DEF IInv, ServerReceive, ServerStep, clientVars
<1>2. CASE UNCHANGED engineCalls
  BY <1>1, <1>2 DEF Promise!vars
<1>3. CASE engineCalls' # engineCalls
  <2>1. /\ Head(toServer).type = "request" /\ ServerRequest(Head(toServer).id)
        /\ Head(toServer).id \in Request
    BY <1>1, <1>3, ToServerHead DEF ServerReceive, ServerHandshake, ChannelsOK
  <2> DEFINE r == Head(toServer).id
  <2>2. engineCalls' = [engineCalls EXCEPT ![r] = @ + 1]
    BY <1>3, <2>1 DEF ServerRequest
  <2>3. engineCalls[r] = 0 /\ outcome[r] \in {"waiting", "timeout", "lost"}
    <3>1. Asks(Head(toServer), r) /\ TraceOK(r)
      BY <2>1 DEF Asks, IInv
    <3> QED
      BY <1>1, <2>1, <3>1, ReadTrace DEF TypeOK, Settled
  <2>4. Promise!Serve(r)
    BY <1>1, <2>1, <2>2, <2>3 DEF Promise!Serve, Promise!Silences, TypeOK
  <2> QED
    BY <2>1, <2>4 DEF Promise!Next
<1> QED
  BY <1>2, <1>3

\* A message that is read answers or refuses a call that waits, or does nothing.
LEMMA ClientImplements ==
  ASSUME IInv, ClientReceive
  PROVE  Promise!Next \/ UNCHANGED Promise!vars
<1>1. /\ TypeOK /\ ChannelsOK /\ PendingIsOpen /\ UNCHANGED engineCalls
      /\ toClient # <<>>
  BY DEF IInv, ClientReceive, ClientStep, serverVars
<1>2. CASE UNCHANGED outcome
  BY <1>1, <1>2 DEF Promise!vars
<1>3. CASE outcome' # outcome
  <2> DEFINE r == Head(toClient).id
             type == Head(toClient).type
  <2>1. /\ r \in pending /\ outcome' = [outcome EXCEPT ![r] = type]
        /\ type # "handshake"
    BY <1>3 DEF ClientReceive, Settle
  <2>2. r \in Request /\ type \in {"response", "error", "refused"}
    BY <1>1, <2>1, ToClientHead DEF ChannelsOK
  <2>3. outcome[r] = "waiting" /\ TraceOK(r)
    BY <1>1, <2>1, <2>2 DEF PendingIsOpen, IInv
  <2>4. PICK k \in DOMAIN toClient : toClient[k] = Head(toClient)
    BY <1>1, ChannelsAreSeq, HeadElement
  <2>5. CASE type = "refused"
    <3>1. engineCalls[r] = 0
      BY <2>3, <2>4, <2>5 DEF TraceOK, AnswersOK, Refuses
    <3>2. Promise!Refuse(r)
      BY <1>1, <2>1, <2>3, <2>5, <3>1 DEF Promise!Refuse, Promise!Becomes
    <3> QED
      BY <2>2, <3>2 DEF Promise!Next
  <2>6. CASE type \in {"response", "error"}
    <3>1. engineCalls[r] = 1
      BY <2>3, <2>4, <2>6 DEF TraceOK, AnswersOK, Answers
    <3>2. Promise!Answer(r)
      BY <1>1, <2>1, <2>3, <2>6, <3>1
         DEF Promise!Answer, Promise!Becomes, Promise!Answers
    <3> QED
      BY <2>2, <3>2 DEF Promise!Next
  <2> QED
    BY <2>2, <2>5, <2>6
<1> QED
  BY <1>2, <1>3

\* Timers and the loss of the channel.
LEMMA GivingUpImplements ==
  ASSUME TypeOK, PendingIsOpen, NEW C \in SUBSET pending,
         NEW why \in {"timeout", "lost"}, UNCHANGED engineCalls,
         outcome' = [r \in Request |-> IF r \in C THEN why ELSE outcome[r]]
  PROVE  Promise!Next
<1>1. C \in SUBSET Request /\ \A r \in C : outcome[r] = "waiting"
  BY DEF PendingIsOpen
<1>2. Promise!GiveUp(C)
  BY <1>1 DEF Promise!GiveUp, Promise!Silences
<1> QED
  BY <1>1, <1>2 DEF Promise!Next

LEMMA StepImplements ==
  IInv /\ [Next]_vars => [Promise!Next]_(Promise!vars)
<1> SUFFICES ASSUME IInv, [Next]_vars
             PROVE  Promise!Next \/ UNCHANGED Promise!vars
  OBVIOUS
<1>0. TypeOK /\ PendingIsOpen
  BY DEF IInv
<1>1. CASE \/ Connect \/ Disconnect \/ Reconnect \/ Down \/ Lose \/ ClientOnOpen
           \/ ServerOnOpen \/ ServerOnLost \/ UNCHANGED vars
  <2>1. UNCHANGED <<outcome, engineCalls>>
    BY <1>1 DEF Connect, Disconnect, Reconnect, Down, Lose, ClientOnOpen, ServerOnOpen,
                ServerOnLost, ClientStep, ServerStep, clientVars, serverVars, vars
  <2> QED
    BY <2>1 DEF Promise!vars
<1>2. ASSUME NEW r \in Request, SendRequest(r)
      PROVE  Promise!Next
  <2>1. /\ outcome[r] = "new" /\ UNCHANGED engineCalls
        /\ \E result \in {"waiting", "notReady", "sendFailed"} :
             outcome' = [outcome EXCEPT ![r] = result]
    BY <1>2 DEF SendRequest, Settle, ClientStep, serverVars
  <2>2. Promise!Make(r)
    BY <2>1 DEF Promise!Make, Promise!Becomes, Promise!Unsent
  <2> QED
    BY <2>2 DEF Promise!Next
<1>3. ASSUME NEW r \in Request, Timeout(r)
      PROVE  Promise!Next
  <2>1. /\ {r} \in SUBSET pending /\ UNCHANGED engineCalls
        /\ outcome' = [q \in Request |-> IF q \in {r} THEN "timeout" ELSE outcome[q]]
    BY <1>0, <1>3 DEF Timeout, Settle, ClientStep, serverVars, TypeOK
  <2> QED
    BY <1>0, <2>1, GivingUpImplements
<1>4. CASE ClientOnLost \/ Close
  <2>1. /\ UNCHANGED engineCalls
        /\ outcome' = [q \in Request |-> IF q \in pending THEN "lost" ELSE outcome[q]]
    BY <1>4 DEF ClientOnLost, Close, RejectAllPending, ClientStep, serverVars
  <2> QED
    BY <1>0, <2>1, GivingUpImplements
<1>5. CASE ClientReceive
  BY <1>5, ClientImplements
<1>6. CASE ServerReceive
  BY <1>6, ServerImplements
<1>7. ASSUME NEW r \in Request, EngineSettles(r)
      PROVE  UNCHANGED Promise!vars
  BY <1>7 DEF EngineSettles, ServerStep, clientVars, Promise!vars
<1> QED
  BY <1>1, <1>2, <1>3, <1>4, <1>5, <1>6, <1>7 DEF Next, ClientNext, ServerNext

\* The transport implements remote calls: whatever the channel loses, in whatever
\* order handshakes, requests, answers, timers and losses come, every step is a
\* step of a call or changes nothing that a caller or the engine knows.
THEOREM Refinement == Spec => ImplementsRemoteCalls
<1>1. Init => Promise!Init
  BY DEF Init, Promise!Init
<1> QED
  BY <1>1, Inductive, StepImplements, PTL DEF Spec, ImplementsRemoteCalls, Promise!Spec

\* The engine sees every request at most once, and what the client got agrees
\* with that; a request that was refused or not sent it never sees.
THEOREM EngineCorrect == Spec => []Promise!SidesAgree
  BY Refinement, PromiseKeepsSides, PTL DEF ImplementsRemoteCalls

=============================================================================
