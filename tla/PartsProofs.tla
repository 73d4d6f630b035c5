------------------------------ MODULE PartsProofs ------------------------------
(***************************************************************************)
(* Proofs about the programs and objects that run on their own (MCParts):  *)
(* the recovery tool, the retrieval client, the signaling server, the TACo *)
(* client and the QR programs, the translator and the archive.  Each       *)
(* program has an invariant of its own; a step of the whole is a step of   *)
(* one of them and leaves the others alone.  What the translator and the   *)
(* archive compute is proved for lists of any length, by induction.  Of    *)
(* the commands, calls and archives given in MCParts the proofs use only   *)
(* what CommandsOK and CallsOK say; requests, calls of the TACo client,    *)
(* wallets, QR processes, gateways, retries, runs and faults are any.      *)
(***************************************************************************)
EXTENDS MCParts, FiniteSets, FiniteSetTheorems, WellFoundedInduction, SequenceTheorems,
        TLAPS

LEMMA PartsInit == Init => S!Init /\ T!Init /\ Q!Init /\ R!Init /\ V!Init
  BY DEF Init

LEMMA PartsStep ==
  [Next]_vars => /\ [S!Next]_sVars
                 /\ [T!Next]_tVars
                 /\ [Q!Next]_qVars
                 /\ [R!Next]_rVars
                 /\ [V!Next]_vVars
  BY DEF Next, vars, Recovers, Retrieves, Signals, PairsByQr, UsesTaco

-----------------------------------------------------------------------------
(* What the commands and the calls are *)

LEMMA ShortLists ==
  ASSUME NEW Elem
  PROVE  /\ << >> \in Seq(Elem)
         /\ \A x \in Elem : <<x>> \in Seq(Elem) /\ Len(<<x>>) = 1
         /\ \A x, y \in Elem : <<x, y>> \in Seq(Elem) /\ Len(<<x, y>>) = 2
         /\ \A x, y, z \in Elem : <<x, y, z>> \in Seq(Elem) /\ Len(<<x, y, z>>) = 3
         /\ \A x, y, z, w \in Elem : <<x, y, z, w>> \in Seq(Elem) /\ Len(<<x, y, z, w>>) = 4
  OBVIOUS

LEMMA CommandsOK ==
  \A c \in Commands :
     /\ c.list \in Seq([form : {"cid", "malformed", "local"}, archive : Archive])
     /\ c.name = "extract" => Len(c.list) = 1
<1> DEFINE I == [form : {"cid", "malformed", "local"}, archive : Archive]
<1>1. \A f \in {"cid", "malformed", "local"}, a \in Archive : Input(f, a) \in I
  BY DEF Input
<1>2. /\ Input("cid", a1) \in I /\ Input("malformed", a3) \in I /\ Input("cid", a2) \in I
      /\ Input("local", a1) \in I /\ Input("local", a2) \in I
  BY <1>1 DEF Archive
<1>3. /\ <<Input("cid", a1)>> \in Seq(I)
      /\ <<Input("cid", a1), Input("malformed", a3), Input("cid", a2)>> \in Seq(I)
      /\ <<Input("local", a1)>> \in Seq(I) /\ <<Input("local", a2)>> \in Seq(I)
      /\ << >> \in Seq(I)
  BY <1>2, ShortLists
<1>4. ASSUME NEW c \in Commands
      PROVE  c.list \in Seq(I) /\ (c.name = "extract" => Len(c.list) = 1)
  <2>1. \/ c = Typed("recover", <<Input("cid", a1)>>, TRUE, TRUE)
        \/ c = Typed("recover-all",
              <<Input("cid", a1), Input("malformed", a3), Input("cid", a2)>>, FALSE, FALSE)
        \/ c = Typed("recover-all", << >>, FALSE, FALSE)
        \/ c = Typed("extract", <<Input("local", a1)>>, FALSE, TRUE)
        \/ c = Typed("extract", <<Input("local", a2)>>, FALSE, FALSE)
    BY DEF Commands
  <2>2. \/ c.list = <<Input("cid", a1)>>
        \/ c.list = <<Input("cid", a1), Input("malformed", a3), Input("cid", a2)>>
        \/ c.list = << >>
        \/ c.list = <<Input("local", a1)>>
        \/ c.list = <<Input("local", a2)>>
    BY <2>1 DEF Typed
  <2>3. c.name = "extract" => c.list \in {<<Input("local", a1)>>, <<Input("local", a2)>>}
    BY <2>1 DEF Typed
  <2> QED
    BY <1>2, <1>3, <2>2, <2>3, ShortLists
<1> QED
  BY <1>4

LEMMA CallsOK == \A c \in Calls : c.cids \in Seq(Cid) /\ Len(c.cids) > 0
<1>1. direct \in Cid /\ inline \in Cid /\ linked \in Cid /\ locked \in Cid
  BY DEF Cid
<1>2. /\ <<locked, linked, direct, inline>> \in Seq(Cid)
      /\ <<linked, linked>> \in Seq(Cid)
      /\ <<locked>> \in Seq(Cid) /\ <<inline>> \in Seq(Cid)
  BY <1>1, ShortLists
<1>3. /\ Len(<<locked, linked, direct, inline>>) = 4
      /\ Len(<<linked, linked>>) = 2
      /\ Len(<<locked>>) = 1 /\ Len(<<inline>>) = 1
  BY <1>1, ShortLists
<1>4. ASSUME NEW c \in Calls
      PROVE  c.cids \in Seq(Cid) /\ Len(c.cids) > 0
  <2>1. \/ c = Asks("conversations", <<locked, linked, direct, inline>>, FALSE, "taco")
        \/ c = Asks("conversations", <<linked, linked>>, TRUE, "none")
        \/ c = Asks("conversations", <<locked>>, TRUE, "given")
        \/ c = Asks("message", <<locked>>, FALSE, "none")
        \/ c = Asks("messages", <<inline>>, FALSE, "none")
    BY DEF Calls
  <2>2. \/ c.cids = <<locked, linked, direct, inline>>
        \/ c.cids = <<linked, linked>>
        \/ c.cids = <<locked>>
        \/ c.cids = <<inline>>
    BY <2>1 DEF Asks
  <2>3. c.cids \in Seq(Cid)
    BY <1>2, <2>2
  <2>4. Len(c.cids) > 0
    <3>1. CASE Len(c.cids) = 4
      BY <3>1
    <3>2. CASE Len(c.cids) = 2
      BY <3>2
    <3>3. CASE Len(c.cids) = 1
      BY <3>3
    <3> QED
      BY <1>3, <2>2, <3>1, <3>2, <3>3
  <2> QED
    BY <2>3, <2>4
<1> QED
  BY <1>4

-----------------------------------------------------------------------------
(* The signaling server *)

\* The owner's promise takes the answer that becomes the winner: a winner there
\* is only once the owner has waited, and none while it still waits.
SignalOK ==
  /\ S!TypeOK
  /\ promise \in Request => promise = winner
  /\ promise \in {"none", "waiting"} => winner = Nobody
  /\ answerConsumed => \E r \in Request : request[r] = "200"

LEMMA SignalInit == S!Init => SignalOK
  BY RequestAssumption DEF S!Init, S!TypeOK, SignalOK

LEMMA SignalStep == SignalOK /\ [S!Next]_sVars => SignalOK'
<1> SUFFICES ASSUME SignalOK, [S!Next]_sVars
             PROVE  SignalOK'
  OBVIOUS
<1> USE RequestAssumption DEF SignalOK, S!TypeOK
<1>1. CASE S!SetOffer
  BY <1>1 DEF S!SetOffer
<1>2. CASE S!WaitForAnswer
  BY <1>2 DEF S!WaitForAnswer
<1>3. CASE S!Timeout
  BY <1>3 DEF S!Timeout, S!Stop
<1>4. CASE S!CallStop
  BY <1>4 DEF S!CallStop, S!Stop
<1>5. ASSUME NEW r \in Request, S!Headers(r)
      PROVE  SignalOK'
  <2>1. request[r] = "none" /\ UNCHANGED <<answerConsumed, promise, winner>>
    BY <1>5 DEF S!Headers
  <2>2. \E status \in {"401", "404", "offer", "503", "409", "body"} :
           request' = [request EXCEPT ![r] = status]
    BY <1>5 DEF S!Headers, S!Reply, S!GetOffer, S!PostAnswer
  <2>3. S!TypeOK'
    BY <1>5, <2>1, <2>2 DEF S!Headers
  <2>4. \A q \in Request : request[q] = "200" => request'[q] = "200"
    BY <2>1, <2>2
  <2> QED
    BY <2>1, <2>3, <2>4
<1>6. ASSUME NEW r \in Request, S!Answer(r)
      PROVE  SignalOK'
  <2>1. request'[r] = "200" /\ S!TypeOK'
    BY <1>6 DEF S!Answer, S!Reply, S!Stop
  <2>2. /\ promise' = IF promise = "waiting" THEN r ELSE promise
        /\ winner' = IF promise # "none" /\ winner = Nobody THEN r ELSE winner
    BY <1>6 DEF S!Answer
  <2> QED
    BY <2>1, <2>2
<1>7. ASSUME NEW r \in Request, S!BadBody(r)
      PROVE  SignalOK'
  <2>1. request[r] = "body" /\ UNCHANGED <<answerConsumed, promise, winner>>
    BY <1>7 DEF S!BadBody
  <2>2. \E status \in {"400", "aborted"} : request' = [request EXCEPT ![r] = status]
    BY <1>7 DEF S!BadBody, S!Reply
  <2>3. S!TypeOK'
    BY <1>7, <2>1, <2>2 DEF S!BadBody
  <2>4. \A q \in Request : request[q] = "200" => request'[q] = "200"
    BY <2>1, <2>2
  <2> QED
    BY <2>1, <2>3, <2>4
<1>8. CASE UNCHANGED sVars
  BY <1>8 DEF sVars
<1> QED
  BY <1>1, <1>2, <1>3, <1>4, <1>5, <1>6, <1>7, <1>8 DEF S!Next

-----------------------------------------------------------------------------
(* The TACo client *)

\* Unless disconnect() has come while an initialize() was in hand, whoever is past
\* its first await has left the provider there.
TacoOK ==
  /\ T!TypeOK
  /\ ~overlapped => \A c \in Call :
        initializing[c] \in {"block", "address", "ritual"} => provider
  /\ T!InitializedIsUsable

LEMMA TacoInit == T!Init => TacoOK
  BY DEF T!Init, T!TypeOK, TacoOK, T!InitializedIsUsable

LEMMA TacoStep == TacoOK /\ [T!Next]_tVars => TacoOK'
<1> SUFFICES ASSUME TacoOK, [T!Next]_tVars
             PROVE  TacoOK'
  OBVIOUS
<1> USE DEF TacoOK, T!TypeOK, T!InitializedIsUsable
<1>1. CASE T!Disconnect
  <2>1. overlapped' = (overlapped \/ T!InHand # {}) /\ UNCHANGED initializing
    BY <1>1 DEF T!Disconnect, T!calls
  <2>2. ~overlapped' => \A c \in Call : initializing[c] \notin {"block", "address", "ritual"}
    BY <2>1 DEF T!InHand
  <2> QED
    BY <1>1, <2>1, <2>2 DEF T!Disconnect, T!calls
<1> USE DEF T!At, T!fields, T!EncryptAt
<1>2. ASSUME NEW c \in Call, T!Initialize(c)
      PROVE  TacoOK'
  BY <1>2 DEF T!Initialize
<1>3. ASSUME NEW c \in Call, T!SdkReady(c)
      PROVE  TacoOK'
  BY <1>3 DEF T!SdkReady
<1>4. ASSUME NEW c \in Call, T!BlockArrives(c)
      PROVE  TacoOK'
  BY <1>4 DEF T!BlockArrives, T!FetchDkgPublicKey
<1>5. ASSUME NEW c \in Call, T!AddressArrives(c)
      PROVE  TacoOK'
  BY <1>5 DEF T!AddressArrives, T!FetchDkgPublicKey
<1>6. ASSUME NEW c \in Call, T!RitualArrives(c)
      PROVE  TacoOK'
  BY <1>6 DEF T!RitualArrives
<1>7. ASSUME NEW c \in Call, T!InitializeFails(c)
      PROVE  TacoOK'
  BY <1>7 DEF T!InitializeFails
<1>8. ASSUME NEW c \in Call, T!Encrypt(c) \/ T!ModulesArrive(c) \/ T!CiphertextArrives(c)
      PROVE  TacoOK'
  BY <1>8 DEF T!Encrypt, T!ModulesArrive, T!CiphertextArrives
<1>9. CASE UNCHANGED tVars
  BY <1>9 DEF tVars
<1> QED
  BY <1>1, <1>2, <1>3, <1>4, <1>5, <1>6, <1>7, <1>8, <1>9 DEF T!Next

-----------------------------------------------------------------------------
(* The QR programs *)

\* A process has no code before its prompt has been answered, and keeps the one
\* it was given; whoever is greeted, or about to be, was given the code of the
\* process that was given its own, and a client only by a server that serves.
Unasked(p) == qrStage[p] = "prompt" \/ (p \in Server /\ qrStage[p] = "gathering")

Mutual(p) == pasted[p] \in Q!Process /\ pasted[pasted[p]] = p

QrOK ==
  /\ Q!TypeOK
  /\ \A p \in Q!Process : Unasked(p) => pasted[p] = Nobody
  /\ \A l \in links : pasted[l[1]] = l[2] /\ pasted[l[2]] = l[1]
  /\ \A p \in greeting \cup greeted :
        /\ Mutual(p)
        /\ p \in Client => qrStage[pasted[p]] \in {"serving", "ended"}
  /\ \A c \in Client : qrStage[c] = "serving" => c \in greeted

LEMMA QrInit == Q!Init => QrOK
  BY ProcessAssumption DEF Q!Init, Q!TypeOK, Q!Stages, QrOK, Unasked, Q!Process

\* Nobody who has been given a code is asked again, and who serves goes on or ends.
LEMMA QrMoves ==
  ASSUME QrOK, NEW p \in Q!Process, NEW s \in Q!Stages,
         qrStage' = [qrStage EXCEPT ![p] = s], UNCHANGED <<pasted, greeting, greeted>>,
         links' \subseteq links, UNCHANGED <<shown, opening>>,
         s # "prompt" \/ Unasked(p),
         s # "gathering",
         qrStage[p] \in {"serving", "ended"} => s \in {"serving", "ended"},
         p \in Client /\ s = "serving" => p \in greeted
  PROVE  QrOK'
<1> USE DEF QrOK
<1>1. Q!TypeOK'
  BY DEF Q!TypeOK
<1>2. ASSUME NEW q \in Q!Process, Unasked(q)'
      PROVE  pasted'[q] = Nobody
  BY <1>2 DEF Unasked, Q!TypeOK
<1>3. ASSUME NEW q \in greeting' \cup greeted'
      PROVE  Mutual(q)' /\ (q \in Client => qrStage'[pasted'[q]] \in {"serving", "ended"})
  BY DEF Mutual, Q!TypeOK
<1>4. ASSUME NEW c \in Client, qrStage'[c] = "serving"
      PROVE  c \in greeted'
  BY <1>4 DEF Q!TypeOK, Q!Process
<1> QED
  BY <1>1, <1>2, <1>3, <1>4

LEMMA QrEnds ==
  ASSUME QrOK, NEW p \in Q!Process, Q!End(p),
         UNCHANGED <<shown, pasted, opening, greeting, greeted>>
  PROVE  QrOK'
  BY QrMoves DEF Q!End, Q!Stages

LEMMA QrStep == QrOK /\ [Q!Next]_qVars => QrOK'
<1> SUFFICES ASSUME QrOK, [Q!Next]_qVars
             PROVE  QrOK'
  OBVIOUS
<1>1. ASSUME NEW p \in Q!Process, Q!Gathered(p)
      PROVE  QrOK'
  <2>1. CASE Q!GoTo(p, IF p \in Server THEN "prompt" ELSE "waiting") /\ shown' = shown \cup {p}
    <3> DEFINE s == IF p \in Server THEN "prompt" ELSE "waiting"
    <3>1. /\ qrStage[p] = "gathering" /\ UNCHANGED <<pasted, opening, greeting, greeted>>
          /\ qrStage' = [qrStage EXCEPT ![p] = s] /\ links' = links
      BY <1>1, <2>1 DEF Q!Gathered, Q!GoTo
    <3>2. Q!TypeOK'
      BY <2>1, <3>1 DEF QrOK, Q!TypeOK, Q!Stages
    <3>3. ASSUME NEW q \in Q!Process, Unasked(q)'
          PROVE  pasted'[q] = Nobody
      BY <3>1, <3>3 DEF QrOK, Unasked, Q!TypeOK
    <3>4. ASSUME NEW q \in greeting' \cup greeted'
          PROVE  Mutual(q)' /\ (q \in Client => qrStage'[pasted'[q]] \in {"serving", "ended"})
      BY <3>1 DEF QrOK, Mutual, Q!TypeOK
    <3>5. ASSUME NEW c \in Client, qrStage'[c] = "serving"
          PROVE  c \in greeted'
      BY <3>1, <3>5 DEF QrOK, Q!TypeOK, Q!Process
    <3> QED
      BY <3>1, <3>2, <3>3, <3>4, <3>5 DEF QrOK
  <2>2. CASE Q!End(p) /\ UNCHANGED shown
    BY <1>1, <2>2, QrEnds DEF Q!Gathered
  <2> QED
    BY <1>1, <2>1, <2>2 DEF Q!Gathered
<1>2. ASSUME NEW p \in Q!Process, Q!Paste(p)
      PROVE  QrOK'
  <2>1. ASSUME NEW q \in shown \cap (IF p \in Server THEN Client ELSE Server),
               pasted' = [pasted EXCEPT ![p] = q],
               Q!GoTo(p, IF p \in Server THEN "waiting" ELSE "gathering")
        PROVE  QrOK'
    <3> DEFINE s == IF p \in Server THEN "waiting" ELSE "gathering"
    <3>1. /\ qrStage[p] = "prompt" /\ UNCHANGED <<shown, opening, greeting, greeted>>
          /\ qrStage' = [qrStage EXCEPT ![p] = s] /\ links' = links
      BY <1>2, <2>1 DEF Q!Paste, Q!GoTo
    <3>2. pasted[p] = Nobody /\ q \in Q!Process
      BY <3>1 DEF QrOK, Unasked, Q!Process
    <3>3. Q!TypeOK'
      BY <2>1, <3>1, <3>2 DEF QrOK, Q!TypeOK, Q!Stages
    <3>4. ASSUME NEW x \in Q!Process, Unasked(x)'
          PROVE  pasted'[x] = Nobody
      BY <2>1, <3>1, <3>4 DEF QrOK, Unasked, Q!TypeOK
    <3>5. \A x \in Q!Process : x # p => pasted'[x] = pasted[x]
      BY <2>1 DEF QrOK, Q!TypeOK
    <3>6. Nobody \notin Q!Process
      BY ProcessAssumption DEF Q!Process
    <3>7. ASSUME NEW l \in links'
          PROVE  pasted'[l[1]] = l[2] /\ pasted'[l[2]] = l[1]
      <4>1. l[1] \in Q!Process /\ l[2] \in Q!Process /\ l \in links
        BY <3>1 DEF QrOK, Q!TypeOK, Q!Process
      <4>2. l[1] # p /\ l[2] # p
        BY <3>2, <3>6, <4>1 DEF QrOK
      <4> QED
        BY <3>5, <4>1, <4>2 DEF QrOK
    <3>8. ASSUME NEW x \in greeting' \cup greeted'
          PROVE  Mutual(x)' /\ (x \in Client => qrStage'[pasted'[x]] \in {"serving", "ended"})
      <4>1. x \in greeting \cup greeted /\ x \in Q!Process /\ Mutual(x)
        BY <3>1 DEF QrOK, Q!TypeOK
      <4>2. x # p /\ pasted[x] # p
        BY <3>2, <3>6, <4>1 DEF Mutual
      <4>3. pasted'[x] = pasted[x] /\ pasted'[pasted[x]] = x
        BY <3>5, <4>1, <4>2 DEF Mutual
      <4>4. qrStage'[pasted[x]] = qrStage[pasted[x]]
        BY <3>1, <4>1, <4>2 DEF Mutual, QrOK, Q!TypeOK
      <4> QED
        BY <4>1, <4>3, <4>4 DEF Mutual, QrOK
    <3>9. ASSUME NEW c \in Client, qrStage'[c] = "serving"
          PROVE  c \in greeted'
      BY <3>1, <3>9 DEF QrOK, Q!TypeOK, Q!Process
    <3> QED
      BY <3>3, <3>4, <3>7, <3>8, <3>9 DEF QrOK
  <2>2. CASE Q!End(p) /\ UNCHANGED pasted
    BY <1>2, <2>2, QrEnds DEF Q!Paste
  <2> QED
    BY <1>2, <2>1, <2>2 DEF Q!Paste
<1>3. ASSUME NEW s \in Server, NEW c \in Client, Q!Connect(s, c)
      PROVE  QrOK'
  <2>1. /\ UNCHANGED <<qrStage, shown, pasted, greeting, greeted>>
        /\ pasted[s] = c /\ pasted[c] = s /\ links' = links \cup {<<s, c>>}
    BY <1>3 DEF Q!Connect
  <2>2. Q!TypeOK'
    BY <1>3, <2>1 DEF Q!Connect, QrOK, Q!TypeOK, Q!Process
  <2> QED
    BY <2>1, <2>2 DEF QrOK, Unasked, Mutual
<1>4. ASSUME NEW l \in links, Q!LoseLink(l)
      PROVE  QrOK'
  BY <1>4 DEF Q!LoseLink, QrOK, Q!TypeOK, Unasked, Mutual
<1>5. ASSUME NEW c \in Q!Process, Q!ReceiveChannel(c)
      PROVE  QrOK'
  BY <1>5, QrMoves DEF Q!ReceiveChannel, Q!GoTo, Q!Stages
<1>6. ASSUME NEW p \in Q!Process, Q!Open(p)
      PROVE  QrOK'
  <2>1. p \in opening /\ qrStage[p] = (IF p \in Server THEN "waiting" ELSE "opening")
        /\ opening' = opening \ {p} /\ UNCHANGED <<shown, pasted, greeted>>
    BY <1>6 DEF Q!Open
  <2>2. CASE Q!Up(p)
    <3> DEFINE s == IF p \in Server THEN "serving" ELSE "handshake"
               q == pasted[p]
    <3>1. /\ qrStage' = [qrStage EXCEPT ![p] = s] /\ links' = links
          /\ greeting' = greeting \cup {q}
      BY <1>6, <2>2 DEF Q!Open, Q!GoTo
    <3>2. PICK l \in links : p \in {l[1], l[2]}
      BY <2>2 DEF Q!Up, Q!LinksOf
    <3>3. q \in Q!Process /\ pasted[q] = p /\ (q \in Client <=> p \in Server)
      BY <3>2, ProcessAssumption DEF QrOK, Q!TypeOK, Q!Process
    <3>4. Q!TypeOK'
      BY <2>1, <3>1, <3>3 DEF QrOK, Q!TypeOK, Q!Stages
    <3>5. ASSUME NEW x \in Q!Process, Unasked(x)'
          PROVE  pasted'[x] = Nobody
      BY <2>1, <3>1, <3>5 DEF QrOK, Unasked, Q!TypeOK
    <3>6. ASSUME NEW x \in greeting' \cup greeted'
          PROVE  Mutual(x)' /\ (x \in Client => qrStage'[pasted'[x]] \in {"serving", "ended"})
      <4>1. CASE x = q
        BY <2>1, <3>1, <3>3, <4>1 DEF Mutual, QrOK, Q!TypeOK
      <4>2. CASE x # q
        BY <2>1, <3>1, <4>2 DEF Mutual, QrOK, Q!TypeOK
      <4> QED
        BY <4>1, <4>2
    <3>7. ASSUME NEW c \in Client, qrStage'[c] = "serving"
          PROVE  c \in greeted'
      BY <2>1, <3>1, <3>7, ProcessAssumption DEF QrOK, Q!TypeOK, Q!Process
    <3> QED
      BY <2>1, <3>1, <3>4, <3>5, <3>6, <3>7 DEF QrOK
  <2>3. CASE ~Q!Up(p)
    <3>1. Q!End(p) /\ UNCHANGED greeting
      BY <1>6, <2>3 DEF Q!Open
    <3>2. qrStage' = [qrStage EXCEPT ![p] = "ended"] /\ links' \subseteq links
      BY <3>1 DEF Q!End
    <3>3. Q!TypeOK'
      BY <2>1, <3>1, <3>2 DEF QrOK, Q!TypeOK, Q!Stages
    <3> QED
      BY <2>1, <3>1, <3>2, <3>3 DEF QrOK, Q!TypeOK, Unasked, Mutual, Q!Process
  <2> QED
    BY <2>2, <2>3
<1>7. ASSUME NEW p \in Q!Process, Q!Greet(p)
      PROVE  QrOK'
  BY <1>7 DEF Q!Greet, QrOK, Q!TypeOK, Unasked, Mutual
<1>8. ASSUME NEW p \in greeting, Q!LoseGreeting(p)
      PROVE  QrOK'
  BY <1>8 DEF Q!LoseGreeting, QrOK, Q!TypeOK, Unasked, Mutual
<1>9. ASSUME NEW c \in Q!Process, Q!Listen(c)
      PROVE  QrOK'
  <2>1. CASE Q!GoTo(c, "serving")
    BY <1>9, <2>1, QrMoves DEF Q!Listen, Q!GoTo, Q!Stages
  <2>2. CASE Q!End(c)
    BY <1>9, <2>2, QrEnds DEF Q!Listen
  <2> QED
    BY <1>9, <2>1, <2>2 DEF Q!Listen
<1>10. ASSUME NEW p \in Q!Process, Q!HandshakeTimeout(p) \/ Q!OpenTimeout(p) \/ Q!Kill(p)
       PROVE  QrOK'
  BY <1>10, QrEnds DEF Q!HandshakeTimeout, Q!OpenTimeout, Q!Kill
<1>11. CASE UNCHANGED qVars
  BY <1>11 DEF qVars, QrOK, Q!TypeOK, Unasked, Mutual
<1> QED
  BY <1>1, <1>2, <1>3, <1>4, <1>5, <1>6, <1>7, <1>8, <1>9, <1>10, <1>11
  DEF Q!Next, Q!Step

-----------------------------------------------------------------------------
(* The retrieval client *)

\* What stands under CID c of the Map is an error or has come for a place of c.
EntryOK(c) ==
  \E p \in V!Place : /\ call.cids[p] = c
                     /\ entries[c] = Failed \/ (entries[c] = blob[p] /\ blob[p] \in Cid)

\* The groups before the one in hand have settled and those after it have not
\* started; a fetch that is under way has brought nothing so far; a task that has
\* settled has its entry.
RetrievalOK ==
  /\ V!TypeOK
  /\ entries = [c \in DOMAIN entries |-> entries[c]]
  /\ \A p \in V!Place :
        /\ p < first => task[p] = "ended"
        /\ p >= first + 3 => task[p] = "queued"
        /\ task[p] \in {"queued", "root", "plain", "sealed"} => blob[p] = NotYet
        /\ task[p] = "ended" => call.cids[p] \in DOMAIN entries
  /\ \A c \in DOMAIN entries : EntryOK(c)

LEMMA PlaceMeaning ==
  ASSUME call \in Calls
  PROVE  /\ Len(call.cids) \in Nat \ {0} /\ V!Place = 1 .. Len(call.cids)
         /\ \A p \in V!Place : p \in Nat /\ call.cids[p] \in Cid
  BY CallsOK DEF V!Place

LEMMA RetrievalInit == V!Init => RetrievalOK
<1> SUFFICES ASSUME V!Init PROVE RetrievalOK
  OBVIOUS
<1>1. call \in Calls /\ first = 1 /\ entries = [c \in {} |-> Failed]
  BY DEF V!Init
<1>2. Len(call.cids) \in Nat \ {0} /\ V!Place = 1 .. Len(call.cids)
  BY <1>1, PlaceMeaning
<1>3. V!TypeOK
  BY <1>1, <1>2, LimitAssumption DEF V!Init, V!TypeOK, V!Concurrency
<1>4. DOMAIN entries = {} /\ entries = [c \in DOMAIN entries |-> entries[c]]
  BY <1>1
<1>5. \A p \in V!Place : /\ ~(p < first) /\ task[p] # "ended" /\ blob[p] = NotYet
                         /\ p >= first + 3 => task[p] = "queued"
  BY <1>1, <1>2 DEF V!Init, V!Concurrency
<1> QED
  BY <1>3, <1>4, <1>5 DEF RetrievalOK

\* Something may come for place p, if nothing has.
Gets(p) ==
  \/ blob' = blob
  \/ /\ blob[p] = NotYet
     /\ \E x \in Cid \cup {Noise} : blob' = [blob EXCEPT ![p] = x]

LEMMA GetsKeeps ==
  ASSUME RetrievalOK, NEW p \in V!Place, Gets(p), UNCHANGED call
  PROVE  /\ V!Place' = V!Place
         /\ blob' \in [V!Place -> Cid \cup {NotYet, Noise}]
         /\ \A q \in V!Place : q # p => blob'[q] = blob[q]
         /\ \A q \in V!Place : blob[q] # NotYet => blob'[q] = blob[q]
<1>1. blob \in [V!Place -> Cid \cup {NotYet, Noise}] /\ V!Place' = V!Place
  BY DEF RetrievalOK, V!TypeOK, V!Place
<1> QED
  BY <1>1 DEF Gets

\* results.set() of a task: everything else stays.
LEMMA SetKeeps ==
  ASSUME RetrievalOK, NEW p \in V!Place, task[p] \notin {"queued", "ended"}, Gets(p),
         NEW outcome, outcome = Failed \/ (outcome = blob'[p] /\ outcome \in Cid),
         V!Set(p, outcome), UNCHANGED <<call, first>>
  PROVE  RetrievalOK'
<1>0. /\ call.cids[p] \in Cid /\ call \in Calls /\ V!Place' = V!Place
      /\ blob' \in [V!Place -> Cid \cup {NotYet, Noise}]
      /\ \A q \in V!Place : q # p => blob'[q] = blob[q]
      /\ \A q \in V!Place : blob[q] # NotYet => blob'[q] = blob[q]
  BY PlaceMeaning, GetsKeeps DEF RetrievalOK, V!TypeOK
<1>1. /\ task' = [task EXCEPT ![p] = "ended"] /\ UNCHANGED gateway
      /\ entries' = [c \in DOMAIN entries \cup {call.cids[p]} |->
                       IF c = call.cids[p] THEN outcome ELSE entries[c]]
  BY DEF V!Set
<1>2. DOMAIN entries' = DOMAIN entries \cup {call.cids[p]}
  BY <1>1
<1>3. V!TypeOK'
  BY <1>0, <1>1, <1>2 DEF RetrievalOK, V!TypeOK
<1>4. entries' = [c \in DOMAIN entries' |-> entries'[c]]
  BY <1>1
<1>5. \A q \in V!Place : task'[q] = IF q = p THEN "ended" ELSE task[q]
  BY <1>1 DEF RetrievalOK, V!TypeOK
<1>6. ASSUME NEW q \in V!Place
      PROVE  /\ q < first => task'[q] = "ended"
             /\ q >= first + 3 => task'[q] = "queued"
             /\ task'[q] \in {"queued", "root", "plain", "sealed"} => blob'[q] = NotYet
             /\ task'[q] = "ended" => call.cids[q] \in DOMAIN entries'
  <2>1. CASE q = p
    BY <1>2, <1>5, <2>1 DEF RetrievalOK
  <2>2. CASE q # p
    BY <1>0, <1>2, <1>5, <2>2 DEF RetrievalOK
  <2> QED
    BY <2>1, <2>2
<1>7. ASSUME NEW c \in DOMAIN entries'
      PROVE  EntryOK(c)'
  <2>1. CASE c = call.cids[p]
    <3>1. entries'[c] = outcome
      BY <1>1, <2>1
    <3> QED
      BY <1>0, <2>1, <3>1 DEF EntryOK
  <2>2. CASE c # call.cids[p]
    <3>1. c \in DOMAIN entries /\ entries'[c] = entries[c]
      BY <1>1, <1>2, <2>2
    <3>2. PICK q \in V!Place :
             /\ call.cids[q] = c
             /\ entries[c] = Failed \/ (entries[c] = blob[q] /\ blob[q] \in Cid)
      BY <3>1 DEF RetrievalOK, EntryOK
    <3>3. q # p /\ blob'[q] = blob[q]
      BY <1>0, <2>2, <3>2
    <3> QED
      BY <1>0, <3>1, <3>2, <3>3 DEF EntryOK
  <2> QED
    BY <2>1, <2>2
<1> QED
  BY <1>0, <1>3, <1>4, <1>6, <1>7 DEF RetrievalOK

LEMMA FetchKeeps ==
  ASSUME RetrievalOK, NEW p \in V!Place, task[p] \notin {"queued", "ended"}, Gets(p),
         NEW what \in {"plain", "sealed", "key"}, V!Fetch(p, what),
         what = "key" \/ (blob' = blob /\ blob[p] = NotYet),
         UNCHANGED <<call, first>>
  PROVE  RetrievalOK'
<1>0. /\ V!Place' = V!Place
      /\ blob' \in [V!Place -> Cid \cup {NotYet, Noise}]
      /\ \A q \in V!Place : q # p => blob'[q] = blob[q]
      /\ \A q \in V!Place : blob[q] # NotYet => blob'[q] = blob[q]
  BY GetsKeeps
<1>1. /\ task' = [task EXCEPT ![p] = what] /\ gateway' = [gateway EXCEPT ![p] = 1]
      /\ UNCHANGED entries
  BY DEF V!Fetch
<1>2. V!TypeOK'
  BY <1>0, <1>1, LimitAssumption DEF RetrievalOK, V!TypeOK
<1>3. \A q \in V!Place : task'[q] = IF q = p THEN what ELSE task[q]
  BY <1>1 DEF RetrievalOK, V!TypeOK
<1>4. ASSUME NEW q \in V!Place
      PROVE  /\ q < first => task'[q] = "ended"
             /\ q >= first + 3 => task'[q] = "queued"
             /\ task'[q] \in {"queued", "root", "plain", "sealed"} => blob'[q] = NotYet
             /\ task'[q] = "ended" => call.cids[q] \in DOMAIN entries
  <2>1. CASE q = p
    BY <1>3, <2>1 DEF RetrievalOK
  <2>2. CASE q # p
    BY <1>0, <1>3, <2>2 DEF RetrievalOK
  <2> QED
    BY <2>1, <2>2
<1>5. ASSUME NEW c \in DOMAIN entries
      PROVE  EntryOK(c)'
  <2>1. PICK q \in V!Place :
           /\ call.cids[q] = c
           /\ entries[c] = Failed \/ (entries[c] = blob[q] /\ blob[q] \in Cid)
    BY DEF RetrievalOK, EntryOK
  <2>2. blob[q] \in Cid => blob'[q] = blob[q]
    BY <1>0, ComesAssumption
  <2> QED
    BY <1>0, <1>1, <2>1, <2>2 DEF EntryOK
<1> QED
  BY <1>0, <1>1, <1>2, <1>4, <1>5 DEF RetrievalOK

LEMMA OpenKeeps ==
  ASSUME RetrievalOK, NEW p \in V!Place, task[p] \in {"root", "plain", "sealed"},
         NEW sealed \in BOOLEAN, NEW thing \in Cid \cup {Noise},
         V!Get(p, thing), V!Open(p, sealed, thing), UNCHANGED <<call, first>>
  PROVE  RetrievalOK'
<1>1. Gets(p) /\ blob'[p] = thing
  BY DEF RetrievalOK, V!TypeOK, V!Get, Gets
<1>2. CASE ~sealed
  <2>1. V!Set(p, V!Parsed(thing)) /\ V!Parsed(thing) \in {Failed} \cup (Cid \cap {thing})
    BY <1>2 DEF V!Open, V!Parsed
  <2> QED
    BY <1>1, <2>1, SetKeeps
<1>3. CASE sealed /\ call.key = "none"
  <2>1. V!Set(p, Failed)
    BY <1>3 DEF V!Open
  <2> QED
    BY <1>1, <2>1, SetKeeps
<1>4. CASE sealed /\ call.key # "none"
  <2>1. V!Fetch(p, "key")
    BY <1>4 DEF V!Open
  <2> QED
    BY <1>1, <2>1, FetchKeeps
<1> QED
  BY <1>2, <1>3, <1>4

LEMMA RetrievalStep == RetrievalOK /\ [V!Next]_vVars => RetrievalOK'
<1> SUFFICES ASSUME RetrievalOK, [V!Next]_vVars
             PROVE  RetrievalOK'
  OBVIOUS
<1>1. CASE V!GroupEnds
  <2>1. /\ first <= Len(call.cids) /\ \A p \in V!Group : task[p] = "ended"
        /\ first' = first + 3 /\ UNCHANGED <<call, gateway, blob, entries>>
        /\ task' = [p \in V!Place |-> IF p \in first' .. first' + 3 - 1
                                      THEN "root" ELSE task[p]]
    BY <1>1, PlaceMeaning DEF V!GroupEnds, V!Returned, V!Concurrency, RetrievalOK, V!TypeOK
  <2>2. /\ Len(call.cids) \in Nat \ {0} /\ V!Place = 1 .. Len(call.cids)
        /\ V!Place' = V!Place /\ first \in Nat
    BY <2>1, PlaceMeaning DEF RetrievalOK, V!TypeOK, V!Place, V!Concurrency
  <2>3. V!TypeOK'
    BY <2>1, <2>2 DEF RetrievalOK, V!TypeOK, V!Concurrency
  <2>4. ASSUME NEW p \in V!Place
        PROVE  /\ p < first' => task'[p] = "ended"
               /\ p >= first' + 3 => task'[p] = "queued"
               /\ task'[p] \in {"queued", "root", "plain", "sealed"} => blob[p] = NotYet
               /\ task'[p] = "ended" => call.cids[p] \in DOMAIN entries
    <3>1. CASE p < first'
      <4>1. task[p] = "ended"
        BY <2>1, <2>2, <3>1 DEF RetrievalOK, V!Group, V!Concurrency
      <4> QED
        BY <2>1, <2>2, <3>1, <4>1 DEF RetrievalOK
    <3>2. CASE p >= first'
      <4>1. task[p] = "queued" /\ blob[p] = NotYet
        BY <2>1, <2>2, <3>2 DEF RetrievalOK
      <4> QED
        BY <2>1, <2>2, <3>2, <4>1
    <3> QED
      BY <2>1, <2>2, <3>1, <3>2
  <2>5. /\ entries' = [c \in DOMAIN entries' |-> entries'[c]]
        /\ \A c \in DOMAIN entries' : EntryOK(c)'
    BY <2>1, <2>2 DEF RetrievalOK, EntryOK
  <2> QED
    BY <2>1, <2>2, <2>3, <2>4, <2>5 DEF RetrievalOK
<1>2. ASSUME NEW p \in V!Place, V!RootArrives(p)
      PROVE  RetrievalOK'
  <2>1. task[p] = "root" /\ UNCHANGED <<call, first>>
    BY <1>2 DEF V!RootArrives
  <2>2. blob[p] = NotYet /\ (blob' = blob => Gets(p))
    BY <2>1 DEF RetrievalOK, Gets
  <2>3. CASE V!Set(p, Failed) /\ UNCHANGED blob
    BY <2>1, <2>2, <2>3, SetKeeps
  <2>4. ASSUME NEW root \in Cid, V!Get(p, root), V!Set(p, root)
        PROVE  RetrievalOK'
    <3>1. Gets(p) /\ blob'[p] = root
      BY <2>2, <2>4 DEF RetrievalOK, V!TypeOK, V!Get, Gets
    <3> QED
      BY <2>1, <2>4, <3>1, SetKeeps
  <2>5. ASSUME NEW root \in Cid, V!Get(p, root), V!Open(p, root \in Encrypted, root)
        PROVE  RetrievalOK'
    <3> DEFINE sealed == root \in Encrypted
    <3>1. sealed \in BOOLEAN /\ V!Open(p, sealed, root)
      BY <2>5
    <3> HIDE DEF sealed
    <3> QED
      BY <2>1, <2>5, <3>1, OpenKeeps
  <2>6. ASSUME NEW root \in Cid, UNCHANGED blob,
               V!Fetch(p, IF root \in Encrypted THEN "sealed" ELSE "plain")
        PROVE  RetrievalOK'
    <3>1. V!Fetch(p, "sealed") \/ V!Fetch(p, "plain")
      BY <2>6
    <3> QED
      BY <2>1, <2>2, <2>6, <3>1, FetchKeeps
  <2> QED
    BY <1>2, <2>3, <2>4, <2>5, <2>6 DEF V!RootArrives
<1>3. ASSUME NEW p \in V!Place, V!BlobArrives(p)
      PROVE  RetrievalOK'
  <2>1. task[p] \in {"plain", "sealed"} /\ UNCHANGED <<call, first>>
    BY <1>3 DEF V!BlobArrives
  <2> DEFINE sealed == task[p] = "sealed"
  <2>2. /\ sealed \in BOOLEAN
        /\ \E thing \in Cid \cup {Noise} : V!Get(p, thing) /\ V!Open(p, sealed, thing)
    BY <1>3 DEF V!BlobArrives
  <2> HIDE DEF sealed
  <2> QED
    BY <2>1, <2>2, OpenKeeps
<1>4. ASSUME NEW p \in V!Place, V!FetchFails(p)
      PROVE  RetrievalOK'
  <2>1. task[p] \in {"root", "plain", "sealed"} /\ UNCHANGED <<call, first, blob>> /\ Gets(p)
    BY <1>4 DEF V!FetchFails, Gets
  <2>2. CASE V!Set(p, Failed)
    BY <2>1, <2>2, SetKeeps
  <2>3. CASE /\ gateway[p] < Gateways /\ gateway' = [gateway EXCEPT ![p] = @ + 1]
             /\ UNCHANGED <<task, entries>>
    <3>1. V!TypeOK'
      BY <2>1, <2>3, LimitAssumption DEF RetrievalOK, V!TypeOK, V!Place
    <3> QED
      BY <2>1, <2>3, <3>1 DEF RetrievalOK, EntryOK, V!Place
  <2> QED
    BY <1>4, <2>2, <2>3 DEF V!FetchFails
<1>5. ASSUME NEW p \in V!Place, V!KeyArrives(p)
      PROVE  RetrievalOK'
  <2>1. task[p] = "key" /\ UNCHANGED <<call, first, blob>> /\ Gets(p)
    BY <1>5 DEF V!KeyArrives, Gets
  <2>2. V!Set(p, Failed) \/ (V!Set(p, blob[p]) /\ blob[p] \in Encrypted)
    BY <1>5 DEF V!KeyArrives, V!TagMatches
  <2>3. Encrypted \subseteq Cid
    BY DEF Encrypted, Cid
  <2> QED
    BY <2>1, <2>2, <2>3, SetKeeps
<1>6. CASE UNCHANGED vVars
  BY <1>6 DEF vVars, RetrievalOK, EntryOK, V!TypeOK, V!Place
<1> QED
  BY <1>1, <1>2, <1>3, <1>4, <1>5, <1>6 DEF V!Next, V!TaskStep

-----------------------------------------------------------------------------
(* The retrieval client implements Downloads *)

LEMMA EntriesAnswer ==
  RetrievalOK /\ V!Returned => V!Answer = entries /\ V!Promise!IsAnswer(entries)
<1> SUFFICES ASSUME RetrievalOK, V!Returned
             PROVE  V!Answer = entries /\ V!Promise!IsAnswer(entries)
  OBVIOUS
<1>1. /\ call \in Calls /\ first \in Nat /\ first > Len(call.cids)
      /\ Len(call.cids) \in Nat /\ V!Place = 1 .. Len(call.cids)
  BY PlaceMeaning DEF RetrievalOK, V!TypeOK, V!Returned, V!Concurrency
<1>2. \A p \in V!Place : call.cids[p] \in DOMAIN entries
  BY <1>1 DEF RetrievalOK
<1>3. DOMAIN entries = DOMAIN V!Came
  BY <1>2 DEF RetrievalOK, EntryOK, V!Came
<1>4. ASSUME NEW c \in DOMAIN V!Came
      PROVE  V!Promise!IsOutcome(entries[c], c)
  <2>1. PICK p \in V!Place :
           /\ call.cids[p] = c
           /\ entries[c] = Failed \/ (entries[c] = blob[p] /\ blob[p] \in Cid)
    BY <1>3 DEF RetrievalOK, EntryOK
  <2>2. V!Came[c] = {blob[q] : q \in {q \in V!Place : call.cids[q] = c}} \ {NotYet, Noise}
    BY <2>1 DEF V!Came
  <2>3. blob[p] \in Cid => blob[p] \in V!Came[c]
    BY <2>1, <2>2, ComesAssumption
  <2> QED
    BY <2>1, <2>3 DEF V!Promise!IsOutcome
<1>5. entries \notin {NotYet, GivenUp}
  <2> DEFINE D == DOMAIN entries
  <2>1. D \in SUBSET Cid
    BY DEF RetrievalOK, V!TypeOK
  <2>2. entries \in [D -> {Failed} \cup Cid]
    BY DEF RetrievalOK, EntryOK
  <2> QED
    BY <2>1, <2>2, AnswerAssumption
<1> QED
  BY <1>3, <1>4, <1>5 DEF V!Answer, V!Promise!IsAnswer

\* The call stays, what has come for a place stays, and a returned call is over.
LEMMA ReadsGoOn ==
  ASSUME RetrievalOK, [V!Next]_vVars
  PROVE  /\ UNCHANGED call
         /\ \A p \in V!Place : blob[p] = NotYet \/ blob'[p] = blob[p]
         /\ V!Returned => UNCHANGED vVars
         /\ blob' # blob => first' = first
<1>1. CASE V!GroupEnds
  BY <1>1 DEF V!GroupEnds
<1>2. ASSUME NEW p \in V!Place, V!TaskStep(p)
      PROVE  /\ UNCHANGED <<call, first>> /\ ~V!Returned
             /\ \A q \in V!Place : blob[q] = NotYet \/ blob'[q] = blob[q]
  <2>1. UNCHANGED <<call, first>> /\ task[p] \in {"root", "plain", "sealed", "key"}
    BY <1>2 DEF V!TaskStep, V!RootArrives, V!BlobArrives, V!FetchFails, V!KeyArrives
  <2>2. ~V!Returned
    BY <2>1, PlaceMeaning DEF RetrievalOK, V!TypeOK, V!Returned, V!Concurrency
  <2>3. \/ blob' = blob
        \/ /\ task[p] \in {"root", "plain", "sealed"}
           /\ \E x : blob' = [blob EXCEPT ![p] = x]
    BY <1>2 DEF V!TaskStep, V!RootArrives, V!BlobArrives, V!FetchFails, V!KeyArrives, V!Get
  <2>4. blob \in [V!Place -> Cid \cup {NotYet, Noise}]
    BY DEF RetrievalOK, V!TypeOK
  <2>5. task[p] \in {"root", "plain", "sealed"} => blob[p] = NotYet
    BY DEF RetrievalOK
  <2> QED
    BY <2>1, <2>2, <2>3, <2>4, <2>5
<1>3. V!Next \/ UNCHANGED vVars
  OBVIOUS
<1> QED
  BY <1>1, <1>2, <1>3 DEF V!Next, V!GroupEnds, vVars

LEMMA RetrievalImplements ==
  /\ V!Init => V!Promise!Init
  /\ RetrievalOK /\ RetrievalOK' /\ [V!Next]_vVars
       => [V!Promise!Next]_<<V!Came, V!Answer>>
<1>1. V!Init => V!Promise!Init
  <2> SUFFICES ASSUME V!Init PROVE ~V!Returned /\ \A c \in DOMAIN V!Came : V!Came[c] = {}
    BY DEF V!Promise!Init, V!Answer
  <2>1. \A p \in V!Place : blob[p] = NotYet
    BY DEF V!Init
  <2> QED
    BY <2>1, PlaceMeaning DEF V!Init, V!Returned, V!Came
<1>2. ASSUME RetrievalOK, RetrievalOK', [V!Next]_vVars
      PROVE  [V!Promise!Next]_<<V!Came, V!Answer>>
  <2>1. /\ UNCHANGED call
        /\ \A p \in V!Place : blob[p] = NotYet \/ blob'[p] = blob[p]
        /\ V!Returned => UNCHANGED vVars
        /\ blob' # blob => first' = first
    BY <1>2, ReadsGoOn
  <2>2. blob' = blob => UNCHANGED V!Came
    BY <2>1 DEF V!Came, V!Place
  <2>3. CASE V!Returned
    BY <2>1, <2>2, <2>3 DEF V!Answer, V!Returned, vVars
  <2>4. CASE ~V!Returned /\ ~V!Returned'
    <3>1. DOMAIN V!Came' = DOMAIN V!Came
      BY <2>1 DEF V!Came, V!Place
    <3>2. ASSUME NEW c \in DOMAIN V!Came
          PROVE  V!Came[c] \subseteq V!Came'[c]
      <4>1. /\ V!Came[c] = {blob[q] : q \in {q \in V!Place : call.cids[q] = c}} \ {NotYet, Noise}
            /\ V!Came'[c] = {blob'[q] : q \in {q \in V!Place : call.cids[q] = c}} \ {NotYet, Noise}
        BY <2>1, <3>1 DEF V!Came, V!Place
      <4> QED
        BY <2>1, <4>1
    <3>3. V!Answer = NotYet /\ V!Answer' = NotYet
      BY <2>4 DEF V!Answer
    <3> QED
      BY <3>1, <3>2, <3>3 DEF V!Promise!Next, V!Promise!Arrive
  <2>5. CASE ~V!Returned /\ V!Returned'
    <3>0. (RetrievalOK /\ V!Returned
             => V!Answer = entries /\ V!Promise!IsAnswer(entries))'
      BY EntriesAnswer, PTL
    <3>1. V!Answer' = entries' /\ V!Promise!IsAnswer(entries)'
      BY <1>2, <2>5, <3>0
    <3>2. blob' = blob
      BY <2>1, <2>5 DEF V!Returned
    <3> QED
      BY <2>2, <2>5, <3>1, <3>2 DEF V!Answer, V!Promise!Next, V!Promise!Deliver,
                                    V!Promise!IsAnswer, V!Promise!IsOutcome
  <2> QED
    BY <2>3, <2>4, <2>5
<1> QED
  BY <1>1, <1>2

-----------------------------------------------------------------------------
(* The recovery tool *)

Active == R!Working \ {"list"}
Early == {"list", "request", "body", "backoff", "local"}
Done == Len(results)

\* Nothing has come for an input before it is its turn and its bytes are here;
\* what is written is an archive, and the conversations' files come after the
\* batch file.
InputOK ==
  /\ stage \in Active => Done < Len(command.list)
  /\ \A k \in DOMAIN command.list :
        (k > Done /\ stage \in Early) \/ k > Done + 1 => carBytes[k] = Garbage
  /\ stage \in {"write", "split"} => R!bytes \in Car
  /\ stage = "split" /\ R!SavesBatch => outFiles[R!OutName] = R!bytes

ResultsOK ==
  /\ results \in Seq(Car \cup {Failed}) /\ Done <= Len(command.list)
  /\ \A i \in DOMAIN results :
        results[i] = Failed \/ (results[i] = carBytes[i] /\ carBytes[i] \in Car)
  /\ stage = "list" => results = << >>
  /\ stage = "done" => Done = Len(command.list)

FilesOK ==
  /\ DOMAIN carFiles = Archive /\ DOMAIN outFiles = R!Name
  /\ DOMAIN splitFiles = R!Batch

RecoveryOK ==
  /\ R!TypeOK /\ FilesOK
  /\ stage = "backoff" => attempt < Retries - 1
  /\ ResultsOK /\ InputOK
  /\ R!RecoveredIsOnDisk

\* The i-th outcome, if it is no failure and not overtaken, is on the disk.
OnDisk(i) ==
  results[i] # Failed /\ ~R!Overtaken(i) =>
    /\ R!SavesBatch => outFiles[R!OutNameOf(i, results[i])] = results[i]
    /\ command.split =>
         R!Files(results[i].convs \cap splitFiles[results[i].batch]) = R!Files(results[i].convs)

LEMMA DiskNext ==
  ASSUME UNCHANGED command, NEW i
  PROVE  OnDisk(i)' <=>
           (results'[i] # Failed /\ ~R!Overtaken(i)' =>
              /\ R!SavesBatch => outFiles'[R!OutNameOf(i, results'[i])] = results'[i]
              /\ command.split =>
                   R!Files(results'[i].convs \cap splitFiles'[results'[i].batch])
                     = R!Files(results'[i].convs))
<1>1. R!SavesBatch' = R!SavesBatch
  BY DEF R!SavesBatch
<1>2. R!OutNameOf(i, results[i])' = R!OutNameOf(i, results'[i])
  BY DEF R!OutNameOf
<1> QED
  BY <1>1, <1>2 DEF OnDisk

LEMMA Elements ==
  ASSUME NEW Elem, NEW list \in Seq(Elem), NEW i \in 1 .. Len(list)
  PROVE  list[i] \in Elem
  OBVIOUS

LEMMA RecoveryInit == R!Init => RecoveryOK
<1> SUFFICES ASSUME R!Init PROVE RecoveryOK
  OBVIOUS
<1>1. /\ command \in Commands /\ carBytes = [i \in DOMAIN command.list |-> Garbage]
      /\ command.list \in Seq([form : {"cid", "malformed", "local"}, archive : Archive])
  BY CommandsOK DEF R!Init
<1>2. results = << >> /\ Len(results) = 0 /\ DOMAIN results = {} /\ stage = "list"
  BY DEF R!Init
<1>3. R!TypeOK /\ FilesOK
  BY <1>1, <1>2, LimitAssumption DEF R!Init, R!TypeOK, FilesOK, R!Working
<1>4. Len(command.list) \in Nat
  BY <1>1
<1>5. ResultsOK
  BY <1>2, <1>4 DEF ResultsOK, Done
<1>6. InputOK
  BY <1>1, <1>2 DEF InputOK, Active
<1>7. R!RecoveredIsOnDisk
  BY <1>2 DEF R!RecoveredIsOnDisk
<1> QED
  BY <1>2, <1>3, <1>5, <1>6, <1>7 DEF RecoveryOK

\* The input in hand has a place in the list; extract has but one.
LEMMA InputMeaning ==
  ASSUME RecoveryOK, stage \in Active
  PROVE  /\ Done \in Nat /\ Done + 1 \in 1 .. Len(command.list) /\ Len(command.list) \in Nat
         /\ DOMAIN results = 1 .. Done /\ DOMAIN command.list = 1 .. Len(command.list)
         /\ R!Input = command.list[Done + 1] /\ R!bytes = carBytes[Done + 1]
         /\ R!Input.archive \in Archive
         /\ command.name = "extract" => Done = 0
         /\ R!bytes \in Car => R!OutName \in R!Name /\ R!bytes.batch \in R!Batch
<1>1. /\ command.list \in Seq([form : {"cid", "malformed", "local"}, archive : Archive])
      /\ command.name = "extract" => Len(command.list) = 1
  BY CommandsOK DEF RecoveryOK, R!TypeOK
<1>2. Done \in Nat /\ Done < Len(command.list) /\ DOMAIN results = 1 .. Done
  BY DEF RecoveryOK, ResultsOK, InputOK, Done
<1>3. /\ Len(command.list) \in Nat /\ Done + 1 \in 1 .. Len(command.list)
      /\ DOMAIN command.list = 1 .. Len(command.list)
  BY <1>1, <1>2
<1>4. command.list[Done + 1] \in [form : {"cid", "malformed", "local"}, archive : Archive]
  BY <1>1, <1>3, Elements
<1>5. /\ R!Input = command.list[Done + 1] /\ R!bytes = carBytes[Done + 1]
      /\ R!Input.archive \in Archive
  BY <1>4 DEF R!Input, R!bytes, Done
<1>6. R!bytes \in Car => R!OutName \in R!Name /\ R!bytes.batch \in R!Batch
  BY <1>4 DEF R!OutName, R!OutNameOf, R!Name, R!Batch, Done
<1> QED
  BY <1>1, <1>2, <1>3, <1>5, <1>6

\* What has come stays, and no files but those of the archive in hand change.
Careful ==
  /\ \A k \in DOMAIN command.list : carBytes[k] = Garbage \/ carBytes'[k] = carBytes[k]
  /\ \A n \in R!Name : outFiles'[n] = outFiles[n] \/ (R!bytes \in Car /\ n = R!OutName)
  /\ \A b \in R!Batch : splitFiles'[b] = splitFiles[b] \/ (R!bytes \in Car /\ b = R!bytes.batch)

\* A careful step leaves what other batches have on the disk, and overtakes the
\* earlier outcomes of its own.
LEMMA OthersKept ==
  ASSUME RecoveryOK, stage \in Active, UNCHANGED command,
         results' = results \/ \E outcome : results' = Append(results, outcome),
         Careful, DOMAIN carBytes' = DOMAIN carBytes
  PROVE  \A i \in DOMAIN results : results'[i] = results[i] /\ OnDisk(i)'
<1> SUFFICES ASSUME NEW i \in DOMAIN results
             PROVE  results'[i] = results[i] /\ OnDisk(i)'
  OBVIOUS
<1>1. results'[i] = results[i] /\ i \in 1 .. Done /\ Done \in Nat
  BY InputMeaning DEF RecoveryOK, ResultsOK, Done
<1> SUFFICES ASSUME results[i] # Failed, ~R!Overtaken(i)'
             PROVE  /\ R!SavesBatch => outFiles'[R!OutNameOf(i, results[i])] = results[i]
                    /\ command.split =>
                         R!Files(results[i].convs \cap splitFiles'[results[i].batch])
                           = R!Files(results[i].convs)
  BY <1>1, DiskNext
<1>2. /\ DOMAIN carBytes = 1 .. Len(command.list) /\ DOMAIN carBytes' = 1 .. Len(command.list)
      /\ Done + 1 \in 1 .. Len(command.list) /\ i \in 1 .. Len(command.list)
      /\ DOMAIN command.list = 1 .. Len(command.list) /\ R!bytes = carBytes[Done + 1]
      /\ command.name # "extract"
  BY <1>1, InputMeaning DEF RecoveryOK, R!TypeOK
<1>3. results[i] = carBytes[i] /\ carBytes[i] \in Car /\ Garbage \notin Car
  BY ComesAssumption DEF RecoveryOK, ResultsOK
<1>4. carBytes'[i] = carBytes[i]
  BY <1>2, <1>3 DEF Careful
<1>5. R!bytes \in Car => R!bytes.batch # results[i].batch
  <2> SUFFICES ASSUME R!bytes \in Car, R!bytes.batch = results[i].batch
               PROVE  R!Overtaken(i)'
    OBVIOUS
  <2>1. carBytes'[Done + 1] = R!bytes /\ R!bytes # Garbage
    BY <1>2, <1>3 DEF Careful
  <2>2. Done + 1 > i
    BY <1>1
  <2> QED
    BY <1>2, <1>3, <1>4, <2>1, <2>2 DEF R!Overtaken
<1>6. ~R!Overtaken(i)
  <2>1. ASSUME NEW k \in DOMAIN carBytes, k > i, carBytes[k] # Garbage,
               carBytes[k].batch = carBytes[i].batch
        PROVE  FALSE
    <3>1. carBytes'[k] = carBytes[k]
      BY <1>2, <2>1 DEF Careful
    <3> QED
      BY <1>2, <1>4, <2>1, <3>1 DEF R!Overtaken
  <2> QED
    BY <2>1 DEF R!Overtaken
<1>7. /\ R!SavesBatch => outFiles[R!OutNameOf(i, results[i])] = results[i]
      /\ command.split =>
           R!Files(results[i].convs \cap splitFiles[results[i].batch]) = R!Files(results[i].convs)
  BY <1>6 DEF RecoveryOK, R!RecoveredIsOnDisk
<1>8. /\ R!OutNameOf(i, results[i]) = [kind |-> "batch", of |-> results[i].batch]
      /\ R!OutName = [kind |-> "batch", of |-> R!bytes.batch]
  BY <1>2 DEF R!OutName, R!OutNameOf
<1>9. results[i].batch \in R!Batch /\ R!OutNameOf(i, results[i]) \in R!Name
  BY <1>3, <1>8 DEF R!Batch, R!Name
<1>10. outFiles'[R!OutNameOf(i, results[i])] = outFiles[R!OutNameOf(i, results[i])]
  BY <1>5, <1>8, <1>9 DEF Careful
<1>11. splitFiles'[results[i].batch] = splitFiles[results[i].batch]
  BY <1>5, <1>9 DEF Careful
<1> QED
  BY <1>7, <1>10, <1>11

-----------------------------------------------------------------------------
\* A step that works on the input in hand and does not settle it: the bytes of
\* the input come, or they are as they were.
LEMMA GoesOn ==
  ASSUME RecoveryOK, stage \in Active, UNCHANGED <<command, results, runs>>,
         stage' \in Active \cup {"refused", "killed"},
         attempt' \in 0 .. Retries - 1, faults' \in 0 .. MaxFaults,
         stage' = "backoff" => attempt' < Retries - 1,
         FilesOK', Careful,
         \/ /\ carBytes' = carBytes
            /\ stage' \in Early => stage \in Early
            /\ stage' \in {"write", "split"} => R!bytes \in Car
            /\ stage' = "split" /\ R!SavesBatch => outFiles'[R!OutName] = R!bytes
         \/ /\ \E data \in Car \cup {Garbage} : carBytes' = [carBytes EXCEPT ![Done + 1] = data]
            /\ stage' \in {"saveCar", "extract"}
  PROVE  RecoveryOK'
<1>0. /\ DOMAIN carBytes' = DOMAIN carBytes
      /\ carBytes' \in [DOMAIN command.list -> Car \cup {Garbage}]
      /\ \A k \in DOMAIN command.list : k # Done + 1 => carBytes'[k] = carBytes[k]
      /\ Garbage \notin Car
  BY InputMeaning, ComesAssumption DEF RecoveryOK, R!TypeOK
<1>1. R!TypeOK'
  BY <1>0 DEF RecoveryOK, R!TypeOK, Active, FilesOK
<1>2. ResultsOK'
  <2>1. \A i \in DOMAIN results : i \in DOMAIN command.list /\ i # Done + 1
    BY InputMeaning
  <2> QED
    BY <1>0, <2>1 DEF RecoveryOK, ResultsOK, Active, R!Working, Done
<1>3. InputOK'
  <2>1. /\ R!SavesBatch' = R!SavesBatch /\ Done' = Done
        /\ carBytes' = carBytes => R!OutName' = R!OutName /\ R!bytes' = R!bytes
    BY DEF R!SavesBatch, R!OutName, R!OutNameOf, R!bytes, Done
  <2>2. Done < Len(command.list) /\ Done \in Nat /\ DOMAIN command.list = 1 .. Len(command.list)
    BY InputMeaning DEF RecoveryOK, InputOK
  <2>3. ASSUME NEW k \in DOMAIN command.list, (k > Done /\ stage' \in Early) \/ k > Done + 1
        PROVE  carBytes'[k] = Garbage
    <3>1. CASE carBytes' = carBytes /\ (stage' \in Early => stage \in Early)
      BY <2>3, <3>1 DEF RecoveryOK, InputOK
    <3>2. CASE stage' \in {"saveCar", "extract"}
      BY <1>0, <2>2, <2>3, <3>2 DEF RecoveryOK, InputOK, Early
    <3> QED
      BY <3>1, <3>2
  <2>4. stage' \in {"saveCar", "extract"} => stage' \notin {"write", "split"}
    OBVIOUS
  <2> QED
    BY <2>1, <2>2, <2>3, <2>4 DEF InputOK
<1>4. \A i \in DOMAIN results : OnDisk(i)'
  BY <1>0, OthersKept
<1>5. R!RecoveredIsOnDisk'
  BY <1>4 DEF R!RecoveredIsOnDisk, OnDisk
<1> QED
  BY <1>1, <1>2, <1>3, <1>5 DEF RecoveryOK

\* recoverBatch() returns: its outcome is on the disk or is a failure.
LEMMA Settles ==
  ASSUME RecoveryOK, stage \in Active, UNCHANGED <<command, runs>>, NEW outcome,
         R!Settle(outcome), faults' \in 0 .. MaxFaults, FilesOK', Careful,
         \/ outcome = Failed
         \/ /\ outcome = R!bytes /\ R!bytes \in Car
            /\ R!SavesBatch => outFiles'[R!OutName] = R!bytes
            /\ command.split =>
                 R!Files(R!bytes.convs \cap splitFiles'[R!bytes.batch]) = R!Files(R!bytes.convs)
  PROVE  RecoveryOK'
<1> DEFINE k == Done + 1
<1>1. /\ results' = Append(results, outcome) /\ attempt' = 0 /\ carBytes' = carBytes
      /\ stage' = IF Len(results') = Len(command.list)
                  THEN "done" ELSE R!FirstStage(command.list[Len(results') + 1])
  BY DEF R!Settle
<1>2. /\ results' \in Seq(Car \cup {Failed}) /\ Len(results') = k /\ DOMAIN results' = 1 .. k
      /\ results'[k] = outcome /\ \A i \in 1 .. Done : results'[i] = results[i]
  BY <1>1, InputMeaning DEF RecoveryOK, ResultsOK, Done
<1>3. /\ Done \in Nat /\ k \in Nat /\ k <= Len(command.list) /\ Len(command.list) \in Nat
      /\ DOMAIN results = 1 .. Done /\ R!bytes = carBytes[k]
      /\ DOMAIN command.list = 1 .. Len(command.list)
  BY InputMeaning
<1>4. stage' \in {"done", "request", "local"} /\ (stage' = "done" => k = Len(command.list))
      /\ (stage' # "done" => k # Len(command.list))
  BY <1>1, <1>2 DEF R!FirstStage
<1>5. ResultsOK'
  <2>1. ASSUME NEW i \in 1 .. k
        PROVE  results'[i] = Failed \/ (results'[i] = carBytes[i] /\ carBytes[i] \in Car)
    <3>1. CASE i = k
      BY <1>2, <1>3, <3>1
    <3>2. CASE i # k
      <4>1. i \in 1 .. Done
        BY <1>3, <3>2
      <4> QED
        BY <1>2, <1>3, <4>1 DEF RecoveryOK, ResultsOK
    <3> QED
      BY <3>1, <3>2
  <2> QED
    BY <1>1, <1>2, <1>3, <1>4, <2>1 DEF ResultsOK, Done
<1>6. R!TypeOK'
  <2>1. stage' \in R!Working \cup {"done", "refused", "killed"}
    BY <1>4 DEF R!Working
  <2>2. attempt' \in 0 .. Retries - 1
    BY <1>1, LimitAssumption
  <2> QED
    BY <1>1, <1>2, <1>3, <2>1, <2>2 DEF RecoveryOK, R!TypeOK, FilesOK
<1>7. InputOK'
  <2>1. Done' = k
    BY <1>2 DEF Done
  <2>2. \A j \in DOMAIN command.list : j > k => carBytes[j] = Garbage
    BY <1>3 DEF RecoveryOK, InputOK
  <2>3. \A j \in DOMAIN command.list : j > k + 1 => j > k
    BY <1>3
  <2> QED
    BY <1>1, <1>3, <1>4, <2>1, <2>2, <2>3 DEF InputOK, Active, R!Working
<1>8. R!RecoveredIsOnDisk'
  <2>1. \A i \in DOMAIN results : OnDisk(i)'
    BY <1>1, OthersKept
  <2>2. ASSUME NEW i \in DOMAIN results', i = k
        PROVE  OnDisk(i)'
    <3>1. R!OutName = R!OutNameOf(i, R!bytes)
      BY <2>2 DEF R!OutName, Done
    <3>2. results'[i] = outcome
      BY <1>2, <2>2
    <3>3. CASE outcome = Failed
      BY <3>2, <3>3, DiskNext
    <3>4. CASE /\ outcome = R!bytes
               /\ R!SavesBatch => outFiles'[R!OutName] = R!bytes
               /\ command.split =>
                    R!Files(R!bytes.convs \cap splitFiles'[R!bytes.batch]) = R!Files(R!bytes.convs)
      <4>1. R!SavesBatch => outFiles'[R!OutNameOf(i, results'[i])] = results'[i]
        BY <3>1, <3>2, <3>4
      <4>2. command.split =>
              R!Files(results'[i].convs \cap splitFiles'[results'[i].batch])
                = R!Files(results'[i].convs)
        BY <3>2, <3>4
      <4> QED
        BY <4>1, <4>2, DiskNext
    <3> QED
      BY <3>3, <3>4
  <2>3. ASSUME NEW i \in DOMAIN results'
        PROVE  OnDisk(i)'
    <3>1. i = k \/ i \in DOMAIN results
      BY <1>2, <1>3
    <3> QED
      BY <2>1, <2>2, <3>1
  <2> QED
    BY <2>3 DEF R!RecoveredIsOnDisk, OnDisk
<1> QED
  BY <1>1, <1>4, <1>5, <1>6, <1>7, <1>8 DEF RecoveryOK

LEMMA Fails ==
  ASSUME RecoveryOK, stage \in Active, UNCHANGED <<command, runs>>,
         R!Fail, faults' \in 0 .. MaxFaults, FilesOK', Careful
  PROVE  RecoveryOK'
<1>1. CASE R!Settle(Failed)
  BY <1>1, Settles
<1>2. CASE R!GoTo("refused")
  <2>1. stage' = "refused" /\ UNCHANGED <<attempt, carBytes, results>>
    BY <1>2 DEF R!GoTo
  <2>2. attempt \in 0 .. Retries - 1
    BY DEF RecoveryOK, R!TypeOK
  <2> QED
    BY <2>1, <2>2, GoesOn DEF Early
<1> QED
  BY <1>1, <1>2 DEF R!Fail

\* The files stay.
LEMMA FilesStay ==
  ASSUME RecoveryOK, UNCHANGED R!fileVars, carBytes' = carBytes
  PROVE  FilesOK' /\ Careful /\ UNCHANGED <<carFiles, outFiles, splitFiles>>
  BY DEF RecoveryOK, FilesOK, Careful, R!fileVars

LEMMA RecoveryStep == RecoveryOK /\ [R!Next]_rVars => RecoveryOK'
<1> SUFFICES ASSUME RecoveryOK, [R!Next]_rVars
             PROVE  RecoveryOK'
  OBVIOUS
<1>0. /\ attempt \in 0 .. Retries - 1 /\ faults \in 0 .. MaxFaults /\ FilesOK
      /\ command.list \in Seq([form : {"cid", "malformed", "local"}, archive : Archive])
      /\ stage = "backoff" => attempt < Retries - 1
      /\ stage \in {"write", "split"} => R!bytes \in Car
      /\ stage = "split" /\ R!SavesBatch => outFiles[R!OutName] = R!bytes
  BY CommandsOK DEF RecoveryOK, R!TypeOK, InputOK
<1>1. CASE R!ReadList
  <2>1. /\ stage = "list" /\ UNCHANGED <<attempt, carBytes, results, command, carFiles,
                                         outFiles, splitFiles, runs, faults>>
        /\ stage' = IF command.list = << >> THEN "done" ELSE R!FirstStage(command.list[1])
    BY <1>1 DEF R!ReadList, R!GoTo, R!fileVars
  <2>2. results = << >> /\ Len(results) = 0
    BY <2>1 DEF RecoveryOK, ResultsOK
  <2>3. /\ stage' \in {"done", "request", "local"}
        /\ stage' = "done" => Len(command.list) = 0
        /\ stage' # "done" => Len(command.list) > 0
        /\ Len(command.list) \in Nat /\ DOMAIN command.list = 1 .. Len(command.list)
    BY <1>0, <2>1 DEF R!FirstStage
  <2>4. \A k \in DOMAIN command.list : carBytes[k] = Garbage
    BY <2>1, <2>2, <2>3 DEF RecoveryOK, InputOK, Early, Done
  <2>5. R!TypeOK' /\ FilesOK'
    BY <2>1, <2>3 DEF RecoveryOK, R!TypeOK, FilesOK, R!Working
  <2>6. ResultsOK'
    BY <2>1, <2>2, <2>3 DEF RecoveryOK, ResultsOK, Done
  <2>7. InputOK'
    BY <2>1, <2>2, <2>3, <2>4 DEF InputOK, Done, Active, R!Working
  <2>8. R!RecoveredIsOnDisk'
    BY <2>1, <2>2 DEF R!RecoveredIsOnDisk
  <2> QED
    BY <2>3, <2>5, <2>6, <2>7, <2>8 DEF RecoveryOK
<1>2. CASE R!ListMissing
  <2>1. /\ stage = "list" /\ stage' = "refused"
        /\ UNCHANGED <<attempt, carBytes, results, command, carFiles, outFiles, splitFiles,
                       runs, faults>>
    BY <1>2 DEF R!ListMissing, R!GoTo, R!fileVars
  <2>2. results = << >>
    BY <2>1 DEF RecoveryOK, ResultsOK
  <2>3. R!TypeOK' /\ FilesOK'
    BY <2>1 DEF RecoveryOK, R!TypeOK, FilesOK
  <2>4. ResultsOK' /\ InputOK'
    BY <2>1 DEF RecoveryOK, ResultsOK, InputOK, Done, Active, R!Working, Early
  <2>5. R!RecoveredIsOnDisk'
    BY <2>1, <2>2 DEF R!RecoveredIsOnDisk
  <2> QED
    BY <2>1, <2>3, <2>4, <2>5 DEF RecoveryOK
<1>3. ASSUME stage \in Active \cap Early, R!AttemptFails,
             UNCHANGED <<command, R!fileVars, runs, faults>>
      PROVE  RecoveryOK'
  <2>1. carBytes' = carBytes
    BY <1>3 DEF R!AttemptFails, R!GoTo, R!Fail, R!Settle
  <2>2. FilesOK' /\ faults' \in 0 .. MaxFaults /\ Careful
    BY <1>0, <1>3, <2>1, FilesStay
  <2>3. CASE attempt < Retries - 1 /\ R!GoTo("backoff")
    BY <1>0, <1>3, <2>1, <2>2, <2>3, GoesOn DEF R!GoTo, Active, R!Working
  <2>4. CASE R!Fail
    BY <1>3, <2>2, <2>4, Fails
  <2> QED
    BY <1>3, <2>3, <2>4 DEF R!AttemptFails
<1>4. ASSUME stage \in Active \cap Early, NEW data \in Car \cup {Garbage},
             NEW next \in {"saveCar", "extract"},
             R!Have(data, next), UNCHANGED <<command, R!fileVars, runs, faults>>
      PROVE  RecoveryOK'
  <2>1. /\ carBytes' = [carBytes EXCEPT ![Done + 1] = data] /\ stage' = next
        /\ UNCHANGED <<attempt, results>> /\ UNCHANGED <<carFiles, outFiles, splitFiles>>
    BY <1>4 DEF R!Have, R!fileVars, Done
  <2>2. FilesOK' /\ faults' \in 0 .. MaxFaults /\ attempt' \in 0 .. Retries - 1
    BY <1>0, <1>4, <2>1 DEF FilesOK
  <2>3. carBytes[Done + 1] = Garbage
    BY <1>4, InputMeaning DEF RecoveryOK, InputOK
  <2>4. DOMAIN carBytes = DOMAIN command.list
    BY DEF RecoveryOK, R!TypeOK
  <2>5. Careful
    BY <2>1, <2>3, <2>4 DEF Careful
  <2> QED
    BY <1>4, <2>1, <2>2, <2>5, GoesOn DEF Active, R!Working
<1>5. R!AfterBytes \in {"saveCar", "extract"}
  BY DEF R!AfterBytes
<1>6. CASE R!FetchCar
  <2>1. stage = "request" /\ UNCHANGED <<command, R!fileVars, runs, faults>>
    BY <1>6 DEF R!FetchCar
  <2>2. stage \in Active \cap Early
    BY <2>1 DEF Active, R!Working, Early
  <2>3. CASE R!Fail
    <3>1. carBytes' = carBytes
      BY <2>3 DEF R!GoTo, R!Fail, R!Settle
    <3> QED
      BY <1>0, <2>1, <2>2, <2>3, <3>1, FilesStay, Fails
  <2>4. CASE R!GoTo("body")
    <3>1. carBytes' = carBytes /\ stage' = "body" /\ UNCHANGED <<attempt, results>>
      BY <2>4 DEF R!GoTo
    <3>2. FilesOK' /\ faults' \in 0 .. MaxFaults /\ Careful
      BY <1>0, <2>1, <3>1, FilesStay
    <3> QED
      BY <1>0, <2>1, <2>2, <3>1, <3>2, GoesOn DEF Active, R!Working
  <2> QED
    BY <1>3, <1>6, <2>1, <2>2, <2>3, <2>4 DEF R!FetchCar
<1>7. CASE R!BodyEnds
  <2>1. /\ stage = "body" /\ UNCHANGED <<command, R!fileVars, runs, faults>>
        /\ stage \in Active \cap Early
    BY <1>7 DEF R!BodyEnds, Active, R!Working, Early
  <2>2. \/ \E data \in Car \cup {Garbage} : R!Have(data, R!AfterBytes)
        \/ R!AttemptFails
    BY <1>7 DEF R!BodyEnds
  <2> QED
    BY <1>3, <1>4, <1>5, <2>1, <2>2
<1>8. CASE R!BackoffEnds
  <2>1. /\ stage = "backoff" /\ stage' = "request" /\ attempt' = attempt + 1
        /\ UNCHANGED <<command, carBytes, results, R!fileVars, runs, faults>>
    BY <1>8 DEF R!BackoffEnds
  <2>2. /\ stage \in Active \cap Early /\ FilesOK' /\ faults' \in 0 .. MaxFaults
        /\ attempt' \in 0 .. Retries - 1 /\ Careful
    BY <1>0, <2>1, LimitAssumption, FilesStay DEF Active, R!Working, Early
  <2> QED
    BY <2>1, <2>2, GoesOn DEF Active, R!Working
<1>9. CASE R!LoadLocal
  <2>1. /\ stage = "local" /\ UNCHANGED <<command, R!fileVars, runs, faults>>
        /\ stage \in Active \cap Early
    BY <1>9 DEF R!LoadLocal, Active, R!Working, Early
  <2>2. \/ \E data \in Car \cup {Garbage} : R!Have(data, R!AfterBytes)
        \/ R!Fail
    BY <1>9 DEF R!LoadLocal
  <2>3. CASE R!Fail
    <3>1. carBytes' = carBytes
      BY <2>3 DEF R!GoTo, R!Fail, R!Settle
    <3> QED
      BY <1>0, <2>1, <2>3, <3>1, FilesStay, Fails
  <2> QED
    BY <1>4, <1>5, <2>1, <2>2, <2>3
<1>10. CASE R!Extract
  <2>1. stage = "extract" /\ UNCHANGED <<command, R!fileVars, runs, faults>> /\ stage \in Active
    BY <1>10 DEF R!Extract, Active, R!Working
  <2>2. carBytes' = carBytes
    BY <1>10 DEF R!Extract, R!GoTo, R!Fail, R!Settle
  <2>3. FilesOK' /\ faults' \in 0 .. MaxFaults /\ Careful
    BY <1>0, <2>1, <2>2, FilesStay
  <2>4. CASE R!Fail
    BY <2>1, <2>3, <2>4, Fails
  <2>5. CASE R!bytes # Garbage /\ R!GoTo(IF R!SavesBatch THEN "write" ELSE "split")
    <3>1. R!bytes \in Car
      BY <2>1, <2>5, InputMeaning DEF RecoveryOK, R!TypeOK
    <3>2. /\ stage' \in {"write", "split"} /\ UNCHANGED <<attempt, results>>
          /\ stage' = "split" => ~R!SavesBatch
      BY <2>5 DEF R!GoTo
    <3> QED
      BY <1>0, <2>1, <2>2, <2>3, <3>1, <3>2, GoesOn DEF Active, R!Working, Early
  <2> QED
    BY <1>10, <2>4, <2>5 DEF R!Extract
<1>11. ASSUME R!WriteFails
       PROVE  R!Fail /\ faults' \in 0 .. MaxFaults
  BY <1>0, <1>11, LimitAssumption DEF R!WriteFails
<1>12. CASE R!SaveCar
  <2>1. /\ stage = "saveCar" /\ UNCHANGED <<command, outFiles, splitFiles, runs>>
        /\ stage \in Active
    BY <1>12 DEF R!SaveCar, Active, R!Working
  <2>2. carBytes' = carBytes
    BY <1>12 DEF R!SaveCar, R!WriteFails, R!GoTo, R!Fail, R!Settle
  <2>3. FilesOK' /\ Careful
    BY <1>0, <1>12, <2>1, <2>2 DEF R!SaveCar, FilesOK, Careful
  <2>4. CASE R!GoTo("extract") /\ UNCHANGED faults
    BY <1>0, <2>1, <2>2, <2>3, <2>4, GoesOn DEF R!GoTo, Active, R!Working, Early
  <2>5. CASE R!WriteFails
    BY <1>11, <2>1, <2>3, <2>5, Fails
  <2> QED
    BY <1>12, <2>4, <2>5 DEF R!SaveCar
<1>13. CASE R!SaveBatch
  <2>1. /\ stage = "write" /\ UNCHANGED <<command, carFiles, splitFiles, runs>>
        /\ stage \in Active /\ R!bytes \in Car
    BY <1>0, <1>13 DEF R!SaveBatch, Active, R!Working
  <2>2. PICK text : outFiles' = [outFiles EXCEPT ![R!OutName] = text]
    BY <1>13 DEF R!SaveBatch
  <2>3. carBytes' = carBytes
    BY <1>13 DEF R!SaveBatch, R!WriteFails, R!GoTo, R!Fail, R!Settle
  <2>4. FilesOK' /\ Careful
    BY <1>0, <2>1, <2>2, <2>3 DEF FilesOK, Careful
  <2>5. CASE /\ outFiles' = [outFiles EXCEPT ![R!OutName] = R!bytes] /\ UNCHANGED faults
             /\ IF command.split THEN R!GoTo("split") ELSE R!Settle(R!bytes)
    <3>1. R!OutName \in R!Name
      BY <2>1, InputMeaning
    <3>2. outFiles'[R!OutName] = R!bytes /\ faults' \in 0 .. MaxFaults
      BY <1>0, <2>5, <3>1 DEF FilesOK
    <3>3. CASE R!GoTo("split")
      BY <1>0, <2>1, <2>3, <2>4, <3>2, <3>3, GoesOn DEF R!GoTo, Active, R!Working, Early
    <3>4. CASE ~command.split /\ R!Settle(R!bytes)
      BY <2>1, <2>4, <3>2, <3>4, Settles
    <3> QED
      BY <2>5, <3>3, <3>4
  <2>6. CASE R!WriteFails
    BY <1>11, <2>1, <2>4, <2>6, Fails
  <2> QED
    BY <1>13, <2>5, <2>6 DEF R!SaveBatch
<1>14. CASE R!SaveSplit
  <2>1. /\ stage = "split" /\ UNCHANGED <<command, carFiles, outFiles, runs>>
        /\ stage \in Active /\ R!bytes \in Car
    BY <1>0, <1>14 DEF R!SaveSplit, Active, R!Working
  <2>2. PICK text : splitFiles' = [splitFiles EXCEPT ![R!bytes.batch] = text]
    BY <1>14 DEF R!SaveSplit, R!SplitStops, R!SplitSoFar
  <2>3. carBytes' = carBytes
    BY <1>14 DEF R!SaveSplit, R!WriteFails, R!GoTo, R!Fail, R!Settle
  <2>4. FilesOK' /\ Careful
    BY <1>0, <2>1, <2>2, <2>3 DEF FilesOK, Careful
  <2>5. CASE R!SplitSoFar(R!bytes.convs, {}) /\ R!Settle(R!bytes) /\ UNCHANGED faults
    <3>1. R!bytes.batch \in DOMAIN splitFiles
      BY <1>0, <2>1, InputMeaning DEF FilesOK
    <3>2. PICK kept \in SUBSET R!bytes.convs :
             /\ R!Files(kept) = R!Files(R!bytes.convs) \ R!Files({})
             /\ kept \subseteq splitFiles'[R!bytes.batch]
      BY <2>5, <3>1 DEF R!SplitSoFar
    <3>3. R!Files({}) = {}
      BY DEF R!Files
    <3>4. R!Files(R!bytes.convs \cap splitFiles'[R!bytes.batch]) = R!Files(R!bytes.convs)
      BY <3>2, <3>3 DEF R!Files
    <3>5. /\ faults' \in 0 .. MaxFaults
          /\ R!SavesBatch => outFiles'[R!OutName] = R!bytes
      BY <1>0, <2>1, <2>5
    <3> QED
      BY <2>1, <2>4, <2>5, <3>4, <3>5, Settles
  <2>6. CASE R!WriteFails
    BY <1>11, <2>1, <2>4, <2>6, Fails
  <2> QED
    BY <1>14, <2>5, <2>6 DEF R!SaveSplit
<1>15. CASE R!Kill
  <2>1. /\ stage \in R!Working /\ stage' = "killed"
        /\ UNCHANGED <<attempt, carBytes, results, command, runs, faults>>
    BY <1>15 DEF R!Kill, R!GoTo
  <2>2. CASE stage = "list"
    <3>1. UNCHANGED <<carFiles, outFiles, splitFiles>> /\ results = << >>
      BY <1>15, <2>2 DEF R!Kill, R!fileVars, RecoveryOK, ResultsOK
    <3>2. R!TypeOK' /\ FilesOK'
      BY <2>1, <3>1 DEF RecoveryOK, R!TypeOK, FilesOK
    <3>3. ResultsOK' /\ InputOK'
      BY <2>1, <3>1 DEF RecoveryOK, ResultsOK, InputOK, Done, Active, R!Working, Early
    <3>4. R!RecoveredIsOnDisk'
      BY <2>1, <3>1 DEF R!RecoveredIsOnDisk
    <3> QED
      BY <2>1, <3>2, <3>3, <3>4 DEF RecoveryOK
  <2>3. CASE stage \in Active
    <3>1. FilesOK' /\ Careful
      <4>1. CASE UNCHANGED R!fileVars
        BY <2>1, <4>1, FilesStay
      <4>2. CASE stage = "saveCar" /\ UNCHANGED <<outFiles, splitFiles>>
        BY <1>0, <1>15, <2>1, <4>2 DEF R!Kill, R!fileVars, FilesOK, Careful
      <4>3. CASE stage = "write" /\ UNCHANGED <<carFiles, splitFiles>>
        BY <1>0, <1>15, <2>1, <4>3 DEF R!Kill, R!fileVars, FilesOK, Careful
      <4>4. CASE stage = "split" /\ R!SplitStops /\ UNCHANGED <<carFiles, outFiles>>
        BY <1>0, <2>1, <4>4 DEF R!SplitStops, R!SplitSoFar, FilesOK, Careful
      <4> QED
        BY <1>15, <4>1, <4>2, <4>3, <4>4 DEF R!Kill
    <3> QED
      BY <1>0, <2>1, <2>3, <3>1, GoesOn DEF Active, R!Working, Early
  <2> QED
    BY <2>1, <2>2, <2>3 DEF Active
<1>16. CASE R!RunAgain
  <2>1. /\ runs < MaxRuns /\ runs' = runs + 1 /\ command' \in Commands /\ stage' = "list"
        /\ attempt' = 0 /\ carBytes' = [i \in DOMAIN command'.list |-> Garbage]
        /\ results' = << >> /\ UNCHANGED <<carFiles, outFiles, splitFiles, faults>>
    BY <1>16 DEF R!RunAgain, R!fileVars
  <2>2. Len(results') = 0 /\ DOMAIN results' = {} /\ Len(command'.list) \in Nat
    BY <2>1, CommandsOK
  <2>3. R!TypeOK' /\ FilesOK'
    BY <2>1, <2>2, LimitAssumption DEF RecoveryOK, R!TypeOK, FilesOK, R!Working
  <2>4. ResultsOK' /\ InputOK' /\ R!RecoveredIsOnDisk'
    BY <2>1, <2>2 DEF ResultsOK, InputOK, Done, Active, R!RecoveredIsOnDisk
  <2> QED
    BY <2>1, <2>3, <2>4 DEF RecoveryOK
<1>17. CASE UNCHANGED rVars
  <2>1. R!TypeOK' /\ FilesOK' /\ ResultsOK' /\ InputOK'
    BY <1>17 DEF rVars, RecoveryOK, R!TypeOK, FilesOK, ResultsOK, InputOK, Done, R!bytes,
                 R!SavesBatch, R!OutName, R!OutNameOf
  <2>2. R!RecoveredIsOnDisk'
    BY <1>17 DEF rVars, RecoveryOK, R!RecoveredIsOnDisk, R!Overtaken, R!SavesBatch, R!OutNameOf
  <2> QED
    BY <1>17, <2>1, <2>2 DEF rVars, RecoveryOK
<1> QED
  BY <1>1, <1>2, <1>6, <1>7, <1>8, <1>9, <1>10, <1>12, <1>13, <1>14, <1>15, <1>16, <1>17
  DEF R!Next, R!Step

-----------------------------------------------------------------------------
(* The recovery tool implements Downloads, and loses no file to a download *)

\* How a step may change what has come.
LEMMA RunStep ==
  [R!Next]_rVars =>
     \/ UNCHANGED rVars
     \/ /\ stage \in R!Working /\ UNCHANGED command
        /\ \/ UNCHANGED carBytes
           \/ /\ stage \in Active \cap Early /\ stage' \in {"saveCar", "extract"}
              /\ \E data : carBytes' = [carBytes EXCEPT ![Done + 1] = data]
     \/ /\ stage \notin R!Working /\ stage' = "list"
        /\ carBytes' = [i \in DOMAIN command'.list |-> Garbage]
<1> USE DEF R!Working, R!GoTo, R!Fail, R!Settle, R!AttemptFails, R!WriteFails
<1>1. CASE R!ReadList \/ R!ListMissing \/ R!FetchCar \/ R!BackoffEnds \/ R!Kill
  BY <1>1 DEF R!ReadList, R!ListMissing, R!FetchCar, R!BackoffEnds, R!Kill
<1>2. CASE R!Extract \/ R!SaveCar \/ R!SaveBatch \/ R!SaveSplit
  BY <1>2 DEF R!Extract, R!SaveCar, R!SaveBatch, R!SaveSplit
<1>3. CASE R!BodyEnds \/ R!LoadLocal
  BY <1>3 DEF R!BodyEnds, R!LoadLocal, R!Have, R!AfterBytes, Active, Early, Done
<1>4. CASE R!RunAgain
  BY <1>4 DEF R!RunAgain
<1> QED
  BY <1>1, <1>2, <1>3, <1>4 DEF R!Next, R!Step

LEMMA ResultsAnswer ==
  RecoveryOK /\ stage = "done" => R!Answer = results /\ R!Promise!IsAnswer(results)
<1> SUFFICES ASSUME RecoveryOK, stage = "done"
             PROVE  R!Answer = results /\ R!Promise!IsAnswer(results)
  OBVIOUS
<1>1. /\ results \in Seq(Car \cup {Failed}) /\ Len(results) = Len(command.list)
      /\ \A i \in DOMAIN results :
            results[i] = Failed \/ (results[i] = carBytes[i] /\ carBytes[i] \in Car)
  BY DEF RecoveryOK, ResultsOK, Done
<1>2. results \notin {NotYet, GivenUp}
  <2>1. Car \cup {Failed} = {Failed} \cup Car
    OBVIOUS
  <2> QED
    BY <1>1, <2>1, AnswerAssumption
<1>3. DOMAIN results = 1 .. Len(command.list) /\ DOMAIN command.list = 1 .. Len(command.list)
  BY <1>1, CommandsOK DEF RecoveryOK, R!TypeOK
<1>4. DOMAIN R!Came = 1 .. Len(command.list)
      /\ \A i \in 1 .. Len(command.list) : R!Came[i] = {carBytes[i]} \ {Garbage}
  BY <1>3 DEF R!Came
<1>5. R!Answer = results
  BY DEF R!Answer, R!Working
<1> QED
  BY <1>1, <1>2, <1>3, <1>4, <1>5, ComesAssumption DEF R!Promise!IsAnswer, R!Promise!IsOutcome

LEMMA RecoveryImplements ==
  /\ R!Init => R!Promise!Init
  /\ RecoveryOK /\ RecoveryOK' /\ [R!Next]_rVars
       => [R!Promise!Next]_<<R!Came, R!Answer>>
<1>1. R!Init => R!Promise!Init
  BY DEF R!Init, R!Promise!Init, R!Answer, R!Working, R!Came
<1>2. ASSUME RecoveryOK, RecoveryOK', [R!Next]_rVars
      PROVE  [R!Promise!Next]_<<R!Came, R!Answer>>
  <2>0. stage' \in R!Working \cup {"done", "refused", "killed"}
    BY <1>2 DEF RecoveryOK, R!TypeOK
  <2>1. CASE UNCHANGED rVars
    BY <2>1 DEF R!Came, R!Answer, rVars
  <2>2. CASE stage \in R!Working /\ UNCHANGED command /\ UNCHANGED carBytes
    <3>1. UNCHANGED R!Came
      BY <2>2 DEF R!Came
    <3>2. R!Answer = NotYet
      BY <2>2 DEF R!Answer, R!Working
    <3>3. CASE stage' \in R!Working
      <4>1. R!Answer' = NotYet
        BY <3>3 DEF R!Answer, R!Working
      <4> QED
        BY <3>1, <3>2, <4>1
    <3>4. CASE stage' \in {"refused", "killed"}
      <4>1. R!Answer' = GivenUp
        BY <3>4 DEF R!Answer, R!Working
      <4> QED
        BY <3>1, <3>2, <4>1 DEF R!Promise!Next, R!Promise!GiveUp
    <3>5. CASE stage' = "done"
      <4>1. (RecoveryOK /\ stage = "done"
               => R!Answer = results /\ R!Promise!IsAnswer(results))'
        BY ResultsAnswer, PTL
      <4>2. R!Answer' = results' /\ R!Promise!IsAnswer(results)'
        BY <1>2, <3>5, <4>1
      <4> QED
        BY <3>1, <3>2, <4>2 DEF R!Promise!Next, R!Promise!Deliver, R!Promise!IsAnswer,
                                R!Promise!IsOutcome
    <3> QED
      BY <2>0, <3>3, <3>4, <3>5
  <2>3. ASSUME stage \in Active \cap Early, stage' \in {"saveCar", "extract"},
               UNCHANGED command, NEW data, carBytes' = [carBytes EXCEPT ![Done + 1] = data]
        PROVE  [R!Promise!Next]_<<R!Came, R!Answer>>
    <3>1. R!Answer = NotYet /\ R!Answer' = NotYet
      BY <2>3 DEF R!Answer, R!Working, Active
    <3>2. carBytes[Done + 1] = Garbage /\ DOMAIN carBytes = DOMAIN command.list
      BY <1>2, <2>3, InputMeaning DEF RecoveryOK, InputOK, R!TypeOK
    <3>3. /\ DOMAIN R!Came = DOMAIN command.list /\ DOMAIN R!Came' = DOMAIN command.list
          /\ \A i \in DOMAIN command.list : /\ R!Came[i] = {carBytes[i]} \ {Garbage}
                                            /\ R!Came'[i] = {carBytes'[i]} \ {Garbage}
      BY <2>3 DEF R!Came
    <3>4. \A i \in DOMAIN command.list : R!Came[i] \subseteq R!Came'[i]
      BY <2>3, <3>2, <3>3
    <3> QED
      BY <3>1, <3>3, <3>4 DEF R!Promise!Next, R!Promise!Arrive
  <2>4. CASE /\ stage \notin R!Working /\ stage' = "list"
             /\ carBytes' = [i \in DOMAIN command'.list |-> Garbage]
    <3>1. R!Answer' = NotYet /\ \A i \in DOMAIN R!Came' : R!Came'[i] = {}
      BY <2>4 DEF R!Answer, R!Working, R!Came
    <3>2. stage \in {"done", "refused", "killed"}
      BY <1>2, <2>4 DEF RecoveryOK, R!TypeOK
    <3>3. CASE stage = "done"
      <4>1. R!Answer = results /\ R!Promise!IsAnswer(results)
        BY <1>2, <3>3, ResultsAnswer
      <4>2. R!Answer # NotYet
        BY <4>1 DEF R!Promise!IsAnswer
      <4> QED
        BY <3>1, <4>2 DEF R!Promise!Next, R!Promise!AskAgain
    <3>4. CASE stage \in {"refused", "killed"}
      <4>1. R!Answer = GivenUp
        BY <3>4 DEF R!Answer, R!Working
      <4> QED
        BY <3>1, <4>1, AnswerAssumption DEF R!Promise!Next, R!Promise!AskAgain
    <3> QED
      BY <3>2, <3>3, <3>4
  <2> QED
    BY <1>2, <2>1, <2>2, <2>3, <2>4, RunStep
<1> QED
  BY <1>1, <1>2

\* What a step may do to the batch files.
FilesStep ==
  \A n \in R!Name : outFiles'[n] # outFiles[n] =>
     \/ R!bytes # Garbage /\ n = R!OutName /\ outFiles'[n] = R!bytes
     \/ outFiles'[n] = Truncated /\ (stage' = "killed" \/ faults' # faults)

LEMMA DownloadStep == RecoveryOK /\ [R!Next]_rVars => [FilesStep]_(R!vars)
<1> SUFFICES ASSUME RecoveryOK, [R!Next]_rVars, NEW n \in R!Name, outFiles'[n] # outFiles[n]
             PROVE  \/ R!bytes # Garbage /\ n = R!OutName /\ outFiles'[n] = R!bytes
                    \/ outFiles'[n] = Truncated /\ (stage' = "killed" \/ faults' # faults)
  BY DEF FilesStep
<1>0. DOMAIN outFiles = R!Name /\ faults \in Nat
  BY LimitAssumption DEF RecoveryOK, FilesOK, R!TypeOK
<1>1. R!SaveBatch \/ R!Kill
  BY DEF R!Next, R!Step, R!ReadList, R!ListMissing, R!FetchCar, R!BodyEnds, R!BackoffEnds,
         R!LoadLocal, R!Extract, R!SaveCar, R!SaveSplit, R!RunAgain, R!fileVars, rVars
<1>2. CASE R!SaveBatch
  <2>1. stage = "write" /\ R!bytes # Garbage
    BY <1>2, ComesAssumption DEF R!SaveBatch, RecoveryOK, InputOK
  <2>2. CASE outFiles' = [outFiles EXCEPT ![R!OutName] = R!bytes]
    BY <1>0, <2>1, <2>2
  <2>3. CASE outFiles' = [outFiles EXCEPT ![R!OutName] = Truncated] /\ faults' = faults + 1
    BY <1>0, <2>3
  <2> QED
    BY <1>2, <2>2, <2>3 DEF R!SaveBatch, R!WriteFails
<1>3. CASE R!Kill
  <2>1. stage' = "killed" /\ outFiles' = [outFiles EXCEPT ![R!OutName] = Truncated]
    BY <1>3 DEF R!Kill, R!GoTo, R!fileVars
  <2> QED
    BY <1>0, <2>1
<1> QED
  BY <1>1, <1>2, <1>3

-----------------------------------------------------------------------------
(* Induction.  The provers cannot instantiate the induction theorems of the *)
(* library, which take an operator, but WFMin speaks of a set: a set of     *)
(* numbers has a least one.                                                 *)

LEMMA LeastNumber ==
  ASSUME NEW Those \in SUBSET Nat, Those # {}
  PROVE  \E m \in Those : \A k \in Those : m <= k
<1> DEFINE smaller == StrictSubsetOrdering(Nat)
           Upto == {1 .. k : k \in Those}
<1>1. IsWellFoundedOn(smaller, FiniteSubsetsOf(Nat))
  BY FS_StrictSubsetOrderingWellFounded
<1>2. \A k \in Nat : 1 .. k \in FiniteSubsetsOf(Nat)
  <2>1. \A k \in Nat : 1 .. k \in SUBSET Nat
    OBVIOUS
  <2>2. \A k \in Nat : IsFiniteSet(1 .. k)
    <3>1. 1 \in Int /\ \A k \in Nat : k \in Int
      OBVIOUS
    <3> QED
      BY <3>1, FS_Interval
  <2> QED
    BY <2>1, <2>2 DEF FiniteSubsetsOf
<1>3. Upto \subseteq FiniteSubsetsOf(Nat) /\ Upto # {}
  BY <1>2
<1> HIDE DEF smaller
<1>4. PICK x \in Upto : \A y \in Upto : <<y, x>> \notin smaller
  BY <1>1, <1>3, WFMin
<1>5. PICK m \in Those : x = 1 .. m
  BY <1>4
<1>6. ASSUME NEW k \in Those, k < m
      PROVE  FALSE
  <2>1. 1 .. k \subseteq 1 .. m /\ m \in 1 .. m /\ m \notin 1 .. k
    BY <1>6
  <2>2. <<1 .. k, 1 .. m>> \in smaller
    BY <2>1 DEF smaller, StrictSubsetOrdering
  <2> QED
    BY <1>4, <1>5, <2>2
<1> QED
  BY <1>6

\* A set of numbers that holds 0 and every successor holds all of them.
LEMMA Numbers ==
  ASSUME NEW Those \in SUBSET Nat, 0 \in Those, \A n \in Those : n + 1 \in Those
  PROVE  Those = Nat
<1> SUFFICES ASSUME Those # Nat PROVE FALSE
  OBVIOUS
<1>1. PICK m \in Nat \ Those : \A k \in Nat \ Those : m <= k
  BY LeastNumber
<1>2. m # 0 /\ m - 1 \in Nat /\ m - 1 \in Those
  BY <1>1
<1> QED
  BY <1>1, <1>2

\* A set that holds the empty list and every list by one longer holds all lists.
LEMMA AllLists ==
  ASSUME NEW Elem, NEW Those, << >> \in Those, \A s \in Seq(Elem), x \in Elem : s \in Those => Append(s, x) \in Those
  PROVE  Seq(Elem) \subseteq Those
<1> DEFINE N == {n \in Nat : \A s \in Seq(Elem) : Len(s) = n => s \in Those}
<1>1. 0 \in N
  <2>1. \A s \in Seq(Elem) : Len(s) = 0 => s = << >>
    OBVIOUS
  <2> QED
    BY <2>1
<1>2. ASSUME NEW n \in N
      PROVE  n + 1 \in N
  <2>1. ASSUME NEW s \in Seq(Elem), Len(s) = n + 1
        PROVE  s \in Those
    <3> DEFINE t == SubSeq(s, 1, n)
    <3>1. t \in Seq(Elem) /\ Len(t) = n /\ s[n + 1] \in Elem /\ s = Append(t, s[n + 1])
      BY <2>1
    <3>2. t \in Those
      BY <3>1
    <3> QED
      BY <3>1, <3>2
  <2> QED
    BY <2>1
<1>3. N = Nat
  <2> HIDE DEF N
  <2>1. N \in SUBSET Nat
    BY DEF N
  <2> QED
    BY <1>1, <1>2, <2>1, Numbers
<1>4. \A s \in Seq(Elem) : Len(s) \in Nat
  OBVIOUS
<1> QED
  BY <1>3, <1>4

-----------------------------------------------------------------------------
(* FlattenSeq *)

Flat(s, n, f) == f = [i \in 1 .. n |-> IF i = 1 THEN s[i] ELSE f[i - 1] \o s[i]]

LEMMA FlatExists ==
  ASSUME NEW Elem, NEW s \in Seq(Seq(Elem)), NEW n \in 0 .. Len(s)
  PROVE  \E f \in [1 .. n -> Seq(Elem)] : Flat(s, n, f)
<1> DEFINE N == {k \in Nat : k <= Len(s) => \E f \in [1 .. k -> Seq(Elem)] : Flat(s, k, f)}
<1>1. 0 \in N
  <2> DEFINE f == [i \in 1 .. 0 |-> << >>]
  <2>1. f \in [1 .. 0 -> Seq(Elem)] /\ Flat(s, 0, f)
    BY DEF Flat
  <2> QED
    BY <2>1
<1>2. ASSUME NEW k \in N
      PROVE  k + 1 \in N
  <2> SUFFICES ASSUME k + 1 <= Len(s)
               PROVE  \E f \in [1 .. k + 1 -> Seq(Elem)] : Flat(s, k + 1, f)
    OBVIOUS
  <2>1. PICK g \in [1 .. k -> Seq(Elem)] : Flat(s, k, g)
    BY <1>2
  <2> DEFINE last == IF k = 0 THEN s[1] ELSE g[k] \o s[k + 1]
             f == [i \in 1 .. k + 1 |-> IF i = k + 1 THEN last ELSE g[i]]
  <2>2. last \in Seq(Elem)
    OBVIOUS
  <2> HIDE DEF last
  <2>3. f \in [1 .. k + 1 -> Seq(Elem)]
    BY <2>2
  <2>4. \A i \in 1 .. k : f[i] = g[i] /\ (i # 1 => f[i - 1] = g[i - 1])
    OBVIOUS
  <2>5. \A i \in 1 .. k : g[i] = IF i = 1 THEN s[i] ELSE g[i - 1] \o s[i]
    BY <2>1 DEF Flat
  <2>6. f[k + 1] = IF k + 1 = 1 THEN s[k + 1] ELSE f[k] \o s[k + 1]
    BY DEF last
  <2>7. \A i \in 1 .. k + 1 : f[i] = IF i = 1 THEN s[i] ELSE f[i - 1] \o s[i]
    <3> HIDE DEF f
    <3> TAKE i \in 1 .. k + 1
    <3>1. CASE i \in 1 .. k
      BY <2>4, <2>5, <3>1
    <3>2. CASE i = k + 1
      BY <2>6, <3>2
    <3> QED
      BY <3>1, <3>2
  <2> HIDE DEF f
  <2>8. Flat(s, k + 1, f)
    BY <2>3, <2>7 DEF Flat
  <2> QED
    BY <2>3, <2>8
<1>3. N \in SUBSET Nat
  OBVIOUS
<1> HIDE DEF N
<1>4. N = Nat
  BY <1>1, <1>2, <1>3, Numbers
<1>5. n \in Nat /\ n <= Len(s)
  OBVIOUS
<1> QED
  BY <1>4, <1>5 DEF N

LEMMA FlatUnique ==
  ASSUME NEW s, NEW n \in Nat, NEW f, NEW g, Flat(s, n, f), Flat(s, n, g)
  PROVE  f = g
<1> DEFINE N == {k \in Nat : k \in 1 .. n => f[k] = g[k]}
<1>1. 0 \in N
  OBVIOUS
<1>2. ASSUME NEW k \in N
      PROVE  k + 1 \in N
  <2>1. k + 1 \in 1 .. n /\ k + 1 # 1 => k \in 1 .. n
    OBVIOUS
  <2>2. \A i \in 1 .. n : /\ f[i] = IF i = 1 THEN s[i] ELSE f[i - 1] \o s[i]
                         /\ g[i] = IF i = 1 THEN s[i] ELSE g[i - 1] \o s[i]
    BY DEF Flat
  <2> QED
    BY <2>1, <2>2
<1>3. N \in SUBSET Nat
  OBVIOUS
<1> HIDE DEF N
<1>4. N = Nat
  BY <1>1, <1>2, <1>3, Numbers
<1>5. \A k \in 1 .. n : f[k] = g[k]
  BY <1>4 DEF N
<1> QED
  BY <1>5 DEF Flat

LEMMA FlatValue ==
  ASSUME NEW Elem, NEW s \in Seq(Seq(Elem)), Len(s) # 0
  PROVE  \E f \in [1 .. Len(s) -> Seq(Elem)] :
            Flat(s, Len(s), f) /\ FlattenSeq(s) = f[Len(s)]
<1> DEFINE g == CHOOSE flatten :
             flatten = [i \in 1 .. Len(s) |-> IF i = 1 THEN s[i] ELSE flatten[i - 1] \o s[i]]
<1>1. PICK f \in [1 .. Len(s) -> Seq(Elem)] : Flat(s, Len(s), f)
  BY FlatExists
<1>2. g = [i \in 1 .. Len(s) |-> IF i = 1 THEN s[i] ELSE g[i - 1] \o s[i]]
  BY <1>1 DEF Flat
<1>3. FlattenSeq(s) = g[Len(s)]
  BY DEF FlattenSeq
<1> HIDE DEF g
<1>4. Flat(s, Len(s), g)
  BY <1>2 DEF Flat
<1>5. f = g
  <2>1. Len(s) \in Nat
    OBVIOUS
  <2> QED
    BY <1>1, <1>4, <2>1, FlatUnique
<1> QED
  BY <1>1, <1>3, <1>5

LEMMA FlattenEmpty == FlattenSeq(<< >>) = << >>
  BY DEF FlattenSeq

LEMMA FlattenType ==
  ASSUME NEW Elem, NEW s \in Seq(Seq(Elem))
  PROVE  FlattenSeq(s) \in Seq(Elem)
<1>1. CASE Len(s) = 0
  <2>1. s = << >> /\ << >> \in Seq(Elem)
    BY <1>1
  <2> QED
    BY <2>1, FlattenEmpty
<1>2. CASE Len(s) # 0
  <2>1. Len(s) \in 1 .. Len(s)
    BY <1>2
  <2>2. PICK f \in [1 .. Len(s) -> Seq(Elem)] : FlattenSeq(s) = f[Len(s)]
    BY <1>2, FlatValue
  <2> QED
    BY <2>1, <2>2
<1> QED
  BY <1>1, <1>2

LEMMA FlattenAppend ==
  ASSUME NEW Elem, NEW s \in Seq(Seq(Elem)), NEW x \in Seq(Elem)
  PROVE  FlattenSeq(Append(s, x)) = FlattenSeq(s) \o x
<1> DEFINE t == Append(s, x)
           n == Len(s)
<1>1. /\ t \in Seq(Seq(Elem)) /\ Len(t) = n + 1 /\ n \in Nat /\ t[n + 1] = x
      /\ \A i \in 1 .. n : t[i] = s[i]
  OBVIOUS
<1>2. PICK f \in [1 .. n + 1 -> Seq(Elem)] : Flat(t, n + 1, f) /\ FlattenSeq(t) = f[n + 1]
  <2> HIDE DEF t, n
  <2>1. Len(t) # 0
    BY <1>1
  <2> QED
    BY <1>1, <2>1, FlatValue
<1>3. \A i \in 1 .. n + 1 : f[i] = IF i = 1 THEN t[i] ELSE f[i - 1] \o t[i]
  BY <1>2 DEF Flat
<1>4. CASE n = 0
  <2>1. s = << >> /\ FlattenSeq(t) = x
    BY <1>1, <1>2, <1>3, <1>4
  <2> QED
    BY <2>1, FlattenEmpty
<1>5. CASE n # 0
  <2>1. PICK g \in [1 .. n -> Seq(Elem)] : Flat(s, n, g) /\ FlattenSeq(s) = g[n]
    BY <1>5, FlatValue
  <2> DEFINE h == [i \in 1 .. n |-> f[i]]
  <2>2. \A i \in 1 .. n : h[i] = f[i] /\ (i # 1 => h[i - 1] = f[i - 1])
    BY <1>1
  <2>3. \A i \in 1 .. n : h[i] = IF i = 1 THEN s[i] ELSE h[i - 1] \o s[i]
    <3> TAKE i \in 1 .. n
    <3> HIDE DEF h, t, n
    <3>1. f[i] = (IF i = 1 THEN t[i] ELSE f[i - 1] \o t[i]) /\ t[i] = s[i]
      <4>1. i \in 1 .. n + 1
        BY <1>1
      <4> QED
        BY <1>1, <1>3, <4>1
    <3> QED
      BY <2>2, <3>1
  <2>4. Flat(s, n, h)
    BY <2>3 DEF Flat
  <2>5. h = g
    <3> HIDE DEF h
    <3> QED
      BY <1>1, <2>1, <2>4, FlatUnique
  <2>6. n \in 1 .. n /\ n + 1 \in 1 .. n + 1 /\ n + 1 # 1 /\ (n + 1) - 1 = n
    BY <1>1, <1>5
  <2>7. f[n + 1] = f[n] \o x /\ f[n] = g[n]
    BY <1>1, <1>3, <2>2, <2>5, <2>6
  <2> QED
    BY <1>2, <2>1, <2>7
<1> QED
  BY <1>4, <1>5

-----------------------------------------------------------------------------
(* What a function makes of each element of a list, one after the other *)

Each(s, g) == FlattenSeq([i \in DOMAIN s |-> g[s[i]]])

LEMMA EachEmpty == \A g : Each(<< >>, g) = << >>
<1> TAKE g
<1>1. [i \in DOMAIN << >> |-> g[<< >>[i]]] = << >>
  OBVIOUS
<1> QED
  BY <1>1, FlattenEmpty DEF Each

LEMMA EachAppend ==
  ASSUME NEW Elem, NEW Val, NEW g \in [Elem -> Seq(Val)], NEW s \in Seq(Elem), NEW x \in Elem
  PROVE  Each(Append(s, x), g) = Each(s, g) \o g[x]
<1> DEFINE u == [i \in DOMAIN s |-> g[s[i]]]
           w == [i \in DOMAIN Append(s, x) |-> g[Append(s, x)[i]]]
<1>1. u \in Seq(Seq(Val)) /\ g[x] \in Seq(Val)
  OBVIOUS
<1>2. w = Append(u, g[x])
  <2>1. w \in Seq(Seq(Val)) /\ Append(u, g[x]) \in Seq(Seq(Val))
    BY <1>1
  <2>2. Len(w) = Len(s) + 1 /\ Len(Append(u, g[x])) = Len(s) + 1
    BY <1>1
  <2>3. \A i \in 1 .. Len(s) + 1 : w[i] = Append(u, g[x])[i]
    BY <1>1
  <2> HIDE DEF u, w
  <2> QED
    BY <2>1, <2>2, <2>3, SeqEqual
<1> HIDE DEF u, w
<1>3. Each(Append(s, x), g) = FlattenSeq(w) /\ Each(s, g) = FlattenSeq(u)
  BY DEF Each, u, w
<1> QED
  BY <1>1, <1>2, <1>3, FlattenAppend

LEMMA EachType ==
  ASSUME NEW Elem, NEW Val, NEW g \in [Elem -> Seq(Val)], NEW s \in Seq(Elem)
  PROVE  Each(s, g) \in Seq(Val)
<1> DEFINE u == [i \in DOMAIN s |-> g[s[i]]]
<1>1. \A i \in 1 .. Len(s) : g[s[i]] \in Seq(Val)
  OBVIOUS
<1>2. DOMAIN s = 1 .. Len(s) /\ Len(s) \in Nat
  OBVIOUS
<1>3. u \in Seq(Seq(Val))
  BY <1>1, <1>2, IsASeq
<1> QED
  BY <1>3, FlattenType DEF Each

LEMMA EachOne ==
  ASSUME NEW Elem, NEW Val, NEW g \in [Elem -> Seq(Val)], NEW x \in Elem
  PROVE  Each(<<x>>, g) = g[x]
<1>1. << >> \in Seq(Elem) /\ <<x>> = Append(<< >>, x) /\ g[x] \in Seq(Val)
  OBVIOUS
<1>2. Each(<<x>>, g) = << >> \o g[x]
  BY <1>1, EachAppend, EachEmpty
<1> QED
  BY <1>1, <1>2

LEMMA EachConcat ==
  ASSUME NEW Elem, NEW Val, NEW g \in [Elem -> Seq(Val)], NEW s \in Seq(Elem), NEW t \in Seq(Elem)
  PROVE  Each(s \o t, g) = Each(s, g) \o Each(t, g)
<1> DEFINE Those == {z \in Seq(Elem) : Each(s \o z, g) = Each(s, g) \o Each(z, g)}
<1>1. << >> \in Those
  <2>1. s \o << >> = s /\ << >> \in Seq(Elem)
    OBVIOUS
  <2>2. Each(s, g) \o << >> = Each(s, g)
    BY EachType
  <2> QED
    BY <2>1, <2>2, EachEmpty
<1>2. ASSUME NEW z \in Seq(Elem), NEW x \in Elem, z \in Those
      PROVE  Append(z, x) \in Those
  <2>1. s \o Append(z, x) = Append(s \o z, x) /\ s \o z \in Seq(Elem) /\ Append(z, x) \in Seq(Elem)
    OBVIOUS
  <2>2. Each(s \o Append(z, x), g) = Each(s \o z, g) \o g[x]
    BY <2>1, EachAppend
  <2>3. Each(Append(z, x), g) = Each(z, g) \o g[x]
    BY EachAppend
  <2>4. Each(s, g) \in Seq(Val) /\ Each(z, g) \in Seq(Val) /\ g[x] \in Seq(Val)
    BY EachType
  <2>5. (Each(s, g) \o Each(z, g)) \o g[x] = Each(s, g) \o (Each(z, g) \o g[x])
    BY <2>4, ConcatAssociative
  <2> QED
    BY <1>2, <2>1, <2>2, <2>3, <2>5
<1> HIDE DEF Those
<1>3. t \in Those
  BY <1>1, <1>2, AllLists
<1> QED
  BY <1>3 DEF Those

\* One pass after another is one pass.
Fuses(Elem, Mid, Val, g, h, k) ==
  /\ g \in [Elem -> Seq(Mid)] /\ h \in [Mid -> Seq(Val)] /\ k \in [Elem -> Seq(Val)]
  /\ \A x \in Elem : k[x] = Each(g[x], h)

LEMMA EachEach ==
  ASSUME NEW Elem, NEW Mid, NEW Val, NEW g, NEW h, NEW k, Fuses(Elem, Mid, Val, g, h, k),
         NEW s \in Seq(Elem)
  PROVE  Each(Each(s, g), h) = Each(s, k)
<1> USE DEF Fuses
<1> DEFINE Those == {z \in Seq(Elem) : Each(Each(z, g), h) = Each(z, k)}
<1>1. << >> \in Those
  BY EachEmpty
<1>2. ASSUME NEW z \in Seq(Elem), NEW x \in Elem, z \in Those
      PROVE  Append(z, x) \in Those
  <2>1. Each(Append(z, x), g) = Each(z, g) \o g[x] /\ Each(Append(z, x), k) = Each(z, k) \o k[x]
    BY EachAppend
  <2>2. Each(z, g) \in Seq(Mid) /\ g[x] \in Seq(Mid)
    BY EachType
  <2>3. \A p, q \in Seq(Mid) : Each(p \o q, h) = Each(p, h) \o Each(q, h)
    BY EachConcat
  <2>4. Append(z, x) \in Seq(Elem)
    OBVIOUS
  <2> QED
    BY <1>2, <2>1, <2>2, <2>3, <2>4
<1> HIDE DEF Those
<1>3. s \in Those
  BY <1>1, <1>2, AllLists
<1> QED
  BY <1>3 DEF Those

\* A pass that keeps each element keeps the list.
LEMMA EachKept ==
  ASSUME NEW Elem, NEW s \in Seq(Elem)
  PROVE  Each(s, [x \in Elem |-> <<x>>]) = s
<1> DEFINE g == [x \in Elem |-> <<x>>]
           Those == {z \in Seq(Elem) : Each(z, g) = z}
<1>1. g \in [Elem -> Seq(Elem)]
  OBVIOUS
<1>2. \A z \in Seq(Elem), x \in Elem : z \o g[x] = Append(z, x) /\ Append(z, x) \in Seq(Elem)
  OBVIOUS
<1> HIDE DEF g
<1>3. << >> \in Those
  BY EachEmpty
<1>4. ASSUME NEW z \in Seq(Elem), NEW x \in Elem, z \in Those
      PROVE  Append(z, x) \in Those
  <2>1. Each(Append(z, x), g) = z \o g[x]
    BY <1>1, <1>4, EachAppend
  <2> QED
    BY <1>2, <2>1
<1> HIDE DEF Those
<1>5. s \in Those
  BY <1>3, <1>4, AllLists
<1> QED
  BY <1>5 DEF Those, g

-----------------------------------------------------------------------------
(* From a request to the prompt of the model: each definition of Translation *)
(* as one pass over a list, and the passes put together.  Val are the texts  *)
(* and images, any set.                                                      *)

Role           == {"user", "assistant", "system", "tool"}
PartOf(Val)    == {"text", "image"} \X Val
ContentOf(Val) == {Null} \cup ({"string"} \X Val) \cup ({"parts"} \X Seq(PartOf(Val)))
MessageOf(Val) == [role : Role, content : ContentOf(Val)]
ItemOf(Val)    == [type : {"text", "image"}, value : Val, role : Role]

LEMMA SameFlatten == \A s : X!FlattenSeq(s) = FlattenSeq(s)
  BY DEF X!FlattenSeq, FlattenSeq

\* The three forms of a content.
LEMMA Forms ==
  ASSUME NEW Val, NEW c \in ContentOf(Val)
  PROVE  \/ c = Null /\ X!Parts(c) = << >> /\ X!Given(c) = << >>
         \/ /\ c # Null /\ c[1] = "string" /\ <<"text", c[2]>> \in PartOf(Val)
            /\ X!Parts(c) = << <<"text", c[2]>> >> /\ X!Given(c) = << <<"text", c[2]>> >>
         \/ /\ c # Null /\ c[1] # "string" /\ c[2] \in Seq(PartOf(Val)) /\ X!Given(c) = c[2]
            /\ X!Parts(c) = Each(c[2], [piece \in PartOf(Val) |->
                                          IF piece[2] # Empty THEN <<piece>> ELSE << >>])
<1>1. CASE c = Null
  BY <1>1 DEF X!Parts, X!Given
<1>2. CASE c # Null /\ c \in {"string"} \X Val
  BY <1>2 DEF X!Parts, X!Given, PartOf
<1>3. CASE c # Null /\ c \in {"parts"} \X Seq(PartOf(Val))
  <2> DEFINE keep == [piece \in PartOf(Val) |-> IF piece[2] # Empty THEN <<piece>> ELSE << >>]
  <2>1. c[1] # "string" /\ c[2] \in Seq(PartOf(Val)) /\ X!Given(c) = c[2]
    BY <1>3 DEF X!Given
  <2>2. X!Parts(c) = X!FlattenSeq([i \in DOMAIN c[2] |->
                                     IF c[2][i][2] # Empty THEN <<c[2][i]>> ELSE << >>])
    BY <1>3, <2>1 DEF X!Parts, X!Keep, X!FlatMap
  <2>3. [i \in DOMAIN c[2] |-> IF c[2][i][2] # Empty THEN <<c[2][i]>> ELSE << >>]
          = [i \in DOMAIN c[2] |-> keep[c[2][i]]]
    BY <2>1
  <2>4. X!Parts(c) = Each(c[2], keep)
    BY <2>2, <2>3, SameFlatten DEF Each
  <2> QED
    BY <1>3, <2>1, <2>4
<1> QED
  BY <1>1, <1>2, <1>3 DEF ContentOf

LEMMA PartsType ==
  ASSUME NEW Val, NEW c \in ContentOf(Val)
  PROVE  X!Parts(c) \in Seq(PartOf(Val)) /\ X!Given(c) \in Seq(PartOf(Val))
<1> DEFINE keep == [piece \in PartOf(Val) |-> IF piece[2] # Empty THEN <<piece>> ELSE << >>]
<1>1. keep \in [PartOf(Val) -> Seq(PartOf(Val))]
  OBVIOUS
<1> HIDE DEF keep
<1>2. \A s \in Seq(PartOf(Val)) : Each(s, keep) \in Seq(PartOf(Val))
  BY <1>1, EachType
<1>3. << >> \in Seq(PartOf(Val)) /\ \A p \in PartOf(Val) : <<p>> \in Seq(PartOf(Val))
  OBVIOUS
<1> QED
  BY <1>2, <1>3, Forms DEF keep

\* What of a part a reader of one type wants.
Wanted(Val, type) ==
  [piece \in PartOf(Val) |->
     IF piece[1] = type /\ piece[2] # Empty /\ (type = "image" => piece[2] \notin NotData)
     THEN <<piece[2]>> ELSE << >>]

LEMMA WantedType ==
  ASSUME NEW Val, NEW type
  PROVE  Wanted(Val, type) \in [PartOf(Val) -> Seq(Val)]
<1>1. \A piece \in PartOf(Val) : piece[2] \in Val
  BY DEF PartOf
<1> QED
  BY <1>1 DEF Wanted

LEMMA SaidEach ==
  ASSUME NEW Val, NEW c \in ContentOf(Val), NEW type
  PROVE  X!Said(c, type) = Each(X!Given(c), Wanted(Val, type))
<1> DEFINE s == X!Given(c)
           u == [i \in DOMAIN s |->
                   IF s[i][1] = type /\ s[i][2] # Empty /\ (type = "image" => s[i][2] \notin NotData)
                   THEN <<s[i][2]>> ELSE << >>]
<1>1. X!Said(c, type) = X!FlattenSeq(u)
  BY DEF X!Said, X!FlatMap
<1>2. s \in Seq(PartOf(Val))
  BY PartsType
<1>3. u = [i \in DOMAIN s |-> Wanted(Val, type)[s[i]]]
  <2> HIDE DEF s
  <2> QED
    BY <1>2 DEF Wanted
<1> QED
  BY <1>1, <1>3, SameFlatten DEF Each

\* What of an item a reader of one type of values takes: texts that are not empty,
\* images that are data.
Taken(Val, type) ==
  [item \in ItemOf(Val) |->
     IF /\ item.type = type /\ (type = "text" => item.value # Empty)
        /\ (type = "image" => item.value \notin NotData)
     THEN <<item.value>> ELSE << >>]

LEMMA TakenType ==
  ASSUME NEW Val, NEW type
  PROVE  Taken(Val, type) \in [ItemOf(Val) -> Seq(Val)]
<1>1. \A item \in ItemOf(Val) : item.value \in Val
  BY DEF ItemOf
<1> QED
  BY <1>1 DEF Taken

Kept(Val) == [piece \in PartOf(Val) |-> IF piece[2] # Empty THEN <<piece>> ELSE << >>]
Made(Val, role) == [piece \in PartOf(Val) |-> <<X!Item(piece[1], piece[2], role)>>]
KeptMade(Val, role) ==
  [piece \in PartOf(Val) |-> IF piece[2] # Empty THEN Made(Val, role)[piece] ELSE << >>]

LEMMA MessageTypes ==
  ASSUME NEW Val, NEW m \in MessageOf(Val)
  PROVE  m.content \in ContentOf(Val) /\ m.role \in Role
BY DEF MessageOf

LEMMA MadeTypes ==
  ASSUME NEW Val, NEW role \in Role
  PROVE  /\ Made(Val, role) \in [PartOf(Val) -> Seq(ItemOf(Val))]
         /\ Kept(Val) \in [PartOf(Val) -> Seq(PartOf(Val))]
         /\ KeptMade(Val, role) \in [PartOf(Val) -> Seq(ItemOf(Val))]
         /\ \A piece \in PartOf(Val) : /\ X!Item(piece[1], piece[2], role) \in ItemOf(Val)
                                      /\ X!Item(piece[1], piece[2], role).type = piece[1]
                                      /\ X!Item(piece[1], piece[2], role).value = piece[2]
<1>1. \A piece \in PartOf(Val) : /\ X!Item(piece[1], piece[2], role) \in ItemOf(Val)
                                /\ X!Item(piece[1], piece[2], role).type = piece[1]
                                /\ X!Item(piece[1], piece[2], role).value = piece[2]
  BY DEF PartOf, ItemOf, X!Item
<1>2. /\ Made(Val, role) \in [PartOf(Val) -> Seq(ItemOf(Val))]
      /\ << >> \in Seq(ItemOf(Val))
  BY <1>1 DEF Made
<1>3. Kept(Val) \in [PartOf(Val) -> Seq(PartOf(Val))]
  BY DEF Kept
<1>4. KeptMade(Val, role) \in [PartOf(Val) -> Seq(ItemOf(Val))]
  <2> DEFINE P == PartOf(Val)
             I == ItemOf(Val)
             make == Made(Val, role)
  <2> HIDE DEF P, I, make
  <2>1. make \in [P -> Seq(I)] /\ << >> \in Seq(I)
    BY <1>2 DEF P, I, make
  <2>2. [piece \in P |-> IF piece[2] # Empty THEN make[piece] ELSE << >>] \in [P -> Seq(I)]
    BY <2>1
  <2> QED
    BY <2>2 DEF P, I, make, KeptMade
<1> QED
  BY <1>1, <1>2, <1>3, <1>4

\* What the items of a list of parts give a reader is what the parts give.
LEMMA ItemsOfParts ==
  ASSUME NEW Val, NEW type, NEW role \in Role, NEW s \in Seq(PartOf(Val))
  PROVE  /\ Each(s, Made(Val, role)) \in Seq(ItemOf(Val))
         /\ Each(Each(s, Kept(Val)), Made(Val, role)) \in Seq(ItemOf(Val))
         /\ Each(Each(Each(s, Kept(Val)), Made(Val, role)), Taken(Val, type))
              = Each(s, Wanted(Val, type))
<1> DEFINE P    == PartOf(Val)
           I    == ItemOf(Val)
           make == Made(Val, role)
           keep == Kept(Val)
           both == KeptMade(Val, role)
           take == Taken(Val, type)
           want == Wanted(Val, type)
<1>1. /\ make \in [P -> Seq(I)] /\ keep \in [P -> Seq(P)] /\ both \in [P -> Seq(I)]
      /\ take \in [I -> Seq(Val)] /\ want \in [P -> Seq(Val)] /\ s \in Seq(P)
  BY MadeTypes, TakenType, WantedType
<1> HIDE DEF P, I, make, keep, both, take, want
<1>2. \A piece \in P : both[piece] = Each(keep[piece], make)
  <2> TAKE piece \in P
  <2>1. keep[piece] = (IF piece[2] # Empty THEN <<piece>> ELSE << >>)
    BY DEF Kept, keep, P
  <2>2. both[piece] = (IF piece[2] # Empty THEN make[piece] ELSE << >>)
    BY DEF KeptMade, both, make, P
  <2>3. Each(<<piece>>, make) = make[piece]
    <3>1. make \in [P -> Seq(I)]
      BY <1>1
    <3> QED
      BY <3>1, EachOne
  <2> QED
    BY <2>1, <2>2, <2>3, EachEmpty
<1>3. \A piece \in P : want[piece] = Each(both[piece], take)
  <2> TAKE piece \in P
  <2> DEFINE item == X!Item(piece[1], piece[2], role)
  <2>1. item \in I /\ item.type = piece[1] /\ item.value = piece[2]
    BY MadeTypes DEF P, I
  <2> HIDE DEF item
  <2>2. both[piece] = (IF piece[2] # Empty THEN <<item>> ELSE << >>)
    BY DEF KeptMade, both, Made, item, P
  <2>3. Each(<<item>>, take) = take[item]
    <3>1. take \in [I -> Seq(Val)] /\ item \in I
      BY <1>1, <2>1
    <3> QED
      BY <3>1, EachOne
  <2>4. piece[2] # Empty => take[item] = want[piece]
    BY <2>1 DEF Taken, Wanted, take, want, P, I
  <2>5. piece[2] = Empty => want[piece] = << >>
    BY DEF Wanted, want, P
  <2> QED
    BY <2>2, <2>3, <2>4, <2>5, EachEmpty
<1>4. \A z \in Seq(P) : Each(z, make) \in Seq(I)
  BY <1>1, EachType
<1>5. Each(s, keep) \in Seq(P)
  BY <1>1, EachType
<1>6. Each(Each(s, keep), make) = Each(s, both)
  <2>1. Fuses(P, P, I, keep, make, both)
    BY <1>1, <1>2 DEF Fuses
  <2> QED
    BY <1>1, <2>1, EachEach
<1>7. Each(Each(s, both), take) = Each(s, want)
  <2>1. Fuses(P, I, Val, both, take, want)
    BY <1>1, <1>3 DEF Fuses
  <2> QED
    BY <1>1, <2>1, EachEach
<1> QED
  BY <1>1, <1>4, <1>5, <1>6, <1>7 DEF P, I, make, keep, both, take, want

\* Of one message: the items hold what was said.
LEMMA MessageItems ==
  ASSUME NEW Val, NEW m \in MessageOf(Val), NEW type \in {"text", "image"}
  PROVE  /\ X!Items(m) \in Seq(ItemOf(Val))
         /\ Each(X!Items(m), Taken(Val, type)) = X!Said(m.content, type)
<1> DEFINE c    == m.content
           role == IF c # Null /\ c[1] = "string" THEN m.role ELSE "user"
<1>1. c \in ContentOf(Val) /\ role \in Role
  <2>1. m.content \in ContentOf(Val) /\ m.role \in Role
    BY MessageTypes
  <2>2. "user" \in Role
    BY DEF Role
  <2> HIDE DEF c
  <2>3. role \in Role
    BY <2>1, <2>2
  <2> QED
    BY <2>1, <2>3 DEF c
<1>2. X!Items(m) = Each(X!Parts(c), Made(Val, role))
  <2> DEFINE s == X!Parts(c)
             u == [i \in DOMAIN s |-> <<X!Item(s[i][1], s[i][2], role)>>]
  <2>1. X!Items(m) = X!FlattenSeq(u)
    BY DEF X!Items, X!FlatMap
  <2>2. s \in Seq(PartOf(Val))
    BY <1>1, PartsType
  <2>3. u = [i \in DOMAIN s |-> Made(Val, role)[s[i]]]
    <3> HIDE DEF s, role
    <3> QED
      BY <2>2 DEF Made
  <2> QED
    BY <2>1, <2>3, SameFlatten DEF Each
<1>3. X!Said(c, type) = Each(X!Given(c), Wanted(Val, type))
  BY <1>1, SaidEach
<1> HIDE DEF c, role
<1>4. X!Parts(c) \in Seq(PartOf(Val)) /\ X!Given(c) \in Seq(PartOf(Val))
  BY <1>1, PartsType
<1>5. X!Items(m) \in Seq(ItemOf(Val))
  BY <1>1, <1>2, <1>4, ItemsOfParts
<1>6. CASE c = Null
  <2>1. X!Parts(c) = << >> /\ X!Given(c) = << >>
    BY <1>1, <1>6, Forms
  <2> QED
    BY <1>2, <1>5, <1>3, <2>1, EachEmpty DEF c
<1>7. CASE c # Null /\ c[1] = "string"
  <2> DEFINE piece == <<"text", c[2]>>
             item == X!Item(piece[1], piece[2], role)
  <2>1. X!Parts(c) = <<piece>> /\ X!Given(c) = <<piece>> /\ piece \in PartOf(Val)
    BY <1>1, <1>7, Forms
  <2>2. piece[1] = "text"
    OBVIOUS
  <2> HIDE DEF piece
  <2>3. item \in ItemOf(Val) /\ item.type = piece[1] /\ item.value = piece[2]
    BY <1>1, <2>1, MadeTypes
  <2>4. Made(Val, role)[piece] = <<item>>
    BY <2>1 DEF Made
  <2> HIDE DEF item
  <2>5. X!Items(m) = <<item>>
    <3> DEFINE P == PartOf(Val)
               I == ItemOf(Val)
               make == Made(Val, role)
    <3>1. make \in [P -> Seq(I)] /\ piece \in P
      BY <1>1, <2>1, MadeTypes
    <3> HIDE DEF P, I, make
    <3>2. Each(<<piece>>, make) = make[piece]
      BY <3>1, EachOne
    <3> QED
      BY <1>2, <2>1, <2>4, <3>2 DEF make
  <2>6. X!Said(c, type) = Wanted(Val, type)[piece]
    BY <1>3, <2>1, WantedType, EachOne
  <2>7. Each(<<item>>, Taken(Val, type)) = Taken(Val, type)[item]
    BY <2>3, TakenType, EachOne
  <2>8. Taken(Val, type)[item] = Wanted(Val, type)[piece]
    BY <2>1, <2>2, <2>3 DEF Taken, Wanted
  <2> QED
    BY <1>5, <2>5, <2>6, <2>7, <2>8 DEF c
<1>8. CASE c # Null /\ c[1] # "string"
  <2>1. X!Parts(c) = Each(X!Given(c), Kept(Val))
    BY <1>1, <1>8, Forms DEF Kept
  <2>2. Each(X!Items(m), Taken(Val, type)) = Each(X!Given(c), Wanted(Val, type))
    BY <1>1, <1>2, <1>4, <2>1, ItemsOfParts
  <2> QED
    BY <1>3, <1>5, <2>2 DEF c
<1> QED
  BY <1>6, <1>7, <1>8

\* The passes of a request.
Others(Val)  == [m \in MessageOf(Val) |-> IF ~X!IsSystem(m) THEN <<m>> ELSE << >>]
Systems(Val) == [m \in MessageOf(Val) |-> IF X!IsSystem(m) THEN <<m>> ELSE << >>]
ItemsOf(Val) == [m \in MessageOf(Val) |-> X!Items(m)]
Saids(Val, type) == [m \in MessageOf(Val) |-> X!Said(m.content, type)]
SaidBy(Val, type, system) ==
  [m \in MessageOf(Val) |-> IF X!IsSystem(m) = system THEN X!Said(m.content, type) ELSE << >>]
Prompts(Val)   == [m \in MessageOf(Val) |-> X!SystemTexts(m.content)]
TextsOf(Val)   == [piece \in PartOf(Val) |->
                     IF piece[1] = "text" /\ piece[2] # Empty THEN <<piece>> ELSE << >>]
Seconds(Val)   == [piece \in PartOf(Val) |-> <<piece[2]>>]
OfTypes(Val, type) == [item \in ItemOf(Val) |-> IF item.type = type THEN <<item>> ELSE << >>]
AsData(Val)    == [item \in ItemOf(Val) |-> IF item.value \notin NotData THEN <<item>> ELSE << >>]
ValueOf(Val)   == [item \in ItemOf(Val) |-> <<item.value>>]
NotEmpty(Val)  == [text \in Val |-> IF text # Empty THEN <<text>> ELSE << >>]

LEMMA OthersEach ==
  ASSUME NEW Val, NEW s \in Seq(MessageOf(Val))
  PROVE  X!Keep(s, LAMBDA msg : ~X!IsSystem(msg)) = Each(s, Others(Val))
<1> DEFINE u == [i \in DOMAIN s |-> IF ~X!IsSystem(s[i]) THEN <<s[i]>> ELSE << >>]
<1>1. X!Keep(s, LAMBDA msg : ~X!IsSystem(msg)) = X!FlattenSeq(u)
  BY DEF X!Keep, X!FlatMap
<1>2. u = [i \in DOMAIN s |-> Others(Val)[s[i]]]
  BY DEF Others
<1> QED
  BY <1>1, <1>2, SameFlatten DEF Each

LEMMA SystemsEach ==
  ASSUME NEW Val, NEW s \in Seq(MessageOf(Val))
  PROVE  X!Keep(s, X!IsSystem) = Each(s, Systems(Val))
<1> DEFINE u == [i \in DOMAIN s |-> IF X!IsSystem(s[i]) THEN <<s[i]>> ELSE << >>]
<1>1. X!Keep(s, X!IsSystem) = X!FlattenSeq(u)
  BY DEF X!Keep, X!FlatMap
<1>2. u = [i \in DOMAIN s |-> Systems(Val)[s[i]]]
  BY DEF Systems
<1> QED
  BY <1>1, <1>2, SameFlatten DEF Each

LEMMA ItemsEach ==
  ASSUME NEW Val, NEW s \in Seq(MessageOf(Val))
  PROVE  X!FlatMap(s, X!Items) = Each(s, ItemsOf(Val))
<1> DEFINE u == [i \in DOMAIN s |-> X!Items(s[i])]
<1>1. X!FlatMap(s, X!Items) = X!FlattenSeq(u)
  BY DEF X!FlatMap
<1>2. u = [i \in DOMAIN s |-> ItemsOf(Val)[s[i]]]
  BY DEF ItemsOf
<1> QED
  BY <1>1, <1>2, SameFlatten DEF Each

LEMMA AllSaidEach ==
  ASSUME NEW Val, NEW s \in Seq(MessageOf(Val)), NEW type, NEW system
  PROVE  X!AllSaid(s, type, system) = Each(s, SaidBy(Val, type, system))
<1> DEFINE u == [i \in DOMAIN s |-> IF X!IsSystem(s[i]) = system THEN X!Said(s[i].content, type) ELSE << >>]
<1>1. X!AllSaid(s, type, system) = X!FlattenSeq(u)
  BY DEF X!AllSaid, X!FlatMap
<1>2. u = [i \in DOMAIN s |-> SaidBy(Val, type, system)[s[i]]]
  BY DEF SaidBy
<1> QED
  BY <1>1, <1>2, SameFlatten DEF Each

LEMMA PromptsEach ==
  ASSUME NEW Val, NEW s \in Seq(MessageOf(Val))
  PROVE  X!FlatMap(s, LAMBDA msg : X!SystemTexts(msg.content)) = Each(s, Prompts(Val))
<1> DEFINE u == [i \in DOMAIN s |-> X!SystemTexts(s[i].content)]
<1>1. X!FlatMap(s, LAMBDA msg : X!SystemTexts(msg.content)) = X!FlattenSeq(u)
  BY DEF X!FlatMap
<1>2. u = [i \in DOMAIN s |-> Prompts(Val)[s[i]]]
  BY DEF Prompts
<1> QED
  BY <1>1, <1>2, SameFlatten DEF Each

LEMMA TextsEach ==
  ASSUME NEW Val, NEW s \in Seq(PartOf(Val))
  PROVE  X!Keep(s, LAMBDA piece : piece[1] = "text" /\ piece[2] # Empty) = Each(s, TextsOf(Val))
<1> DEFINE u == [i \in DOMAIN s |-> IF s[i][1] = "text" /\ s[i][2] # Empty THEN <<s[i]>> ELSE << >>]
<1>1. X!Keep(s, LAMBDA piece : piece[1] = "text" /\ piece[2] # Empty) = X!FlattenSeq(u)
  BY DEF X!Keep, X!FlatMap
<1>2. u = [i \in DOMAIN s |-> TextsOf(Val)[s[i]]]
  BY DEF TextsOf
<1> QED
  BY <1>1, <1>2, SameFlatten DEF Each

LEMMA SecondsEach ==
  ASSUME NEW Val, NEW s \in Seq(PartOf(Val))
  PROVE  X!FlatMap(s, LAMBDA piece : <<piece[2]>>) = Each(s, Seconds(Val))
<1> DEFINE u == [i \in DOMAIN s |-> <<s[i][2]>>]
<1>1. X!FlatMap(s, LAMBDA piece : <<piece[2]>>) = X!FlattenSeq(u)
  BY DEF X!FlatMap
<1>2. u = [i \in DOMAIN s |-> Seconds(Val)[s[i]]]
  BY DEF Seconds
<1> QED
  BY <1>1, <1>2, SameFlatten DEF Each

LEMMA OfTypeEach ==
  ASSUME NEW Val, NEW s \in Seq(ItemOf(Val)), NEW type
  PROVE  X!OfType(s, type) = Each(s, OfTypes(Val, type))
<1> DEFINE u == [i \in DOMAIN s |-> IF s[i].type = type THEN <<s[i]>> ELSE << >>]
<1>1. X!OfType(s, type) = X!FlattenSeq(u)
  BY DEF X!OfType, X!Keep, X!FlatMap
<1>2. u = [i \in DOMAIN s |-> OfTypes(Val, type)[s[i]]]
  BY DEF OfTypes
<1> QED
  BY <1>1, <1>2, SameFlatten DEF Each

LEMMA AsDataEach ==
  ASSUME NEW Val, NEW s \in Seq(ItemOf(Val))
  PROVE  X!Keep(s, LAMBDA image : image.value \notin NotData) = Each(s, AsData(Val))
<1> DEFINE u == [i \in DOMAIN s |-> IF s[i].value \notin NotData THEN <<s[i]>> ELSE << >>]
<1>1. X!Keep(s, LAMBDA image : image.value \notin NotData) = X!FlattenSeq(u)
  BY DEF X!Keep, X!FlatMap
<1>2. u = [i \in DOMAIN s |-> AsData(Val)[s[i]]]
  BY DEF AsData
<1> QED
  BY <1>1, <1>2, SameFlatten DEF Each

LEMMA ValuesEach ==
  ASSUME NEW Val, NEW s \in Seq(ItemOf(Val))
  PROVE  X!Values(s) = Each(s, ValueOf(Val))
<1> DEFINE u == [i \in DOMAIN s |-> <<s[i].value>>]
<1>1. X!Values(s) = X!FlattenSeq(u)
  BY DEF X!Values, X!FlatMap
<1>2. u = [i \in DOMAIN s |-> ValueOf(Val)[s[i]]]
  BY DEF ValueOf
<1> QED
  BY <1>1, <1>2, SameFlatten DEF Each

LEMMA NotEmptyEach ==
  ASSUME NEW Val, NEW s \in Seq(Val)
  PROVE  X!Keep(s, LAMBDA text : text # Empty) = Each(s, NotEmpty(Val))
<1> DEFINE u == [i \in DOMAIN s |-> IF s[i] # Empty THEN <<s[i]>> ELSE << >>]
<1>1. X!Keep(s, LAMBDA text : text # Empty) = X!FlattenSeq(u)
  BY DEF X!Keep, X!FlatMap
<1>2. u = [i \in DOMAIN s |-> NotEmpty(Val)[s[i]]]
  BY DEF NotEmpty
<1> QED
  BY <1>1, <1>2, SameFlatten DEF Each

LEMMA PassTypes ==
  ASSUME NEW Val, NEW type \in {"text", "image"}, NEW system
  PROVE  /\ Others(Val) \in [MessageOf(Val) -> Seq(MessageOf(Val))]
         /\ Systems(Val) \in [MessageOf(Val) -> Seq(MessageOf(Val))]
         /\ ItemsOf(Val) \in [MessageOf(Val) -> Seq(ItemOf(Val))]
         /\ Saids(Val, type) \in [MessageOf(Val) -> Seq(Val)]
         /\ SaidBy(Val, type, system) \in [MessageOf(Val) -> Seq(Val)]
         /\ Prompts(Val) \in [MessageOf(Val) -> Seq(PartOf(Val))]
         /\ TextsOf(Val) \in [PartOf(Val) -> Seq(PartOf(Val))]
         /\ Seconds(Val) \in [PartOf(Val) -> Seq(Val)]
         /\ OfTypes(Val, type) \in [ItemOf(Val) -> Seq(ItemOf(Val))]
         /\ AsData(Val) \in [ItemOf(Val) -> Seq(ItemOf(Val))]
         /\ ValueOf(Val) \in [ItemOf(Val) -> Seq(Val)]
         /\ NotEmpty(Val) \in [Val -> Seq(Val)]
<1>1. Others(Val) \in [MessageOf(Val) -> Seq(MessageOf(Val))]
  BY DEF Others
<1>2. Systems(Val) \in [MessageOf(Val) -> Seq(MessageOf(Val))]
  BY DEF Systems
<1>3. ItemsOf(Val) \in [MessageOf(Val) -> Seq(ItemOf(Val))]
  BY MessageItems DEF ItemsOf
<1>4. \A m \in MessageOf(Val) : X!Said(m.content, type) \in Seq(Val)
  <2> TAKE m \in MessageOf(Val)
  <2> DEFINE c == m.content
             P == PartOf(Val)
             want == Wanted(Val, type)
  <2>1. c \in ContentOf(Val)
    BY MessageTypes
  <2> HIDE DEF c
  <2>2. X!Said(c, type) = Each(X!Given(c), want) /\ X!Given(c) \in Seq(P)
    BY <2>1, SaidEach, PartsType
  <2>3. want \in [P -> Seq(Val)]
    BY WantedType
  <2> HIDE DEF P, want
  <2>4. Each(X!Given(c), want) \in Seq(Val)
    BY <2>2, <2>3, EachType
  <2> QED
    BY <2>2, <2>4 DEF c
<1>5. Saids(Val, type) \in [MessageOf(Val) -> Seq(Val)]
  BY <1>4 DEF Saids
<1>6. SaidBy(Val, type, system) \in [MessageOf(Val) -> Seq(Val)]
  <2>1. << >> \in Seq(Val)
    OBVIOUS
  <2> QED
    BY <1>4, <2>1 DEF SaidBy
<1>7. \A m \in MessageOf(Val) : X!SystemTexts(m.content) \in Seq(PartOf(Val))
  <2> TAKE m \in MessageOf(Val)
  <2> DEFINE P == PartOf(Val)
             texts == TextsOf(Val)
             s == X!Parts(m.content)
  <2>1. s \in Seq(P)
    BY MessageTypes, PartsType
  <2>2. X!SystemTexts(m.content) = Each(s, texts)
    BY <2>1, TextsEach DEF X!SystemTexts
  <2>3. texts \in [P -> Seq(P)]
    BY DEF TextsOf
  <2> HIDE DEF P, texts, s
  <2>4. Each(s, texts) \in Seq(P)
    BY <2>1, <2>3, EachType
  <2> QED
    BY <2>2, <2>4 DEF P
<1>8. Prompts(Val) \in [MessageOf(Val) -> Seq(PartOf(Val))]
  BY <1>7 DEF Prompts
<1>9. TextsOf(Val) \in [PartOf(Val) -> Seq(PartOf(Val))]
  BY DEF TextsOf
<1>10. Seconds(Val) \in [PartOf(Val) -> Seq(Val)]
  <2>1. \A piece \in PartOf(Val) : piece[2] \in Val
    BY DEF PartOf
  <2> QED
    BY <2>1 DEF Seconds
<1>11. OfTypes(Val, type) \in [ItemOf(Val) -> Seq(ItemOf(Val))]
  BY DEF OfTypes
<1>12. AsData(Val) \in [ItemOf(Val) -> Seq(ItemOf(Val))]
  BY DEF AsData
<1>13. ValueOf(Val) \in [ItemOf(Val) -> Seq(Val)]
  <2>1. \A item \in ItemOf(Val) : item.value \in Val
    BY DEF ItemOf
  <2> QED
    BY <2>1 DEF ValueOf
<1>14. NotEmpty(Val) \in [Val -> Seq(Val)]
  BY DEF NotEmpty
<1> QED
  BY <1>1, <1>2, <1>3, <1>5, <1>6, <1>8, <1>9, <1>10, <1>11, <1>12, <1>13, <1>14

\* Of the items of a request: what the passes of buildChat() leave.
LEMMA ReadItems ==
  ASSUME NEW Val, NEW items \in Seq(ItemOf(Val))
  PROVE  /\ X!Keep(X!Values(X!OfType(items, "text")), LAMBDA text : text # Empty)
              = Each(items, Taken(Val, "text"))
         /\ X!Values(X!Keep(X!OfType(items, "image"), LAMBDA image : image.value \notin NotData))
              = Each(items, Taken(Val, "image"))
<1> DEFINE I == ItemOf(Val)
           text == OfTypes(Val, "text")
           image == OfTypes(Val, "image")
           data == AsData(Val)
           value == ValueOf(Val)
           full == NotEmpty(Val)
           values == [item \in ItemOf(Val) |-> IF item.type = "text" THEN <<item.value>> ELSE << >>]
           datas == [item \in ItemOf(Val) |->
                       IF item.type = "image" /\ item.value \notin NotData THEN <<item>> ELSE << >>]
           texts == Taken(Val, "text")
           images == Taken(Val, "image")
<1>1. /\ text \in [I -> Seq(I)] /\ image \in [I -> Seq(I)] /\ data \in [I -> Seq(I)]
      /\ value \in [I -> Seq(Val)] /\ full \in [Val -> Seq(Val)]
      /\ texts \in [I -> Seq(Val)] /\ images \in [I -> Seq(Val)]
  BY PassTypes, TakenType
<1>2. datas \in [I -> Seq(I)]
  OBVIOUS
<1>3. \A item \in I : item.value \in Val
  BY DEF ItemOf
<1>4. values \in [I -> Seq(Val)]
  BY <1>3
<1>5. /\ \A item \in I : text[item] = (IF item.type = "text" THEN <<item>> ELSE << >>)
      /\ \A item \in I : image[item] = (IF item.type = "image" THEN <<item>> ELSE << >>)
      /\ \A item \in I : data[item] = (IF item.value \notin NotData THEN <<item>> ELSE << >>)
      /\ \A item \in I : value[item] = <<item.value>>
      /\ \A val \in Val : full[val] = (IF val # Empty THEN <<val>> ELSE << >>)
  BY DEF OfTypes, AsData, ValueOf, NotEmpty
<1>6. /\ \A item \in I : values[item] = (IF item.type = "text" THEN <<item.value>> ELSE << >>)
      /\ \A item \in I : datas[item] = (IF item.type = "image" /\ item.value \notin NotData
                                        THEN <<item>> ELSE << >>)
  OBVIOUS
<1>7. /\ \A item \in I : texts[item] = (IF item.type = "text" /\ item.value # Empty
                                        THEN <<item.value>> ELSE << >>)
      /\ \A item \in I : images[item] = (IF item.type = "image" /\ item.value \notin NotData
                                         THEN <<item.value>> ELSE << >>)
  BY DEF Taken
<1>8. items \in Seq(I)
  OBVIOUS
<1>9. \A s \in Seq(I) : /\ X!OfType(s, "text") = Each(s, text)
                        /\ X!OfType(s, "image") = Each(s, image)
                        /\ X!Values(s) = Each(s, value)
                        /\ X!Keep(s, LAMBDA it : it.value \notin NotData) = Each(s, data)
  BY OfTypeEach, ValuesEach, AsDataEach
<1>10. \A s \in Seq(Val) : X!Keep(s, LAMBDA val : val # Empty) = Each(s, full)
  BY NotEmptyEach
<1> HIDE DEF I, text, image, data, value, full, values, datas, texts, images
<1>11. /\ \A item \in I : Each(<<item>>, value) = value[item] /\ Each(<<item>>, data) = data[item]
       /\ \A val \in Val : Each(<<val>>, full) = full[val]
  BY <1>1, EachOne
<1>12. \A item \in I : values[item] = Each(text[item], value)
  BY <1>5, <1>6, <1>11, EachEmpty
<1>13. \A item \in I : texts[item] = Each(values[item], full)
  <2> TAKE item \in I
  <2>1. CASE item.type = "text"
    <3>1. values[item] = <<item.value>> /\ texts[item] = full[item.value]
      BY <1>3, <1>5, <1>6, <1>7, <2>1
    <3> QED
      BY <1>3, <1>11, <3>1
  <2>2. CASE item.type # "text"
    <3>1. values[item] = << >> /\ texts[item] = << >>
      BY <1>6, <1>7, <2>2
    <3> QED
      BY <3>1, EachEmpty
  <2> QED
    BY <2>1, <2>2
<1>14. \A item \in I : datas[item] = Each(image[item], data)
  BY <1>5, <1>6, <1>11, EachEmpty
<1>15. \A item \in I : images[item] = Each(datas[item], value)
  BY <1>5, <1>6, <1>7, <1>11, EachEmpty
<1>16. /\ Fuses(I, I, Val, text, value, values) /\ Fuses(I, Val, Val, values, full, texts)
       /\ Fuses(I, I, I, image, data, datas) /\ Fuses(I, I, Val, datas, value, images)
  BY <1>1, <1>2, <1>4, <1>12, <1>13, <1>14, <1>15 DEF Fuses
<1>17. /\ Each(items, text) \in Seq(I) /\ Each(items, image) \in Seq(I)
       /\ Each(items, datas) \in Seq(I) /\ Each(items, values) \in Seq(Val)
  BY <1>1, <1>2, <1>4, <1>8, EachType
<1>18. /\ Each(Each(items, text), value) = Each(items, values)
       /\ Each(Each(items, values), full) = Each(items, texts)
       /\ Each(Each(items, image), data) = Each(items, datas)
       /\ Each(Each(items, datas), value) = Each(items, images)
  BY <1>8, <1>16, EachEach
<1>19. X!Values(X!OfType(items, "text")) = Each(items, values)
  BY <1>8, <1>9, <1>17, <1>18
<1>20. X!Keep(X!OfType(items, "image"), LAMBDA it : it.value \notin NotData) = Each(items, datas)
  BY <1>8, <1>9, <1>17, <1>18
<1> QED
  BY <1>9, <1>10, <1>17, <1>18, <1>19, <1>20 DEF texts, images

\* buildInput() and buildChat(): whatever the shape, the items are those of the
\* messages.
LEMMA InputItems ==
  ASSUME NEW Val, NEW rest \in Seq(MessageOf(Val))
  PROVE  LET input == X!Input(rest)
         IN /\ X!FlatMap(rest, X!Items) \in Seq(ItemOf(Val))
            /\ (IF input.shape = "string" THEN <<input.item>> ELSE input.items)
                 = X!FlatMap(rest, X!Items)
<1> DEFINE M == MessageOf(Val)
           I == ItemOf(Val)
           of == ItemsOf(Val)
           items == X!FlatMap(rest, X!Items)
           alone == /\ Len(rest) = 1 /\ rest[1].role = "user"
                    /\ rest[1].content # Null /\ rest[1].content[1] = "string"
<1>1. items = Each(rest, of) /\ of \in [M -> Seq(I)] /\ rest \in Seq(M)
  BY ItemsEach, PassTypes
<1>2. items \in Seq(I)
  <2> HIDE DEF M, I, of, items
  <2> QED
    BY <1>1, EachType
<1>3. X!Input(rest) = IF alone \/ (Len(items) = 1 /\ items[1].type = "text")
                      THEN [shape |-> "string", item |-> items[1]]
                      ELSE [shape |-> "array", items |-> items]
  BY DEF X!Input
<1>4. ASSUME alone
      PROVE  Len(items) = 1
  <2> DEFINE m == rest[1]
             c == m.content
  <2>1. m \in M /\ rest = <<m>>
    BY <1>4
  <2>2. Each(<<m>>, of) = of[m]
    <3> HIDE DEF M, I, of, m
    <3> QED
      BY <1>1, <2>1, EachOne
  <2>3. items = X!Items(m)
    BY <1>1, <2>1, <2>2 DEF ItemsOf
  <2>4. c \in ContentOf(Val) /\ c # Null /\ c[1] = "string"
    BY <1>4, <2>1, MessageTypes
  <2>5. X!Parts(c) = << <<"text", c[2]>> >>
    <3> HIDE DEF c
    <3> QED
      BY <2>4, Forms
  <2> DEFINE piece == <<"text", c[2]>>
             role == IF c # Null /\ c[1] = "string" THEN m.role ELSE "user"
             u == [i \in DOMAIN X!Parts(c) |-> <<X!Item(X!Parts(c)[i][1], X!Parts(c)[i][2], role)>>]
  <2>6. X!Items(m) = X!FlattenSeq(u)
    BY DEF X!Items, X!FlatMap
  <2>7. u = << <<X!Item("text", c[2], role)>> >>
    <3> HIDE DEF c, role
    <3>1. piece[1] = "text" /\ piece[2] = c[2] /\ X!Parts(c) = <<piece>>
      BY <2>5
    <3> HIDE DEF piece
    <3> QED
      BY <3>1
  <2>8. \A x : FlattenSeq(<< <<x>> >>) = <<x>>
    <3> TAKE x
    <3>1. << >> \in Seq(Seq({x})) /\ <<x>> \in Seq({x}) /\ Append(<< >>, <<x>>) = << <<x>> >>
      OBVIOUS
    <3>2. FlattenSeq(<< <<x>> >>) = << >> \o <<x>>
      BY <3>1, FlattenAppend, FlattenEmpty
    <3> QED
      BY <3>2
  <2> HIDE DEF u, c, role, items, m
  <2>9. items = <<X!Item("text", c[2], role)>>
    BY <2>3, <2>6, <2>7, <2>8, SameFlatten
  <2> QED
    BY <2>9
<1> HIDE DEF items, alone
<1>5. CASE Len(items) = 1
  <2>1. items = <<items[1]>>
    BY <1>2, <1>5
  <2> QED
    BY <1>2, <1>3, <1>4, <2>1 DEF items
<1>6. CASE Len(items) # 1
  BY <1>2, <1>3, <1>4, <1>6 DEF items
<1> QED
  BY <1>5, <1>6

\* The texts and images of a request that are no system message's.
LEMMA SaidByOthers ==
  ASSUME NEW Val, NEW s \in Seq(MessageOf(Val)), NEW type \in {"text", "image"}
  PROVE  /\ X!Keep(s, LAMBDA msg : ~X!IsSystem(msg)) \in Seq(MessageOf(Val))
         /\ Each(X!FlatMap(X!Keep(s, LAMBDA msg : ~X!IsSystem(msg)), X!Items), Taken(Val, type))
              = X!AllSaid(s, type, FALSE)
<1> DEFINE M == MessageOf(Val)
           I == ItemOf(Val)
           others == Others(Val)
           of == ItemsOf(Val)
           take == Taken(Val, type)
           said == Saids(Val, type)
           by == SaidBy(Val, type, FALSE)
           rest == X!Keep(s, LAMBDA msg : ~X!IsSystem(msg))
<1>1. /\ others \in [M -> Seq(M)] /\ of \in [M -> Seq(I)] /\ take \in [I -> Seq(Val)]
      /\ said \in [M -> Seq(Val)] /\ by \in [M -> Seq(Val)] /\ s \in Seq(M)
  BY PassTypes, TakenType
<1>2. rest = Each(s, others) /\ X!AllSaid(s, type, FALSE) = Each(s, by)
  BY OthersEach, AllSaidEach
<1>3. \A m \in M : said[m] = Each(of[m], take)
  BY MessageItems DEF Saids, ItemsOf
<1>4. \A m \in M : others[m] = (IF ~X!IsSystem(m) THEN <<m>> ELSE << >>)
  BY DEF Others
<1>5. \A m \in M : by[m] = (IF ~X!IsSystem(m) THEN said[m] ELSE << >>)
  BY DEF SaidBy, Saids, X!IsSystem
<1>6. \A z \in Seq(M) : X!FlatMap(z, X!Items) = Each(z, of)
  BY ItemsEach
<1> HIDE DEF M, I, others, of, take, said, by, rest
<1>7. \A m \in M : Each(<<m>>, said) = said[m]
  BY <1>1, EachOne
<1>8. \A m \in M : by[m] = Each(others[m], said)
  BY <1>4, <1>5, <1>7, EachEmpty
<1>9. Fuses(M, I, Val, of, take, said) /\ Fuses(M, M, Val, others, said, by)
  BY <1>1, <1>3, <1>8 DEF Fuses
<1>10. rest \in Seq(M)
  BY <1>1, <1>2, EachType
<1>11. Each(Each(rest, of), take) = Each(rest, said)
  BY <1>9, <1>10, EachEach
<1>12. Each(Each(s, others), said) = Each(s, by)
  BY <1>1, <1>9, EachEach
<1> QED
  BY <1>2, <1>6, <1>10, <1>11, <1>12 DEF rest, M, take

\* The texts of the system messages.
LEMMA SaidBySystem ==
  ASSUME NEW Val, NEW s \in Seq(MessageOf(Val))
  PROVE  X!FlatMap(X!SystemPrompt(s), LAMBDA piece : <<piece[2]>>) = X!AllSaid(s, "text", TRUE)
<1> DEFINE M == MessageOf(Val)
           P == PartOf(Val)
           systems == Systems(Val)
           prompt == Prompts(Val)
           second == Seconds(Val)
           texts == TextsOf(Val)
           want == Wanted(Val, "text")
           said == Saids(Val, "text")
           by == SaidBy(Val, "text", TRUE)
<1>1. /\ systems \in [M -> Seq(M)] /\ prompt \in [M -> Seq(P)] /\ second \in [P -> Seq(Val)]
      /\ texts \in [P -> Seq(P)] /\ want \in [P -> Seq(Val)]
      /\ said \in [M -> Seq(Val)] /\ by \in [M -> Seq(Val)] /\ s \in Seq(M)
  BY PassTypes, WantedType
<1>2. X!Keep(s, X!IsSystem) = Each(s, systems)
  BY SystemsEach
<1>3. \A z \in Seq(M) : X!FlatMap(z, LAMBDA msg : X!SystemTexts(msg.content)) = Each(z, prompt)
  BY PromptsEach
<1>4. \A z \in Seq(P) : X!FlatMap(z, LAMBDA piece : <<piece[2]>>) = Each(z, second)
  BY SecondsEach
<1>5. X!AllSaid(s, "text", TRUE) = Each(s, by)
  BY AllSaidEach
<1>6. /\ \A piece \in P : texts[piece] = (IF piece[1] = "text" /\ piece[2] # Empty
                                        THEN <<piece>> ELSE << >>)
      /\ \A piece \in P : second[piece] = <<piece[2]>>
      /\ \A piece \in P : want[piece] = (IF piece[1] = "text" /\ piece[2] # Empty
                                       THEN <<piece[2]>> ELSE << >>)
      /\ \A m \in M : systems[m] = (IF X!IsSystem(m) THEN <<m>> ELSE << >>)
      /\ \A m \in M : by[m] = (IF X!IsSystem(m) THEN said[m] ELSE << >>)
      /\ \A m \in M : prompt[m] = X!SystemTexts(m.content)
      /\ \A m \in M : said[m] = X!Said(m.content, "text")
  BY DEF TextsOf, Seconds, Wanted, Systems, SaidBy, Prompts, Saids, X!IsSystem
<1>7. \A z \in Seq(P) : Each(Each(z, texts), second) = Each(z, want)
  <2> HIDE DEF M, P, systems, prompt, second, texts, want, said, by
  <2>1. \A piece \in P : Each(<<piece>>, second) = second[piece]
    BY <1>1, EachOne
  <2>2. \A piece \in P : want[piece] = Each(texts[piece], second)
    BY <1>6, <2>1, EachEmpty
  <2>3. Fuses(P, P, Val, texts, second, want)
    BY <1>1, <2>2 DEF Fuses
  <2> QED
    BY <2>3, EachEach
<1>8. \A m \in M : said[m] = Each(prompt[m], second)
  <2> TAKE m \in M
  <2> DEFINE c == m.content
             parts == X!Parts(c)
             keep == Kept(Val)
  <2>1. c \in ContentOf(Val)
    BY MessageTypes
  <2> HIDE DEF c
  <2>2. parts \in Seq(P) /\ X!Given(c) \in Seq(P)
    BY <2>1, PartsType
  <2>3. X!SystemTexts(c) = Each(parts, texts)
    BY <2>2, TextsEach DEF X!SystemTexts
  <2>4. Each(X!SystemTexts(c), second) = Each(parts, want)
    BY <1>7, <2>2, <2>3
  <2>5. X!Said(c, "text") = Each(X!Given(c), want)
    BY <2>1, SaidEach
  <2>6. X!Given(c) = parts \/ parts = Each(X!Given(c), keep)
    BY <2>1, Forms DEF Kept
  <2>7. Each(Each(X!Given(c), keep), want) = Each(X!Given(c), want)
    <3>1. /\ keep \in [P -> Seq(P)]
          /\ \A piece \in P : keep[piece] = (IF piece[2] # Empty THEN <<piece>> ELSE << >>)
      BY DEF Kept
    <3> HIDE DEF M, P, systems, prompt, second, texts, want, said, by, keep
    <3>2. \A piece \in P : Each(<<piece>>, want) = want[piece]
      BY <1>1, EachOne
    <3>3. \A piece \in P : want[piece] = Each(keep[piece], want)
      BY <1>6, <3>1, <3>2, EachEmpty
    <3>4. Fuses(P, P, Val, keep, want, want)
      BY <1>1, <3>1, <3>3 DEF Fuses
    <3> QED
      BY <2>2, <3>4, EachEach
  <2>8. Each(parts, want) = Each(X!Given(c), want)
    BY <2>6, <2>7
  <2>9. said[m] = X!Said(c, "text") /\ prompt[m] = X!SystemTexts(c)
    BY <1>6 DEF c
  <2> QED
    BY <2>4, <2>5, <2>8, <2>9
<1> HIDE DEF M, P, systems, prompt, second, texts, want, said, by
<1>9. \A m \in M : Each(<<m>>, said) = said[m]
  BY <1>1, EachOne
<1>10. \A m \in M : by[m] = Each(systems[m], said)
  BY <1>6, <1>9, EachEmpty
<1>11. Fuses(M, P, Val, prompt, second, said) /\ Fuses(M, M, Val, systems, said, by)
  BY <1>1, <1>8, <1>10 DEF Fuses
<1>12. Each(s, systems) \in Seq(M)
  BY <1>1, EachType
<1>13. Each(Each(s, systems), prompt) \in Seq(P)
  BY <1>1, <1>12, EachType
<1>14. Each(Each(Each(s, systems), prompt), second) = Each(Each(s, systems), said)
  BY <1>11, <1>12, EachEach
<1>15. Each(Each(s, systems), said) = Each(s, by)
  BY <1>1, <1>11, EachEach
<1>16. X!SystemPrompt(s) = Each(Each(s, systems), prompt)
  BY <1>2, <1>3, <1>12 DEF X!SystemPrompt
<1> QED
  BY <1>4, <1>5, <1>13, <1>14, <1>15, <1>16

\* Of every request, however long and whatever it says, nothing is lost
\* (translateRequest, buildInput, buildChat).
THEOREM EveryRequestIsKept ==
  ASSUME NEW Val, NEW asked \in Seq(MessageOf(Val))
  PROVE  X!NothingIsLost(asked)
<1> DEFINE rest == X!Keep(asked, LAMBDA msg : ~X!IsSystem(msg))
           items == X!FlatMap(rest, X!Items)
           prompt == X!Prompt(asked)
<1>1. rest \in Seq(MessageOf(Val))
  BY SaidByOthers
<1>2. /\ items \in Seq(ItemOf(Val))
      /\ (IF X!Input(rest).shape = "string" THEN <<X!Input(rest).item>> ELSE X!Input(rest).items)
           = items
  <2> HIDE DEF rest
  <2> QED
    BY <1>1, InputItems
<1>3. /\ prompt.system = X!SystemPrompt(asked)
      /\ prompt.texts = X!OfType(items, "text")
      /\ prompt.images = X!Keep(X!OfType(items, "image"), LAMBDA image : image.value \notin NotData)
  <2> DEFINE chat == X!TranslateRequest(asked)
  <2>1. chat.system = X!SystemPrompt(asked) /\ chat.input = X!Input(rest)
    BY DEF X!TranslateRequest
  <2> HIDE DEF chat, rest
  <2>2. X!BuildChat(chat) = [system |-> chat.system, texts |-> X!OfType(items, "text"),
                             images |-> X!Keep(X!OfType(items, "image"),
                                               LAMBDA image : image.value \notin NotData)]
    BY <1>2, <2>1 DEF X!BuildChat
  <2> QED
    BY <2>1, <2>2 DEF X!Prompt, chat
<1>4. /\ Each(items, Taken(Val, "text")) = X!AllSaid(asked, "text", FALSE)
      /\ Each(items, Taken(Val, "image")) = X!AllSaid(asked, "image", FALSE)
  BY SaidByOthers
<1> HIDE DEF rest, items, prompt
<1>5. /\ X!Keep(X!Values(prompt.texts), LAMBDA text : text # Empty)
           = X!AllSaid(asked, "text", FALSE)
      /\ X!Values(prompt.images) = X!AllSaid(asked, "image", FALSE)
  BY <1>2, <1>3, <1>4, ReadItems
<1>6. X!FlatMap(prompt.system, LAMBDA piece : <<piece[2]>>) = X!AllSaid(asked, "text", TRUE)
  BY <1>3, SaidBySystem
<1> QED
  BY <1>5, <1>6 DEF X!NothingIsLost, prompt

-----------------------------------------------------------------------------
(* From a batch to its archive and back *)

LEMMA Selected ==
  ASSUME NEW Elem, NEW s \in Seq(Elem), NEW c, \E i \in DOMAIN s : s[i].cid = c
  PROVE  LET k == A!SelectInSeq(s, LAMBDA block : block.cid = c)
         IN k \in DOMAIN s /\ s[k].cid = c
<1> DEFINE Found == {i \in 1 .. Len(s) : s[i].cid = c}
           k == A!SelectInSeq(s, LAMBDA block : block.cid = c)
<1>1. Found # {} /\ Found \in SUBSET Nat
  OBVIOUS
<1>2. k = A!Min(Found)
  BY <1>1 DEF A!SelectInSeq
<1>3. \E m \in Found : \A j \in Found : m <= j
  <2> HIDE DEF Found
  <2> QED
    BY <1>1, LeastNumber
<1>4. A!Min(Found) \in Found
  BY <1>3 DEF A!Min
<1> QED
  BY <1>2, <1>4

LEMMA CidTells == \A x, y : A!Cid(x) = A!Cid(y) => x = y
<1> TAKE x, y
<1>1. A!Cid(x).hash = x /\ A!Cid(y).hash = y
  BY DEF A!Cid
<1> QED
  BY <1>1

\* Where every block has its own CID, the block under a CID is what was hashed.
LEMMA GetHeld ==
  ASSUME NEW Elem, NEW file, file.blocks \in Seq(Elem), A!Verify(file),
         NEW x, A!Holds(file, A!Cid(x))
  PROVE  A!Get(file, A!Cid(x)) = x
<1> DEFINE s == file.blocks
           c == A!Cid(x)
           k == A!SelectInSeq(s, LAMBDA block : block.cid = c)
<1>1. \E i \in DOMAIN s : s[i].cid = c
  BY DEF A!Holds
<1>2. \A i \in DOMAIN s : s[i].cid = A!Cid(s[i].bytes)
  BY DEF A!Verify
<1>3. A!Get(file, c) = s[k].bytes
  BY DEF A!Get
<1>4. k \in DOMAIN s /\ s[k].cid = c
  <2> HIDE DEF s, c
  <2> QED
    BY <1>1, Selected DEF s
<1> HIDE DEF k
<1>5. A!Cid(s[k].bytes) = A!Cid(x)
  BY <1>2, <1>4
<1> QED
  BY <1>3, <1>5, CidTells

\* Neither mark is anything that is archived or read.
Unmarked(convs, batchId) ==
  /\ A!BatchRoot(convs, batchId) # Garbled
  /\ \A i \in DOMAIN convs : A!Archived(convs[i]) # Garbled
  /\ [i \in DOMAIN convs |-> A!Archived(convs[i])] # Failed

LinesOf(convs) ==
  [i \in DOMAIN convs |-> [id |-> convs[i].id, conversations |-> A!Turns(convs[i])]]

HeldOf(file, s) == A!Keep(s, LAMBDA cid : A!Holds(file, cid))

LEMMA KeepAll ==
  ASSUME NEW Elem, NEW s \in Seq(Elem), NEW file, \A i \in DOMAIN s : A!Holds(file, s[i])
  PROVE  HeldOf(file, s) = s
<1> DEFINE u == [i \in DOMAIN s |-> IF A!Holds(file, s[i]) THEN <<s[i]>> ELSE << >>]
           one == [x \in Elem |-> <<x>>]
<1>1. HeldOf(file, s) = A!FlattenSeq(u)
  BY DEF HeldOf, A!Keep, A!FlatMap
<1>2. u = [i \in DOMAIN s |-> one[s[i]]]
  OBVIOUS
<1>3. A!FlattenSeq(u) = FlattenSeq(u)
  BY DEF A!FlattenSeq, FlattenSeq
<1>4. HeldOf(file, s) = Each(s, one)
  BY <1>1, <1>2, <1>3 DEF Each
<1> QED
  BY <1>4, EachKept

LEMMA VerifiedIsExported ==
  ASSUME NEW Conv, NEW convs \in Seq(Conv), NEW batchId, Unmarked(convs, batchId),
         NEW Elem, NEW file, file.blocks \in Seq(Elem), A!Verify(file),
         file.root = A!Cid(A!BatchRoot(convs, batchId))
  PROVE  A!Export(file) = LinesOf(convs)
<1> DEFINE root == A!BatchRoot(convs, batchId)
           under == [i \in DOMAIN convs |-> A!Cid(A!Archived(convs[i]))]
           kept == [i \in DOMAIN convs |-> A!Archived(convs[i])]
<1>1. A!Holds(file, file.root) /\ A!Get(file, file.root) = root
  BY GetHeld DEF A!Verify
<1>2. A!Links(root) = under
  BY DEF A!Links, A!BatchRoot
<1>3. \A i \in DOMAIN under : A!Holds(file, under[i])
  BY <1>1, <1>2 DEF A!Verify
<1>4. \A i \in DOMAIN convs : A!Get(file, under[i]) = A!Archived(convs[i])
  BY <1>3, GetHeld
<1>5. HeldOf(file, under) = under
  <2>1. under \in Seq({under[i] : i \in DOMAIN under})
    OBVIOUS
  <2> HIDE DEF under
  <2> QED
    BY <1>3, <2>1, KeepAll
<1>6. [i \in DOMAIN under |-> A!Get(file, under[i])] = kept
  BY <1>4
<1>7. ~A!Contains(kept, Garbled)
  <2>1. Len(kept) = Len(convs) /\ DOMAIN convs = 1 .. Len(convs)
    OBVIOUS
  <2> QED
    BY <2>1 DEF A!Contains, Unmarked
<1>8. A!Read(file) = kept
  <2> HIDE DEF root, under, kept
  <2>1. root # Garbled
    BY DEF Unmarked, root
  <2> QED
    BY <1>1, <1>2, <1>5, <1>6, <1>7, <2>1 DEF A!Read, HeldOf
<1>9. kept # Failed
  BY DEF Unmarked
<1>10. \A i \in DOMAIN convs : /\ kept[i].id = convs[i].id
                               /\ A!Turns(kept[i]) = A!Turns(convs[i])
  <2> TAKE i \in DOMAIN convs
  <2> DEFINE conv == convs[i]
             rec  == A!Archived(conv)
  <2>1. rec.id = conv.id /\ rec.messages = conv.messages /\ rec.choices = conv.choices
    BY DEF A!Archived
  <2>2. kept[i] = rec
    OBVIOUS
  <2> HIDE DEF conv, rec
  <2>3. A!Turns(rec) = A!Turns(conv)
    BY <2>1 DEF A!Turns
  <2> QED
    BY <2>1, <2>2, <2>3 DEF conv
<1>11. DOMAIN kept = DOMAIN convs
  OBVIOUS
<1> HIDE DEF kept
<1>12. A!Export(file) = [i \in DOMAIN convs |->
                           [id |-> convs[i].id, conversations |-> A!Turns(convs[i])]]
  BY <1>8, <1>9, <1>10, <1>11 DEF A!Export
<1> QED
  BY <1>12 DEF LinesOf

LEMMA BuiltVerifies ==
  ASSUME NEW Conv, NEW convs \in Seq(Conv), NEW batchId
  PROVE  /\ A!Verify(A!Build(convs, batchId))
         /\ A!Build(convs, batchId).root = A!Cid(A!BatchRoot(convs, batchId))
         /\ A!Build(convs, batchId).blocks
              \in Seq({A!Block(x) : x \in {A!Archived(c) : c \in Conv}
                                          \cup {A!BatchRoot(convs, batchId)}})
<1> DEFINE car == A!Build(convs, batchId)
           root == A!BatchRoot(convs, batchId)
           Elem == {A!Block(x) : x \in {A!Archived(c) : c \in Conv} \cup {root}}
           front == [i \in DOMAIN convs |-> A!Block(A!Archived(convs[i]))]
           n == Len(convs)
<1>1. car.root = A!Cid(root) /\ car.blocks = Append(front, A!Block(root))
  BY DEF A!Build
<1>2. front \in Seq(Elem) /\ A!Block(root) \in Elem /\ Len(front) = n /\ n \in Nat
  OBVIOUS
<1>3. /\ car.blocks \in Seq(Elem) /\ Len(car.blocks) = n + 1
      /\ car.blocks[n + 1] = A!Block(root)
      /\ \A i \in 1 .. n : car.blocks[i] = A!Block(A!Archived(convs[i]))
  <2>1. \A i \in 1 .. n : front[i] = A!Block(A!Archived(convs[i]))
    OBVIOUS
  <2> HIDE DEF front, Elem, n, car, root
  <2> QED
    BY <1>1, <1>2, <2>1
<1>4. \A x : A!Block(x).cid = A!Cid(x) /\ A!Block(x).bytes = x
  BY DEF A!Block
<1>5. DOMAIN car.blocks = 1 .. n + 1 /\ n + 1 \in 1 .. n + 1
  BY <1>2, <1>3
<1>6. \A i \in DOMAIN car.blocks : car.blocks[i].cid = A!Cid(car.blocks[i].bytes)
  <2>1. \A x \in Elem : x.cid = A!Cid(x.bytes)
    BY <1>4
  <2> HIDE DEF Elem, car
  <2> QED
    BY <1>3, <2>1
<1>7. A!Holds(car, car.root)
  BY <1>1, <1>3, <1>4, <1>5 DEF A!Holds
<1>8. \E i \in DOMAIN car.blocks : car.blocks[i].cid = car.root
  BY <1>7 DEF A!Holds
<1>9. A!Get(car, car.root) = root
  <2> DEFINE s == car.blocks
             c == car.root
             k == A!SelectInSeq(s, LAMBDA block : block.cid = c)
  <2>1. A!Get(car, c) = s[k].bytes
    BY DEF A!Get
  <2>2. s \in Seq(Elem)
    BY <1>3
  <2>3. k \in DOMAIN s /\ s[k].cid = c
    <3> HIDE DEF s, c, car, Elem
    <3> QED
      BY <1>8, <2>2, Selected DEF s, c
  <2> HIDE DEF k
  <2>4. A!Cid(s[k].bytes) = A!Cid(root)
    BY <1>1, <1>6, <2>3
  <2> QED
    BY <2>1, <2>4, CidTells
<1>10. A!Links(root) = [i \in DOMAIN convs |-> A!Cid(A!Archived(convs[i]))]
  BY DEF A!Links, A!BatchRoot
<1>11. \A i \in 1 .. n : A!Holds(car, A!Cid(A!Archived(convs[i])))
  BY <1>2, <1>3, <1>4, <1>5 DEF A!Holds
<1>12. \A i \in DOMAIN A!Links(root) : A!Holds(car, A!Links(root)[i])
  BY <1>10, <1>11
<1> HIDE DEF car, root, Elem
<1>13. A!Verify(car)
  BY <1>6, <1>7, <1>9, <1>12 DEF A!Verify
<1> QED
  BY <1>1, <1>3, <1>13 DEF car, root, Elem

\* What a damage leaves is a list of blocks again.
LEMMA DamagedIsAList ==
  ASSUME NEW Elem, NEW car, car \in [root : {car.root}, blocks : Seq(Elem)],
         NEW file \in A!Damages(car)
  PROVE  \E Those : file.blocks \in Seq(Those)
<1> DEFINE s == car.blocks
           n == Len(s)
           spoilt == [x \in Elem |-> [x EXCEPT !.bytes = Garbled]]
           Those == Elem \cup {[x EXCEPT !.bytes = Garbled] : x \in Elem}
<1>1. s \in Seq(Elem) /\ n \in Nat
  OBVIOUS
<1>2. \A t \in Seq(Elem) : t \in Seq(Those)
  <2> HIDE DEF Those
  <2>1. Elem \subseteq Those
    BY DEF Those
  <2> QED
    BY <2>1
<1>3. \/ \E k \in 0 .. n : file = [car EXCEPT !.blocks = SubSeq(s, 1, k)]
      \/ \E i \in 1 .. n : file = [car EXCEPT !.blocks = A!RemoveAt(@, i)]
      \/ \E i \in 1 .. n : file = [car EXCEPT !.blocks = [s EXCEPT ![i].bytes = Garbled]]
      \/ \E i \in 1 .. n : file = [car EXCEPT !.root = s[i].cid]
  BY DEF A!Damages
<1>4. ASSUME NEW k \in 0 .. n
      PROVE  [car EXCEPT !.blocks = SubSeq(s, 1, k)].blocks \in Seq(Elem)
  <2>1. SubSeq(s, 1, k) \in Seq(Elem)
    BY <1>1
  <2> QED
    BY <2>1
<1>5. ASSUME NEW i \in 1 .. n
      PROVE  [car EXCEPT !.blocks = A!RemoveAt(@, i)].blocks \in Seq(Elem)
  <2>1. A!RemoveAt(s, i) \in Seq(Elem)
    BY <1>1 DEF A!RemoveAt
  <2> QED
    BY <2>1
<1>6. ASSUME NEW i \in 1 .. n
      PROVE  [car EXCEPT !.blocks = [s EXCEPT ![i].bytes = Garbled]].blocks \in Seq(Those)
  <2>1. [s EXCEPT ![i].bytes = Garbled] \in Seq(Those)
    <3>1. s[i] \in Elem
      BY <1>1
    <3>2. [s[i] EXCEPT !.bytes = Garbled] \in Those
      BY <3>1
    <3>3. s \in Seq(Those)
      BY <1>1, <1>2
    <3>4. [s EXCEPT ![i].bytes = Garbled] = [s EXCEPT ![i] = [s[i] EXCEPT !.bytes = Garbled]]
      OBVIOUS
    <3> HIDE DEF Those, s
    <3> QED
      BY <3>2, <3>3, <3>4
  <2> QED
    BY <2>1
<1>7. ASSUME NEW i \in 1 .. n
      PROVE  [car EXCEPT !.root = s[i].cid].blocks \in Seq(Elem)
  BY <1>1
<1> QED
  BY <1>3, <1>4, <1>5, <1>6, <1>7

\* An archive of any batch reads back (buildBatchArchive, verifyArchive, readArchive,
\* convertConversation).
THEOREM EveryArchiveReadsBack ==
  ASSUME NEW Conv, NEW convs \in Seq(Conv), NEW batchId, Unmarked(convs, batchId)
  PROVE  A!ArchiveReadsBack(convs, batchId)
<1> DEFINE car == A!Build(convs, batchId)
           Elem == {A!Block(x) : x \in {A!Archived(c) : c \in Conv}
                                        \cup {A!BatchRoot(convs, batchId)}}
<1>1. A!Verify(car) /\ car.root = A!Cid(A!BatchRoot(convs, batchId)) /\ car.blocks \in Seq(Elem)
  BY BuiltVerifies
<1>2. car \in [root : {car.root}, blocks : Seq(Elem)]
  <2> HIDE DEF Elem
  <2> QED
    BY <1>1 DEF A!Build
<1> HIDE DEF car, Elem
<1>3. ASSUME NEW file \in A!Damages(car), A!Verify(file), file.root = car.root
      PROVE  A!Export(file) = LinesOf(convs)
  <2>1. PICK Those : file.blocks \in Seq(Those)
    BY <1>2, DamagedIsAList
  <2> QED
    BY <1>1, <1>3, <2>1, VerifiedIsExported
<1> QED
  BY <1>1, <1>3 DEF A!ArchiveReadsBack, LinesOf, car

\* The seal of a plain text: an IV, one unit for each of its own, a tag.
UnitOf(plain, key, nonce) ==
  LET text == A!Encipher(plain, key, nonce)
  IN {nonce, A!Tag(key, nonce, text)} \cup {text[i] : i \in DOMAIN plain}

LEMMA Sealed ==
  ASSUME NEW Val, NEW plain \in Seq(Val), NEW key, NEW nonce
  PROVE  LET text   == A!Encipher(plain, key, nonce)
             buffer == A!Seal(plain, key, nonce)
             Unit   == UnitOf(plain, key, nonce)
             n      == Len(plain)
         IN /\ buffer \in Seq(Unit) /\ Len(buffer) = n + 2 /\ n \in Nat
            /\ text \in Seq(Unit) /\ Len(text) = n
            /\ buffer[1] = nonce /\ buffer[n + 2] = A!Tag(key, nonce, text)
            /\ \A i \in 1 .. n : buffer[i + 1] = text[i]
<1> DEFINE text   == A!Encipher(plain, key, nonce)
           buffer == A!Seal(plain, key, nonce)
           Unit   == UnitOf(plain, key, nonce)
           n      == Len(plain)
           tag    == A!Tag(key, nonce, text)
<1>1. DOMAIN plain = 1 .. n /\ n \in Nat
  OBVIOUS
<1>2. text \in [1 .. n -> Unit]
  BY <1>1 DEF A!Encipher, UnitOf
<1>3. nonce \in Unit /\ tag \in Unit
  BY DEF UnitOf
<1>4. buffer = <<nonce>> \o text \o <<tag>>
  BY DEF A!Seal
<1> HIDE DEF text, buffer, Unit, n, tag
<1>5. text \in Seq(Unit) /\ Len(text) = n
  BY <1>1, <1>2
<1>6. <<nonce>> \in Seq(Unit) /\ <<tag>> \in Seq(Unit) /\ Len(<<nonce>>) = 1 /\ Len(<<tag>>) = 1
  BY <1>3
<1>7. /\ <<nonce>> \o text \in Seq(Unit) /\ Len(<<nonce>> \o text) = n + 1
      /\ (<<nonce>> \o text)[1] = nonce
      /\ \A i \in 1 .. n : (<<nonce>> \o text)[i + 1] = text[i]
  BY <1>1, <1>5, <1>6
<1>8. /\ buffer \in Seq(Unit) /\ Len(buffer) = n + 2 /\ buffer[n + 2] = tag
      /\ \A i \in 1 .. n + 1 : buffer[i] = (<<nonce>> \o text)[i]
  <2> DEFINE t == <<nonce>> \o text
             r == <<tag>>
  <2>1. /\ t \in Seq(Unit) /\ r \in Seq(Unit) /\ Len(t) = n + 1 /\ Len(r) = 1 /\ r[1] = tag
        /\ n \in Nat /\ buffer = t \o r
    BY <1>1, <1>4, <1>6, <1>7
  <2> HIDE DEF t, r
  <2>2. t \o r \in Seq(Unit) /\ Len(t \o r) = Len(t) + Len(r)
    BY <2>1, ConcatProperties
  <2>3. \A i \in 1 .. Len(t) + Len(r) :
           (t \o r)[i] = IF i <= Len(t) THEN t[i] ELSE r[i - Len(t)]
    BY <2>1, ConcatProperties
  <2>4. /\ n + 2 \in 1 .. Len(t) + Len(r) /\ ~(n + 2 <= Len(t)) /\ (n + 2) - Len(t) = 1
        /\ \A i \in 1 .. n + 1 : i \in 1 .. Len(t) + Len(r) /\ i <= Len(t)
        /\ Len(t) + Len(r) = n + 2
    BY <2>1
  <2> QED
    BY <2>1, <2>2, <2>3, <2>4 DEF t
<1>9. 1 \in 1 .. n + 1 /\ \A i \in 1 .. n : i + 1 \in 1 .. n + 1
  BY <1>1
<1> QED
  BY <1>1, <1>5, <1>7, <1>8, <1>9 DEF text, buffer, Unit, n, tag

\* Any list as long as a seal is taken apart as unit, units and unit.
LEMMA Unsealed ==
  ASSUME NEW Unit, NEW buffer \in Seq(Unit), NEW n \in Nat, Len(buffer) = n + 2, NEW key
  PROVE  LET text == SubSeq(buffer, 2, n + 1)
         IN /\ A!Unseal(buffer, key) = A!Decipher(text, key, buffer[1], buffer[n + 2])
            /\ text \in Seq(Unit) /\ Len(text) = n
            /\ \A i \in 1 .. n : text[i] = buffer[i + 1]
<1> DEFINE text == SubSeq(buffer, 2, n + 1)
<1>1. ~(Len(buffer) < 2) /\ Len(buffer) - 1 = n + 1
  OBVIOUS
<1>2. A!Last(buffer) = buffer[n + 2]
  BY DEF A!Last
<1>3. A!Unseal(buffer, key) = A!Decipher(text, key, buffer[1], buffer[n + 2])
  BY <1>1, <1>2 DEF A!Unseal
<1>4. text \in Seq(Unit) /\ Len(text) = n /\ \A i \in 1 .. n : text[i] = buffer[i + 1]
  OBVIOUS
<1> QED
  BY <1>3, <1>4

LEMMA TagTells ==
  \A k1, k2, n1, n2, t1, t2 :
     A!Tag(k1, n1, t1) = A!Tag(k2, n2, t2) => k1 = k2 /\ n1 = n2 /\ t1 = t2
<1> TAKE k1, k2, n1, n2, t1, t2
<1> DEFINE x == A!Tag(k1, n1, t1)
           y == A!Tag(k2, n2, t2)
<1>1. x.key = k1 /\ x.iv = n1 /\ x.text = t1 /\ y.key = k2 /\ y.iv = n2 /\ y.text = t2
  BY DEF A!Tag
<1> QED
  BY <1>1

OpensAsSealed(plain, key, other, nonce) ==
  LET buffer == A!Seal(plain, key, nonce)
  IN /\ A!Unseal(buffer, key) = plain
     /\ A!Unseal(buffer, other) = Failed
     /\ \A i \in DOMAIN buffer : A!Unseal([buffer EXCEPT ![i] = Garbled], key) = Failed

\* Of any plain text, with any two keys: taco-encrypt's seal is opened by its key
\* alone, and not at all once a unit of it was replaced.
LEMMA SealHolds ==
  ASSUME NEW Val, NEW plain \in Seq(Val), NEW key, NEW other, NEW nonce, key # other,
         \A i \in DOMAIN A!Seal(plain, key, nonce) : A!Seal(plain, key, nonce)[i] # Garbled
  PROVE  OpensAsSealed(plain, key, other, nonce)
<1> DEFINE text   == A!Encipher(plain, key, nonce)
           buffer == A!Seal(plain, key, nonce)
           Unit   == UnitOf(plain, key, nonce)
           n      == Len(plain)
           tag    == A!Tag(key, nonce, text)
           opened == [i \in DOMAIN text |-> text[i][4]]
<1>1. /\ buffer \in Seq(Unit) /\ Len(buffer) = n + 2 /\ n \in Nat
      /\ text \in Seq(Unit) /\ Len(text) = n
      /\ buffer[1] = nonce /\ buffer[n + 2] = tag
      /\ \A i \in 1 .. n : buffer[i + 1] = text[i]
  <2> HIDE DEF Unit
  <2> QED
    BY Sealed DEF Unit
<1>2. opened = plain
  <2>1. \A i \in 1 .. n : text[i] = <<key, nonce, i, plain[i]>> /\ DOMAIN text = 1 .. n
    BY DEF A!Encipher
  <2>2. \A i \in 1 .. n : opened[i] = plain[i]
    BY <2>1
  <2>3. DOMAIN opened = 1 .. n
    BY <1>1
  <2> QED
    BY <1>1, <2>2, <2>3
<1>3. SubSeq(buffer, 2, n + 1) = text
  <2> HIDE DEF text, buffer, Unit, n
  <2>1. /\ SubSeq(buffer, 2, n + 1) \in Seq(Unit) /\ Len(SubSeq(buffer, 2, n + 1)) = n
        /\ \A i \in 1 .. n : SubSeq(buffer, 2, n + 1)[i] = buffer[i + 1]
    BY <1>1, Unsealed
  <2> DEFINE mid == SubSeq(buffer, 2, n + 1)
  <2>2. /\ mid \in Seq(Unit) /\ Len(mid) = n /\ text \in Seq(Unit) /\ Len(text) = n
        /\ \A i \in 1 .. n : mid[i] = text[i]
    BY <1>1, <2>1
  <2> HIDE DEF mid
  <2>3. mid = text
    BY <2>2, SeqEqual
  <2> QED
    BY <2>3 DEF mid
<1> HIDE DEF text, buffer, Unit, n, tag, opened
<1>4. A!Unseal(buffer, key) = plain
  <2>1. A!Unseal(buffer, key) = A!Decipher(text, key, nonce, tag)
    <3>1. \A k : A!Unseal(buffer, k)
                    = A!Decipher(SubSeq(buffer, 2, n + 1), k, buffer[1], buffer[n + 2])
      <4> TAKE k
      <4>1. buffer \in Seq(Unit) /\ n \in Nat /\ Len(buffer) = n + 2
        BY <1>1
      <4> QED
        BY <4>1, Unsealed
    <3> QED
      BY <1>1, <1>3, <3>1
  <2> QED
    BY <1>2, <2>1 DEF A!Decipher, tag, opened
<1>5. A!Unseal(buffer, other) = Failed
  <2>1. A!Unseal(buffer, other) = A!Decipher(text, other, nonce, tag)
    <3>1. \A k : A!Unseal(buffer, k)
                    = A!Decipher(SubSeq(buffer, 2, n + 1), k, buffer[1], buffer[n + 2])
      <4> TAKE k
      <4>1. buffer \in Seq(Unit) /\ n \in Nat /\ Len(buffer) = n + 2
        BY <1>1
      <4> QED
        BY <4>1, Unsealed
    <3> QED
      BY <1>1, <1>3, <3>1
  <2>2. tag # A!Tag(other, nonce, text)
    BY TagTells DEF tag
  <2> QED
    BY <2>1, <2>2 DEF A!Decipher
<1>6. ASSUME NEW i \in DOMAIN buffer
      PROVE  A!Unseal([buffer EXCEPT ![i] = Garbled], key) = Failed
  <2> DEFINE spoilt == [buffer EXCEPT ![i] = Garbled]
             left   == SubSeq(spoilt, 2, n + 1)
             Those  == Unit \cup {Garbled}
  <2>1. buffer[i] # Garbled /\ i \in 1 .. n + 2
    BY <1>1 DEF buffer
  <2>2. /\ spoilt \in Seq(Those) /\ Len(spoilt) = n + 2
        /\ \A j \in 1 .. n + 2 : spoilt[j] = IF j = i THEN Garbled ELSE buffer[j]
    BY <1>1, <2>1
  <2> HIDE DEF spoilt, Those
  <2>3. /\ A!Unseal(spoilt, key) = A!Decipher(left, key, spoilt[1], spoilt[n + 2])
        /\ left \in Seq(Those) /\ Len(left) = n
        /\ \A j \in 1 .. n : left[j] = spoilt[j + 1]
    BY <1>1, <2>2, Unsealed
  <2> HIDE DEF left
  <2>4. spoilt[n + 2] # A!Tag(key, spoilt[1], left)
    <3> SUFFICES ASSUME spoilt[n + 2] = A!Tag(key, spoilt[1], left)
                 PROVE  FALSE
      OBVIOUS
    <3>1. CASE i = n + 2
      <4> DEFINE tag2 == A!Tag(key, spoilt[1], left)
      <4>1. spoilt[n + 2] = Garbled /\ spoilt[1] = nonce /\ tag # Garbled
        BY <1>1, <2>1, <2>2, <3>1
      <4>2. \A j \in 1 .. n : left[j] = text[j]
        BY <1>1, <2>2, <2>3, <3>1
      <4>3. left = text
        <5>1. text \in Seq(Those)
          BY <1>1 DEF Those
        <5> QED
          BY <1>1, <2>3, <4>2, <5>1, SeqEqual
      <4> QED
        BY <4>1, <4>3 DEF tag
    <3>2. CASE i # n + 2
      <4>1. spoilt[n + 2] = tag
        BY <1>1, <2>2, <3>2
      <4>2. spoilt[1] = nonce /\ left = text
        <5>1. A!Tag(key, nonce, text) = A!Tag(key, spoilt[1], left)
          BY <4>1 DEF tag
        <5> QED
          BY <5>1, TagTells
      <4>3. CASE i = 1
        BY <1>1, <2>1, <2>2, <4>2, <4>3
      <4>4. CASE i # 1
        <5>1. i - 1 \in 1 .. n /\ (i - 1) + 1 = i
          BY <1>1, <2>1, <3>2, <4>4
        <5>2. left[i - 1] = Garbled /\ text[i - 1] = buffer[i]
          BY <1>1, <2>1, <2>2, <2>3, <5>1
        <5> QED
          BY <2>1, <4>2, <5>2
      <4> QED
        BY <4>3, <4>4
    <3> QED
      BY <3>1, <3>2
  <2> QED
    BY <2>3, <2>4 DEF A!Decipher, spoilt
<1> QED
  BY <1>4, <1>5, <1>6 DEF OpensAsSealed, buffer

WordsOf(Val) == [m \in MessageOf(Val) |-> A!Words(m.content)]

LEMMA PlainType ==
  ASSUME NEW Val, NEW conv, conv.messages \in Seq(MessageOf(Val)), conv.choices \in Seq(Val)
  PROVE  A!Plain(conv) \in Seq(Val \cup {"null"})
<1> DEFINE Word == Val \cup {"null"}
           kept == [piece \in PartOf(Val) |-> IF piece[2] # Empty THEN <<piece[2]>> ELSE << >>]
           words == WordsOf(Val)
           s == conv.messages
<1>1. kept \in [PartOf(Val) -> Seq(Word)]
  <2>1. \A piece \in PartOf(Val) : piece[2] \in Word
    BY DEF PartOf
  <2> QED
    <3>1. << >> \in Seq(Word) /\ \A w \in Word : <<w>> \in Seq(Word)
      OBVIOUS
    <3> HIDE DEF Word
    <3> QED
      BY <2>1, <3>1
<1>2. \A r : A!FlattenSeq(r) = FlattenSeq(r)
  BY DEF A!FlattenSeq, FlattenSeq
<1>3. ASSUME NEW m \in MessageOf(Val)
      PROVE  A!Words(m.content) \in Seq(Word)
  <2> DEFINE c == m.content
  <2>1. c \in ContentOf(Val)
    BY MessageTypes
  <2> HIDE DEF c
  <2>2. CASE c = Null
    <3>1. A!Words(c) = <<"null">> /\ "null" \in Word
      BY <2>2 DEF A!Words
    <3> HIDE DEF Word
    <3> QED
      BY <3>1 DEF c
  <2>3. CASE c # Null /\ c \in {"string"} \X Val
    <3>1. c[1] = "string" /\ c[2] \in Word
      BY <2>3
    <3>2. A!Words(c) = <<c[2]>>
      BY <2>3, <3>1 DEF A!Words
    <3>3. <<c[2]>> \in Seq(Word)
      <4> HIDE DEF Word, c
      <4> QED
        BY <3>1
    <3> QED
      BY <3>2, <3>3 DEF c
  <2>4. CASE c # Null /\ c \in {"parts"} \X Seq(PartOf(Val))
    <3>1. c[1] # "string" /\ c[2] \in Seq(PartOf(Val))
      BY <2>4
    <3>2. A!Words(c) = A!FlattenSeq([i \in DOMAIN c[2] |->
                                       IF c[2][i][2] # Empty THEN <<c[2][i][2]>> ELSE << >>])
      BY <2>4, <3>1 DEF A!Words, A!FlatMap
    <3>3. [i \in DOMAIN c[2] |-> IF c[2][i][2] # Empty THEN <<c[2][i][2]>> ELSE << >>]
            = [i \in DOMAIN c[2] |-> kept[c[2][i]]]
      BY <3>1
    <3>4. A!Words(c) = Each(c[2], kept)
      BY <1>2, <3>2, <3>3 DEF Each
    <3> DEFINE P == PartOf(Val)
    <3>5. kept \in [P -> Seq(Word)] /\ c[2] \in Seq(P)
      BY <1>1, <3>1
    <3> HIDE DEF kept, Word, c, P
    <3>6. Each(c[2], kept) \in Seq(Word)
      BY <3>5, EachType
    <3> QED
      BY <3>4, <3>6 DEF c
  <2> QED
    BY <2>1, <2>2, <2>3, <2>4 DEF ContentOf
<1>4. words \in [MessageOf(Val) -> Seq(Word)]
  BY <1>3 DEF WordsOf
<1>5. A!FlatMap(s, LAMBDA msg : A!Words(msg.content)) = Each(s, words)
  <2>1. A!FlatMap(s, LAMBDA msg : A!Words(msg.content))
          = A!FlattenSeq([i \in DOMAIN s |-> A!Words(s[i].content)])
    BY DEF A!FlatMap
  <2>2. [i \in DOMAIN s |-> A!Words(s[i].content)] = [i \in DOMAIN s |-> words[s[i]]]
    BY DEF WordsOf
  <2> QED
    BY <1>2, <2>1, <2>2 DEF Each
<1>6. Each(s, words) \in Seq(Word)
  <2> HIDE DEF words, Word, s
  <2> QED
    BY <1>4, EachType DEF s
<1>7. conv.choices \in Seq(Word)
  OBVIOUS
<1> HIDE DEF Word, words, s
<1> QED
  BY <1>5, <1>6, <1>7 DEF A!Plain, s, Word

\* Whatever a conversation says, its seal is opened by its key alone, and an altered
\* one not at all (taco-encrypt's onResponse, aesGcmDecrypt).
THEOREM EverySealOpens ==
  ASSUME NEW Val, NEW conv, conv.messages \in Seq(MessageOf(Val)), conv.choices \in Seq(Val),
         NEW key, NEW other, NEW nonce, key # other,
         \A i \in DOMAIN A!Seal(A!Plain(conv), key, nonce) :
            A!Seal(A!Plain(conv), key, nonce)[i] # Garbled
  PROVE  A!SealedOpens(conv, key, other, nonce)
<1> DEFINE plain == A!Plain(conv)
<1>1. plain \in Seq(Val \cup {"null"})
  BY PlainType
<1> HIDE DEF plain
<1>2. OpensAsSealed(plain, key, other, nonce)
  <2> DEFINE Word == Val \cup {"null"}
  <2>1. plain \in Seq(Word)
    BY <1>1
  <2>2. \A i \in DOMAIN A!Seal(plain, key, nonce) : A!Seal(plain, key, nonce)[i] # Garbled
    BY DEF plain
  <2> HIDE DEF Word
  <2> QED
    BY <2>1, <2>2, SealHolds
<1> QED
  BY <1>2 DEF A!SealedOpens, OpensAsSealed, plain

-----------------------------------------------------------------------------
(* The requests and batches given in MCParts *)

SaidHere == {"hi", Empty, "see", "this", "data", "http", "yes", "no", "f"}

ConvsOf == [id : {"f", "n"}, messages : Seq(MessageOf(SaidHere)), choices : Seq(SaidHere),
            sealed : {Null, A!Seal(<<"f">>, rightKey, iv)}]

LEMMA ContentsOK == Contents \subseteq ContentOf(SaidHere)
<1> DEFINE P == PartOf(SaidHere)
<1>1. /\ <<"text", "see">> \in P /\ <<"image", "data">> \in P /\ <<"text", "this">> \in P
      /\ <<"image", "http">> \in P /\ <<"text", Empty>> \in P
  BY DEF PartOf, SaidHere
<1> HIDE DEF P
<1>2. /\ << <<"text", "see">>, <<"image", "data">>, <<"text", "this">> >> \in Seq(P)
      /\ << <<"image", "http">>, <<"text", Empty>> >> \in Seq(P)
      /\ << <<"image", "data">> >> \in Seq(P)
  BY <1>1
<1>3. "hi" \in SaidHere /\ Empty \in SaidHere
  BY DEF SaidHere
<1> DEFINE C == {"string"} \X SaidHere
           D == {"parts"} \X Seq(P)
<1>4. <<"string", "hi">> \in C /\ <<"string", Empty>> \in C
  BY <1>3
<1>5. /\ <<"parts", << <<"text", "see">>, <<"image", "data">>, <<"text", "this">> >> >> \in D
      /\ <<"parts", << <<"image", "http">>, <<"text", Empty>> >> >> \in D
      /\ <<"parts", << <<"image", "data">> >> >> \in D
  BY <1>2
<1>6. ContentOf(SaidHere) = {Null} \cup C \cup D
  BY DEF ContentOf, P
<1> HIDE DEF C, D
<1> QED
  BY <1>4, <1>5, <1>6 DEF Contents

LEMMA DialogueOK == Dialogue \cup {<< >>} \subseteq Seq(MessageOf(SaidHere))
<1> DEFINE M == MessageOf(SaidHere)
<1>1. Message \subseteq M
  BY ContentsOK DEF Message, MessageOf, Role
<1> HIDE DEF M
<1>2. /\ << >> \in Seq(M) /\ \A m \in M : <<m>> \in Seq(M)
      /\ \A m, n \in M : <<m, n>> \in Seq(M)
  OBVIOUS
<1>3. ASSUME NEW d \in Dialogue
      PROVE  d \in Seq(M)
  <2>1. (\E m \in Message : d = <<m>>) \/ (\E m, n \in Message : d = <<m, n>>)
    BY DEF Dialogue
  <2> QED
    BY <1>1, <1>2, <2>1
<1> QED
  BY <1>2, <1>3 DEF M

LEMMA BatchesOK == Batches \cup {<< >>} \subseteq Seq(ConvsOf)
<1> DEFINE firsts == Captured("f", {<< >>, <<"yes">>}, {Null, A!Seal(<<"f">>, rightKey, iv)})
           nexts  == Captured("n", {<<"no">>}, {Null})
<1>1. \A m \in Message : <<m>> \in Seq(MessageOf(SaidHere))
  <2>1. \A m \in Message : <<m>> \in Dialogue
    BY DEF Dialogue
  <2> QED
    BY <2>1, DialogueOK
<1>2. << >> \in Seq(SaidHere) /\ <<"yes">> \in Seq(SaidHere) /\ <<"no">> \in Seq(SaidHere)
  BY DEF SaidHere
<1>3. ASSUME NEW id \in {"f", "n"}, NEW choices \in SUBSET Seq(SaidHere),
             NEW seals \in SUBSET {Null, A!Seal(<<"f">>, rightKey, iv)},
             NEW conv \in Captured(id, choices, seals)
      PROVE  conv \in ConvsOf
  <2>1. PICK m \in Message, c \in choices, s \in seals :
           conv = [id |-> id, messages |-> <<m>>, choices |-> c, sealed |-> s]
    BY DEF Captured
  <2>2. <<m>> \in Seq(MessageOf(SaidHere)) /\ c \in Seq(SaidHere)
    BY <1>1
  <2> QED
    BY <2>1, <2>2 DEF ConvsOf
<1>4. firsts \subseteq ConvsOf /\ nexts \subseteq ConvsOf
  <2>1. /\ {<< >>, <<"yes">>} \in SUBSET Seq(SaidHere) /\ {<<"no">>} \in SUBSET Seq(SaidHere)
        /\ {Null} \in SUBSET {Null, A!Seal(<<"f">>, rightKey, iv)}
    BY <1>2
  <2> QED
    BY <1>3, <2>1
<1>5. /\ << >> \in Seq(ConvsOf) /\ \A c \in ConvsOf : <<c>> \in Seq(ConvsOf)
      /\ \A c, d \in ConvsOf : <<c, d>> \in Seq(ConvsOf)
  <2> DEFINE Elem == ConvsOf
  <2> HIDE DEF Elem
  <2>1. /\ << >> \in Seq(Elem) /\ \A c \in Elem : <<c>> \in Seq(Elem)
        /\ \A c, d \in Elem : <<c, d>> \in Seq(Elem)
    OBVIOUS
  <2> QED
    BY <2>1 DEF Elem
<1> DEFINE Lone == {<<c>> : c \in firsts}
           Both == {<<c, d>> : c \in firsts, d \in nexts}
<1>6. Batches = Lone \cup Both
  BY DEF Batches
<1>7. ASSUME NEW b \in Batches
      PROVE  b \in Seq(ConvsOf)
  <2>1. (\E c \in firsts : b = <<c>>) \/ (\E c \in firsts, d \in nexts : b = <<c, d>>)
    <3> HIDE DEF firsts, nexts
    <3> QED
      BY <1>6
  <2> HIDE DEF firsts, nexts
  <2> QED
    BY <1>4, <1>5, <2>1
<1> QED
  BY <1>5, <1>7

GivenOK == messages \in Dialogue \cup {<< >>} /\ batch \in Batches \cup {<< >>}

LEMMA GivenKept == (Init => GivenOK) /\ (GivenOK /\ [Next]_vars => GivenOK')
<1>1. Init => GivenOK
  BY DEF Init, GivenOK
<1>2. [Next]_vars => UNCHANGED pure
  BY DEF Next, vars, Recovers, Retrieves, Signals, PairsByQr, UsesTaco, pure
<1>3. GivenOK /\ UNCHANGED pure => GivenOK'
  BY DEF GivenOK, pure
<1> QED
  BY <1>1, <1>2, <1>3

LEMMA GivenIsKept == GivenOK => NothingIsLost
<1> SUFFICES ASSUME GivenOK PROVE NothingIsLost
  OBVIOUS
<1>1. X!NothingIsLost(messages)
  BY DialogueOK, EveryRequestIsKept DEF GivenOK
<1>2. batch \in Seq(ConvsOf)
  BY BatchesOK DEF GivenOK
<1>3. Unmarked(batch, 1)
  BY MarkAssumption DEF GivenOK, Unmarked
<1>4. A!ArchiveReadsBack(batch, 1)
  BY <1>2, <1>3, EveryArchiveReadsBack
<1>5. ASSUME NEW i \in DOMAIN batch
      PROVE  A!SealedOpens(batch[i], rightKey, otherKey, iv)
  <2> DEFINE conv == batch[i]
  <2>1. conv \in ConvsOf
    BY <1>2
  <2>2. conv.messages \in Seq(MessageOf(SaidHere)) /\ conv.choices \in Seq(SaidHere)
    BY <2>1 DEF ConvsOf
  <2>3. /\ rightKey # otherKey
        /\ \A k \in DOMAIN A!Seal(A!Plain(conv), rightKey, iv) :
              A!Seal(A!Plain(conv), rightKey, iv)[k] # Garbled
    BY MarkAssumption DEF GivenOK
  <2> HIDE DEF conv
  <2>4. A!SealedOpens(conv, rightKey, otherKey, iv)
    BY <2>2, <2>3, EverySealOpens
  <2> QED
    BY <2>4 DEF conv
<1> QED
  BY <1>1, <1>4, <1>5 DEF NothingIsLost

-----------------------------------------------------------------------------
IInv == RecoveryOK /\ RetrievalOK /\ SignalOK /\ TacoOK /\ QrOK

LEMMA Initially == Init => IInv
  BY PartsInit, RecoveryInit, RetrievalInit, SignalInit, TacoInit, QrInit DEF IInv

LEMMA Inductive == IInv /\ [Next]_vars => IInv'
  BY PartsStep, RecoveryStep, RetrievalStep, SignalStep, TacoStep, QrStep DEF IInv

LEMMA Always == Spec => []IInv
  BY Initially, Inductive, PTL DEF Spec

\* The files and the run of the recovery tool, the tasks of the retrieval client,
\* the server, the client object and the QR processes keep their types.
THEOREM TypeCorrect == Spec => []TypeOK
<1>1. IInv => TypeOK
  BY DEF IInv, RecoveryOK, RetrievalOK, SignalOK, TacoOK, QrOK, TypeOK
<1> QED
  BY <1>1, Always, PTL

\* What the recovery tool reports as recovered is whole on the disk, whichever
\* archives come under the CIDs, whichever write fails and wherever an earlier run
\* was stopped (recoverBatches, saveBatchToFile, saveConversationsToDir).
THEOREM DiskCorrect == Spec => []RecoveredIsOnDisk
<1>1. IInv => RecoveredIsOnDisk
  BY DEF IInv, RecoveryOK, RecoveredIsOnDisk
<1> QED
  BY <1>1, Always, PTL

\* A batch file changes only for an archive that has come and names its batch (or,
\* with extract, is in that CAR file), or is cut short because this very write fails
\* or is interrupted (retriever.ts before recovery.ts).
THEOREM DownloadsCorrect == Spec => DownloadsDestroyNothing
<1>1. IInv /\ [Next]_vars => [FilesStep]_(R!vars)
  BY PartsStep, DownloadStep DEF IInv
<1>2. Spec => [][FilesStep]_(R!vars)
  BY <1>1, Always, PTL DEF Spec
<1> QED
  BY <1>2, PTL DEF DownloadsDestroyNothing, R!DownloadsDestroyNothing, FilesStep

\* However many POST /answer overlap, the owner gets the first that was accepted
\* (answerConsumed, answerResolve); and for any number of QR processes and any
\* pasting of codes, a client opens its API only for the server that was given its
\* answer (qr-client.ts, main).
THEOREM AnswerCorrect == Spec => []FirstAnswerWins
<1>1. SignalOK => S!FirstAnswerWins
  BY DEF SignalOK, S!FirstAnswerWins
<1>2. QrOK => Q!ServedByItsServer
  BY DEF QrOK, Mutual, Q!ServedByItsServer
<1>3. IInv => FirstAnswerWins
  BY <1>1, <1>2 DEF IInv, FirstAnswerWins
<1> QED
  BY <1>3, Always, PTL

\* Whatever calls of initialize(), disconnect() and tacoEncrypt() overlap, a client
\* that says it is initialised has its provider and its key, unless disconnect()
\* came while an initialize() was in hand (taco-client.ts).
THEOREM UsableCorrect == Spec => []InitializedIsUsable
<1>1. IInv => InitializedIsUsable
  BY DEF IInv, TacoOK, InitializedIsUsable
<1> QED
  BY <1>1, Always, PTL

\* The recovery tool and the retrieval client implement Downloads: one outcome for
\* every item asked for, and it is an error or came in for that very item, while
\* anything may come in for any of them.  Every step of either program is a step of
\* the abstract one or none (recoverBatches, retrieveConversations).
THEOREM Refinement == Spec => ReadersKeepPromise
<1>1. Init => R!Promise!Init /\ V!Promise!Init
  BY PartsInit, RecoveryImplements, RetrievalImplements
<1>2. IInv /\ IInv' /\ [Next]_vars => /\ [R!Promise!Next]_<<R!Came, R!Answer>>
                                      /\ [V!Promise!Next]_<<V!Came, V!Answer>>
  BY PartsStep, RecoveryImplements, RetrievalImplements DEF IInv
<1>3. Spec => R!Promise!Init /\ [][R!Promise!Next]_<<R!Came, R!Answer>>
  BY <1>1, <1>2, Always, PTL DEF Spec
<1>4. Spec => V!Promise!Init /\ [][V!Promise!Next]_<<V!Came, V!Answer>>
  BY <1>1, <1>2, Always, PTL DEF Spec
<1> QED
  BY <1>3, <1>4, PTL DEF ReadersKeepPromise, R!RecoveryKeepsPromise, V!RetrievalKeepsPromise,
                         R!Promise!Safe, V!Promise!Safe

\* Every text and image of a request reaches the model in order, and a conversation
\* comes whole out of its archive and its seal, while all the programs run
\* (translator.ts, archive-builder.ts, taco-encrypt.ts): the instance, for what
\* MCParts gives, of EveryRequestIsKept, EveryArchiveReadsBack and EverySealOpens.
THEOREM NothingLostCorrect == Spec => []NothingIsLost
<1>1. Spec => []GivenOK
  BY GivenKept, PTL DEF Spec
<1> QED
  BY <1>1, GivenIsKept, PTL
=============================================================================
