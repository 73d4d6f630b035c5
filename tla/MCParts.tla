------------------------------ MODULE MCParts ------------------------------
(***************************************************************************)
(* The programs and objects that run on their own, for TLC: each behaviour *)
(* is one of the part chosen in Init, the others stay in an initial state. *)
(***************************************************************************)
EXTENDS Naturals, TLC, SequencesExt

CONSTANTS
  Failed, NotYet, GivenUp,
  a1, a2, a3, c1, c2, c3, altered, Retries, MaxRuns, MaxFaults, Garbage, NoFile, Truncated,
  direct, inline, linked, locked, forged, Gateways, Noise,
  Request, Nobody,
  Call, Signer, NoSigner,
  Null, Empty, NotData,
  Garbled, rightKey, otherKey, iv,
  Server, Client

\* A process runs one of the QR programs; null is none of them and no answer.
ASSUME ProcessAssumption == Server \cap Client = {} /\ Nobody \notin Server \cup Client
ASSUME LimitAssumption ==
  /\ Retries \in Nat \ {0} /\ MaxRuns \in Nat \ {0} /\ MaxFaults \in Nat
  /\ Gateways \in Nat \ {0}
ASSUME RequestAssumption == Request \cap {Nobody, "none", "waiting", "rejected"} = {}

VARIABLES
  part,
  command, stage, attempt, carBytes, results, carFiles, outFiles, splitFiles, runs, faults,
  call, first, task, gateway, blob, entries,
  offerSdp, answerConsumed, promise, listening, timeoutTimer, request, winner,
  provider, dkgPublicKey, initialized, signer, initializing, given, encrypting, overlapped,
  messages,
  batch,
  qrStage, shown, pasted, links, opening, greeting, greeted

-----------------------------------------------------------------------------
\* Recovery: a1 and a2 have one batch id; what comes is the archive, a part of it,
\* one with an altered conversation, or that of another batch; commands of one,
\* three and no inputs.
Archive  == {a1, a2, a3}
Batch(id, convs) == [batch |-> id, convs |-> convs]
StoredAs == a1 :> Batch(1, {c1, c2}) @@ a2 :> Batch(1, {c3}) @@ a3 :> Batch(2, {c3})
Car      == {StoredAs[a] : a \in Archive}
              \cup {Batch(1, {c1}), Batch(1, {altered, c1}), Batch(1, {altered})}
FileOf   == altered :> "c1" @@ c1 :> "c1" @@ c2 :> "c2" @@ c3 :> "c3"

Input(form, a) == [form |-> form, archive |-> a]
Typed(name, list, saveCar, split) ==
  [name |-> name, list |-> list, saveCar |-> saveCar, split |-> split]

Commands ==
  {Typed("recover", <<Input("cid", a1)>>, TRUE, TRUE),
   Typed("recover-all",
         <<Input("cid", a1), Input("malformed", a3), Input("cid", a2)>>, FALSE, FALSE),
   Typed("recover-all", <<>>, FALSE, FALSE),
   Typed("extract", <<Input("local", a1)>>, FALSE, TRUE),
   Typed("extract", <<Input("local", a2)>>, FALSE, FALSE)}

R == INSTANCE Recovery

-----------------------------------------------------------------------------
\* Retrieval: every form of root, two groups, a CID listed twice; nobody asks for
\* what is forged.
Cid       == {direct, inline, linked, locked, forged}
Form      == direct :> "direct" @@ inline :> "inline" @@ linked :> "linked"
               @@ locked :> "linked" @@ forged :> "direct"
Encrypted == {inline, locked}

Asks(kind, cids, verify, key) ==
  [kind |-> kind, cids |-> cids, verify |-> verify, key |-> key]
Calls ==
  {Asks("conversations", <<locked, linked, direct, inline>>, FALSE, "taco"),
   Asks("conversations", <<linked, linked>>, TRUE, "none"),
   Asks("conversations", <<locked>>, TRUE, "given"),
   Asks("message", <<locked>>, FALSE, "none"),
   Asks("messages", <<inline>>, FALSE, "none")}

V == INSTANCE Retrieval

\* "No answer so far" and "ended without one" are no answers.
ASSUME AnswerAssumption ==
  /\ NotYet # GivenUp
  /\ \A mark \in {NotYet, GivenUp} :
        /\ mark \notin Seq({Failed} \cup Car)
        /\ \A D \in SUBSET Cid : mark \notin [D -> {Failed} \cup Cid]
ASSUME ComesAssumption ==
  {Failed, Garbage, NoFile, Truncated} \cap Car = {} /\ {Failed, NotYet, Noise} \cap Cid = {}

-----------------------------------------------------------------------------
S == INSTANCE SignalingServer
T == INSTANCE TacoClient
X == INSTANCE Translation
A == INSTANCE Archive
Q == INSTANCE QrPairing WITH stage <- qrStage, NoCode <- Nobody

\* Translation: up to two messages of every role and form.
Contents ==
  {Null, <<"string", "hi">>, <<"string", Empty>>,
   <<"parts", << <<"text", "see">>, <<"image", "data">>, <<"text", "this">> >> >>,
   <<"parts", << <<"image", "http">>, <<"text", Empty>> >> >>,
   <<"parts", << <<"image", "data">> >> >>}
Message  == [role : {"user", "assistant", "system"}, content : Contents]
Dialogue == {<<m>> : m \in Message} \cup {<<m, n>> : m, n \in Message}

\* Archive: one or two conversations, the first with anything in it.
Captured(id, choices, seals) ==
  {[id |-> id, messages |-> <<m>>, choices |-> c, sealed |-> s] :
     m \in Message, c \in choices, s \in seals}
Batches ==
  LET firsts == Captured("f", {<<>>, <<"yes">>}, {Null, A!Seal(<<"f">>, rightKey, iv)})
      nexts  == Captured("n", {<<"no">>}, {Null})
  IN {<<f>> : f \in firsts} \cup {<<f, n>> : f \in firsts, n \in nexts}

\* Garbled and Failed, bytes that say nothing and an exception, are no data.
ASSUME MarkAssumption ==
  /\ rightKey # otherKey
  /\ \A convs \in Batches \cup {<<>>} :
        /\ A!BatchRoot(convs, 1) # Garbled
        /\ [i \in DOMAIN convs |-> A!Archived(convs[i])] # Failed
        /\ \A i \in DOMAIN convs :
              LET sealed == A!Seal(A!Plain(convs[i]), rightKey, iv)
              IN /\ A!Archived(convs[i]) # Garbled
                 /\ \A k \in DOMAIN sealed : sealed[k] # Garbled

-----------------------------------------------------------------------------
rVars == <<command, stage, attempt, carBytes, results, carFiles, outFiles, splitFiles,
           runs, faults>>
vVars == <<call, first, task, gateway, blob, entries>>
sVars == <<offerSdp, answerConsumed, promise, listening, timeoutTimer, request, winner>>
tVars == <<provider, dkgPublicKey, initialized, signer, initializing, given,
           encrypting, overlapped>>
qVars == <<qrStage, shown, pasted, links, opening, greeting, greeted>>
pure  == <<messages, batch>>
vars  == <<part, rVars, vVars, sVars, tVars, qVars, pure>>

Init ==
  /\ part \in {"recovery", "retrieval", "signaling", "taco", "translation", "archive", "qr"}
  /\ command \in (IF part = "recovery" THEN Commands ELSE {CHOOSE c \in Commands : TRUE})
  /\ call \in (IF part = "retrieval" THEN Calls ELSE {CHOOSE c \in Calls : TRUE})
  /\ messages \in (IF part = "translation" THEN Dialogue ELSE {<<>>})
  /\ batch \in (IF part = "archive" THEN Batches ELSE {<<>>})
  /\ R!Init /\ V!Init /\ S!Init /\ T!Init
  /\ part # "signaling" => ~offerSdp
  /\ Q!Init

Recovers  == part = "recovery"  /\ UNCHANGED <<part, vVars, sVars, tVars, qVars, pure>>
Retrieves == part = "retrieval" /\ UNCHANGED <<part, rVars, sVars, tVars, qVars, pure>>
Signals   == part = "signaling" /\ UNCHANGED <<part, rVars, vVars, tVars, qVars, pure>>
PairsByQr == part = "qr"        /\ UNCHANGED <<part, rVars, vVars, sVars, tVars, pure>>
UsesTaco  == part = "taco"      /\ UNCHANGED <<part, rVars, vVars, sVars, qVars, pure>>

Next == \/ Recovers  /\ R!Next
        \/ Retrieves /\ V!Next
        \/ Signals   /\ S!Next
        \/ UsesTaco  /\ T!Next
        \/ PairsByQr /\ Q!Next

\* The fairness of each part while it runs.
Spec ==
  /\ Init /\ [][Next]_vars
  /\ WF_vars(Recovers /\ R!Step)
  /\ WF_vars(Retrieves /\ V!Next)
  /\ WF_vars(Signals /\ S!Timeout)
  /\ \A p \in Q!Process : WF_vars(PairsByQr /\ Q!Step(p))
  /\ \A r \in Request : WF_vars(Signals /\ (S!Answer(r) \/ S!BadBody(r)))

-----------------------------------------------------------------------------
TypeOK == R!TypeOK /\ V!TypeOK /\ S!TypeOK /\ T!TypeOK /\ Q!TypeOK

\* The recovery tool and the retrieval client both implement Downloads: one
\* outcome for everything asked for, and under it nothing but what came for it.
ReadersKeepPromise == R!RecoveryKeepsPromise /\ V!RetrievalKeepsPromise

\* What the recovery tool reports as recovered is whole on the disk.
RecoveredIsOnDisk == R!RecoveredIsOnDisk

\* A failed download of the recovery tool destroys no file of an earlier run.
DownloadsDestroyNothing == R!DownloadsDestroyNothing

\* Of overlapping answers the signaling server hands on the first it has accepted,
\* and a QR client opens its API for the server that was given its answer only.
FirstAnswerWins == S!FirstAnswerWins /\ Q!ServedByItsServer

\* A TacoClient that says it is initialised has its provider and its key.
InitializedIsUsable == T!InitializedIsUsable

\* Every text and image of an OpenAI request reaches the model, in order, and what
\* was captured of a conversation comes out of its archive and its seal again.
NothingIsLost ==
  /\ X!NothingIsLost(messages)
  /\ A!ArchiveReadsBack(batch, 1)
  /\ \A i \in DOMAIN batch : A!SealedOpens(batch[i], rightKey, otherKey, iv)

\* Whatever fails, times out or overlaps, a run of the recovery tool ends, a call
\* of the retrieval client returns, a signaling server closes, and a QR program
\* that was given its code serves or ends.
EveryPartEnds ==
  /\ part = "recovery" => R!EveryRunEnds
  /\ part = "retrieval" => V!EveryRetrievalEnds
  /\ part = "signaling" => S!ServerGoesAway
  /\ part = "qr" => Q!EveryCodeSettles
=============================================================================
