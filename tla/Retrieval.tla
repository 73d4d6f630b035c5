------------------------------ MODULE Retrieval ------------------------------
(***************************************************************************)
(* src/client/retrieval.ts: retrieveConversations() reads archived         *)
(* conversations three at a time, each from one gateway after the other,   *)
(* and hands back a Map from CID to conversation or error.  A single       *)
(* retrieveConversation() is a list of one whose error is thrown, and so   *)
(* are retrieveMessage() and listMessages(), which fetch one node and      *)
(* parse it.                                                               *)
(* No CID is computed from what a gateway sends, so it may send the bytes  *)
(* asked for, those of anything else, bytes that do not parse or decrypt,  *)
(* or nothing.                                                             *)
(***************************************************************************)
EXTENDS Naturals, Sequences, FiniteSets

CONSTANTS
  Cid,          \* CIDs of conversations' metadata; also what is stored there
  Form,         \* CID -> "direct", "inline" or "linked" (conversationCid)
  Encrypted,    \* the CIDs whose metadata has encryption.encrypted
  Gateways,     \* Len(options.gateways)
  Calls,        \* the calls: [kind, cids, verify, key]; kind "conversations",
                \* "message" or "messages"; key "none", "given" or "taco"
  Noise,        \* bytes that are no conversation, sealed or not
  Failed, NotYet, GivenUp

Concurrency == 3

VARIABLES
  call,       \* the call being served
  first,      \* i of the loop over the groups of three
  task,       \* what the promise of each place of the list is doing
  gateway,    \* the gateway the fetch of that place is at
  blob,       \* what has come for that place, as the CID it is stored at
  entries     \* results: the Map built so far

vars == <<call, first, task, gateway, blob, entries>>

Place == 1 .. Len(call.cids)
Group == {p \in Place : p \in first .. first + Concurrency - 1}
Active == {p \in Place : task[p] \in {"root", "plain", "sealed", "key"}}
Returned == first > Len(call.cids)

\* The call reads a message, or the list of messages, in a conversation's root.
OneNode == call.kind # "conversations"

TypeOK ==
  /\ call \in Calls /\ first \in 1 .. Len(call.cids) + Concurrency
  /\ task \in [Place -> {"queued", "root", "plain", "sealed", "key", "ended"}]
  /\ gateway \in [Place -> 1 .. Gateways]
  /\ blob \in [Place -> Cid \cup {NotYet, Noise}]
  /\ DOMAIN entries \subseteq Cid

Init ==
  /\ call \in Calls /\ first = 1
  /\ task = [p \in Place |-> IF p <= Concurrency THEN "root" ELSE "queued"]
  /\ gateway = [p \in Place |-> 1]
  /\ blob = [p \in Place |-> NotYet]
  /\ entries = [c \in {} |-> Failed]

-----------------------------------------------------------------------------
BugSet(p, outcome) ==  \* under the CID at this place of the first group
  LET c == call.cids[((p - 1) % Concurrency) + 1]
  IN /\ entries' = [x \in DOMAIN entries \cup {c} |-> IF x = c THEN outcome ELSE entries[x]]
     /\ task' = [task EXCEPT ![p] = "ended"]
     /\ UNCHANGED gateway

\* results.set(cid, outcome): a CID that is listed twice is set twice.
Set(p, outcome) ==
  /\ entries' = [c \in DOMAIN entries \cup {call.cids[p]} |->
                   IF c = call.cids[p] THEN outcome ELSE entries[c]]
  /\ task' = [task EXCEPT ![p] = "ended"]
  /\ UNCHANGED gateway

Fetch(p, what) ==
  /\ task' = [task EXCEPT ![p] = what]
  /\ gateway' = [gateway EXCEPT ![p] = 1]
  /\ UNCHANGED entries

Get(p, thing) == blob' = [blob EXCEPT ![p] = thing]

\* Decompressed and parsed as it is.
Parsed(thing) == IF thing \in Cid \ Encrypted THEN thing ELSE Failed

\* The blob is here.  If the root said that it is encrypted, the caller's key is
\* used, or TACo asked for it with the caller's wallet.
Open(p, sealed, thing) ==
  IF ~sealed THEN Set(p, Parsed(thing))
  ELSE IF call.key = "none" THEN Set(p, Failed) ELSE Fetch(p, "key")

\* A root node was fetched: parse it and see where the conversation is, and whether
\* it is encrypted.  That root decides, whoever's it is.
RootArrives(p) ==
  /\ task[p] = "root"
  /\ \/ Set(p, Failed) /\ UNCHANGED blob           \* it does not parse
     \/ \E root \in Cid :
          \/ /\ OneNode \/ Form[root] = "direct"
             /\ Get(p, root) /\ Set(p, root)
          \/ /\ ~OneNode /\ Form[root] = "inline"
             /\ Get(p, root) /\ Open(p, root \in Encrypted, root)
          \/ /\ ~OneNode /\ Form[root] = "linked"
             /\ Fetch(p, IF root \in Encrypted THEN "sealed" ELSE "plain")
             /\ UNCHANGED blob
  /\ UNCHANGED <<call, first>>

BlobArrives(p) ==
  /\ task[p] \in {"plain", "sealed"}
  /\ \E thing \in Cid \cup {Noise} :
       Get(p, thing) /\ Open(p, task[p] = "sealed", thing)
  /\ UNCHANGED <<call, first>>

\* An error, a status that is not ok, or the timer that covers the headers and
\* the body.  A conversation read without verify is asked of one gateway only.
FetchFails(p) ==
  /\ task[p] \in {"root", "plain", "sealed"}
  /\ IF (call.verify \/ OneNode) /\ gateway[p] < Gateways
     THEN /\ gateway' = [gateway EXCEPT ![p] = @ + 1]
          /\ UNCHANGED <<task, entries>>
     ELSE Set(p, Failed)
  /\ UNCHANGED <<call, first, blob>>

\* aesGcmDecrypt(): the tag matches under the key of what was sealed, and never
\* for bytes that were not.
TagMatches(p, rightKey) == rightKey /\ blob[p] \in Encrypted

\* The key, right or wrong for what has come, or an error of TACo.
KeyArrives(p) ==
  /\ task[p] = "key"
  /\ \/ Set(p, Failed)
     \/ \E rightKey \in BOOLEAN :
          Set(p, IF TagMatches(p, rightKey) THEN blob[p] ELSE Failed)
  /\ UNCHANGED <<call, first, blob>>

\* Promise.all of the group, then the next group or the return.
GroupEnds ==
  /\ ~Returned
  /\ \A p \in Group : task[p] = "ended"
  /\ first' = first + Concurrency
  /\ task' = [p \in Place |->
                IF p \in first' .. first' + Concurrency - 1 THEN "root" ELSE task[p]]
  /\ UNCHANGED <<call, gateway, blob, entries>>

TaskStep(p) ==
  RootArrives(p) \/ BlobArrives(p) \/ FetchFails(p) \/ KeyArrives(p)

Next == GroupEnds \/ \E p \in Place : TaskStep(p)

Spec == Init /\ [][Next]_vars

\* A fetch is ended by its timer at the latest; TACo is assumed to answer, as no
\* timer covers it.
FairSpec == Spec /\ WF_vars(Next)

-----------------------------------------------------------------------------
(* What the client promises *)

\* What has come under each CID.
Came   == [c \in {call.cids[p] : p \in Place} |->
             {blob[p] : p \in {q \in Place : call.cids[q] = c}} \ {NotYet, Noise}]
Answer == IF Returned THEN entries ELSE NotYet

Promise == INSTANCE Downloads WITH arrived <- Came, answer <- Answer

\* The Map handed back has an entry for every CID asked for, and it is an error or
\* a conversation that came when that CID was read: none of the answers of the
\* parallel reads gets under another CID, into the wrong group, or lost
\* (retrieveConversations, retrieveConversation).  That it is the conversation
\* stored there is not promised: RetrievalIsVerified is refuted.
RetrievalKeepsPromise == Promise!Safe

\* A call returns, however many gateways do not answer (fetchAndVerify's timer,
\* fetchWithFallback, Promise.all per group).
EveryRetrievalEnds == Promise!Answered

\* At most three conversations are read at a time, and none of a later group
\* before every one of the group in hand has settled.
ThreeAtATime ==
  /\ Cardinality(Active) <= Concurrency
  /\ \A p, q \in Place : p \in Active /\ q < first => task[q] = "ended"

-----------------------------------------------------------------------------
(* Refuted *)

\* A conversation once read stays in the Map.  Not so for a CID listed twice: the
\* task that ends last writes the entry, and its error replaces the conversation.
ReadStaysRead ==
  [][\A c \in DOMAIN entries : entries[c] # Failed => entries'[c] = entries[c]]_vars

\* "Implements verified retrieval" (client/retrieval.ts): what is handed back under
\* a CID is what is stored there.  Not so: fetchAndVerify() verifies nothing.  The
\* tag of an encrypted blob does not help either, because the root that came says
\* whether there is anything to decrypt, and with which key.
RetrievalIsVerified == \A c \in DOMAIN entries : entries[c] \in {Failed, c}
=============================================================================
