---------------------------- MODULE StartupProofs ----------------------------
(***************************************************************************)
(* Theorems about Startup for every number of shims and runs, all settings *)
(* and command lines.                                                      *)
(***************************************************************************)
EXTENDS Startup, FiniteSetTheorems, TLAPS

-----------------------------------------------------------------------------
(***************************************************************************)
(* The inductive invariant.  The rows of sessions.parquet are numbered     *)
(* from 0, and there are no more of them than runs that have read the file *)
(* (Counted), so that the ids stay within their bound.  What a process     *)
(* remembers between two steps of its key phase is what is on disk, as     *)
(* long as no other is in its key phase (KeysOK); the same for the rows    *)
(* while it registers (ListOK).                                            *)
(***************************************************************************)

Shim == [pc : Stage, run : 0..MaxRuns,
         cfg : {<<>>} \cup [Setting -> 0..2],
         given : {<<>>} \cup UNION {[S -> {0, 2}] : S \in SUBSET Setting},
         named : BOOLEAN, wallet : BOOLEAN, shared : BOOLEAN, stores : BOOLEAN,
         key : 0..MaxRuns, cid : 0..MaxRuns, rows : Seq(Row)]

Early   == {"resolved", "keys", "recorder"} \cup KeyPhase
Late    == Registering \cup {"opening"}
Pending == {proc[p].run : p \in {q \in Process : proc[q].pc \in Early}}
Counted == (1..runs) \ Pending

Types ==
  /\ TypeOK
  /\ proc \in [Process -> Shim]

\* A run has its number to itself; in its key phase it has a key.
RunsOK ==
  /\ \A p \in Process : /\ proc[p].pc \in Early \cup Late => proc[p].run \in 1..runs
                        /\ proc[p].pc \in KeyPhase => proc[p].key # 0
                        /\ proc[p].pc = "sending" => proc[p].cid # 0
  /\ \A p, q \in Process :
       /\ proc[p].pc \in Early \cup Late /\ proc[q].pc \in Early \cup Late
       /\ proc[p].run = proc[q].run
       => p = q

\* A list of rows is numbered from 0, and there is a run for each row.
Numbered(rows) == /\ \A i \in DOMAIN rows : rows[i].id = i - 1
                  /\ Len(rows) <= Cardinality(Counted)

RowsOK ==
  /\ sessions # Torn => Numbered(sessions)
  /\ \A p \in Process :
       /\ Numbered(proc[p].rows)
       /\ proc[p].pc \in Late => /\ proc[p].rows # <<>>
                                 /\ Last(proc[p].rows).cid = proc[p].cid

KeyKnown == keyFile \notin {NoFile, Torn}

\* The CID in the key file is that of its key.
KnownOK ==
  KeyKnown /\ keyFile.cid # 0 => keyFile.cid = keyFile.key /\ keyFile.cid \in uploaded

\* What a process remembers of the key is what is on disk and on IPFS.
RemembersOK(p) ==
  /\ Shared(p) /\ proc[p].pc = "wrap" => keyFile = NoFile
  /\ Shared(p) /\ proc[p].pc \in KeyPhase \ {"wrap"} /\ KeyKnown => keyFile.key = proc[p].key
  /\ proc[p].pc = "reading" => metaFile = proc[p].key
  /\ proc[p].pc = "sending" => proc[p].cid = proc[p].key
  /\ proc[p].pc \in {"recorder"} \cup Late /\ proc[p].key # 0
       => proc[p].cid = proc[p].key /\ proc[p].cid \in uploaded

KeysOK ==
  /\ \A p, q \in Process :
       proc[p].pc \in KeyPhase /\ proc[q].pc \in KeyPhase => p = q
  /\ KnownOK
  /\ \A p \in Process : RemembersOK(p)

\* The sessions that have their row: one that waits for its own file too.
OwnId(p) == Len(proc[p].rows) - 1

\* A session that served has its row, and its own file.
KeptOK == \A s \in served : /\ files[s.id] = s.run
                            /\ [id |-> s.id, cid |-> s.cid] \in Range(Rows)

ListOK ==
  /\ \A p, q \in Process :
       proc[p].pc \in Registering /\ proc[q].pc \in Registering => p = q
  /\ sessions = Torn <=> \E p \in Process : proc[p].pc = "rewriting"
  /\ \A p \in Process : proc[p].pc = "registering" =>
       /\ Len(proc[p].rows) = Len(sessions) + 1
       /\ \A i \in DOMAIN sessions : proc[p].rows[i] = sessions[i]
  /\ \A p \in Process : proc[p].pc = "opening" => Last(proc[p].rows) \in Range(Rows)
  /\ \A p, q \in Process :
       proc[p].pc \in Late /\ proc[q].pc \in Late /\ p # q => OwnId(p) # OwnId(q)
  /\ \A p \in Process, s \in served : proc[p].pc \in Late => s.id # OwnId(p)
  /\ KeptOK

\* The rows of the sessions that served, while nothing was crossed.
NamesOK == \A s \in served : s.key # 0 => s.cid = s.key /\ s.cid \in uploaded

Base == Types /\ RunsOK /\ RowsOK
Key  == ~raced => KeysOK /\ NamesOK
List == ~mishap => ListOK

IInv == Base /\ Key /\ List

-----------------------------------------------------------------------------
(***************************************************************************)
(* What a step does to the processes: one moves, and what it remembers     *)
(* afterwards is given field by field.                                     *)
(***************************************************************************)

Moved(p) == /\ proc' \in [Process -> Shim]
            /\ \A q \in Process \ {p} : proc'[q] = proc[q]

\* The process goes on, with this key, this CID and this list of rows.
Steps(p, pc, key, cid, rows) ==
  /\ Moved(p)
  /\ proc'[p].pc = pc /\ proc'[p].key = key /\ proc'[p].cid = cid /\ proc'[p].rows = rows
  /\ proc'[p].run = proc[p].run /\ proc'[p].shared = proc[p].shared

Goes(p, pc) == Steps(p, pc, proc[p].key, proc[p].cid, proc[p].rows)

Rests(p, pc) ==
  /\ Moved(p)
  /\ proc'[p].pc = pc /\ proc'[p].key = 0 /\ proc'[p].cid = 0 /\ proc'[p].rows = <<>>
  /\ proc'[p].shared = FALSE

\* The run has been given its number and its configuration.
Launches(p) ==
  /\ Moved(p) /\ proc[p].pc = "down"
  /\ proc'[p].pc = "resolved" /\ proc'[p].run = runs + 1 /\ proc'[p].cfg \in [Setting -> 0..2]
  /\ proc'[p].key = 0 /\ proc'[p].cid = 0 /\ proc'[p].rows = <<>>
  /\ proc'[p].shared = FALSE /\ runs' = runs + 1 /\ runs < MaxRuns

LEMMA DownIsShim ==
  ASSUME NEW pc \in Stage
  PROVE  [Down EXCEPT !.pc = pc] \in Shim
<1>1. 0 \in 0..MaxRuns
  BY BoundAssumption
<1>2. <<>> \in Seq(Row)
  OBVIOUS
<1> QED
  BY <1>1, <1>2 DEF Shim, Down

\* A process that only moves on.
LEMMA GoSteps ==
  ASSUME proc \in [Process -> Shim], NEW p \in Process, NEW pc \in Stage, Go(p, pc)
  PROVE  Goes(p, pc)
<1>1. proc[p] \in Shim
  OBVIOUS
<1>2. [proc[p] EXCEPT !.pc = pc] \in Shim
  BY <1>1 DEF Shim
<1>3. proc' = [proc EXCEPT ![p] = [proc[p] EXCEPT !.pc = pc]]
  BY DEF Go
<1>4. Moved(p) /\ proc'[p] = [proc[p] EXCEPT !.pc = pc]
  BY <1>2, <1>3 DEF Moved
<1> QED
  BY <1>1, <1>4 DEF Goes, Steps, Shim

\* A process that forgets what it had.
LEMMA RestSteps ==
  ASSUME proc \in [Process -> Shim], NEW p \in Process, NEW pc \in Stage, Rest(p, pc)
  PROVE  Rests(p, pc)
<1>1. [Down EXCEPT !.pc = pc] \in Shim
  BY DownIsShim
<1>2. Moved(p) /\ proc'[p] = [Down EXCEPT !.pc = pc]
  BY <1>1 DEF Rest, Moved
<1> QED
  BY <1>2 DEF Rests, Down

\* What a run resolves to is within its type.
LEMMA ResolvedSteps ==
  ASSUME Types, NEW p \in Process, proc[p].pc = "down", runs < MaxRuns,
         NEW c \in [Setting -> {0, 1}], NEW line \in CommandLine,
         NEW named \in BOOLEAN, Resolved(p, c, line, named)
  PROVE  Launches(p)
<1>1. PICK S \in SUBSET Setting : line.given \in [S -> {0, 2}]
  BY DEF CommandLine
<1>2. Override(c, line.given) \in [Setting -> 0..2]
  BY <1>1 DEF Override
<1>3. c \in [Setting -> 0..2]
  OBVIOUS
<1>4. PICK wallet \in BOOLEAN, final \in [Setting -> 0..2] :
        /\ runs' = runs + 1
        /\ proc' = [proc EXCEPT ![p] =
                  [Down EXCEPT !.pc = "resolved", !.run = runs + 1, !.cfg = final,
                               !.given = line.given, !.named = named,
                               !.wallet = wallet]]
  BY <1>2, <1>3 DEF Resolved
<1> DEFINE new == [Down EXCEPT !.pc = "resolved", !.run = runs + 1, !.cfg = final,
                               !.given = line.given, !.named = named,
                               !.wallet = wallet]
<1>5. runs + 1 \in 0..MaxRuns /\ 0 \in 0..MaxRuns
  BY BoundAssumption DEF Types, TypeOK
<1>6. line.given \in UNION {[T -> {0, 2}] : T \in SUBSET Setting}
  BY <1>1
<1>7. "resolved" \in Stage
  BY DEF Stage
<1> DEFINE d1 == [Down EXCEPT !.pc = "resolved"]
           d2 == [d1 EXCEPT !.run = runs + 1]
           d3 == [d2 EXCEPT !.cfg = final]
           d4 == [d3 EXCEPT !.given = line.given]
           d5 == [d4 EXCEPT !.named = named]
           d6 == [d5 EXCEPT !.wallet = wallet]
<1>8. new \in Shim /\ new.pc = "resolved" /\ new.run = runs + 1 /\ new.cfg = final
       /\ new.key = 0 /\ new.cid = 0 /\ new.rows = <<>> /\ new.shared = FALSE
  <2>1. d1 \in Shim /\ d1.pc = "resolved"
        /\ d1.key = 0 /\ d1.cid = 0 /\ d1.rows = <<>> /\ d1.shared = FALSE
    BY <1>7, DownIsShim DEF Down
  <2> HIDE DEF d1
  <2>2. d2 \in Shim /\ d2.pc = "resolved" /\ d2.run = runs + 1
        /\ d2.key = 0 /\ d2.cid = 0 /\ d2.rows = <<>> /\ d2.shared = FALSE
    BY <2>1, <1>5 DEF Shim
  <2> HIDE DEF d2
  <2>3. d3 \in Shim /\ d3.pc = "resolved" /\ d3.run = runs + 1 /\ d3.cfg = final
        /\ d3.key = 0 /\ d3.cid = 0 /\ d3.rows = <<>> /\ d3.shared = FALSE
    BY <2>2 DEF Shim
  <2> HIDE DEF d3
  <2>4. d4 \in Shim /\ d4.pc = "resolved" /\ d4.run = runs + 1 /\ d4.cfg = final
        /\ d4.key = 0 /\ d4.cid = 0 /\ d4.rows = <<>> /\ d4.shared = FALSE
    BY <2>3, <1>6 DEF Shim
  <2> HIDE DEF d4
  <2>5. d5 \in Shim /\ d5.pc = "resolved" /\ d5.run = runs + 1 /\ d5.cfg = final
        /\ d5.key = 0 /\ d5.cid = 0 /\ d5.rows = <<>> /\ d5.shared = FALSE
    BY <2>4 DEF Shim
  <2> HIDE DEF d5
  <2>6. d6 \in Shim /\ d6.pc = "resolved" /\ d6.run = runs + 1 /\ d6.cfg = final
        /\ d6.key = 0 /\ d6.cid = 0 /\ d6.rows = <<>> /\ d6.shared = FALSE
    BY <2>5 DEF Shim
  <2> QED
    BY <2>6 DEF d1, d2, d3, d4, d5, d6
<1>9. Moved(p) /\ proc'[p] = new
  BY <1>4, <1>8 DEF Moved, Types
<1> HIDE DEF new
<1> QED
  BY <1>4, <1>8, <1>9 DEF Launches

LEMMA LaunchSteps ==
  ASSUME Types, NEW p \in Process, Launch(p) \/ LaunchWizard(p)
  PROVE  Launches(p)
<1>1. CASE Launch(p)
  <2>1. Defaults \in [Setting -> {0, 1}]
    BY DEF Defaults
  <2>2. PICK line \in CommandLine, named \in BOOLEAN :
          \E c \in Sources(line, named) : Resolved(p, c, line, named)
    BY <1>1 DEF Launch
  <2>3. PICK c \in Sources(line, named) : Resolved(p, c, line, named)
    BY <2>2
  <2>4. c \in [Setting -> {0, 1}]
    BY <2>1 DEF Sources, Types, TypeOK
  <2> QED
    BY <1>1, <2>3, <2>4, ResolvedSteps DEF Launch
<1>2. CASE LaunchWizard(p)
  <2>1. PICK answers \in [Setting -> {0, 1}], line \in CommandLine :
          Resolved(p, answers, line, FALSE)
    BY <1>2 DEF LaunchWizard
  <2> QED
    BY <1>2, <2>1, ResolvedSteps DEF LaunchWizard
<1> QED
  BY <1>1, <1>2

\* A run at work begins without key, CID and rows.
Begun(p, pc) ==
  /\ Moved(p)
  /\ proc'[p].pc = pc /\ proc'[p].key = 0 /\ proc'[p].cid = 0 /\ proc'[p].rows = <<>>
  /\ proc'[p].run = proc[p].run

LEMMA BeginSteps ==
  ASSUME proc \in [Process -> Shim], NEW p \in Process, Begin(p)
  PROVE  /\ proc[p].pc = "resolved"
         /\ \/ Rests(p, "bridge") \/ Rests(p, "plain") \/ Rests(p, "down")
            \/ Begun(p, "keys") \/ Begun(p, "recorder")
<1> DEFINE c == proc[p].cfg
           d1 == [Down EXCEPT !.run = proc[p].run]
           d2 == [d1 EXCEPT !.wallet = proc[p].wallet]
           d3 == [d2 EXCEPT !.shared = On(c, "keyPath")]
           d4 == [d3 EXCEPT !.stores = On(c, "upload")]
           b(pc) == [d4 EXCEPT !.pc = pc]
<1>1. proc[p] \in Shim /\ {"bridge", "plain", "down", "keys", "recorder"} \subseteq Stage
  BY DEF Stage
<1>2. On(c, "keyPath") \in BOOLEAN /\ On(c, "upload") \in BOOLEAN
  BY DEF On
<1>3. d4 \in Shim /\ d4.run = proc[p].run /\ d4.key = 0 /\ d4.cid = 0 /\ d4.rows = <<>>
  <2>1. Down \in Shim
    <3>1. [Down EXCEPT !.pc = "down"] = Down
      BY DEF Down
    <3> QED
      BY <1>1, <3>1, DownIsShim
  <2>2. Down.key = 0 /\ Down.cid = 0 /\ Down.rows = <<>>
    BY DEF Down
  <2>3. d1 \in Shim /\ d1.run = proc[p].run /\ d1.key = 0 /\ d1.cid = 0 /\ d1.rows = <<>>
    BY <1>1, <2>1, <2>2 DEF Shim
  <2> HIDE DEF d1
  <2>4. d2 \in Shim /\ d2.run = proc[p].run /\ d2.key = 0 /\ d2.cid = 0 /\ d2.rows = <<>>
    BY <1>1, <2>3 DEF Shim
  <2> HIDE DEF d2
  <2>5. d3 \in Shim /\ d3.run = proc[p].run /\ d3.key = 0 /\ d3.cid = 0 /\ d3.rows = <<>>
    BY <1>2, <2>4 DEF Shim
  <2> HIDE DEF d3
  <2> QED
    BY <1>2, <2>5 DEF Shim
<1> HIDE DEF d4
<1>4. ASSUME NEW pc \in Stage, proc' = [proc EXCEPT ![p] = b(pc)]
      PROVE  Begun(p, pc)
  <2>1. b(pc) \in Shim /\ b(pc).pc = pc /\ b(pc).run = proc[p].run
        /\ b(pc).key = 0 /\ b(pc).cid = 0 /\ b(pc).rows = <<>>
    BY <1>3 DEF Shim
  <2> HIDE DEF b
  <2>2. Moved(p) /\ proc'[p] = b(pc)
    BY <1>4, <2>1 DEF Moved
  <2> QED
    BY <2>1, <2>2 DEF Begun
<1>5. \A pc \in Stage : Rest(p, pc) => Rests(p, pc)
  BY RestSteps
<1>6. proc[p].pc = "resolved"
      /\ \/ Rest(p, "bridge") \/ Rest(p, "plain") \/ Rest(p, "down")
         \/ proc' = [proc EXCEPT ![p] = b("keys")]
         \/ proc' = [proc EXCEPT ![p] = b("recorder")]
  BY DEF Begin, Exit, d1, d2, d3, d4
<1> QED
  BY <1>1, <1>4, <1>5, <1>6

\* A process that goes on with another key, another CID, or a list of rows.
LEMMA FieldSteps ==
  ASSUME proc \in [Process -> Shim], NEW p \in Process, NEW pc \in Stage
  PROVE  /\ \A k \in 0..MaxRuns :
              /\ proc' = [proc EXCEPT ![p].pc = pc, ![p].key = k]
                   => Steps(p, pc, k, proc[p].cid, proc[p].rows)
              /\ proc' = [proc EXCEPT ![p].cid = k, ![p].pc = pc]
                   => Steps(p, pc, proc[p].key, k, proc[p].rows)
         /\ \A l \in Seq(Row) :
              proc' = [proc EXCEPT ![p].pc = pc, ![p].rows = l]
                => Steps(p, pc, proc[p].key, proc[p].cid, l)
<1>1. proc[p] \in Shim
  OBVIOUS
<1>2. ASSUME NEW r \in Shim, proc' = [proc EXCEPT ![p] = r]
      PROVE  Moved(p) /\ proc'[p] = r
  BY <1>2 DEF Moved
<1>3. ASSUME NEW k \in 0..MaxRuns, proc' = [proc EXCEPT ![p].pc = pc, ![p].key = k]
      PROVE  Steps(p, pc, k, proc[p].cid, proc[p].rows)
  <2> DEFINE r == [proc[p] EXCEPT !.pc = pc, !.key = k]
  <2>1. r \in Shim
    BY <1>1 DEF Shim
  <2>2. proc' = [proc EXCEPT ![p] = r]
    BY <1>3
  <2> QED
    BY <1>1, <1>2, <2>1, <2>2 DEF Steps, Shim
<1>4. ASSUME NEW k \in 0..MaxRuns, proc' = [proc EXCEPT ![p].cid = k, ![p].pc = pc]
      PROVE  Steps(p, pc, proc[p].key, k, proc[p].rows)
  <2> DEFINE r == [proc[p] EXCEPT !.cid = k, !.pc = pc]
  <2>1. r \in Shim
    BY <1>1 DEF Shim
  <2>2. proc' = [proc EXCEPT ![p] = r]
    BY <1>4
  <2> QED
    BY <1>1, <1>2, <2>1, <2>2 DEF Steps, Shim
<1>5. ASSUME NEW l \in Seq(Row), proc' = [proc EXCEPT ![p].pc = pc, ![p].rows = l]
      PROVE  Steps(p, pc, proc[p].key, proc[p].cid, l)
  <2> DEFINE r == [proc[p] EXCEPT !.pc = pc, !.rows = l]
  <2>1. r \in Shim
    BY <1>1 DEF Shim
  <2>2. proc' = [proc EXCEPT ![p] = r]
    BY <1>5
  <2> QED
    BY <1>1, <1>2, <2>1, <2>2 DEF Steps, Shim
<1> QED
  BY <1>3, <1>4, <1>5

LEMMA StartKeySteps ==
  ASSUME Types, RunsOK, NEW p \in Process, StartKey(p)
  PROVE  /\ proc[p].pc = "keys"
         /\ \/ Rests(p, "down")
            \/ /\ Steps(p, "wrap", proc[p].run, proc[p].cid, proc[p].rows)
               /\ ~(Shared(p) /\ keyFile # NoFile)
            \/ /\ Steps(p, "unwrap", keyFile.key, proc[p].cid, proc[p].rows)
               /\ Shared(p) /\ KeyKnown
<1> USE DEF Types
<1>1. {"down", "wrap", "unwrap"} \subseteq Stage
  BY DEF Stage, KeyPhase
<1>2. proc[p].pc = "keys" /\ proc[p] \in Shim
  BY DEF StartKey
<1>3. CASE Shared(p) /\ keyFile # NoFile /\ (keyFile = Torn \/ ~proc[p].wallet)
  <2>1. FindKey(p).pc = "down"
    BY <1>3 DEF FindKey
  <2>2. Rest(p, "down")
    BY <2>1 DEF StartKey, Exit
  <2> QED
    BY <1>1, <1>2, <2>2, RestSteps
<1>4. CASE Shared(p) /\ keyFile # NoFile /\ ~(keyFile = Torn \/ ~proc[p].wallet)
  <2>1. FindKey(p) = [key |-> keyFile.key, pc |-> "unwrap"]
    BY <1>4 DEF FindKey
  <2>2. proc' = [proc EXCEPT ![p].pc = "unwrap", ![p].key = keyFile.key]
    BY <2>1 DEF StartKey
  <2>3. keyFile.key \in 0..MaxRuns
    BY <1>4 DEF TypeOK, Run
  <2> QED
    BY <1>1, <1>2, <1>4, <2>2, <2>3, FieldSteps DEF KeyKnown
<1>5. CASE ~(Shared(p) /\ keyFile # NoFile)
  <2>1. FindKey(p) = [key |-> proc[p].run, pc |-> "wrap"]
    BY <1>5 DEF FindKey
  <2>2. proc' = [proc EXCEPT ![p].pc = "wrap", ![p].key = proc[p].run]
    BY <2>1 DEF StartKey
  <2>3. proc[p].run \in 0..MaxRuns
    BY <1>2 DEF Shim
  <2> QED
    BY <1>1, <1>2, <1>5, <2>2, <2>3, FieldSteps
<1> QED
  BY <1>3, <1>4, <1>5

LEMMA AfterKeySteps ==
  ASSUME proc \in [Process -> Shim], NEW p \in Process, AfterKey(p)
  PROVE  Goes(p, "metadata") \/ Rests(p, "plain")
<1>1. {"metadata", "plain"} \subseteq Stage
  BY DEF Stage, KeyPhase
<1> QED
  BY <1>1, GoSteps, RestSteps DEF AfterKey

LEMMA MetadataSteps ==
  ASSUME Types, NEW p \in Process
  PROVE  /\ CheckMetadata(p) =>
              \/ /\ Steps(p, "recorder", proc[p].key, PersistedCid, proc[p].rows)
                 /\ Shared(p) /\ PersistedCid # 0 /\ metaFile' = metaFile
              \/ Goes(p, "reading") /\ metaFile' = proc[p].key
         /\ ReadMetadata(p) =>
              \/ Rests(p, "down")
              \/ Steps(p, "sending", proc[p].key, metaFile, proc[p].rows) /\ metaFile # 0
<1> USE DEF Types
<1>1. {"recorder", "reading", "down", "sending"} \subseteq Stage
  BY DEF Stage, KeyPhase
<1>2. PersistedCid \in 0..MaxRuns /\ metaFile \in 0..MaxRuns
  BY BoundAssumption DEF PersistedCid, TypeOK
<1>3. ASSUME CheckMetadata(p), Shared(p) /\ PersistedCid # 0
      PROVE  /\ Steps(p, "recorder", proc[p].key, PersistedCid, proc[p].rows)
             /\ metaFile' = metaFile
  BY <1>1, <1>2, <1>3, FieldSteps DEF CheckMetadata
<1>4. ASSUME CheckMetadata(p), ~(Shared(p) /\ PersistedCid # 0)
      PROVE  Goes(p, "reading") /\ metaFile' = proc[p].key
  <2>1. Go(p, "reading") /\ metaFile' = proc[p].key
    BY <1>4 DEF CheckMetadata
  <2> QED
    BY <1>1, <2>1, GoSteps
<1>5. ASSUME ReadMetadata(p), metaFile = 0
      PROVE  Rests(p, "down")
  BY <1>1, <1>5, RestSteps DEF ReadMetadata, Exit
<1>6. ASSUME ReadMetadata(p), metaFile # 0
      PROVE  Steps(p, "sending", proc[p].key, metaFile, proc[p].rows)
  BY <1>1, <1>2, <1>6, FieldSteps DEF ReadMetadata
<1> QED
  BY <1>3, <1>4, <1>5, <1>6

-----------------------------------------------------------------------------
(* The runs and the rows are counted *)

\* In a list numbered from 0 the next id is the number of rows.
LEMMA NextIdIsLength ==
  ASSUME NEW rows \in Seq(Row), \A i \in DOMAIN rows : rows[i].id = i - 1
  PROVE  NextId(rows) = Len(rows)
<1>1. CASE rows = <<>>
  BY <1>1 DEF NextId
<1>2. CASE rows # <<>>
  <2> DEFINE n == Len(rows)
             S == {rows[i].id : i \in DOMAIN rows}
  <2>1. n \in Nat /\ n # 0 /\ DOMAIN rows = 1..n
    BY <1>2
  <2>2. S = {i - 1 : i \in 1..n}
    BY <2>1
  <2>3. n - 1 \in S /\ \A y \in S : n - 1 >= y
    BY <2>1, <2>2
  <2> HIDE DEF S, n
  <2>4. Max(S) \in S /\ \A y \in S : Max(S) >= y
    BY <2>3 DEF Max
  <2>5. S \subseteq Int
    BY <2>1, <2>2
  <2> DEFINE m == Max(S)
  <2> HIDE DEF m
  <2>6. m \in Int /\ m >= n - 1 /\ n - 1 >= m
    BY <2>3, <2>4, <2>5 DEF m
  <2>7. m = n - 1
    BY <2>1, <2>6
  <2> QED
    BY <1>2, <2>1, <2>7 DEF NextId, S, n, m
<1> QED
  BY <1>1, <1>2

LEMMA CountIsNat ==
  ASSUME runs \in Nat
  PROVE  IsFiniteSet(Counted) /\ Cardinality(Counted) \in Nat
<1>1. IsFiniteSet(1..runs)
  BY FS_Interval
<1>2. IsFiniteSet(Counted)
  BY <1>1, FS_Subset DEF Counted
<1> QED
  BY <1>2, FS_CardinalityType

LEMMA CountGrows ==
  ASSUME runs \in Nat, runs' \in Nat, Counted \subseteq Counted'
  PROVE  /\ Cardinality(Counted) \in Nat /\ Cardinality(Counted') \in Nat
         /\ Cardinality(Counted) <= Cardinality(Counted')
<1>1. IsFiniteSet(1..runs') /\ IsFiniteSet(1..runs)
  BY FS_Interval
<1>2. IsFiniteSet(Counted') /\ IsFiniteSet(Counted)
  BY <1>1, FS_Subset DEF Counted
<1> QED
  BY <1>2, FS_Subset, FS_CardinalityType

\* A step that begins no run frees the runs it ends or registers.
LEMMA CountKept ==
  ASSUME NEW p \in Process, Moved(p), runs' = runs,
         proc'[p].pc \in Early => proc[p].pc \in Early /\ proc'[p].run = proc[p].run
  PROVE  Counted \subseteq Counted'
<1>1. \A q \in Process : proc'[q].pc \in Early
         => proc[q].pc \in Early /\ proc'[q].run = proc[q].run
  BY DEF Moved
<1>2. Pending' \subseteq Pending
  BY <1>1 DEF Pending
<1> QED
  BY <1>2 DEF Counted

LEMMA RunsKept ==
  ASSUME RunsOK, NEW p \in Process, Moved(p), runs' = runs,
         proc'[p].pc \in Early \cup Late
           => proc[p].pc \in Early \cup Late /\ proc'[p].run = proc[p].run,
         proc'[p].pc \in KeyPhase => proc'[p].key # 0,
         proc'[p].pc = "sending" => proc'[p].cid # 0
  PROVE  RunsOK'
<1>1. \A q \in Process : proc'[q].pc \in Early \cup Late
         => proc[q].pc \in Early \cup Late /\ proc'[q].run = proc[q].run
  BY DEF Moved
<1>2. \A q \in Process : /\ proc'[q].pc \in Early \cup Late => proc'[q].run \in 1..runs'
                         /\ proc'[q].pc \in KeyPhase => proc'[q].key # 0
                         /\ proc'[q].pc = "sending" => proc'[q].cid # 0
  BY <1>1 DEF RunsOK, Moved
<1>3. \A q, r \in Process :
       /\ proc'[q].pc \in Early \cup Late /\ proc'[r].pc \in Early \cup Late
       /\ proc'[q].run = proc'[r].run
       => q = r
  BY <1>1 DEF RunsOK
<1> QED
  BY <1>2, <1>3 DEF RunsOK

LEMMA RowsKept ==
  ASSUME Types, RowsOK, runs' \in Nat, Counted \subseteq Counted',
         NEW p \in Process, Moved(p),
         sessions' \in {sessions, Torn, proc[p].rows},
         proc'[p].rows \in {proc[p].rows, <<>>},
         proc'[p].pc \in Late => /\ proc[p].pc \in Late /\ proc'[p].rows = proc[p].rows
                                 /\ proc'[p].cid = proc[p].cid
  PROVE  RowsOK'
<1>1. Cardinality(Counted) \in Nat /\ Cardinality(Counted') \in Nat
      /\ Cardinality(Counted) <= Cardinality(Counted')
  BY CountGrows DEF Types, TypeOK
<1>2. ASSUME NEW l, Len(l) \in Nat, Numbered(l)
      PROVE  (\A i \in DOMAIN l : l[i].id = i - 1) /\ Len(l) <= Cardinality(Counted')
  BY <1>1, <1>2 DEF Numbered
<1>3. \A q \in Process : Numbered(proc[q].rows) /\ Len(proc[q].rows) \in Nat
  BY DEF RowsOK, Types, Shim
<1>4. sessions # Torn => Numbered(sessions) /\ Len(sessions) \in Nat
  BY DEF RowsOK, Types, TypeOK
<1>5. ASSUME sessions' # Torn
      PROVE  /\ \A i \in DOMAIN sessions' : sessions'[i].id = i - 1
             /\ Len(sessions') <= Cardinality(Counted')
  <2>1. CASE sessions' = sessions
    BY <1>2, <1>4, <1>5, <2>1
  <2>2. CASE sessions' = proc[p].rows
    BY <1>2, <1>3, <2>2
  <2> QED
    BY <1>5, <2>1, <2>2
<1>6. ASSUME NEW q \in Process
      PROVE  /\ \A i \in DOMAIN proc'[q].rows : proc'[q].rows[i].id = i - 1
             /\ Len(proc'[q].rows) <= Cardinality(Counted')
  <2>1. CASE proc'[q].rows = proc[q].rows
    BY <1>2, <1>3, <2>1
  <2>2. CASE proc'[q].rows = <<>>
    BY <1>1, <2>2
  <2> QED
    BY <2>1, <2>2 DEF Moved
<1>7. \A q \in Process : proc'[q].pc \in Late => /\ proc'[q].rows # <<>>
                                 /\ Last(proc'[q].rows).cid = proc'[q].cid
  BY DEF RowsOK, Moved
<1> QED
  BY <1>5, <1>6, <1>7 DEF RowsOK, Numbered

\* The row that a run adds: the next id, and one more run that has read the file.
LEMMA ReadSteps ==
  ASSUME Types, RunsOK, RowsOK, NEW p \in Process, ReadSessions(p)
  PROVE  LET row == [id |-> Len(Readable), cid |-> proc[p].cid] IN
         /\ proc[p].pc = "recorder" /\ Readable \in Seq(Row) /\ row \in Row
         /\ Steps(p, "registering", proc[p].key, proc[p].cid, Append(Readable, row))
         /\ \A i \in DOMAIN Append(Readable, row) : Append(Readable, row)[i].id = i - 1
         /\ Len(Append(Readable, row)) <= Cardinality(Counted')
         /\ Counted \subseteq Counted'
<1> DEFINE row == [id |-> Len(Readable), cid |-> proc[p].cid]
           rows == Append(Readable, row)
<1>1. /\ Readable \in Seq(Row) /\ Len(Readable) <= Cardinality(Counted)
      /\ \A i \in DOMAIN Readable : Readable[i].id = i - 1
  <2>1. Cardinality(Counted) \in Nat
    BY CountIsNat DEF Types, TypeOK
  <2>2. CASE sessions = Torn
    BY <2>1, <2>2 DEF Readable
  <2>3. CASE sessions # Torn
    <3>1. Readable = sessions
      BY <2>3 DEF Readable
    <3>2. sessions \in Seq(Row) /\ Numbered(sessions)
      BY <2>3 DEF Types, TypeOK, RowsOK
    <3> QED
      BY <3>1, <3>2 DEF Numbered
  <2> QED
    BY <2>2, <2>3
<1>2. /\ proc[p].pc = "recorder" /\ proc[p].run \in 1..runs /\ proc[p].run \notin Counted
      /\ runs \in 0..MaxRuns /\ proc[p].cid \in 0..MaxRuns
  BY DEF ReadSessions, RunsOK, Counted, Pending, Early, Types, TypeOK, Shim
<1>3. /\ Cardinality(Counted) \in Nat /\ Cardinality(1..runs) = runs
      /\ Cardinality(Counted \cup {proc[p].run}) = Cardinality(Counted) + 1
      /\ IsFiniteSet(Counted \cup {proc[p].run})
      /\ Cardinality(Counted \cup {proc[p].run}) <= runs
  <2>1. IsFiniteSet(1..runs) /\ Cardinality(1..runs) = runs
    BY <1>2, FS_Interval, BoundAssumption
  <2>2. Counted \subseteq 1..runs /\ Counted \cup {proc[p].run} \subseteq 1..runs
    BY <1>2 DEF Counted
  <2>3. IsFiniteSet(Counted) /\ IsFiniteSet(Counted \cup {proc[p].run})
        /\ Cardinality(Counted \cup {proc[p].run}) <= runs
    BY <2>1, <2>2, FS_Subset
  <2> QED
    BY <1>2, <2>1, <2>3, FS_AddElement, FS_CardinalityType
<1>4. row \in Row
  BY <1>1, <1>2, <1>3, BoundAssumption DEF Row, Id
<1>5. rows \in Seq(Row) /\ Len(rows) = Len(Readable) + 1 /\ DOMAIN rows = 1..(Len(Readable) + 1)
      /\ (\A i \in 1..Len(Readable) : rows[i] = Readable[i]) /\ rows[Len(Readable) + 1] = row
  BY <1>1, <1>4
<1>6. Steps(p, "registering", proc[p].key, proc[p].cid, rows)
  <2>1. NextId(Readable) = Len(Readable)
    BY <1>1, NextIdIsLength
  <2>2. proc' = [proc EXCEPT ![p].pc = "registering", ![p].rows = rows]
    BY <2>1 DEF ReadSessions
  <2>3. "registering" \in Stage
    BY DEF Stage, Registering
  <2> HIDE DEF rows
  <2> QED
    BY <1>5, <2>2, <2>3, FieldSteps DEF Types
<1> HIDE DEF rows
<1>7. Counted \cup {proc[p].run} \subseteq Counted'
  <2>1. runs' = runs
    BY DEF ReadSessions
  <2>2. Counted \subseteq Counted'
    BY <1>6, <2>1, CountKept DEF Steps, Early, KeyPhase
  <2>3. \A q \in Process : proc'[q].pc \in Early => proc[q].pc \in Early /\ q # p
                                                    /\ proc'[q].run = proc[q].run
    BY <1>6 DEF Steps, Moved, Early, KeyPhase
  <2>4. proc[p].run \notin Pending'
    BY <1>2, <2>3 DEF Pending, RunsOK, Early
  <2> QED
    BY <1>2, <2>1, <2>2, <2>4 DEF Counted
<1>8. Cardinality(Counted) + 1 <= Cardinality(Counted')
  <2>1. runs' = runs
    BY DEF ReadSessions
  <2>2. IsFiniteSet(1..runs')
    BY FS_Interval, <1>2, <2>1
  <2>3. IsFiniteSet(Counted')
    BY <2>2, FS_Subset DEF Counted
  <2> QED
    BY <1>3, <1>7, <2>3, FS_Subset
<1>9. \A i \in DOMAIN rows : rows[i].id = i - 1
  <2> SUFFICES ASSUME NEW i \in DOMAIN rows
               PROVE  rows[i].id = i - 1
    OBVIOUS
  <2>1. CASE i \in 1..Len(Readable)
    BY <1>1, <1>5, <2>1
  <2>2. CASE i = Len(Readable) + 1
    BY <1>1, <1>5, <2>2
  <2> QED
    BY <1>1, <1>5, <2>1, <2>2
<1>10. Len(rows) <= Cardinality(Counted')
  <2>1. Cardinality(Counted') \in Nat
    <3>1. runs' \in Nat /\ runs \in Nat
      BY <1>2, BoundAssumption DEF ReadSessions
    <3> QED
      BY <1>7, <3>1, CountGrows
  <2>2. Len(Readable) \in Nat
    BY <1>1
  <2> QED
    BY <1>1, <1>3, <1>5, <1>8, <2>1, <2>2
<1> QED
  BY <1>1, <1>2, <1>4, <1>6, <1>7, <1>9, <1>10 DEF rows

-----------------------------------------------------------------------------
(* Types, runs and rows *)

\* What TypeOK says of everything but the processes.
DiskOK ==
  /\ configFile \in {NoFile, Torn} \cup [Setting -> {0, 1}]
  /\ keyFile \in {NoFile, Torn} \cup [key : Run, cid : 0..MaxRuns]
  /\ metaFile \in 0..MaxRuns /\ uploaded \subseteq Run
  /\ sessions = Torn \/ sessions \in Seq(Row)
  /\ files \in [Id -> 0..MaxRuns]
  /\ runs \in 0..MaxRuns
  /\ served \subseteq [run : Run, id : Id, cid : 0..MaxRuns, key : 0..MaxRuns]
  /\ raced \in BOOLEAN /\ mishap \in BOOLEAN

LEMMA TypesKept ==
  ASSUME Types, NEW p \in Process, Moved(p), DiskOK',
         proc'[p].pc = "resolved" => proc'[p].cfg \in [Setting -> 0..2]
  PROVE  Types'
<1>1. \A q \in Process : /\ proc'[q].pc \in Stage
                         /\ proc'[q].pc = "resolved" => proc'[q].cfg \in [Setting -> 0..2]
                         /\ proc'[q].rows \in Seq(Row)
  <2> SUFFICES ASSUME NEW q \in Process
               PROVE  /\ proc'[q].pc \in Stage
                      /\ proc'[q].pc = "resolved" => proc'[q].cfg \in [Setting -> 0..2]
                      /\ proc'[q].rows \in Seq(Row)
    OBVIOUS
  <2>1. proc'[q].pc \in Stage /\ proc'[q].rows \in Seq(Row)
    BY DEF Moved, Shim
  <2>2. proc'[q].pc = "resolved" => proc'[q].cfg \in [Setting -> 0..2]
    BY DEF Moved, Types, TypeOK
  <2> QED
    BY <2>1, <2>2
<1> QED
  BY <1>1 DEF Types, TypeOK, DiskOK, Moved

\* A run that begins counts neither as ended nor as registered.
LEMMA LaunchKeeps ==
  ASSUME Base, NEW p \in Process, Launches(p), DiskOK', sessions' = sessions
  PROVE  Base' /\ Counted \subseteq Counted'
<1>1. runs \in Nat /\ runs' \in Nat
  BY BoundAssumption DEF Launches, Base, Types, TypeOK
<1>2. Types'
  BY TypesKept DEF Launches, Base
<1>3. \A q \in Process : q # p => proc'[q] = proc[q]
  BY DEF Launches, Moved
<1>4. RunsOK'
  <2>1. \A q \in Process \ {p} : proc[q].pc \in Early \cup Late =>
          proc'[q].run \in 1..runs /\ proc'[q].run # runs + 1 /\ proc'[q].run \in 1..runs'
    BY <1>1, <1>3 DEF Launches, Base, RunsOK
  <2>2. /\ proc'[p].run \in 1..runs' /\ proc'[p].run = runs + 1
        /\ proc'[p].pc \notin KeyPhase /\ proc'[p].pc # "sending"
    BY <1>1 DEF Launches, KeyPhase
  <2>3. \A q \in Process : /\ proc'[q].pc \in Early \cup Late => proc'[q].run \in 1..runs'
                           /\ proc'[q].pc \in KeyPhase => proc'[q].key # 0
                           /\ proc'[q].pc = "sending" => proc'[q].cid # 0
    BY <1>3, <2>1, <2>2 DEF Base, RunsOK
  <2>4. \A q, r \in Process :
           /\ proc'[q].pc \in Early \cup Late /\ proc'[r].pc \in Early \cup Late
           /\ proc'[q].run = proc'[r].run
           => q = r
    BY <1>3, <2>1, <2>2 DEF Base, RunsOK
  <2> QED
    BY <2>3, <2>4 DEF RunsOK
<1>5. Counted \subseteq Counted'
  <2>1. \A q \in Process : proc'[q].pc \in Early =>
          proc'[q].run = runs + 1 \/ (proc[q].pc \in Early /\ proc'[q].run = proc[q].run)
    BY <1>3 DEF Launches
  <2>2. Pending' \subseteq Pending \cup {runs + 1}
    BY <2>1 DEF Pending
  <2>3. runs' = runs + 1
    BY DEF Launches
  <2> QED
    BY <1>1, <2>2, <2>3 DEF Counted
<1>6. proc'[p].pc \notin Late
  BY DEF Launches, Late, Registering
<1>7. RowsOK'
  BY <1>1, <1>5, <1>6, RowsKept DEF Launches, Base
<1> QED
  BY <1>2, <1>4, <1>5, <1>7 DEF Base

\* A step in which the process rests, or goes on from one phase to the next.
LEMMA RestKeeps ==
  ASSUME Base, NEW p \in Process, DiskOK', runs' = runs,
         sessions' \in {sessions, Torn, proc[p].rows},
         \/ \E pc \in {"down", "plain", "bridge", "serving"} : Rests(p, pc)
         \/ \E pc \in {"keys", "recorder"} : Begun(p, pc) /\ proc[p].pc = "resolved"
         \/ \E pc \in Early \ {"resolved"} :
              /\ Steps(p, pc, proc'[p].key, proc'[p].cid, proc[p].rows)
              /\ proc[p].pc \in Early
              /\ pc \in KeyPhase => proc'[p].key # 0
              /\ pc = "sending" => proc'[p].cid # 0
         \/ \E pc \in Late : Goes(p, pc) /\ proc[p].pc \in Late
  PROVE  Base' /\ Counted \subseteq Counted'
<1>1. /\ Moved(p) /\ proc'[p].rows \in {proc[p].rows, <<>>}
      /\ proc'[p].pc # "resolved"
      /\ proc'[p].pc \in Early => proc[p].pc \in Early /\ proc'[p].run = proc[p].run
      /\ proc'[p].pc \in Late => /\ proc[p].pc \in Late /\ proc'[p].rows = proc[p].rows
                                 /\ proc'[p].cid = proc[p].cid /\ proc'[p].run = proc[p].run
      /\ proc'[p].pc \in KeyPhase => proc'[p].key # 0
      /\ proc'[p].pc = "sending" => proc'[p].cid # 0
  <2>1. CASE \E pc \in {"down", "plain", "bridge", "serving"} : Rests(p, pc)
    BY <2>1 DEF Rests, Early, KeyPhase, Late, Registering
  <2>2. CASE \E pc \in {"keys", "recorder"} : Begun(p, pc) /\ proc[p].pc = "resolved"
    BY <2>2 DEF Begun, Early, KeyPhase, Late, Registering
  <2>3. CASE \E pc \in Early \ {"resolved"} :
              /\ Steps(p, pc, proc'[p].key, proc'[p].cid, proc[p].rows)
              /\ proc[p].pc \in Early
              /\ pc \in KeyPhase => proc'[p].key # 0
              /\ pc = "sending" => proc'[p].cid # 0
    BY <2>3 DEF Steps, Early, KeyPhase, Late, Registering
  <2>4. CASE \E pc \in Late : Goes(p, pc) /\ proc[p].pc \in Late
    BY <2>4 DEF Goes, Steps, Early, KeyPhase, Late, Registering
  <2> QED
    BY <2>1, <2>2, <2>3, <2>4
<1>2. runs' \in Nat
  BY BoundAssumption DEF Base, Types, TypeOK
<1>3. Counted \subseteq Counted'
  BY <1>1, CountKept
<1>4. Types'
  BY <1>1, TypesKept DEF Base
<1>5. RunsOK'
  BY <1>1, RunsKept DEF Base
<1>6. RowsOK'
  BY <1>1, <1>2, <1>3, RowsKept DEF Base
<1> QED
  BY <1>3, <1>4, <1>5, <1>6 DEF Base

LEMMA BaseInit == Init => Base
<1> SUFFICES ASSUME Init
             PROVE  Base
  OBVIOUS
<1>1. 0 \in 0..MaxRuns /\ <<>> \in Seq(Row) /\ "down" \in Stage
  BY BoundAssumption DEF Stage
<1>2. Down \in Shim
  <2>1. [Down EXCEPT !.pc = "down"] = Down
    BY DEF Down
  <2> QED
    BY <1>1, <2>1, DownIsShim
<1>3. \A p \in Process : proc[p] = Down
  BY DEF Init
<1>4. proc \in [Process -> Shim]
  BY <1>2 DEF Init
<1>5. Down.pc = "down" /\ Down.rows = <<>>
  BY DEF Down
<1>6. Types
  <2>1. \A p \in Process : /\ proc[p].pc \in Stage
                           /\ proc[p].pc = "resolved" => proc[p].cfg \in [Setting -> 0..2]
                           /\ proc[p].rows \in Seq(Row)
    BY <1>1, <1>3, <1>5
  <2>2. files \in [Id -> 0..MaxRuns]
    BY <1>1 DEF Init
  <2> QED
    BY <1>1, <1>4, <2>1, <2>2 DEF Types, TypeOK, Init
<1>7. RunsOK
  BY <1>3, <1>5 DEF RunsOK, Early, Late, KeyPhase, Registering
<1>8. RowsOK
  <2>1. Cardinality(Counted) \in Nat
    BY CountIsNat DEF Init
  <2>2. Numbered(<<>>)
    BY <2>1 DEF Numbered
  <2> QED
    BY <1>3, <1>5, <2>2 DEF RowsOK, Late, Registering, Init
<1> QED
  BY <1>6, <1>7, <1>8 DEF Base

LEMMA ConfigSteps ==
  ASSUME Base, NEW p \in Process, Launch(p) \/ LaunchWizard(p) \/ Begin(p)
  PROVE  Base'
<1> USE DEF Base, Types
<1>1. CASE Launch(p)
  <2>4. Launches(p)
    BY <1>1, LaunchSteps
  <2>5. DiskOK' /\ sessions' = sessions
    BY <1>1, <2>4, BoundAssumption DEF Launch, disk, DiskOK, TypeOK, Launches
  <2> QED
    BY <2>4, <2>5, LaunchKeeps
<1>2. CASE LaunchWizard(p)
  <2>1. PICK answers \in [Setting -> {0, 1}], line \in CommandLine :
          /\ configFile' \in {NoFile, answers}
          /\ Resolved(p, answers, line, FALSE)
    BY <1>2 DEF LaunchWizard
  <2>2. Launches(p)
    BY <1>2, LaunchSteps
  <2>3. configFile' \in {NoFile, Torn} \cup [Setting -> {0, 1}]
    BY <2>1
  <2>4. DiskOK' /\ sessions' = sessions
    BY <1>2, <2>2, <2>3, BoundAssumption DEF LaunchWizard, DiskOK, TypeOK, Launches
  <2> QED
    BY <2>2, <2>4, LaunchKeeps
<1>3. CASE Begin(p)
  <2>1. DiskOK' /\ sessions' = sessions /\ runs' = runs
    BY <1>3 DEF Begin, disk, DiskOK, TypeOK
  <2> QED
    BY <1>3, <2>1, BeginSteps, RestKeeps
<1> QED
  BY <1>1, <1>2, <1>3

LEMMA KeySteps ==
  ASSUME Base, NEW p \in Process,
         StartKey(p) \/ Unwrapped(p) \/ Wrapped(p) \/ KeyFails(p)
  PROVE  Base'
<1> USE DEF Base, Types
<1>1. CASE StartKey(p)
  <2>1. DiskOK' /\ sessions' = sessions /\ runs' = runs
    BY <1>1 DEF StartKey, disk, DiskOK, TypeOK
  <2>2. proc[p].pc = "keys" /\ proc[p].run # 0
    BY <1>1, BoundAssumption DEF StartKey, RunsOK, Early, TypeOK
  <2>3. KeyKnown => keyFile.key # 0
    BY DEF KeyKnown, TypeOK, Run
  <2>4. \/ Rests(p, "down")
        \/ \E pc \in {"wrap", "unwrap"} :
             /\ Steps(p, pc, proc'[p].key, proc'[p].cid, proc[p].rows)
             /\ proc'[p].key # 0
    BY <1>1, <2>2, <2>3, StartKeySteps DEF Steps
  <2> QED
    BY <2>1, <2>2, <2>4, RestKeeps DEF Early, KeyPhase
<1>2. ASSUME AfterKey(p), proc[p].pc \in {"unwrap", "wrap"}, DiskOK',
             sessions' = sessions, runs' = runs
      PROVE  Base'
  <2>1. proc[p].key # 0
    BY <1>2 DEF RunsOK, KeyPhase
  <2>2. \/ Rests(p, "plain")
        \/ /\ Steps(p, "metadata", proc'[p].key, proc'[p].cid, proc[p].rows)
           /\ proc'[p].key # 0
    BY <1>2, <2>1, AfterKeySteps DEF Goes, Steps
  <2> QED
    BY <1>2, <2>2, RestKeeps DEF Early, KeyPhase
<1>3. CASE Unwrapped(p)
  <2>1. DiskOK' /\ sessions' = sessions /\ runs' = runs
    BY <1>3 DEF Unwrapped, disk, DiskOK, TypeOK
  <2> QED
    BY <1>2, <1>3, <2>1 DEF Unwrapped
<1>4. CASE Wrapped(p)
  <2>1. proc[p].key \in Run
    BY <1>4 DEF Wrapped, RunsOK, KeyPhase, Shim, Run
  <2>2. keyFile' \in {NoFile, Torn} \cup [key : Run, cid : 0..MaxRuns]
    BY <1>4, <2>1, BoundAssumption DEF Wrapped, TypeOK
  <2>3. DiskOK' /\ sessions' = sessions /\ runs' = runs
    BY <1>4, <2>2 DEF Wrapped, DiskOK, TypeOK
  <2> QED
    BY <1>2, <1>4, <2>3 DEF Wrapped
<1>5. CASE KeyFails(p)
  <2>1. DiskOK' /\ sessions' = sessions /\ runs' = runs
    BY <1>5 DEF KeyFails, disk, DiskOK, TypeOK
  <2>2. Rests(p, "down")
    BY <1>5, RestSteps DEF KeyFails, Exit, Stage
  <2> QED
    BY <2>1, <2>2, RestKeeps
<1> QED
  BY <1>1, <1>3, <1>4, <1>5

LEMMA UploadSteps ==
  ASSUME Base, NEW p \in Process,
         CheckMetadata(p) \/ ReadMetadata(p) \/ SendMetadata(p) \/ MetadataFails(p)
  PROVE  Base'
<1> USE DEF Base, Types
<1>1. CASE CheckMetadata(p)
  <2>1. proc[p].pc = "metadata" /\ proc[p].key # 0 /\ proc[p].key \in 0..MaxRuns
    BY <1>1 DEF CheckMetadata, RunsOK, KeyPhase, Shim
  <2>2. metaFile' \in 0..MaxRuns
    BY <1>1, <2>1 DEF CheckMetadata, TypeOK
  <2>3. DiskOK' /\ sessions' = sessions /\ runs' = runs
    BY <1>1, <2>2 DEF CheckMetadata, DiskOK, TypeOK
  <2>4. \E pc \in {"recorder", "reading"} :
          /\ Steps(p, pc, proc'[p].key, proc'[p].cid, proc[p].rows)
          /\ proc'[p].key # 0
    BY <1>1, <2>1, MetadataSteps DEF Goes, Steps
  <2> QED
    BY <2>1, <2>3, <2>4, RestKeeps DEF Early, KeyPhase
<1>2. CASE ReadMetadata(p)
  <2>1. proc[p].pc = "reading" /\ proc[p].key # 0
    BY <1>2 DEF ReadMetadata, RunsOK, KeyPhase
  <2>2. DiskOK' /\ sessions' = sessions /\ runs' = runs
    BY <1>2 DEF ReadMetadata, disk, DiskOK, TypeOK
  <2>3. \/ Rests(p, "down")
        \/ /\ Steps(p, "sending", proc'[p].key, proc'[p].cid, proc[p].rows)
           /\ proc'[p].key # 0 /\ proc'[p].cid # 0
    BY <1>2, <2>1, MetadataSteps DEF Steps
  <2> QED
    BY <2>1, <2>2, <2>3, RestKeeps DEF Early, KeyPhase
<1>3. CASE SendMetadata(p)
  <2>1. proc[p].pc = "sending" /\ proc[p].cid \in Run
    BY <1>3 DEF SendMetadata, RunsOK, Shim, Run
  <2>2. keyFile' \in {NoFile, Torn} \cup [key : Run, cid : 0..MaxRuns]
    <3>1. WithCid(p) \in {NoFile, Torn} \cup [key : Run, cid : 0..MaxRuns]
      BY <2>1, BoundAssumption DEF WithCid, TypeOK, Run
    <3> QED
      BY <1>3, <3>1 DEF SendMetadata, TypeOK
  <2>3. DiskOK' /\ sessions' = sessions /\ runs' = runs
    BY <1>3, <2>1, <2>2, BoundAssumption DEF SendMetadata, DiskOK, TypeOK
  <2>4. Goes(p, "recorder")
    BY <1>3, GoSteps DEF SendMetadata, Stage
  <2>5. Steps(p, "recorder", proc'[p].key, proc'[p].cid, proc[p].rows)
    BY <2>4 DEF Goes, Steps
  <2> QED
    BY <2>1, <2>3, <2>5, RestKeeps DEF Early, KeyPhase
<1>4. CASE MetadataFails(p)
  <2>1. DiskOK' /\ sessions' = sessions /\ runs' = runs
    BY <1>4, BoundAssumption DEF MetadataFails, DiskOK, TypeOK
  <2>2. Rests(p, "down")
    BY <1>4, RestSteps DEF MetadataFails, Exit, Stage
  <2> QED
    BY <2>1, <2>2, RestKeeps
<1> QED
  BY <1>1, <1>2, <1>3, <1>4

LEMMA LastAppended ==
  ASSUME NEW R, NEW l \in Seq(R), NEW x \in R
  PROVE  Append(l, x) # <<>> /\ Last(Append(l, x)) = x
<1> DEFINE a == Append(l, x)
<1>1. Len(a) = Len(l) + 1 /\ Len(l) \in Nat /\ a \in Seq(R)
  OBVIOUS
<1>2. a[Len(l) + 1] = x
  OBVIOUS
<1> HIDE DEF a
<1>3. a # <<>>
  BY <1>1
<1>4. a[Len(a)] = x
  BY <1>1, <1>2
<1> QED
  BY <1>3, <1>4 DEF Last, a

LEMMA RegisterSteps ==
  ASSUME Base, NEW p \in Process, ReadSessions(p)
  PROVE  Base'
<1> DEFINE rows == Append(Readable, [id |-> Len(Readable), cid |-> proc[p].cid])
<1> USE DEF Base
<1>1. /\ proc[p].pc = "recorder" /\ Counted \subseteq Counted'
      /\ Steps(p, "registering", proc[p].key, proc[p].cid, rows)
      /\ \A i \in DOMAIN rows : rows[i].id = i - 1
      /\ Len(rows) <= Cardinality(Counted')
      /\ rows # <<>> /\ Last(rows).cid = proc[p].cid
  <2>1. Readable \in Seq(Row) /\ [id |-> Len(Readable), cid |-> proc[p].cid] \in Row
    BY ReadSteps
  <2>2. rows # <<>> /\ Last(rows) = [id |-> Len(Readable), cid |-> proc[p].cid]
    BY <2>1, LastAppended
  <2>3. Last(rows).cid = proc[p].cid
    BY <2>2
  <2>4. /\ proc[p].pc = "recorder" /\ Counted \subseteq Counted'
        /\ Steps(p, "registering", proc[p].key, proc[p].cid, rows)
        /\ \A i \in DOMAIN rows : rows[i].id = i - 1
        /\ Len(rows) <= Cardinality(Counted')
    BY ReadSteps
  <2> QED
    BY <2>2, <2>3, <2>4
<1> HIDE DEF rows
<1>2. DiskOK' /\ runs' = runs /\ sessions' = sessions
  BY DEF ReadSessions, disk, DiskOK, Types, TypeOK
<1>3. Types'
  BY <1>1, <1>2, TypesKept DEF Steps
<1>4. RunsOK'
  BY <1>1, <1>2, RunsKept DEF Steps, Early, Late, KeyPhase, Registering
<1>5. runs \in Nat /\ runs' \in Nat
  BY <1>2, BoundAssumption DEF Types, TypeOK
<1>6. /\ Cardinality(Counted) \in Nat /\ Cardinality(Counted') \in Nat
      /\ Cardinality(Counted) <= Cardinality(Counted')
  BY <1>1, <1>5, CountGrows
<1>7. ASSUME NEW l, Len(l) \in Nat, Numbered(l)
      PROVE  (\A i \in DOMAIN l : l[i].id = i - 1) /\ Len(l) <= Cardinality(Counted')
  BY <1>6, <1>7 DEF Numbered
<1>8. ASSUME sessions' # Torn
      PROVE  /\ \A i \in DOMAIN sessions' : sessions'[i].id = i - 1
             /\ Len(sessions') <= Cardinality(Counted')
  <2>1. Len(sessions) \in Nat /\ Numbered(sessions)
    BY <1>2, <1>8 DEF RowsOK, Types, TypeOK
  <2> QED
    BY <1>2, <1>7, <2>1
<1>9. ASSUME NEW q \in Process
      PROVE  /\ \A i \in DOMAIN proc'[q].rows : proc'[q].rows[i].id = i - 1
             /\ Len(proc'[q].rows) <= Cardinality(Counted')
             /\ proc'[q].pc \in Late => /\ proc'[q].rows # <<>>
                                        /\ Last(proc'[q].rows).cid = proc'[q].cid
  <2>1. CASE q = p
    BY <1>1, <2>1 DEF Steps
  <2>2. CASE q # p
    <3>1. proc'[q] = proc[q]
      BY <1>1, <2>2 DEF Steps, Moved
    <3>2. Len(proc[q].rows) \in Nat /\ Numbered(proc[q].rows)
      BY DEF RowsOK, Types, TypeOK
    <3> QED
      BY <1>7, <3>1, <3>2 DEF RowsOK
  <2> QED
    BY <2>1, <2>2
<1>10. RowsOK'
  BY <1>8, <1>9 DEF RowsOK, Numbered
<1> QED
  BY <1>3, <1>4, <1>10

LEMMA RewriteSteps ==
  ASSUME Base, NEW p \in Process,
         TruncateSessions(p) \/ CloseSessions(p) \/ OpenConversations(p)
  PROVE  Base'
<1> USE DEF Base, Types
<1>1. CASE TruncateSessions(p)
  <2>1. DiskOK' /\ sessions' = Torn /\ runs' = runs
    BY <1>1 DEF TruncateSessions, DiskOK, TypeOK
  <2>2. Goes(p, "rewriting") /\ proc[p].pc = "registering"
    BY <1>1, GoSteps DEF TruncateSessions, Stage, Registering
  <2> QED
    BY <2>1, <2>2, RestKeeps DEF Late, Registering
<1>2. CASE CloseSessions(p)
  <2>1. sessions' \in {Torn, proc[p].rows} /\ runs' = runs /\ proc[p].rows \in Seq(Row)
    BY <1>2 DEF CloseSessions, TypeOK
  <2>2. DiskOK'
    BY <1>2, <2>1 DEF CloseSessions, DiskOK, TypeOK
  <2>3. Goes(p, "opening") /\ proc[p].pc = "rewriting"
    BY <1>2, GoSteps DEF CloseSessions, Stage
  <2> QED
    BY <2>1, <2>2, <2>3, RestKeeps DEF Late, Registering
<1>3. CASE OpenConversations(p)
  <2> DEFINE me == Last(proc[p].rows)
  <2>1. proc[p].pc = "opening" /\ proc[p].rows \in Seq(Row) /\ proc[p].rows # <<>>
    BY <1>3 DEF OpenConversations, RowsOK, Late, TypeOK
  <2>2. me \in Row
    BY <2>1 DEF Last
  <2>3. proc[p].run \in Run /\ proc[p].key \in 0..MaxRuns /\ proc[p].run \in 0..MaxRuns
    <3>1. proc[p] \in Shim /\ proc[p].run \in 1..runs /\ runs \in 0..MaxRuns
      BY <2>1 DEF RunsOK, Late, TypeOK
    <3>2. proc[p].run \in 0..MaxRuns /\ proc[p].key \in 0..MaxRuns
      BY <3>1 DEF Shim
    <3> QED
      BY <3>1, <3>2, BoundAssumption DEF Run
  <2>4. me.id \in Id /\ me.cid \in 0..MaxRuns
    BY <2>2 DEF Row
  <2> HIDE DEF me
  <2>5. files' \in [Id -> 0..MaxRuns]
    BY <1>3, <2>3, <2>4 DEF OpenConversations, TypeOK, me
  <2>6. served' \subseteq [run : Run, id : Id, cid : 0..MaxRuns, key : 0..MaxRuns]
    BY <1>3, <2>3, <2>4 DEF OpenConversations, TypeOK, me
  <2>7. DiskOK' /\ sessions' = sessions /\ runs' = runs
    BY <1>3, <2>5, <2>6 DEF OpenConversations, DiskOK, TypeOK
  <2>8. Rests(p, "serving")
    BY <1>3, RestSteps DEF OpenConversations, Stage
  <2> QED
    BY <2>7, <2>8, RestKeeps
<1> QED
  BY <1>1, <1>2, <1>3

LEMMA EndSteps ==
  ASSUME Base, NEW p \in Process, Stop(p) \/ TearKeyFile(p)
  PROVE  Base' /\ Rests(p, "down")
<1> USE DEF Base, Types
<1>1. Rests(p, "down")
  BY RestSteps DEF Stop, TearKeyFile, Exit, Stage
<1>2. CASE Stop(p)
  <2>1. proc[p].pc = "sending" => proc[p].cid \in Run
    BY DEF RunsOK, Shim, Run
  <2>2. uploaded' \subseteq Run
    BY <1>2, <2>1 DEF Stop, TypeOK
  <2>3. DiskOK' /\ sessions' = sessions /\ runs' = runs
    BY <1>2, <2>2 DEF Stop, DiskOK, TypeOK
  <2> QED
    BY <1>1, <2>3, RestKeeps
<1>3. CASE TearKeyFile(p)
  <2>1. proc[p].pc = "sending" => proc[p].cid \in Run
    BY DEF RunsOK, Shim, Run
  <2>2. uploaded' \subseteq Run
    BY <1>3, <2>1 DEF TearKeyFile, TypeOK
  <2>3. DiskOK' /\ sessions' = sessions /\ runs' = runs
    BY <1>3, <2>2 DEF TearKeyFile, DiskOK, TypeOK
  <2> QED
    BY <1>1, <2>3, RestKeeps
<1> QED
  BY <1>1, <1>2, <1>3

LEMMA BaseStep == Base /\ [Next]_vars => Base'
<1> SUFFICES ASSUME Base, [Next]_vars
             PROVE  Base'
  OBVIOUS
<1>1. CASE UNCHANGED vars
  <2>1. Types' /\ RunsOK'
    BY <1>1 DEF vars, disk, Base, Types, TypeOK, RunsOK
  <2>2. RowsOK'
    BY <1>1 DEF vars, disk, Base, RowsOK, Numbered, Counted, Pending
  <2> QED
    BY <2>1, <2>2 DEF Base
<1>2. ASSUME NEW p \in Process,
             \/ Launch(p) \/ LaunchWizard(p) \/ Begin(p)
             \/ StartKey(p) \/ Unwrapped(p) \/ Wrapped(p) \/ KeyFails(p)
             \/ CheckMetadata(p) \/ ReadMetadata(p) \/ SendMetadata(p) \/ MetadataFails(p)
             \/ ReadSessions(p) \/ TruncateSessions(p) \/ CloseSessions(p)
             \/ OpenConversations(p) \/ Stop(p) \/ TearKeyFile(p)
      PROVE  Base'
  BY <1>2, ConfigSteps, KeySteps, UploadSteps, RegisterSteps, RewriteSteps, EndSteps
<1> QED
  BY <1>1, <1>2 DEF Next

-----------------------------------------------------------------------------
(* The key and its metadata, as long as no two processes are in their key  *)
(* phase at once                                                           *)

LEMMA KeysKept ==
  ASSUME KeysOK, NEW p \in Process, Moved(p), uploaded \subseteq uploaded',
         \A q \in Process \ {p} :
           \/ proc[q].pc \notin KeyPhase
           \/ proc'[p].pc \notin KeyPhase /\ keyFile' = keyFile /\ metaFile' = metaFile,
         KnownOK', RemembersOK(p)'
  PROVE  KeysOK'
<1>1. \A q, r \in Process : proc'[q].pc \in KeyPhase /\ proc'[r].pc \in KeyPhase => q = r
  BY DEF KeysOK, Moved
<1>2. ASSUME NEW q \in Process \ {p}
      PROVE  RemembersOK(q)'
  <2>1. proc'[q] = proc[q] /\ RemembersOK(q)
    BY DEF Moved, KeysOK
  <2>2. CASE proc[q].pc \notin KeyPhase
    BY <2>1, <2>2 DEF RemembersOK, Shared, KeyPhase
  <2>3. CASE keyFile' = keyFile /\ metaFile' = metaFile
    BY <2>1, <2>3 DEF RemembersOK, Shared, KeyKnown
  <2> QED
    BY <2>2, <2>3
<1> QED
  BY <1>1, <1>2 DEF KeysOK

\* A process that rests leaves the key file to the others.
LEMMA KeysRest ==
  ASSUME KeysOK, NEW p \in Process, uploaded \subseteq uploaded', keyFile' = keyFile,
         \/ metaFile' = metaFile
         \/ \A q \in Process \ {p} : proc[q].pc \notin KeyPhase,
         \/ \E pc \in {"down", "plain", "bridge", "serving"} : Rests(p, pc)
         \/ \E pc \in {"keys", "recorder"} : Begun(p, pc)
         \/ Launches(p)
  PROVE  KeysOK'
<1>1. /\ Moved(p) /\ proc'[p].pc \notin KeyPhase
      /\ proc'[p].pc \in {"recorder"} \cup Late => proc'[p].key = 0
  <2>1. CASE \E pc \in {"down", "plain", "bridge", "serving"} : Rests(p, pc)
    BY <2>1 DEF Rests, KeyPhase, Late, Registering
  <2>2. CASE \E pc \in {"keys", "recorder"} : Begun(p, pc)
    BY <2>2 DEF Begun, KeyPhase, Late, Registering
  <2>3. CASE Launches(p)
    BY <2>3 DEF Launches, KeyPhase, Late, Registering
  <2> QED
    BY <2>1, <2>2, <2>3
<1>2. RemembersOK(p)'
  BY <1>1 DEF RemembersOK, KeyPhase
<1>3. KnownOK'
  BY DEF KeysOK, KnownOK, KeyKnown
<1> QED
  BY <1>1, <1>2, <1>3, KeysKept

LEMMA KeyFileSteps ==
  ASSUME Base, KeysOK, NEW p \in Process, ~raced',
         StartKey(p) \/ Unwrapped(p) \/ Wrapped(p) \/ KeyFails(p)
  PROVE  KeysOK'
<1> USE DEF Base, Types
<1>1. CASE StartKey(p)
  <2>1. /\ \A q \in Process \ {p} : proc[q].pc \notin KeyPhase
        /\ keyFile' = keyFile /\ uploaded' = uploaded /\ metaFile' = metaFile
    BY <1>1 DEF StartKey, disk
  <2>2. CASE Rests(p, "down")
    BY <2>1, <2>2, KeysRest
  <2>3. CASE /\ Steps(p, "wrap", proc[p].run, proc[p].cid, proc[p].rows)
             /\ ~(Shared(p) /\ keyFile # NoFile)
    <3>1. RemembersOK(p)'
      BY <2>1, <2>3 DEF RemembersOK, Steps, Shared, Late, Registering
    <3> QED
      BY <2>1, <2>3, <3>1, KeysKept DEF KeysOK, KnownOK, KeyKnown, Steps
  <2>4. CASE /\ Steps(p, "unwrap", keyFile.key, proc[p].cid, proc[p].rows)
             /\ Shared(p) /\ KeyKnown
    <3>1. RemembersOK(p)'
      BY <2>1, <2>4 DEF RemembersOK, Steps, Shared, Late, Registering, KeyKnown
    <3> QED
      BY <2>1, <2>4, <3>1, KeysKept DEF KeysOK, KnownOK, KeyKnown, Steps
  <2> QED
    BY <1>1, <2>2, <2>3, <2>4, StartKeySteps
<1>2. CASE KeyFails(p)
  <2>1. Rests(p, "down") /\ keyFile' = keyFile /\ uploaded' = uploaded /\ metaFile' = metaFile
    BY <1>2, RestSteps DEF KeyFails, Exit, Stage, disk
  <2> QED
    BY <2>1, KeysRest
<1>3. CASE Unwrapped(p)
  <2>1. /\ proc[p].pc = "unwrap" /\ AfterKey(p)
        /\ keyFile' = keyFile /\ uploaded' = uploaded /\ metaFile' = metaFile
    BY <1>3 DEF Unwrapped, disk
  <2>2. CASE Rests(p, "plain")
    BY <2>1, <2>2, KeysRest
  <2>3. CASE Goes(p, "metadata")
    <3>1. \A q \in Process \ {p} : proc[q].pc \notin KeyPhase
      BY <2>1 DEF KeysOK, KeyPhase
    <3>2. RemembersOK(p)'
      BY <2>1, <2>3 DEF RemembersOK, Goes, Steps, Shared, Late, Registering, KeyKnown,
                        KeyPhase, KeysOK
    <3> QED
      BY <2>1, <2>3, <3>1, <3>2, KeysKept DEF KeysOK, KnownOK, KeyKnown, Goes, Steps
  <2> QED
    BY <2>1, <2>2, <2>3, AfterKeySteps
<1>4. CASE Wrapped(p)
  <2>1. /\ proc[p].pc = "wrap" /\ AfterKey(p)
        /\ keyFile' = IF Shared(p) THEN [key |-> proc[p].key, cid |-> 0] ELSE keyFile
        /\ uploaded' = uploaded /\ metaFile' = metaFile
    BY <1>4 DEF Wrapped
  <2>2. \A q \in Process \ {p} : proc[q].pc \notin KeyPhase
    BY <2>1 DEF KeysOK, KeyPhase
  <2>3. KnownOK'
    <3>1. CASE Shared(p)
      BY <2>1, <3>1 DEF KnownOK, KeyKnown
    <3>2. CASE ~Shared(p)
      BY <2>1, <3>2 DEF KnownOK, KeyKnown, KeysOK
    <3> QED
      BY <3>1, <3>2
  <2>4. CASE Rests(p, "plain")
    <3>1. RemembersOK(p)'
      BY <2>4 DEF RemembersOK, Rests, KeyPhase, Late, Registering
    <3> QED
      BY <2>1, <2>2, <2>3, <2>4, <3>1, KeysKept DEF Rests
  <2>5. CASE Goes(p, "metadata")
    <3>1. Shared(p)' = Shared(p) /\ proc'[p].key = proc[p].key /\ proc'[p].pc = "metadata"
      BY <2>5 DEF Goes, Steps, Shared
    <3>2. Shared(p) => keyFile'.key = proc[p].key
      BY <2>1
    <3>3. RemembersOK(p)'
      BY <3>1, <3>2 DEF RemembersOK, Late, Registering
    <3> QED
      BY <2>1, <2>2, <2>3, <2>5, <3>3, KeysKept DEF Goes, Steps
  <2> QED
    BY <2>1, <2>4, <2>5, AfterKeySteps
<1> QED
  BY <1>1, <1>2, <1>3, <1>4

LEMMA KeyUploadSteps ==
  ASSUME Base, KeysOK, NEW p \in Process,
         CheckMetadata(p) \/ ReadMetadata(p) \/ SendMetadata(p) \/ MetadataFails(p)
  PROVE  KeysOK'
<1> USE DEF Base, Types
<1>0. /\ proc[p].pc \in KeyPhase
      /\ \A q \in Process \ {p} : proc[q].pc \notin KeyPhase
  <2>1. proc[p].pc \in KeyPhase
    BY DEF CheckMetadata, ReadMetadata, SendMetadata, MetadataFails, KeyPhase
  <2> QED
    BY <2>1 DEF KeysOK
<1>1. CASE CheckMetadata(p)
  <2>1. proc[p].pc = "metadata" /\ keyFile' = keyFile /\ uploaded' = uploaded
    BY <1>1 DEF CheckMetadata
  <2>2. CASE /\ Steps(p, "recorder", proc[p].key, PersistedCid, proc[p].rows)
             /\ Shared(p) /\ PersistedCid # 0 /\ metaFile' = metaFile
    <3>1. KeyKnown /\ PersistedCid = keyFile.cid
      BY <2>2 DEF PersistedCid, KeyKnown
    <3>2. PersistedCid = proc[p].key /\ PersistedCid \in uploaded
      BY <2>1, <2>2, <3>1 DEF KeysOK, KnownOK, RemembersOK, KeyPhase
    <3>3. RemembersOK(p)'
      BY <2>1, <2>2, <3>2 DEF RemembersOK, Steps, KeyPhase
    <3> QED
      BY <1>0, <2>1, <2>2, <3>3, KeysKept DEF KeysOK, KnownOK, KeyKnown, Steps
  <2>3. CASE Goes(p, "reading") /\ metaFile' = proc[p].key
    <3>1. RemembersOK(p)'
      BY <2>1, <2>3 DEF RemembersOK, Goes, Steps, KeyPhase, Shared, KeyKnown, KeysOK,
                        Late, Registering
    <3> QED
      BY <1>0, <2>1, <2>3, <3>1, KeysKept DEF KeysOK, KnownOK, KeyKnown, Goes, Steps
  <2> QED
    BY <1>1, <2>2, <2>3, MetadataSteps
<1>2. CASE ReadMetadata(p)
  <2>1. /\ proc[p].pc = "reading" /\ metaFile' = metaFile /\ keyFile' = keyFile
        /\ uploaded' = uploaded
    BY <1>2 DEF ReadMetadata, disk
  <2>2. CASE Rests(p, "down")
    BY <2>1, <2>2, KeysRest
  <2>3. CASE Steps(p, "sending", proc[p].key, metaFile, proc[p].rows)
    <3>1. RemembersOK(p)'
      BY <2>1, <2>3 DEF RemembersOK, Steps, KeyPhase, Shared, KeyKnown, KeysOK,
                        Late, Registering
    <3> QED
      BY <1>0, <2>1, <2>3, <3>1, KeysKept DEF KeysOK, KnownOK, KeyKnown, Steps
  <2> QED
    BY <1>2, <2>2, <2>3, MetadataSteps
<1>3. CASE SendMetadata(p)
  <2>1. /\ proc[p].pc = "sending" /\ uploaded' = uploaded \cup {proc[p].cid}
        /\ keyFile' \in {WithCid(p), keyFile, Torn}
    BY <1>3 DEF SendMetadata
  <2>2. Goes(p, "recorder")
    BY <1>3, GoSteps DEF SendMetadata, Stage
  <2>3. proc[p].cid = proc[p].key
    BY <2>1 DEF KeysOK, RemembersOK
  <2>4. KnownOK'
    <3>1. CASE Shared(p) /\ KeyKnown /\ keyFile' = WithCid(p)
      <4>1. keyFile.key = proc[p].key
        BY <2>1, <3>1 DEF KeysOK, RemembersOK, KeyPhase
      <4>2. keyFile \in [key : Run, cid : 0..MaxRuns]
        BY <3>1 DEF TypeOK, KeyKnown
      <4>3. keyFile' = [keyFile EXCEPT !.cid = proc[p].cid]
        BY <2>1, <3>1 DEF WithCid, KeyKnown
      <4>4. keyFile'.cid = proc[p].cid /\ keyFile'.key = keyFile.key
        BY <4>2, <4>3
      <4> QED
        BY <2>1, <2>3, <4>1, <4>4 DEF KnownOK, KeyKnown
    <3>2. CASE keyFile' = keyFile
      BY <2>1, <3>2 DEF KnownOK, KeyKnown, KeysOK
    <3>3. CASE keyFile' = Torn
      BY <3>3 DEF KnownOK, KeyKnown
    <3>4. CASE ~(Shared(p) /\ KeyKnown) /\ keyFile' = WithCid(p)
      <4>1. keyFile' = keyFile
        BY <3>4 DEF WithCid, KeyKnown
      <4> QED
        BY <3>2, <4>1
    <3> QED
      BY <2>1, <3>1, <3>2, <3>3, <3>4
  <2>5. RemembersOK(p)'
    BY <2>1, <2>2, <2>3 DEF RemembersOK, Goes, Steps, KeyPhase
  <2> QED
    BY <1>0, <2>1, <2>2, <2>4, <2>5, KeysKept DEF Goes, Steps
<1>4. CASE MetadataFails(p)
  <2>1. Rests(p, "down") /\ keyFile' = keyFile /\ uploaded' = uploaded
    BY <1>4, RestSteps DEF MetadataFails, Exit, Stage
  <2> QED
    BY <1>0, <2>1, KeysRest
<1> QED
  BY <1>1, <1>2, <1>3, <1>4

LEMMA KeyRestSteps ==
  ASSUME Base, KeysOK, NEW p \in Process,
         \/ Launch(p) \/ LaunchWizard(p) \/ Begin(p) \/ ReadSessions(p)
         \/ TruncateSessions(p) \/ CloseSessions(p) \/ OpenConversations(p)
         \/ Stop(p) \/ TearKeyFile(p)
  PROVE  KeysOK'
<1> USE DEF Base, Types
<1>1. CASE Launch(p)
  <2>1. keyFile' = keyFile /\ uploaded' = uploaded /\ metaFile' = metaFile
    BY <1>1 DEF Launch, disk
  <2>2. Launches(p)
    BY <1>1, LaunchSteps
  <2> QED
    BY <2>1, <2>2, KeysRest
<1>2. CASE LaunchWizard(p)
  <2>1. keyFile' = keyFile /\ uploaded' = uploaded /\ metaFile' = metaFile
    BY <1>2 DEF LaunchWizard
  <2>2. Launches(p)
    BY <1>2, LaunchSteps
  <2> QED
    BY <2>1, <2>2, KeysRest
<1>3. CASE Begin(p)
  <2>1. keyFile' = keyFile /\ uploaded' = uploaded /\ metaFile' = metaFile
    BY <1>3 DEF Begin, disk
  <2> QED
    BY <1>3, <2>1, KeysRest, BeginSteps
<1>4. ASSUME NEW pc \in Late, proc[p].pc \in {"recorder"} \cup Late,
             Steps(p, pc, proc[p].key, proc[p].cid, proc'[p].rows),
             keyFile' = keyFile, uploaded' = uploaded, metaFile' = metaFile
      PROVE  KeysOK'
  <2>1. RemembersOK(p)'
    BY <1>4 DEF RemembersOK, Steps, Late, Registering, KeyPhase, KeysOK
  <2>2. proc'[p].pc \notin KeyPhase
    BY <1>4 DEF Steps, Late, Registering, KeyPhase
  <2> QED
    BY <1>4, <2>1, <2>2, KeysKept DEF KeysOK, KnownOK, KeyKnown, Steps
<1>5. CASE ReadSessions(p)
  <2>1. keyFile' = keyFile /\ uploaded' = uploaded /\ metaFile' = metaFile
    BY <1>5 DEF ReadSessions, disk
  <2>2. /\ proc[p].pc = "recorder"
        /\ Steps(p, "registering", proc[p].key, proc[p].cid, proc'[p].rows)
    BY <1>5, ReadSteps DEF Steps
  <2> QED
    BY <1>4, <2>1, <2>2 DEF Late, Registering
<1>6. CASE TruncateSessions(p) \/ CloseSessions(p)
  <2>1. keyFile' = keyFile /\ uploaded' = uploaded /\ metaFile' = metaFile
    BY <1>6 DEF TruncateSessions, CloseSessions
  <2>2. \E pc \in {"rewriting", "opening"} : Goes(p, pc) /\ proc[p].pc \in Registering
    BY <1>6, GoSteps DEF TruncateSessions, CloseSessions, Stage, Registering
  <2>3. \E pc \in Late : /\ Steps(p, pc, proc[p].key, proc[p].cid, proc'[p].rows)
                         /\ proc[p].pc \in Late
    BY <2>2 DEF Goes, Steps, Late, Registering
  <2> QED
    BY <1>4, <2>1, <2>3
<1>7. CASE OpenConversations(p)
  <2>1. /\ keyFile' = keyFile /\ uploaded' = uploaded /\ metaFile' = metaFile
        /\ Rests(p, "serving")
    BY <1>7, RestSteps DEF OpenConversations, Stage
  <2> QED
    BY <2>1, KeysRest
<1>8. CASE Stop(p)
  <2>1. keyFile' = keyFile /\ uploaded \subseteq uploaded' /\ metaFile' = metaFile
    BY <1>8 DEF Stop
  <2> QED
    BY <1>8, <2>1, KeysRest, EndSteps
<1>9. CASE TearKeyFile(p)
  <2>1. /\ \A q \in Process \ {p} : proc[q].pc \notin KeyPhase
        /\ keyFile' = Torn /\ uploaded \subseteq uploaded'
    BY <1>9 DEF TearKeyFile, KeysOK, KeyPhase
  <2>2. Rests(p, "down")
    BY <1>9, EndSteps
  <2>3. KnownOK'
    BY <2>1 DEF KnownOK, KeyKnown
  <2>4. RemembersOK(p)'
    BY <2>2 DEF RemembersOK, Rests, KeyPhase, Late, Registering
  <2> QED
    BY <2>1, <2>2, <2>3, <2>4, KeysKept DEF Rests
<1> QED
  BY <1>1, <1>2, <1>3, <1>5, <1>6, <1>7, <1>8, <1>9

LEMMA KeyStep == Base /\ Key /\ [Next]_vars => Key'
<1> SUFFICES ASSUME Base, Key, [Next]_vars, ~raced'
             PROVE  KeysOK' /\ NamesOK'
  BY DEF Key
<1>1. CASE UNCHANGED vars
  BY <1>1 DEF vars, disk, Key, KeysOK, KnownOK, KeyKnown, RemembersOK, Shared, NamesOK
<1>2. ASSUME NEW p \in Process,
             \/ Launch(p) \/ LaunchWizard(p) \/ Begin(p)
             \/ StartKey(p) \/ Unwrapped(p) \/ Wrapped(p) \/ KeyFails(p)
             \/ CheckMetadata(p) \/ ReadMetadata(p) \/ SendMetadata(p) \/ MetadataFails(p)
             \/ ReadSessions(p) \/ TruncateSessions(p) \/ CloseSessions(p)
             \/ OpenConversations(p) \/ Stop(p) \/ TearKeyFile(p)
      PROVE  KeysOK' /\ NamesOK'
  <2>1. ~raced
    BY <1>2 DEF Launch, LaunchWizard, Begin, StartKey, Unwrapped, Wrapped, KeyFails,
         CheckMetadata, ReadMetadata, SendMetadata, MetadataFails, ReadSessions,
         TruncateSessions, CloseSessions, OpenConversations, Stop, TearKeyFile
  <2>2. KeysOK /\ NamesOK
    BY <2>1 DEF Key
  <2>3. KeysOK'
    BY <1>2, <2>2, KeyFileSteps, KeyUploadSteps, KeyRestSteps
  <2>4. uploaded \subseteq uploaded'
    BY <1>2 DEF Launch, LaunchWizard, Begin, StartKey, Unwrapped, Wrapped, KeyFails,
         CheckMetadata, ReadMetadata, SendMetadata, MetadataFails, ReadSessions,
         TruncateSessions, CloseSessions, OpenConversations, Stop, TearKeyFile, disk
  <2>5. CASE OpenConversations(p)
    <3>1. /\ proc[p].pc = "opening" /\ uploaded' = uploaded
          /\ served' = served \cup {[run |-> proc[p].run, id |-> Last(proc[p].rows).id,
                                     cid |-> Last(proc[p].rows).cid, key |-> proc[p].key]}
      BY <2>5 DEF OpenConversations
    <3>2. Last(proc[p].rows).cid = proc[p].cid
      BY <3>1 DEF Base, RowsOK, Late
    <3>3. proc[p].key # 0 => proc[p].cid = proc[p].key /\ proc[p].cid \in uploaded
      BY <2>2, <3>1 DEF KeysOK, RemembersOK, Late
    <3>4. NamesOK'
      BY <2>2, <3>1, <3>2, <3>3 DEF NamesOK
    <3> QED
      BY <2>3, <3>4
  <2>6. CASE ~OpenConversations(p)
    <3>1. served' = served
      BY <1>2, <2>6 DEF Launch, LaunchWizard, Begin, StartKey, Unwrapped, Wrapped, KeyFails,
         CheckMetadata, ReadMetadata, SendMetadata, MetadataFails, ReadSessions,
         TruncateSessions, CloseSessions, Stop, TearKeyFile
    <3> QED
      BY <2>2, <2>3, <2>4, <3>1 DEF NamesOK
  <2> QED
    BY <2>5, <2>6
<1> QED
  BY <1>1, <1>2 DEF Next

-----------------------------------------------------------------------------
(* The list of sessions, as long as no two processes register at once and  *)
(* none stops half-way through a rewrite                                   *)

\* The rows that count are those of the one who writes the file, if any does.
LEMMA RowsOfWriter ==
  ASSUME \A p, q \in Process : proc[p].pc \in Registering /\ proc[q].pc \in Registering => p = q
  PROVE  /\ \A p \in Process : proc[p].pc = "rewriting" => Rows = proc[p].rows
         /\ (\A p \in Process : proc[p].pc # "rewriting") => Rows = Readable
<1> DEFINE W == {p \in Process : proc[p].pc = "rewriting"}
<1>1. ASSUME NEW p \in Process, proc[p].pc = "rewriting"
      PROVE  Rows = proc[p].rows
  <2>1. W = {p}
    BY <1>1 DEF Registering
  <2> DEFINE c == CHOOSE q \in W : TRUE
  <2>2. c \in W
    BY <2>1
  <2>3. c = p /\ W # {}
    BY <2>1, <2>2
  <2>4. Rows = proc[c].rows
    BY <2>3 DEF Rows
  <2> QED
    BY <2>3, <2>4
<1>2. ASSUME \A p \in Process : proc[p].pc # "rewriting"
      PROVE  Rows = Readable
  BY <1>2 DEF Rows
<1> QED
  BY <1>1, <1>2

LEMMA SameRows ==
  ASSUME NEW p \in Process, Moved(p), proc[p].pc # "rewriting", proc'[p].pc # "rewriting",
         sessions' = sessions
  PROVE  Rows' = Rows
<1> DEFINE W == {q \in Process : proc[q].pc = "rewriting"}
           V == {q \in Process : proc'[q].pc = "rewriting"}
<1>1. V = W
  BY DEF Moved
<1>2. CASE W = {}
  BY <1>1, <1>2 DEF Rows, Readable
<1>3. CASE W # {}
  <2>1. (CHOOSE q \in W : TRUE) \in W
    BY <1>3
  <2>2. proc'[CHOOSE q \in W : TRUE] = proc[CHOOSE q \in W : TRUE]
    BY <2>1 DEF Moved
  <2>3. Rows = proc[CHOOSE q \in W : TRUE].rows
    BY <1>3 DEF Rows
  <2>4. Rows' = proc'[CHOOSE q \in V : TRUE].rows
    BY <1>1, <1>3 DEF Rows
  <2> HIDE DEF V, W
  <2> QED
    BY <1>1, <2>2, <2>3, <2>4
<1> QED
  BY <1>2, <1>3

\* A process that has nothing to do with the list.
LEMMA ListRest ==
  ASSUME ListOK, NEW p \in Process, Moved(p), proc[p].pc # "rewriting",
         proc'[p].pc \notin Late, sessions' = sessions, files' = files, served' = served
  PROVE  ListOK'
<1>1. Rows' = Rows
  BY SameRows DEF Late, Registering
<1>2. \A q \in Process : q # p => proc'[q] = proc[q]
  BY DEF Moved
<1>3. \A q \in Process : proc'[q].pc \in Late => q # p
  OBVIOUS
<1>4. \A q, r \in Process :
        proc'[q].pc \in Registering /\ proc'[r].pc \in Registering => q = r
  BY <1>2, <1>3 DEF ListOK, Late
<1>5. sessions' = Torn <=> \E q \in Process : proc'[q].pc = "rewriting"
  BY <1>2, <1>3 DEF ListOK, Late, Registering
<1>6. \A q \in Process : proc'[q].pc = "registering" =>
        /\ Len(proc'[q].rows) = Len(sessions') + 1
        /\ \A i \in DOMAIN sessions' : proc'[q].rows[i] = sessions'[i]
  BY <1>2, <1>3 DEF ListOK, Late, Registering
<1>7. \A q \in Process : proc'[q].pc = "opening" => Last(proc'[q].rows) \in Range(Rows')
  BY <1>1, <1>2, <1>3 DEF ListOK, Late
<1>8. \A q, r \in Process :
        proc'[q].pc \in Late /\ proc'[r].pc \in Late /\ q # r => OwnId(q)' # OwnId(r)'
  BY <1>2, <1>3 DEF ListOK, OwnId
<1>9. \A q \in Process, s \in served' : proc'[q].pc \in Late => s.id # OwnId(q)'
  BY <1>2, <1>3 DEF ListOK, OwnId
<1>10. KeptOK'
  BY <1>1 DEF ListOK, KeptOK
<1> QED
  BY <1>4, <1>5, <1>6, <1>7, <1>8, <1>9, <1>10 DEF ListOK

\* The row that ends a list carries the last id of the list.
LEMMA OwnRow ==
  ASSUME Base, NEW p \in Process, proc[p].pc \in Late
  PROVE  /\ OwnId(p) \in Nat /\ Len(proc[p].rows) = OwnId(p) + 1
         /\ Last(proc[p].rows) \in Row /\ Last(proc[p].rows).id = OwnId(p)
         /\ Last(proc[p].rows) \in Range(proc[p].rows)
<1> DEFINE l == proc[p].rows
<1>1. l \in Seq(Row) /\ l # <<>> /\ \A i \in DOMAIN l : l[i].id = i - 1
  BY DEF Base, Types, TypeOK, RowsOK, Numbered
<1> HIDE DEF l
<1>2. Len(l) \in Nat /\ Len(l) >= 1 /\ DOMAIN l = 1..Len(l)
  BY <1>1
<1>3. Len(l) \in DOMAIN l /\ l[Len(l)] \in Row /\ l[Len(l)].id = Len(l) - 1
  BY <1>1, <1>2
<1>4. Last(l) \in Row /\ Last(l).id = Len(l) - 1 /\ Last(l) \in Range(l)
  BY <1>3 DEF Last, Range
<1> QED
  BY <1>2, <1>4 DEF OwnId, l

\* With nobody writing, the ids in use are below the number of rows on disk.
LEMMA IdsInUse ==
  ASSUME Base, ListOK, \A q \in Process : proc[q].pc # "rewriting"
  PROVE  /\ Rows = sessions /\ sessions # Torn /\ sessions \in Seq(Row)
         /\ \A q \in Process : proc[q].pc = "opening" => OwnId(q) < Len(sessions)
         /\ \A s \in served : s.id < Len(sessions)
<1>1. sessions # Torn /\ sessions \in Seq(Row) /\ Rows = sessions
  BY RowsOfWriter DEF ListOK, Base, Types, TypeOK, Readable
<1>2. \A r \in Range(Rows) : r.id < Len(sessions)
  BY <1>1 DEF Base, RowsOK, Numbered, Range
<1>3. \A q \in Process : proc[q].pc = "opening" => OwnId(q) < Len(sessions)
  BY <1>2, OwnRow DEF ListOK, Late
<1>4. \A s \in served : s.id < Len(sessions)
  <2> SUFFICES ASSUME NEW s \in served
               PROVE  s.id < Len(sessions)
    OBVIOUS
  <2>1. [id |-> s.id, cid |-> s.cid] \in Range(Rows)
    BY DEF ListOK, KeptOK
  <2> QED
    BY <1>2, <2>1
<1> QED
  BY <1>1, <1>3, <1>4

LEMMA ListRead ==
  ASSUME Base, ListOK, NEW p \in Process, ReadSessions(p), ~mishap'
  PROVE  ListOK'
<1> DEFINE row == [id |-> Len(Readable), cid |-> proc[p].cid]
           rows == Append(Readable, row)
<1>1. /\ \A q \in Process \ {p} : proc[q].pc \notin Registering
      /\ proc[p].pc = "recorder"
      /\ sessions' = sessions /\ files' = files /\ served' = served
  BY DEF ReadSessions, disk
<1>2. \A q \in Process : proc[q].pc # "rewriting" /\ proc[q].pc # "registering"
  BY <1>1 DEF Registering
<1>3. /\ Rows = sessions /\ sessions # Torn /\ sessions \in Seq(Row)
      /\ \A q \in Process : proc[q].pc = "opening" => OwnId(q) < Len(sessions)
      /\ \A s \in served : s.id < Len(sessions)
  BY <1>2, IdsInUse
<1>4. Readable = sessions
  BY <1>3 DEF Readable
<1>5. /\ Moved(p) /\ proc'[p].pc = "registering" /\ row \in Row
      /\ proc'[p].rows = rows
  BY ReadSteps DEF Steps, Base
<1>6. /\ Len(proc'[p].rows) = Len(sessions) + 1
      /\ \A i \in DOMAIN sessions : proc'[p].rows[i] = sessions[i]
  BY <1>3, <1>4, <1>5
<1>7. OwnId(p)' = Len(sessions) /\ Len(sessions) \in Nat
  BY <1>3, <1>6 DEF OwnId
<1> HIDE DEF row, rows
<1>8. \A q \in Process : q # p => proc'[q] = proc[q]
  BY <1>5 DEF Moved
<1>9. Rows' = Rows
  BY <1>1, <1>5, SameRows
<1>10. \A q, r \in Process :
        proc'[q].pc \in Registering /\ proc'[r].pc \in Registering => q = r
  BY <1>1, <1>8
<1>11. sessions' = Torn <=> \E q \in Process : proc'[q].pc = "rewriting"
  BY <1>1, <1>2, <1>3, <1>5, <1>8
<1>12. \A q \in Process : proc'[q].pc = "registering" =>
        /\ Len(proc'[q].rows) = Len(sessions') + 1
        /\ \A i \in DOMAIN sessions' : proc'[q].rows[i] = sessions'[i]
  BY <1>1, <1>2, <1>6, <1>8
<1>13. \A q \in Process : proc'[q].pc = "opening" => Last(proc'[q].rows) \in Range(Rows')
  BY <1>5, <1>8, <1>9 DEF ListOK
<1>14. \A q \in Process \ {p} : proc'[q].pc \in Late =>
         proc[q].pc = "opening" /\ OwnId(q)' = OwnId(q) /\ OwnId(q) < Len(sessions)
                                /\ OwnId(q) \in Nat
  BY <1>2, <1>3, <1>8, OwnRow DEF Late, Registering, OwnId
<1>15. \A q, r \in Process :
        proc'[q].pc \in Late /\ proc'[r].pc \in Late /\ q # r => OwnId(q)' # OwnId(r)'
  <2> SUFFICES ASSUME NEW q \in Process, NEW r \in Process, q # r,
                      proc'[q].pc \in Late, proc'[r].pc \in Late
               PROVE  OwnId(q)' # OwnId(r)'
    OBVIOUS
  <2>1. CASE q = p
    BY <1>7, <1>14, <2>1
  <2>2. CASE r = p
    BY <1>7, <1>14, <2>2
  <2>3. CASE q # p /\ r # p
    BY <1>14, <2>3 DEF ListOK, Late
  <2> QED
    BY <2>1, <2>2, <2>3
<1>16. \A q \in Process, s \in served' : proc'[q].pc \in Late => s.id # OwnId(q)'
  <2> SUFFICES ASSUME NEW q \in Process, NEW s \in served, proc'[q].pc \in Late
               PROVE  s.id # OwnId(q)'
    BY <1>1
  <2>1. CASE q = p
    BY <1>3, <1>7, <2>1
  <2>2. CASE q # p
    BY <1>14, <2>2 DEF ListOK, Late
  <2> QED
    BY <2>1, <2>2
<1>17. KeptOK'
  BY <1>1, <1>9 DEF ListOK, KeptOK
<1> QED
  BY <1>10, <1>11, <1>12, <1>13, <1>15, <1>16, <1>17 DEF ListOK

\* A step of the one who rewrites the file: what counts as the list only grows.
LEMMA ListWrite ==
  ASSUME Base, ListOK, NEW p \in Process, NEW pc,
         \/ pc = "rewriting" /\ proc[p].pc = "registering" /\ sessions' = Torn
         \/ pc = "opening" /\ proc[p].pc = "rewriting" /\ sessions' = proc[p].rows,
         Goes(p, pc), files' = files, served' = served
  PROVE  ListOK'
<1>1. /\ \A q \in Process \ {p} : proc[q].pc \notin Registering
      /\ pc \in Late /\ proc[p].pc \in Late
  BY DEF ListOK, Registering, Late
<1>2. /\ Moved(p) /\ proc'[p].pc = pc /\ proc'[p].rows = proc[p].rows
      /\ \A q \in Process : q # p => proc'[q] = proc[q]
  BY DEF Goes, Steps, Moved
<1>3. proc[p].rows \in Seq(Row) /\ proc[p].rows # Torn
  <2>1. proc[p].rows \in Seq(Row)
    BY DEF Base, Types, TypeOK
  <2>2. Row \subseteq [id : Nat, cid : Nat]
    BY BoundAssumption DEF Row, Id
  <2> DEFINE l == proc[p].rows
             T == [id : Nat, cid : Nat]
  <2> HIDE DEF l, T
  <2>3. l \in Seq(Row) /\ Row \subseteq T
    BY <2>1, <2>2 DEF l, T
  <2>4. Len(l) \in Nat /\ l \in [1..Len(l) -> T]
    BY <2>3
  <2>5. l \in Seq(T)
    BY <2>4
  <2> QED
    BY <2>1, <2>5, TornAssumption DEF l, T
<1>4. \A q, r \in Process :
        proc'[q].pc \in Registering /\ proc'[r].pc \in Registering => q = r
  BY <1>1, <1>2
<1>5. sessions' = Torn <=> \E q \in Process : proc'[q].pc = "rewriting"
  BY <1>1, <1>2, <1>3 DEF Registering
<1>6. \A q \in Process : proc'[q].pc # "registering"
  BY <1>1, <1>2 DEF Registering
<1>7. Rows' = proc[p].rows
  <2>1. CASE pc = "rewriting"
    <3>1. \A q, r \in Process :
            proc'[q].pc = "rewriting" /\ proc'[r].pc = "rewriting" => q = r
      BY <1>4 DEF Registering
    <3> DEFINE V == {q \in Process : proc'[q].pc = "rewriting"}
    <3>2. V = {p}
      BY <1>2, <2>1, <3>1
    <3> DEFINE c == CHOOSE q \in V : TRUE
    <3>3. c \in V
      BY <3>2
    <3>4. c = p /\ V # {}
      BY <3>2, <3>3
    <3>5. Rows' = proc'[c].rows
      BY <3>4 DEF Rows
    <3> QED
      BY <1>2, <3>4, <3>5
  <2>2. CASE pc = "opening"
    <3>1. \A q \in Process : proc'[q].pc # "rewriting"
      BY <1>1, <1>2, <2>2 DEF Registering
    <3>2. Rows' = Readable'
      BY <3>1 DEF Rows
    <3> QED
      BY <1>3, <2>2, <3>2 DEF Readable
  <2> QED
    BY <2>1, <2>2
<1>8. \A r \in Range(Rows) : r \in Range(Rows')
  <2>1. CASE proc[p].pc = "registering"
    <3>1. \A q \in Process : proc[q].pc # "rewriting"
      BY <1>1, <2>1 DEF Registering
    <3>2. Rows = sessions /\ sessions \in Seq(Row)
      BY <3>1, IdsInUse
    <3>3. /\ Len(proc[p].rows) = Len(sessions) + 1
          /\ \A i \in DOMAIN sessions : proc[p].rows[i] = sessions[i]
      BY <2>1 DEF ListOK
    <3>4. DOMAIN sessions \subseteq DOMAIN proc[p].rows
      BY <1>3, <3>2, <3>3
    <3> QED
      BY <1>7, <3>2, <3>3, <3>4 DEF Range
  <2>2. CASE proc[p].pc = "rewriting"
    BY <1>7, <2>2, RowsOfWriter DEF ListOK
  <2> QED
    BY <2>1, <2>2
<1>9. \A q \in Process : proc'[q].pc = "opening" => Last(proc'[q].rows) \in Range(Rows')
  <2> SUFFICES ASSUME NEW q \in Process, proc'[q].pc = "opening"
               PROVE  Last(proc'[q].rows) \in Range(Rows')
    OBVIOUS
  <2>1. CASE q = p
    BY <1>1, <1>2, <1>7, <2>1, OwnRow
  <2>2. CASE q # p
    BY <1>2, <1>8, <2>2 DEF ListOK
  <2> QED
    BY <2>1, <2>2
<1>10. \A q \in Process : proc'[q].pc \in Late => proc[q].pc \in Late /\ OwnId(q)' = OwnId(q)
  BY <1>1, <1>2 DEF OwnId
<1>11. \A q, r \in Process :
        proc'[q].pc \in Late /\ proc'[r].pc \in Late /\ q # r => OwnId(q)' # OwnId(r)'
  BY <1>10 DEF ListOK
<1>12. \A q \in Process, s \in served' : proc'[q].pc \in Late => s.id # OwnId(q)'
  BY <1>10 DEF ListOK
<1>13. KeptOK'
  BY <1>8 DEF ListOK, KeptOK
<1> QED
  BY <1>4, <1>5, <1>6, <1>9, <1>11, <1>12, <1>13 DEF ListOK

\* The session gets its own file: no other session has its id.
LEMMA ListOpen ==
  ASSUME Base, ListOK, NEW p \in Process, OpenConversations(p)
  PROVE  ListOK'
<1> DEFINE me == Last(proc[p].rows)
           new == [run |-> proc[p].run, id |-> me.id, cid |-> me.cid, key |-> proc[p].key]
<1>1. /\ proc[p].pc = "opening" /\ sessions' = sessions
      /\ files' = [files EXCEPT ![me.id] = proc[p].run]
      /\ served' = served \cup {new}
  BY DEF OpenConversations
<1>2. Rests(p, "serving")
  BY RestSteps DEF OpenConversations, Stage, Base, Types
<1>3. /\ Moved(p) /\ proc'[p].pc = "serving"
      /\ \A q \in Process : q # p => proc'[q] = proc[q]
  BY <1>2 DEF Rests, Moved
<1>4. Rows' = Rows
  BY <1>1, <1>3, SameRows
<1>5. me \in Row /\ me.id = OwnId(p) /\ me \in Range(Rows)
  BY <1>1, OwnRow DEF ListOK, Late
<1>6. me.id \in Id /\ [id |-> me.id, cid |-> me.cid] = me
  BY <1>5 DEF Row
<1>7. files \in [Id -> 0..MaxRuns]
  BY DEF Base, Types, TypeOK
<1>8. new.id = me.id /\ new.run = proc[p].run /\ new.cid = me.cid
  OBVIOUS
<1> HIDE DEF me, new
<1>9. \A s \in served : s.id # me.id
  BY <1>1, <1>5 DEF ListOK, Late
<1>10. \A q, r \in Process :
        proc'[q].pc \in Registering /\ proc'[r].pc \in Registering => q = r
  BY <1>3 DEF ListOK, Registering
<1>11. sessions' = Torn <=> \E q \in Process : proc'[q].pc = "rewriting"
  BY <1>1, <1>3 DEF ListOK
<1>12. \A q \in Process : proc'[q].pc = "registering" =>
        /\ Len(proc'[q].rows) = Len(sessions') + 1
        /\ \A i \in DOMAIN sessions' : proc'[q].rows[i] = sessions'[i]
  BY <1>1, <1>3 DEF ListOK
<1>13. \A q \in Process : proc'[q].pc = "opening" => Last(proc'[q].rows) \in Range(Rows')
  BY <1>3, <1>4 DEF ListOK
<1>14. \A q \in Process : proc'[q].pc \in Late =>
         q # p /\ proc[q].pc \in Late /\ OwnId(q)' = OwnId(q)
  BY <1>3 DEF Late, Registering, OwnId
<1>15. \A q, r \in Process :
        proc'[q].pc \in Late /\ proc'[r].pc \in Late /\ q # r => OwnId(q)' # OwnId(r)'
  BY <1>14 DEF ListOK
<1>16. \A q \in Process, s \in served' : proc'[q].pc \in Late => s.id # OwnId(q)'
  BY <1>1, <1>5, <1>8, <1>14 DEF ListOK, Late
<1>17. KeptOK'
  <2> SUFFICES ASSUME NEW s \in served'
               PROVE  files'[s.id] = s.run /\ [id |-> s.id, cid |-> s.cid] \in Range(Rows)
    BY <1>4 DEF KeptOK
  <2>1. CASE s = new
    BY <1>1, <1>5, <1>6, <1>7, <1>8, <2>1
  <2>2. CASE s \in served
    <3>1. s.id \in Id
      BY <2>2 DEF Base, Types, TypeOK
    <3> QED
      BY <1>1, <1>7, <1>9, <2>2, <3>1 DEF ListOK, KeptOK
  <2> QED
    BY <1>1, <2>1, <2>2
<1> QED
  BY <1>10, <1>11, <1>12, <1>13, <1>15, <1>16, <1>17 DEF ListOK

LEMMA ListStep == Base /\ List /\ [Next]_vars => List'
<1> SUFFICES ASSUME Base, List, [Next]_vars, ~mishap'
             PROVE  ListOK'
  BY DEF List
<1>1. CASE UNCHANGED vars
  BY <1>1 DEF vars, disk, List, ListOK, KeptOK, Rows, Readable, OwnId
<1>2. ASSUME NEW p \in Process,
             \/ Launch(p) \/ LaunchWizard(p) \/ Begin(p)
             \/ StartKey(p) \/ Unwrapped(p) \/ Wrapped(p) \/ KeyFails(p)
             \/ CheckMetadata(p) \/ ReadMetadata(p) \/ SendMetadata(p) \/ MetadataFails(p)
             \/ ReadSessions(p) \/ TruncateSessions(p) \/ CloseSessions(p)
             \/ OpenConversations(p) \/ Stop(p) \/ TearKeyFile(p)
      PROVE  ListOK'
  <2>1. ~mishap
    BY <1>2 DEF Launch, LaunchWizard, Begin, StartKey, Unwrapped, Wrapped, KeyFails,
         CheckMetadata, ReadMetadata, SendMetadata, MetadataFails, ReadSessions,
         TruncateSessions, CloseSessions, OpenConversations, Stop, TearKeyFile
  <2>2. ListOK /\ Types
    BY <2>1 DEF List, Base
  <2>3. CASE ReadSessions(p)
    BY <2>2, <2>3, ListRead
  <2>4. CASE TruncateSessions(p)
    <3>1. /\ proc[p].pc = "registering" /\ sessions' = Torn
          /\ files' = files /\ served' = served /\ Goes(p, "rewriting")
      BY <2>2, <2>4, GoSteps DEF TruncateSessions, Stage, Registering, Types
    <3> QED
      BY <2>2, <3>1, ListWrite
  <2>5. CASE CloseSessions(p)
    <3>1. \A q \in Process \ {p} : proc[q].pc # "rewriting"
      BY <2>2, <2>5 DEF CloseSessions, ListOK, Registering
    <3>2. /\ proc[p].pc = "rewriting" /\ sessions' = proc[p].rows
          /\ files' = files /\ served' = served
      BY <2>5, <3>1 DEF CloseSessions
    <3>3. Goes(p, "opening")
      BY <2>2, <2>5, GoSteps DEF CloseSessions, Stage, Types
    <3> QED
      BY <2>2, <3>2, <3>3, ListWrite
  <2>6. CASE OpenConversations(p)
    BY <2>2, <2>6, ListOpen
  <2>7. CASE \/ Launch(p) \/ LaunchWizard(p) \/ Begin(p)
             \/ StartKey(p) \/ Unwrapped(p) \/ Wrapped(p) \/ KeyFails(p)
             \/ CheckMetadata(p) \/ ReadMetadata(p) \/ SendMetadata(p) \/ MetadataFails(p)
             \/ Stop(p) \/ TearKeyFile(p)
    <3>1. proc[p].pc # "rewriting"
      BY <2>7 DEF Launch, LaunchWizard, Begin, StartKey, Unwrapped, Wrapped, KeyFails,
           CheckMetadata, ReadMetadata, SendMetadata, MetadataFails, Stop, TearKeyFile
    <3>2. sessions' = sessions /\ files' = files /\ served' = served
      BY <2>7 DEF Launch, LaunchWizard, Begin, StartKey, Unwrapped, Wrapped, KeyFails,
           CheckMetadata, ReadMetadata, SendMetadata, MetadataFails, Stop, TearKeyFile, disk
    <3>3. Moved(p) /\ proc'[p].pc \notin Late
      <4>1. CASE Launch(p) \/ LaunchWizard(p)
        BY <2>2, <4>1, LaunchSteps DEF Launches, Late, Registering
      <4>2. CASE Begin(p)
        BY <2>2, <4>2, BeginSteps DEF Types, Rests, Begun, Late, Registering
      <4>3. CASE StartKey(p)
        BY <2>2, <4>3, StartKeySteps DEF Base, Rests, Steps, Late, Registering
      <4>4. CASE Unwrapped(p) \/ Wrapped(p)
        <5>1. AfterKey(p)
          BY <4>4 DEF Unwrapped, Wrapped
        <5> QED
          BY <2>2, <5>1, AfterKeySteps DEF Types, Rests, Goes, Steps, Late, Registering
      <4>5. CASE KeyFails(p) \/ MetadataFails(p)
        <5>1. Rest(p, "down")
          BY <4>5 DEF KeyFails, MetadataFails, Exit
        <5>2. Rests(p, "down")
          BY <2>2, <5>1, RestSteps DEF Types, Stage
        <5> QED
          BY <5>2 DEF Rests, Late, Registering
      <4>6. CASE CheckMetadata(p) \/ ReadMetadata(p)
        BY <2>2, <4>6, MetadataSteps DEF Rests, Goes, Steps, Late, Registering
      <4>7. CASE SendMetadata(p)
        <5>1. Go(p, "recorder")
          BY <4>7 DEF SendMetadata
        <5>2. Goes(p, "recorder")
          BY <2>2, <5>1, GoSteps DEF Types, Stage
        <5> QED
          BY <5>2 DEF Goes, Steps, Late, Registering
      <4>8. CASE Stop(p) \/ TearKeyFile(p)
        BY <4>8, EndSteps DEF Rests, Late, Registering
      <4> QED
        BY <2>7, <4>1, <4>2, <4>3, <4>4, <4>5, <4>6, <4>7, <4>8
    <3> QED
      BY <2>2, <3>1, <3>2, <3>3, ListRest
  <2> QED
    BY <1>2, <2>3, <2>4, <2>5, <2>6, <2>7
<1> QED
  BY <1>1, <1>2 DEF Next

-----------------------------------------------------------------------------
(* The theorems *)

LEMMA Inductive == Spec => []IInv
<1>1. Init => IInv
  <2> SUFFICES ASSUME Init
               PROVE  Key /\ List
    BY BaseInit DEF IInv
  <2>1. \A p \in Process : proc[p].pc = "down"
    BY DEF Init, Down
  <2>2. Key
    BY <2>1 DEF Init, Key, KeysOK, KnownOK, KeyKnown, RemembersOK, NamesOK, KeyPhase,
         Late, Registering
  <2>3. sessions # Torn
    <3>1. <<>> \in Seq([id : Nat, cid : Nat])
      OBVIOUS
    <3> QED
      BY <3>1, TornAssumption DEF Init
  <2>4. List
    BY <2>1, <2>3 DEF Init, List, ListOK, KeptOK, Late, Registering
  <2> QED
    BY <2>2, <2>4
<1>2. IInv /\ [Next]_vars => IInv'
  BY BaseStep, KeyStep, ListStep DEF IInv
<1> QED
  BY <1>1, <1>2, PTL DEF Spec

\* Whatever is interleaved, stopped or torn, the files and the processes keep
\* their types; the ids of sessions.parquet stay below the number of runs.
THEOREM TypeCorrect == Spec => []TypeOK
<1>1. IInv => TypeOK
  BY DEF IInv, Base, Types
<1> QED
  BY <1>1, Inductive, PTL

\* For any number of shims and runs: a session that served keeps its row in
\* sessions.parquet and its own <id>.parquet, unless two recorders registered
\* at once or one stopped half-way (readSessions, writeSessions).
THEOREM SessionsCorrect == Spec => []SessionsKept
<1>1. IInv => SessionsKept
  BY DEF IInv, List, ListOK, KeptOK, SessionsKept
<1> QED
  BY <1>1, Inductive, PTL

\* For any number of shims and runs: the row of a session names the metadata
\* of the key it encrypts with, and they are on IPFS, unless two processes were
\* in their key phase at once (initialize, main).
THEOREM KeyRowsCorrect == Spec => []RowNamesKey
<1>1. IInv => RowNamesKey
  BY DEF IInv, Key, NamesOK, RowNamesKey
<1> QED
  BY <1>1, Inductive, PTL

\* For any number of shims and runs: a key that has reached the key-metadata
\* file is never replaced by another one, unless two processes were in their
\* key phase at once (initialize, main).
THEOREM SharedKeyCorrect == Spec => SharedKeyNeverReplaced
<1>1. ASSUME IInv, [Next]_vars, ~raced', keyFile \notin {NoFile, Torn}
      PROVE  keyFile' = Torn \/ keyFile'.key = keyFile.key
  <2>1. CASE keyFile' = keyFile
    BY <2>1
  <2>2. CASE keyFile' # keyFile
    <3>1. PICK p \in Process : Wrapped(p) \/ SendMetadata(p) \/ TearKeyFile(p)
      BY <1>1, <2>2 DEF Next, vars, Launch, LaunchWizard, Begin, StartKey, Unwrapped,
         KeyFails, CheckMetadata, ReadMetadata, MetadataFails, ReadSessions,
         TruncateSessions, CloseSessions, OpenConversations, Stop, disk
    <3>2. KeysOK
      BY <1>1, <3>1 DEF IInv, Key, Wrapped, SendMetadata, TearKeyFile
    <3>3. ~Wrapped(p)
      BY <1>1, <2>2, <3>2 DEF Wrapped, KeysOK, RemembersOK
    <3>4. CASE SendMetadata(p)
      <4>1. keyFile \in [key : Run, cid : 0..MaxRuns]
        BY <1>1 DEF IInv, Base, Types, TypeOK
      <4>2. keyFile' = [keyFile EXCEPT !.cid = proc[p].cid] \/ keyFile' = Torn
        BY <2>2, <3>4 DEF SendMetadata, WithCid
      <4> QED
        BY <4>1, <4>2
    <3>5. CASE TearKeyFile(p)
      BY <3>5 DEF TearKeyFile
    <3> QED
      BY <3>1, <3>3, <3>4, <3>5
  <2> QED
    BY <2>1, <2>2
<1>2. IInv /\ [Next]_vars
        => [~raced' /\ keyFile \notin {NoFile, Torn}
              => keyFile' = Torn \/ keyFile'.key = keyFile.key]_vars
  BY <1>1
<1> QED
  BY <1>2, Inductive, PTL DEF Spec, SharedKeyNeverReplaced
=============================================================================
