------------------------------- MODULE Startup -------------------------------
(***************************************************************************)
(* From the command line to the first request: resolveConfig() chooses the *)
(* configuration, taco-encrypt recovers or makes the AES key, main()       *)
(* uploads the session's key metadata, and the CID recorder registers the  *)
(* session.  Several shims may start in one directory, be stopped at any   *)
(* moment and start again; what lasts is on disk or on IPFS.               *)
(*                                                                         *)
(* A value of a setting is 0 for its default, 1 for the one in the         *)
(* configuration file, 2 for the one on the command line; a toggle is on   *)
(* when it is not 0.  All key-metadata paths name one file.  A key is the  *)
(* number of the run that made it, and its metadata and their CID are told *)
(* apart by it; 0 is no key and no CID.                                    *)
(***************************************************************************)
EXTENDS Naturals, Sequences, FiniteSets, SequencesExt, FiniteSetsExt

CONSTANTS
  Process,            \* shims that share the working directory
  Setting,            \* the settings told apart
  NoFile, Torn,       \* no such file; one that cannot be parsed
  MaxRuns,            \* bound: starts, of all processes together
  MaxFlags            \* bound: settings given on one command line

ASSUME SettingAssumption ==
  Setting \subseteq {"client", "taco", "upload", "keyPath", "dao", "batchSize", "clientTimeout"}

\* A torn file is no list of rows.
ASSUME TornAssumption == Torn \notin Seq([id : Nat, cid : Nat])
ASSUME BoundAssumption == MaxRuns \in Nat

VARIABLES
  configFile,         \* ./llm-shim.config.json: NoFile, Torn or the settings
  keyFile,            \* the key-metadata file: NoFile, Torn or [key, cid]
  metaFile,           \* the key in llm-shim-session-metadata.json; 0: no file
  uploaded,           \* the keys whose metadata are on IPFS
  sessions,           \* sessions.parquet: Torn or its rows (none: no rows)
  files,              \* files[id]: the run that writes <id>.parquet; 0: none
  runs,               \* runs begun so far
  proc,               \* the state of each process
  served,             \* history: the sessions that got as far as serving
  raced,              \* history: two processes were in their key phase at once
  mishap              \* history: sessions.parquet was rewritten by two at once
                      \* or by one that stopped half-way

disk == <<configFile, keyFile, metaFile, uploaded, sessions, files>>
vars == <<disk, runs, proc, served, raced, mishap>>

Run == 1..MaxRuns
Id  == 0..(MaxRuns - 1)
Row == [id : Id, cid : 0..MaxRuns]
Down == [pc |-> "down", run |-> 0, cfg |-> <<>>, given |-> <<>>, named |-> FALSE,
         wallet |-> FALSE, shared |-> FALSE, stores |-> FALSE,
         key |-> 0, cid |-> 0, rows |-> <<>>]

Init ==
  /\ configFile \in {NoFile, Torn} \cup [Setting -> {0, 1}]
  /\ keyFile = NoFile /\ metaFile = 0 /\ uploaded = {}
  /\ sessions = <<>> /\ files = [i \in Id |-> 0]
  /\ runs = 0 /\ proc = [p \in Process |-> Down]
  /\ served = {} /\ raced = FALSE /\ mishap = FALSE

-----------------------------------------------------------------------------
(* The configuration *)

Toggles == {"taco", "upload"}         \* absent from the command line means off
Always  == Toggles \cup {"batchSize"} \* assigned whenever any flag is explicit

Defaults == [s \in Setting |-> 0]     \* createDefaultConfig()

\* A command line: the values given, and the flags that stand in a word of
\* their own rather than in --flag=value, which only flags with a value can.
CommandLine ==
  {l \in UNION {[given : [S -> {0, 2}], words : SUBSET S] :
                  S \in {T \in SUBSET Setting : Cardinality(T) <= MaxFlags}} :
     \A s \in DOMAIN l.given \cap (Toggles \cup {"client"}) :
        l.given[s] = 2 /\ s \in l.words}

\* hasExplicitCLIFlags(): compares whole words.
Explicit(line) == line.words # {}

\* applyCliOverrides(): Commander fills in the defaults, so some settings
\* are assigned whether or not they were given; --client only switches on, and
\* a timeout equal to its default is not seen.
Override(c, given) ==
  [s \in Setting |->
     IF s \notin DOMAIN given THEN IF s \in Always THEN 0 ELSE c[s]
     ELSE IF s = "clientTimeout" /\ given[s] = 0 THEN c[s] ELSE given[s]]

On(c, s) == s \in Setting /\ c[s] # 0

\* validateConfig(), a setting left out of Setting being in order.
Valid(c) == On(c, "taco") /\ "dao" \in Setting => On(c, "dao")

\* What resolveConfig() starts from, the wizard apart: nothing when it exits.
Sources(line, named) ==
  IF named THEN {configFile} \ {NoFile, Torn}
  ELSE IF Explicit(line) \/ configFile = Torn THEN {Defaults}
  ELSE IF configFile = NoFile THEN {Defaults}
  ELSE {configFile}

Resolved(p, c, line, named) ==
  \E wallet \in BOOLEAN :
    LET final == IF Explicit(line) THEN Override(c, line.given) ELSE c IN
    /\ Valid(final)
    /\ runs' = runs + 1
    /\ proc' = [proc EXCEPT ![p] =
                  [Down EXCEPT !.pc = "resolved", !.run = runs + 1, !.cfg = final,
                               !.given = line.given, !.named = named,
                               !.wallet = wallet]]

\* A run whose configuration is refused exits before it has changed anything.
Launch(p) ==
  /\ proc[p].pc = "down" /\ runs < MaxRuns
  /\ \E line \in CommandLine, named \in BOOLEAN :
       \E c \in Sources(line, named) : Resolved(p, c, line, named)
  /\ UNCHANGED <<disk, served, raced, mishap>>

Unasked(a, S) == \A s \in S \cap Setting : a[s] = 0

\* The wizard's questions.  A client is asked for nothing of a server's; the
\* settings of a middleware are asked for only when it is switched on.
ClientAnswers(a) == On(a, "client") /\ Unasked(a, Setting \ {"client", "clientTimeout"})

TacoAnswers(a)   == On(a, "taco") \/ Unasked(a, {"dao", "keyPath"})

UploadAnswers(a) == On(a, "upload") \/ Unasked(a, {"batchSize"})

ServerAnswers(a) == /\ Unasked(a, {"client", "clientTimeout"})
                    /\ TacoAnswers(a) /\ UploadAnswers(a)

\* runConfigWizard(): on a terminal, with no file and no explicit flag.  The
\* operator answers, sees the errors, and saves the answers or not.
LaunchWizard(p) ==
  /\ proc[p].pc = "down" /\ runs < MaxRuns
  /\ configFile = NoFile
  /\ \E answers \in {a \in [Setting -> {0, 1}] : ClientAnswers(a) \/ ServerAnswers(a)},
        line \in CommandLine :
       /\ ~Explicit(line)
       /\ configFile' \in {NoFile, answers}
       /\ Resolved(p, answers, line, FALSE)
  /\ UNCHANGED <<keyFile, metaFile, uploaded, sessions, files, served, raced, mishap>>

-----------------------------------------------------------------------------
(* The AES key *)

Go(p, pc) == proc' = [proc EXCEPT ![p].pc = pc]
Rest(p, pc) == proc' = [proc EXCEPT ![p] = [Down EXCEPT !.pc = pc]]
Exit(p) == Rest(p, "down")

Shared(p) == proc[p].shared

\* main() after resolveConfig(): a client bridge, or the middlewares in turn.
\* A run that stores nothing has nothing to do with the files any more.
Begin(p) ==
  LET c == proc[p].cfg
      begun(pc) == proc' = [proc EXCEPT ![p] =
        [Down EXCEPT !.pc = pc, !.run = proc[p].run, !.wallet = proc[p].wallet,
                     !.shared = On(c, "keyPath"), !.stores = On(c, "upload")]]
  IN
  /\ proc[p].pc = "resolved"
  /\ \/ On(c, "client") /\ Rest(p, "bridge")
     \/ ~On(c, "client") /\ On(c, "taco") /\ begun("keys")
     \/ ~On(c, "client") /\ ~On(c, "taco") /\ ~On(c, "upload") /\ Rest(p, "plain")
     \/ /\ ~On(c, "client") /\ ~On(c, "taco") /\ On(c, "upload")
        /\ IF proc[p].wallet THEN begun("recorder") ELSE Exit(p)
  /\ UNCHANGED <<disk, runs, served, raced, mishap>>

KeyPhase == {"unwrap", "wrap", "metadata", "reading", "sending"}

BugFindKey(p) ==              \* looks for the key but makes one all the same
  [key |-> proc[p].run, pc |-> "wrap"]

\* initialize(): the key to recover, or a new one.
FindKey(p) ==
  IF Shared(p) /\ keyFile # NoFile
  THEN IF keyFile = Torn \/ ~proc[p].wallet THEN [key |-> 0, pc |-> "down"]
       ELSE [key |-> keyFile.key, pc |-> "unwrap"]
  ELSE [key |-> proc[p].run, pc |-> "wrap"]

StartKey(p) ==
  LET found == FindKey(p) IN
  /\ proc[p].pc = "keys"
  /\ IF found.pc = "down" THEN Exit(p)
     ELSE proc' = [proc EXCEPT ![p].pc = found.pc, ![p].key = found.key]
  /\ raced' = (raced \/ \E q \in Process \ {p} : proc[q].pc \in KeyPhase)
  /\ UNCHANGED <<disk, runs, served, mishap>>

\* After initialize(): with upload, the metadata; without, nothing is stored.
AfterKey(p) ==
  IF proc[p].stores THEN Go(p, "metadata") ELSE Rest(p, "plain")

\* decryptKey() returns the key it was asked for, or throws (KeyFails).
Unwrapped(p) ==
  /\ proc[p].pc = "unwrap" /\ AfterKey(p)
  /\ UNCHANGED <<disk, runs, served, raced, mishap>>

\* encryptKey() returns; the wrapped key is written over what is there now.
Wrapped(p) ==
  /\ proc[p].pc = "wrap" /\ proc[p].wallet
  /\ keyFile' = IF Shared(p) THEN [key |-> proc[p].key, cid |-> 0] ELSE keyFile
  /\ AfterKey(p)
  /\ UNCHANGED <<configFile, metaFile, uploaded, sessions, files, runs, served, raced, mishap>>

\* The TACo network refuses or cannot be reached, or there is no signer.
KeyFails(p) ==
  /\ proc[p].pc \in {"unwrap", "wrap"} /\ Exit(p)
  /\ UNCHANGED <<disk, runs, served, raced, mishap>>

-----------------------------------------------------------------------------
(* The session's key metadata *)

BugPersistedCid == IF keyFile \in {NoFile, Torn} THEN 0
                   ELSE Max(uploaded \cup {0})    \* some CID uploaded earlier

\* The CID in the key file; 0 when it has none or cannot be parsed.
PersistedCid == IF keyFile \in {NoFile, Torn} THEN 0 ELSE keyFile.cid

\* Reuse the CID in the key file, or write the metadata to the fixed name in
\* the temporary directory and start to upload it.
CheckMetadata(p) ==
  /\ proc[p].pc = "metadata"
  /\ IF Shared(p) /\ PersistedCid # 0
     THEN /\ proc' = [proc EXCEPT ![p].cid = PersistedCid, ![p].pc = "recorder"]
          /\ UNCHANGED metaFile
     ELSE /\ Go(p, "reading") /\ metaFile' = proc[p].key
  /\ UNCHANGED <<configFile, keyFile, uploaded, sessions, files, runs, served, raced, mishap>>

\* The uploader reads the file; it throws if another run has removed it.
ReadMetadata(p) ==
  /\ proc[p].pc = "reading"
  /\ IF metaFile = 0 THEN Exit(p)
     ELSE proc' = [proc EXCEPT ![p].cid = metaFile, ![p].pc = "sending"]
  /\ UNCHANGED <<disk, runs, served, raced, mishap>>

\* The key file with the new CID written into it.
WithCid(p) == IF Shared(p) /\ keyFile \notin {NoFile, Torn}
              THEN [keyFile EXCEPT !.cid = proc[p].cid] ELSE keyFile

\* The upload ends, and its CID is noted; a note that fails is not fatal, though it
\* may have cut the key file short.
SendMetadata(p) ==
  /\ proc[p].pc = "sending"
  /\ uploaded' = uploaded \cup {proc[p].cid}
  /\ \/ keyFile' \in {WithCid(p), keyFile}
     \/ Shared(p) /\ keyFile # NoFile /\ keyFile' = Torn
  /\ metaFile' = 0
  /\ Go(p, "recorder")
  /\ UNCHANGED <<configFile, sessions, files, runs, served, raced, mishap>>

MetadataFails(p) ==
  /\ proc[p].pc \in {"reading", "sending"}
  /\ metaFile' = 0 /\ Exit(p)
  /\ UNCHANGED <<configFile, keyFile, uploaded, sessions, files, runs, served, raced, mishap>>

-----------------------------------------------------------------------------
(* The CID recorder *)

Registering == {"registering", "rewriting"}

BugNextId(rows) == Len(rows) + 1

\* One more than the largest id.
NextId(rows) == IF rows = <<>> THEN 0 ELSE Max({rows[i].id : i \in DOMAIN rows}) + 1

BugReadable == IF sessions = Torn THEN <<>>
               ELSE SelectSeq(sessions, LAMBDA row : row.cid # 0)

\* readSessions(): a file that cannot be read counts as none.
Readable == IF sessions = Torn THEN <<>> ELSE sessions

ReadSessions(p) ==
  /\ proc[p].pc = "recorder"
  /\ proc' = [proc EXCEPT ![p].pc = "registering",
                ![p].rows = Append(Readable, [id  |-> NextId(Readable),
                                              cid |-> proc[p].cid])]
  /\ mishap' = (mishap \/ \E q \in Process \ {p} : proc[q].pc \in Registering)
  /\ UNCHANGED <<disk, runs, served, raced>>

\* writeSessions() opens the file and so empties it ...
TruncateSessions(p) ==
  /\ proc[p].pc = "registering"
  /\ sessions' = Torn /\ Go(p, "rewriting")
  /\ UNCHANGED <<configFile, keyFile, metaFile, uploaded, files, runs, served, raced, mishap>>

\* ... and closes it with the footer; two writers leave what they leave.
CloseSessions(p) ==
  /\ proc[p].pc = "rewriting"
  /\ sessions' \in {proc[p].rows} \cup
       (IF \E q \in Process \ {p} : proc[q].pc = "rewriting" THEN {Torn} ELSE {})
  /\ Go(p, "opening")
  /\ UNCHANGED <<configFile, keyFile, metaFile, uploaded, files, runs, served, raced, mishap>>

\* The session's own file is opened, over any other of that name.
OpenConversations(p) ==
  LET me == Last(proc[p].rows) IN
  /\ proc[p].pc = "opening"
  /\ files' = [files EXCEPT ![me.id] = proc[p].run]
  /\ served' = served \cup {[run |-> proc[p].run, id |-> me.id, cid |-> me.cid,
                             key |-> proc[p].key]}
  /\ Rest(p, "serving")
  /\ UNCHANGED <<configFile, keyFile, metaFile, uploaded, sessions, runs, raced, mishap>>

-----------------------------------------------------------------------------
(* The end of a run *)

\* A signal, an exit or a crash, between two steps; metadata that were being sent
\* may have been uploaded without a note of their CID.
Stop(p) ==
  /\ proc[p].pc # "down"
  /\ mishap' = (mishap \/ proc[p].pc = "rewriting")
  /\ \/ UNCHANGED uploaded
     \/ proc[p].pc = "sending" /\ uploaded' = uploaded \cup {proc[p].cid}
  /\ Exit(p)
  /\ UNCHANGED <<configFile, keyFile, metaFile, sessions, files, runs, served, raced>>

\* A crash inside writeFileSync() of the key file.
TearKeyFile(p) ==
  /\ \/ proc[p].pc = "wrap" /\ UNCHANGED uploaded
     \/ /\ proc[p].pc = "sending" /\ keyFile \notin {NoFile, Torn}
        /\ uploaded' = uploaded \cup {proc[p].cid}
  /\ Shared(p) /\ keyFile' = Torn /\ Exit(p)
  /\ UNCHANGED <<configFile, metaFile, sessions, files, runs, served, raced, mishap>>

Next ==
  \E p \in Process :
    \/ Launch(p) \/ LaunchWizard(p) \/ Begin(p)
    \/ StartKey(p) \/ Unwrapped(p) \/ Wrapped(p) \/ KeyFails(p)
    \/ CheckMetadata(p) \/ ReadMetadata(p) \/ SendMetadata(p) \/ MetadataFails(p)
    \/ ReadSessions(p) \/ TruncateSessions(p) \/ CloseSessions(p) \/ OpenConversations(p)
    \/ Stop(p) \/ TearKeyFile(p)

Spec == Init /\ [][Next]_vars

-----------------------------------------------------------------------------
(* Properties *)

Stage == {"down", "resolved", "bridge", "plain", "keys", "recorder", "opening", "serving"}
         \cup KeyPhase \cup Registering

\* The types of what lasts and of what a process remembers.
TypeOK ==
  /\ configFile \in {NoFile, Torn} \cup [Setting -> {0, 1}]
  /\ keyFile \in {NoFile, Torn} \cup [key : Run, cid : 0..MaxRuns]
  /\ metaFile \in 0..MaxRuns /\ uploaded \subseteq Run
  /\ sessions = Torn \/ sessions \in Seq(Row)
  /\ files \in [Id -> 0..MaxRuns]
  /\ runs \in 0..MaxRuns
  /\ \A p \in Process : /\ proc[p].pc \in Stage
                        /\ proc[p].pc = "resolved" => proc[p].cfg \in [Setting -> 0..2]
                        /\ proc[p].rows \in Seq(Row)
  /\ served \subseteq [run : Run, id : Id, cid : 0..MaxRuns, key : 0..MaxRuns]
  /\ raced \in BOOLEAN /\ mishap \in BOOLEAN

\* The rows that a reader will find once a rewrite under way is over.
Rows == LET writers == {p \in Process : proc[p].pc = "rewriting"} IN
        IF writers = {} THEN Readable
        ELSE proc[CHOOSE p \in writers : TRUE].rows

\* A session that served keeps its row, and keeps its own <id>.parquet, through
\* every later start, crash and restart.  Only a stop half-way through a rewrite
\* of sessions.parquet, or two recorders that register at once, can undo it
\* (createCidRecorder, readSessions, writeSessions).
SessionsKept ==
  ~mishap => \A s \in served : /\ files[s.id] = s.run
                               /\ [id |-> s.id, cid |-> s.cid] \in Range(Rows)

\* Whoever reads a session's row finds on IPFS the wrapped key the session
\* really encrypts with, whether the key was made, recovered from the key file,
\* or recovered after a crash between its upload and the note of its CID.
\* Only two starts at once can cross them (main, initialize).
RowNamesKey ==
  ~raced => \A s \in served : s.key # 0 => s.cid = s.key /\ s.cid \in uploaded

\* A key that reached the key-metadata file is never replaced by another: later
\* sessions recover it or fail, they do not make a new one (initialize).
SharedKeyNeverReplaced ==
  [][~raced' /\ keyFile \notin {NoFile, Torn}
       => keyFile' = Torn \/ keyFile'.key = keyFile.key]_vars

\* What the comment on applyCliOverrides() says: with a file named on the
\* command line, a setting that was not given keeps the file's value.
OnlyGivenOverridden ==
  \A p \in Process : proc[p].pc = "resolved" /\ proc[p].named =>
    \A s \in Setting \ DOMAIN proc[p].given : proc[p].cfg[s] = configFile[s]
=============================================================================
