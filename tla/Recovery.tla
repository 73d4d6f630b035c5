------------------------------ MODULE Recovery ------------------------------
(***************************************************************************)
(* The data-recovery tool: its commands (data-recovery/src/cli.ts), the    *)
(* pipeline that fetches, unpacks and saves one batch after the other      *)
(* (lib/recovery.ts, lib/retriever.ts, lib/car-extractor.ts), the files it *)
(* leaves, and the user who interrupts it and runs it again.               *)
(* Bytes are abstracted to what they unpack to: the batchId of the root    *)
(* and the conversations whose blocks are there, or Garbage when they are  *)
(* not a batch archive.  Neither a root CID nor the hash of a block is     *)
(* compared with anything, so any archive may come for any CID and be in   *)
(* any file: the one stored there, a part of it, one with altered blocks,  *)
(* or that of another batch.                                               *)
(***************************************************************************)
EXTENDS Naturals, Sequences

CONSTANTS
  Archive,        \* what archives are asked for by: CIDs and CAR files
  Car,            \* what bytes may unpack to: [batch, convs]
  StoredAs,       \* archive -> what was stored as it
  FileOf,         \* conversation -> its file name, from the id in it
  Retries,        \* options.retries of retrieveFromGateway
  Commands,       \* what the user may type: [name, list, saveCar, split]
  MaxRuns,        \* bound: runs of the tool
  MaxFaults,      \* bound: writes that fail (disk full, no permission)
  Garbage, NoFile, Truncated, Failed, NotYet, GivenUp

VARIABLES
  command,      \* what the user typed
  stage,        \* where the run is
  attempt,      \* attempt of retrieveFromGateway, from 0
  carBytes,     \* what came for each input, Garbage if nothing has
  results,      \* an outcome for every input done
  carFiles,     \* <label>.car
  outFiles,     \* batch-<id>.json and <base>-extracted.json
  splitFiles,   \* batch-<id>-conversations/: the files that are whole
  runs, faults

netVars  == <<stage, attempt, carBytes, results>>
fileVars == <<carFiles, outFiles, splitFiles>>
vars     == <<command, netVars, fileVars, runs, faults>>

Batch == {car.batch : car \in Car}
Name == [kind : {"batch"}, of : Batch] \cup [kind : {"extracted"}, of : Archive]

Working == {"list", "request", "body", "backoff", "local", "saveCar",
            "extract", "write", "split"}

TypeOK ==
  /\ command \in Commands
  /\ stage \in Working \cup {"done", "refused", "killed"}
  /\ attempt \in 0 .. Retries - 1
  /\ carBytes \in [DOMAIN command.list -> Car \cup {Garbage}]
  /\ results \in Seq(Car \cup {Failed}) /\ Len(results) <= Len(command.list)
  /\ DOMAIN carFiles = Archive /\ DOMAIN outFiles = Name
  /\ runs \in 1 .. MaxRuns /\ faults \in 0 .. MaxFaults

-----------------------------------------------------------------------------
\* The input being worked on: form is "cid", "malformed" or "local".
Input == command.list[Len(results) + 1]
bytes == carBytes[Len(results) + 1]

\* recover and recover-all name the file by the batch, extract by the CAR file.
OutNameOf(i, car) ==
  IF command.name = "extract"
  THEN [kind |-> "extracted", of |-> command.list[i].archive]
  ELSE [kind |-> "batch", of |-> car.batch]
OutName == OutNameOf(Len(results) + 1, bytes)

\* extract writes either the batch file or the conversations' files.
SavesBatch == command.name # "extract" \/ ~command.split

FirstStage(input) == IF input.form = "local" THEN "local" ELSE "request"

\* recoverBatch() returns, the loop of recoverBatches() takes the next input.
Settle(outcome) ==
  /\ results' = Append(results, outcome)
  /\ stage' = IF Len(results') = Len(command.list)
              THEN "done" ELSE FirstStage(command.list[Len(results') + 1])
  /\ attempt' = 0
  /\ UNCHANGED carBytes

GoTo(next) == stage' = next /\ UNCHANGED <<attempt, carBytes, results>>

\* extract gives up on the first error; the others go on with the next input.
Fail == IF command.name = "extract"
        THEN GoTo("refused")
        ELSE Settle(Failed)

-----------------------------------------------------------------------------
Init ==
  /\ command \in Commands
  /\ stage = "list" /\ attempt = 0 /\ results = <<>>
  /\ carBytes = [i \in DOMAIN command.list |-> Garbage]
  /\ carFiles   = [a \in Archive |-> NoFile]
  /\ outFiles   = [n \in Name |-> NoFile]
  /\ splitFiles = [b \in Batch |-> {}]
  /\ runs = 1 /\ faults = 0

\* The registry, the CID file or the CAR file named on the command line; a
\* registry that does not exist is an empty list.
ReadList ==
  /\ stage = "list"
  /\ GoTo(IF command.list = <<>> THEN "done" ELSE FirstStage(command.list[1]))
  /\ UNCHANGED <<command, fileVars, runs, faults>>

\* No list named, no such CID or CAR file, a registry that cannot be parsed or
\* has another version: the run ends with an error.
ListMissing ==
  /\ stage = "list" /\ command.name # "recover"
  /\ GoTo("refused")
  /\ UNCHANGED <<command, fileVars, runs, faults>>

\* catch of retrieveFromGateway: wait before the next attempt, or throw.
AttemptFails ==
  IF attempt < Retries - 1 THEN GoTo("backoff") ELSE Fail

\* fetch() answers, is refused, or is aborted by the timer; CID.parse() throws
\* before the first attempt and outside the try.
FetchCar ==
  /\ stage = "request"
  /\ IF Input.form = "malformed"
     THEN Fail
     ELSE \/ GoTo("body")
          \/ AttemptFails
  /\ UNCHANGED <<command, fileVars, runs, faults>>

Have(data, next) ==
  /\ carBytes' = [carBytes EXCEPT ![Len(results) + 1] = data]
  /\ stage' = next
  /\ UNCHANGED <<attempt, results>>

BugAfterBytes ==  \* extract writes without a look at the bytes
  CASE command.saveCar                              -> "saveCar"
    [] command.name = "extract" /\ ~command.split  -> "write"
    [] OTHER                                        -> "extract"

AfterBytes == IF command.saveCar THEN "saveCar" ELSE "extract"

\* response.arrayBuffer(), with the timer already cleared: an archive, whichever
\* it is, or anything else with status 200.
BodyEnds ==
  /\ stage = "body"
  /\ \/ \E car \in Car : Have(car, AfterBytes)
     \/ Have(Garbage, AfterBytes)
     \/ AttemptFails
  /\ UNCHANGED <<command, fileVars, runs, faults>>

BugBackoffEnds ==  \* the attempt is not counted
  /\ stage = "backoff"
  /\ stage' = "request"
  /\ UNCHANGED <<attempt, command, carBytes, results, fileVars, runs, faults>>

BackoffEnds ==
  /\ stage = "backoff"
  /\ stage' = "request" /\ attempt' = attempt + 1
  /\ UNCHANGED <<command, carBytes, results, fileVars, runs, faults>>

\* loadLocalCarFile(): no such file or no CAR file, or its bytes.
LoadLocal ==
  /\ stage = "local"
  /\ \/ \E car \in Car : Have(car, AfterBytes)
     \/ Have(Garbage, AfterBytes)
     \/ Fail
  /\ UNCHANGED <<command, fileVars, runs, faults>>

\* parseCarFile(), extractBatch(): a conversation block that is missing is
\* skipped with a warning.
Extract ==
  /\ stage = "extract"
  /\ IF bytes = Garbage
     THEN Fail
     ELSE GoTo(IF SavesBatch THEN "write" ELSE "split")
  /\ UNCHANGED <<command, fileVars, runs, faults>>

BugWriteFails == faults < MaxFaults /\ faults' = faults + 1 /\ Settle(bytes)  \* not thrown

WriteFails == faults < MaxFaults /\ faults' = faults + 1 /\ Fail

SaveCar ==
  /\ stage = "saveCar"
  /\ \/ /\ carFiles' = [carFiles EXCEPT ![Input.archive] = bytes]
        /\ GoTo("extract") /\ UNCHANGED faults
     \/ /\ carFiles' = [carFiles EXCEPT ![Input.archive] = Truncated]
        /\ WriteFails
  /\ UNCHANGED <<command, outFiles, splitFiles, runs>>

SaveBatch ==
  /\ stage = "write"
  /\ \/ /\ outFiles' = [outFiles EXCEPT ![OutName] = bytes]
        /\ IF command.split
           THEN GoTo("split") ELSE Settle(bytes)
        /\ UNCHANGED faults
     \/ /\ outFiles' = [outFiles EXCEPT ![OutName] = Truncated]
        /\ WriteFails
  /\ UNCHANGED <<command, carFiles, splitFiles, runs>>

Files(convs) == {FileOf[c] : c \in convs}

\* The files of the conversations in done are rewritten, of two with one name the
\* later stays (in kept); then the file of one more may be cut short.
SplitSoFar(done, torn) ==
  \E kept \in SUBSET done :
     /\ Files(kept) = Files(done) \ Files(torn)
     /\ \A c, d \in kept : FileOf[c] = FileOf[d] => c = d
     /\ splitFiles' = [splitFiles EXCEPT ![bytes.batch] =
                         kept \cup {c \in @ : FileOf[c] \notin Files(done \cup torn)}]

SplitStops ==
  \E done \in SUBSET bytes.convs : \E torn \in bytes.convs \ done : SplitSoFar(done, {torn})

SaveSplit ==
  /\ stage = "split"
  /\ \/ /\ SplitSoFar(bytes.convs, {})
        /\ Settle(bytes) /\ UNCHANGED faults
     \/ SplitStops /\ WriteFails
  /\ UNCHANGED <<command, carFiles, outFiles, runs>>

\* Ctrl-C: the file being written keeps what had been written of it.
Kill ==
  /\ stage \in Working
  /\ GoTo("killed")
  /\ \/ UNCHANGED fileVars
     \/ /\ stage = "saveCar"
        /\ carFiles' = [carFiles EXCEPT ![Input.archive] = Truncated]
        /\ UNCHANGED <<outFiles, splitFiles>>
     \/ /\ stage = "write"
        /\ outFiles' = [outFiles EXCEPT ![OutName] = Truncated]
        /\ UNCHANGED <<carFiles, splitFiles>>
     \/ /\ stage = "split"
        /\ SplitStops
        /\ UNCHANGED <<carFiles, outFiles>>
  /\ UNCHANGED <<command, runs, faults>>

\* The user runs the tool again into the same directory.
RunAgain ==
  /\ stage \notin Working /\ runs < MaxRuns
  /\ runs' = runs + 1
  /\ command' \in Commands
  /\ stage' = "list" /\ attempt' = 0 /\ results' = <<>>
  /\ carBytes' = [i \in DOMAIN command'.list |-> Garbage]
  /\ UNCHANGED <<fileVars, faults>>

Step == \/ ReadList \/ ListMissing \/ FetchCar \/ BodyEnds \/ BackoffEnds
        \/ LoadLocal \/ Extract \/ SaveCar \/ SaveBatch \/ SaveSplit

Next == Step \/ Kill \/ RunAgain

Spec == Init /\ [][Next]_vars

\* Timers and the file system go on; a gateway that has sent its headers also
\* ends its body (no timer of the tool covers it).
FairSpec == Spec /\ WF_vars(Step)

-----------------------------------------------------------------------------
(* What the tool promises *)

\* What has come, by place in the list.
Came == [i \in DOMAIN command.list |-> {carBytes[i]} \ {Garbage}]

Answer == CASE stage \in Working             -> NotYet
            [] stage \in {"refused", "killed"} -> GivenUp
            [] OTHER                           -> results

Promise == INSTANCE Downloads WITH arrived <- Came, answer <- Answer

\* A run ends with one outcome for every archive of the list, in its place: an
\* error, or what came for that very archive, whatever came for the others,
\* whichever file cannot be written, and wherever an earlier run was interrupted
\* (recoverBatches, the retry loop, the catch of recoverBatch).  That what came is
\* what was stored is not promised: FetchedIsStored is refuted.
RecoveryKeepsPromise == Promise!Safe

\* No retry, failed write or bad archive keeps a run from ending (retry loop of
\* retrieveFromGateway).
EveryRunEnds == Promise!Answered

\* An archive with the batch id of the i-th has come after it.
Overtaken(i) ==
  \E k \in DOMAIN carBytes :
     k > i /\ carBytes[k] # Garbage /\ carBytes[k].batch = carBytes[i].batch

\* What a run has reported as recovered is whole on the disk, in the batch file
\* and with --split in the conversations' files (a file for each name), unless an
\* archive of the same batch id came later in the list (saveBatchToFile,
\* saveConversationsToDir).
RecoveredIsOnDisk ==
  \A i \in DOMAIN results :
     results[i] # Failed /\ ~Overtaken(i) =>
       /\ SavesBatch => outFiles[OutNameOf(i, results[i])] = results[i]
       /\ command.split =>
            Files(results[i].convs \cap splitFiles[results[i].batch]) = Files(results[i].convs)

\* A file recovered by an earlier run is never lost to a download that fails: it
\* changes only for an archive that has come and names that batch (recover) or is
\* in that CAR file (extract), or is cut short because this very write fails or is
\* interrupted.
DownloadsDestroyNothing ==
  [][\A n \in Name : outFiles'[n] # outFiles[n] =>
        \/ bytes # Garbage /\ n = OutName /\ outFiles'[n] = bytes
        \/ outFiles'[n] = Truncated /\ (stage' = "killed" \/ faults' # faults)]_vars
-----------------------------------------------------------------------------
(* Refuted *)

\* A batch reported as recovered holds nothing but what was stored under its CID
\* ("All CIDs verified on retrieval", docs/architecture.md).  Not so: no CID is
\* computed.
FetchedIsStored ==
  \A i \in DOMAIN results :
     results[i] # Failed =>
       results[i].convs \subseteq StoredAs[command.list[i].archive].convs

\* A batch reported as recovered is complete.  Not so, even if every block is
\* genuine: extractBatch() skips the blocks it does not find, and only the number
\* of conversations shows it.
SuccessIsComplete ==
  \A i \in DOMAIN results :
     results[i] # Failed =>
       StoredAs[command.list[i].archive].convs \subseteq results[i].convs
=============================================================================
