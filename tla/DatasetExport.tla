---------------------------- MODULE DatasetExport ----------------------------
(***************************************************************************)
(* One dataset directory (training.py): export_traces replaces the row     *)
(* files one by one and the manifest last; train_adapter copies manifest   *)
(* and rows into a snapshot, checks that the snapshot matches its          *)
(* manifest, trains on it and moves the adapter into place.  Exports and   *)
(* training runs overlap; an export may fail or be killed between any two  *)
(* files.                                                                  *)
(***************************************************************************)
EXTENDS Naturals, FiniteSets

CONSTANTS
  Exports,      \* the exports into the directory; each writes rows of its own
  Runs,         \* the training runs that read it, into one adapter directory
  Separators    \* exports whose rows hold U+2028 or U+0085, which JSON leaves
                \* as they are and splitlines takes for line ends

DatasetAssumption ==
  /\ Separators \subseteq Exports
  /\ {"none", "foreign", "broken"} \cap Exports = {}

VARIABLES
  export,      \* where each export is
  files,       \* the directory: the export each file is of, "none" if missing
  snapshot,    \* the private copy of each run
  run,         \* where each run is
  adapter,     \* the run whose adapter is installed, "none" for none
  latest,      \* the export that began last (history)
  overlapped   \* exports that did not have the directory to themselves (history)

vars == <<export, files, snapshot, run, adapter, latest, overlapped>>
history == <<latest, overlapped>>

RowFiles == {"train", "validation", "holdout"}
Files == RowFiles \cup {"manifest"}
NoFiles == [f \in Files |-> "none"]
ExportStages == {"idle", "train", "validation", "holdout", "manifest", "ok", "failed"}
RunStages == {"idle", "manifest", "train", "validation", "holdout", "load", "trained", "installed",
              "refused"}
Active == {e \in Exports : export[e] \notin {"idle", "ok", "failed"}}

TypeOK ==
  /\ export \in [Exports -> ExportStages]
  /\ files \in [Files -> Exports \cup {"none", "foreign"}]
  /\ snapshot \in [Runs -> [Files -> Exports \cup {"none", "foreign"}]]
  /\ run \in [Runs -> RunStages]
  /\ adapter \in Runs \cup {"none"}
  /\ latest \in Exports \cup {"none"} /\ overlapped \subseteq Exports

\* An empty directory, or one into which somebody put a test.jsonl.
Init ==
  /\ export = [e \in Exports |-> "idle"]
  /\ files \in {NoFiles, [NoFiles EXCEPT !["holdout"] = "foreign"]}
  /\ snapshot = [r \in Runs |-> NoFiles]
  /\ run = [r \in Runs |-> "idle"]
  /\ adapter = "none"
  /\ latest = "none" /\ overlapped = {}

runVars == <<snapshot, run, adapter>>
-----------------------------------------------------------------------------
(* The digest of the rows, as the writer takes it and as a reader does: a  *)
(* row that splitlines breaks up has another digest.                       *)

Written(e) == [f \in RowFiles |-> IF f = "holdout" THEN "none" ELSE e]

\* Mutant: only the train rows go into the digest.
LinesOfTrain(rows) ==
  [f \in RowFiles |-> IF rows[f] \in Separators THEN "broken"
                      ELSE IF f = "validation" THEN rows["train"] ELSE rows[f]]

Lines(rows) == [f \in RowFiles |-> IF rows[f] \in Separators THEN "broken" ELSE rows[f]]

\* load_dataset_manifest
Loads(copy) ==
  /\ copy["manifest"] \in Exports
  /\ Lines([f \in RowFiles |-> copy[f]]) = Written(copy["manifest"])
-----------------------------------------------------------------------------
(* export_traces.  The traces have passed, the rows are in memory.         *)

Advance(e, stage) == export' = [export EXCEPT ![e] = stage]

StartExport(e) ==
  /\ export[e] = "idle"
  /\ Advance(e, "train")
  /\ latest' = e
  /\ overlapped' = overlapped \cup (IF Active = {} THEN {} ELSE Active \cup {e})
  /\ UNCHANGED <<files, runVars>>

After == [train |-> "validation", validation |-> "holdout", manifest |-> "ok"]

\* The rows go to a temporary file that then replaces the file.
Replace(e) ==
  /\ export[e] \in DOMAIN After
  /\ files' = [files EXCEPT ![export[e]] = e]
  /\ Advance(e, After[export[e]])
  /\ UNCHANGED <<runVars, history>>

\* Mutant: a split without rows is skipped.
SkipHoldout(e) ==
  /\ export[e] = "holdout"
  /\ Advance(e, "manifest")
  /\ UNCHANGED <<files, runVars, history>>

\* No trace of the holdout split gets here: its file is removed.
UnlinkHoldout(e) ==
  /\ export[e] = "holdout"
  /\ files' = [files EXCEPT !["holdout"] = "none"]
  /\ Advance(e, "manifest")
  /\ UNCHANGED <<runVars, history>>

\* Mutant: the rows are written in place.
TornInPlace(e) ==
  /\ e \in Active
  /\ files' = [files EXCEPT ![IF export[e] = "manifest" THEN "manifest" ELSE "train"] = "torn"]
  /\ Advance(e, "failed")
  /\ UNCHANGED <<runVars, history>>

\* A write fails or the export is killed; what was replaced stays replaced.
ExportBreaksOff(e) ==
  /\ e \in Active
  /\ Advance(e, "failed")
  /\ UNCHANGED <<files, runVars, history>>
-----------------------------------------------------------------------------
(* train_adapter.                                                          *)

Goto(r, stage) == run' = [run EXCEPT ![r] = stage]
exportVars == <<export, files, history>>

StartRun(r) ==
  /\ run[r] = "idle"
  /\ Goto(r, IF adapter = "none" THEN "manifest" ELSE "refused")
  /\ UNCHANGED <<exportVars, snapshot, adapter>>

AfterCopy == [manifest |-> "train", train |-> "validation", validation |-> "holdout"]

\* _snapshot_dataset: a missing file ends it.
Copy(r) ==
  /\ run[r] \in DOMAIN AfterCopy
  /\ IF files[run[r]] = "none"
     THEN Goto(r, "refused") /\ UNCHANGED snapshot
     ELSE /\ snapshot' = [snapshot EXCEPT ![r][run[r]] = files[run[r]]]
          /\ Goto(r, AfterCopy[run[r]])
  /\ UNCHANGED <<exportVars, adapter>>

InspectHoldout(r) ==
  /\ run[r] = "holdout"
  /\ Goto(r, IF files["holdout"] = "none" THEN "load" ELSE "refused")
  /\ UNCHANGED <<exportVars, snapshot, adapter>>

\* Mutant: the manifest of the directory is loaded again.
LoadDirectory(r) ==
  /\ run[r] = "load"
  /\ Goto(r, IF Loads(files) THEN "trained" ELSE "refused")
  /\ UNCHANGED <<exportVars, snapshot, adapter>>

Load(r) ==
  /\ run[r] = "load"
  /\ Goto(r, IF Loads(snapshot[r]) THEN "trained" ELSE "refused")
  /\ UNCHANGED <<exportVars, snapshot, adapter>>

\* Any later check, or the training itself, may refuse.
Refuse(r) ==
  /\ run[r] = "trained"
  /\ Goto(r, "refused")
  /\ UNCHANGED <<exportVars, snapshot, adapter>>

\* staged_adapter.replace fails when another run was first.
Install(r) ==
  /\ run[r] = "trained"
  /\ IF adapter = "none" THEN adapter' = r /\ Goto(r, "installed")
                         ELSE Goto(r, "refused") /\ UNCHANGED adapter
  /\ UNCHANGED <<exportVars, snapshot>>

Next ==
  \/ \E e \in Exports :
       StartExport(e) \/ Replace(e) \/ UnlinkHoldout(e) \/ ExportBreaksOff(e)
  \/ \E r \in Runs :
       StartRun(r) \/ Copy(r) \/ InspectHoldout(r) \/ Load(r) \/ Refuse(r) \/ Install(r)

Spec == Init /\ [][Next]_vars
-----------------------------------------------------------------------------
\* A run trains on the rows of one export whose manifest was written, however
\* exports overlap, fail or replace files while the snapshot is taken.
TrainsOnOneExport ==
  \A r \in Runs : run[r] \in {"trained", "installed"} =>
    \E e \in Exports :
      /\ snapshot[r] = [f \in Files |-> IF f = "holdout" THEN "none" ELSE e]
      /\ export[e] = "ok"

\* An export that reports success, began last and had the directory to itself
\* leaves what a training run accepts, whatever earlier exports left behind
\* (README: omp-coding-train run --data dataset/v1 after the export), unless a
\* row of it holds a separator that only splitlines takes for a line end.
ExportedDatasetLoads ==
  latest # "none" /\ export[latest] = "ok" /\ latest \notin overlapped \cup Separators
    => files["holdout"] = "none" /\ Loads(files)
=============================================================================
