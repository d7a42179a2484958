-------------------------- MODULE DatasetExportProofs --------------------------
(***************************************************************************)
(* Proofs that a training run never mixes exports, and that an export that *)
(* had the directory to itself leaves a dataset that loads, for any number *)
(* of exports, of runs and of rows that the digest reads differently.      *)
(***************************************************************************)
EXTENDS DatasetExport, TLAPS

(* The manifest is the last file of an export to be replaced, so whoever   *)
(* finds it, in the directory or in a snapshot, finds a finished export;   *)
(* what a run trained on has passed load_dataset_manifest.                 *)
Finished(e) == e \in Exports => export[e] = "ok"

Inv ==
  /\ TypeOK
  /\ Finished(files["manifest"])
  /\ \A r \in Runs :
       /\ snapshot[r]["holdout"] = "none"
       /\ Finished(snapshot[r]["manifest"])
       /\ run[r] \in {"trained", "installed"} => Loads(snapshot[r])

(* A finished export stays finished, so a step that only moves exports     *)
(* keeps what is said of copies that it does not touch.                    *)
LEMMA FinishedIsStable ==
  ASSUME TypeOK, NEW e \in Exports, NEW stage \in ExportStages,
         export[e] # "ok", export' = [export EXCEPT ![e] = stage],
         NEW x, Finished(x)
  PROVE  Finished(x)'
BY DEF Finished, TypeOK

(* What matches its manifest, without a holdout file, is one export.       *)
LEMMA LoadedIsOneExport ==
  ASSUME DatasetAssumption, NEW copy \in [Files -> Exports \cup {"none", "foreign"}],
         copy["holdout"] = "none", Loads(copy)
  PROVE  copy = [f \in Files |-> IF f = "holdout" THEN "none" ELSE copy["manifest"]]
<1>1. \A f \in {"train", "validation"} : copy[f] = copy["manifest"]
  <2> SUFFICES ASSUME NEW f \in {"train", "validation"}
               PROVE  copy[f] = copy["manifest"]
    OBVIOUS
  <2>1. f \in RowFiles /\ f # "holdout"
    BY DEF RowFiles
  <2>2. Lines([g \in RowFiles |-> copy[g]])[f] = Written(copy["manifest"])[f]
    BY DEF Loads
  <2>3. Written(copy["manifest"])[f] = copy["manifest"]
    BY <2>1 DEF Written
  <2>4. Lines([g \in RowFiles |-> copy[g]])[f]
          = IF copy[f] \in Separators THEN "broken" ELSE copy[f]
    BY <2>1 DEF Lines
  <2> QED
    BY <2>2, <2>3, <2>4 DEF Loads, DatasetAssumption
<1> QED
  BY <1>1 DEF Files, RowFiles

(* Every snapshot is taken file by file; the directory is only what the    *)
(* exports made of it.                                                     *)
LEMMA InvIsInductive == Inv /\ [Next]_vars => Inv'
<1> SUFFICES ASSUME Inv, [Next]_vars
             PROVE  Inv'
  OBVIOUS
<1> USE DEF Inv
<1>1. ASSUME NEW e \in Exports, StartExport(e)
      PROVE  Inv'
  <2>1. export[e] # "ok" /\ export' = [export EXCEPT ![e] = "train"]
        /\ UNCHANGED <<files, snapshot, run, adapter>>
    BY <1>1 DEF StartExport, Advance, runVars
  <2>2. TypeOK'
    BY <1>1, <2>1 DEF StartExport, TypeOK, ExportStages, Active
  <2>3. ASSUME NEW x, Finished(x) PROVE Finished(x)'
    BY <2>1, <2>3, FinishedIsStable DEF ExportStages
  <2> QED
    BY <2>1, <2>2, <2>3 DEF Loads, Finished
<1>2. ASSUME NEW e \in Exports, Replace(e)
      PROVE  Inv'
  <2>1. /\ export[e] \in {"train", "validation", "manifest"}
        /\ After[export[e]] \in ExportStages
        /\ export[e] = "manifest" => After[export[e]] = "ok"
    BY <1>2 DEF Replace, After, ExportStages
  <2>2. /\ export' = [export EXCEPT ![e] = After[export[e]]]
        /\ files' = [files EXCEPT ![export[e]] = e]
        /\ UNCHANGED <<snapshot, run, adapter, latest, overlapped>>
    BY <1>2 DEF Replace, Advance, runVars, history
  <2>3. TypeOK'
    BY <2>1, <2>2 DEF TypeOK, Files, RowFiles
  <2>4. ASSUME NEW x, Finished(x) PROVE Finished(x)'
    BY <2>1, <2>2, <2>4, FinishedIsStable
  <2>5. Finished(files["manifest"])'
    <3>1. CASE export[e] = "manifest"
      BY <3>1, <2>1, <2>2 DEF TypeOK, Files, Finished
    <3>2. CASE export[e] # "manifest"
      <4>1. files'["manifest"] = files["manifest"]
        BY <3>2, <2>2 DEF TypeOK, Files
      <4> QED
        BY <4>1, <2>4 DEF Finished
    <3> QED
      BY <3>1, <3>2
  <2> QED
    BY <2>2, <2>3, <2>4, <2>5 DEF Loads, Finished
<1>3. ASSUME NEW e \in Exports, UnlinkHoldout(e) \/ ExportBreaksOff(e)
      PROVE  Inv'
  <2>1. PICK stage \in {"manifest", "failed"} :
          export[e] # "ok" /\ export' = [export EXCEPT ![e] = stage]
    BY <1>3 DEF UnlinkHoldout, ExportBreaksOff, Advance, Active
  <2>2. /\ files'["manifest"] = files["manifest"]
        /\ UNCHANGED <<snapshot, run, adapter, latest, overlapped>>
    BY <1>3 DEF UnlinkHoldout, ExportBreaksOff, runVars, history, TypeOK, Files
  <2>3. TypeOK'
    BY <1>3, <2>1, <2>2
    DEF TypeOK, UnlinkHoldout, ExportBreaksOff, ExportStages, Files, RowFiles
  <2>4. ASSUME NEW x, Finished(x) PROVE Finished(x)'
    BY <2>1, <2>4, FinishedIsStable DEF ExportStages
  <2> QED
    BY <2>2, <2>3, <2>4 DEF Loads, Finished
<1>4. ASSUME NEW r \in Runs,
             StartRun(r) \/ InspectHoldout(r) \/ Load(r) \/ Refuse(r) \/ Install(r)
      PROVE  Inv'
  <2>1. UNCHANGED <<export, files, snapshot, latest, overlapped>>
    BY <1>4 DEF StartRun, InspectHoldout, Load, Refuse, Install, exportVars, history
  <2>2. PICK stage \in RunStages :
          /\ run' = [run EXCEPT ![r] = stage]
          /\ stage \in {"trained", "installed"} => Loads(snapshot[r])
    BY <1>4 DEF StartRun, InspectHoldout, Load, Refuse, Install, Goto, RunStages
  <2>3. TypeOK'
    BY <1>4, <2>1, <2>2 DEF TypeOK, StartRun, InspectHoldout, Load, Refuse, Install
  <2> QED
    BY <2>1, <2>2, <2>3 DEF Finished, Loads, TypeOK
<1>5. ASSUME NEW r \in Runs, Copy(r)
      PROVE  Inv'
  <2>1. UNCHANGED <<export, files, latest, overlapped, adapter>>
    BY <1>5 DEF Copy, exportVars, history
  <2>2. run[r] \in {"manifest", "train", "validation"}
    BY <1>5 DEF Copy, AfterCopy
  <2>3. CASE files[run[r]] = "none"
    <3>1. run' = [run EXCEPT ![r] = "refused"] /\ UNCHANGED snapshot
      BY <1>5, <2>3 DEF Copy, Goto
    <3> QED
      BY <2>1, <3>1 DEF TypeOK, RunStages, Finished, Loads
  <2>4. CASE files[run[r]] # "none"
    <3>1. /\ snapshot' = [snapshot EXCEPT ![r][run[r]] = files[run[r]]]
          /\ run' = [run EXCEPT ![r] = AfterCopy[run[r]]]
          /\ AfterCopy[run[r]] \in {"train", "validation", "holdout"}
      BY <1>5, <2>2, <2>4 DEF Copy, Goto, AfterCopy
    <3>2. files[run[r]] \in Exports \cup {"none", "foreign"} /\ run[r] \in Files
      BY <2>2 DEF TypeOK, Files, RowFiles
    <3>3. snapshot' \in [Runs -> [Files -> Exports \cup {"none", "foreign"}]]
      BY <3>1, <3>2 DEF TypeOK
    <3>4. TypeOK'
      BY <2>1, <3>1, <3>3 DEF TypeOK, RunStages
    <3>5. /\ snapshot'[r]["holdout"] = "none"
          /\ Finished(snapshot'[r]["manifest"])
      BY <2>2, <3>1 DEF TypeOK, Files, RowFiles
    <3>6. \A s \in Runs \ {r} : snapshot'[s] = snapshot[s] /\ run'[s] = run[s]
      BY <3>1 DEF TypeOK
    <3>7. run'[r] \notin {"trained", "installed"}
      BY <3>1 DEF TypeOK
    <3> QED
      BY <2>1, <3>4, <3>5, <3>6, <3>7 DEF Finished, Loads
  <2> QED
    BY <2>3, <2>4
<1>6. CASE UNCHANGED vars
  BY <1>6 DEF vars, TypeOK, Finished, Loads, Active
<1> QED
  BY <1>1, <1>2, <1>3, <1>4, <1>5, <1>6 DEF Next

(* The invariant holds from an empty directory on.                         *)
LEMMA InvHolds ==
  ASSUME DatasetAssumption PROVE Spec => []Inv
<1>1. Init => Inv
  BY DEF DatasetAssumption, Init, Inv, TypeOK, Finished, ExportStages, RunStages, NoFiles, Files, RowFiles
<1>2. Inv /\ [Next]_vars => Inv'
  BY InvIsInductive
<1> QED
  BY <1>1, <1>2, PTL DEF Spec

(* Where the invariant holds, the snapshot of a run that trains is the     *)
(* export of its manifest.                                                 *)
LEMMA OneExport ==
  ASSUME DatasetAssumption, Inv PROVE TrainsOnOneExport
<1> SUFFICES ASSUME NEW r \in Runs, run[r] \in {"trained", "installed"}
             PROVE  \E e \in Exports :
                      /\ snapshot[r] = [f \in Files |-> IF f = "holdout" THEN "none" ELSE e]
                      /\ export[e] = "ok"
  BY DEF TrainsOnOneExport
<1>1. Loads(snapshot[r]) /\ snapshot[r]["holdout"] = "none"
      /\ snapshot[r] \in [Files -> Exports \cup {"none", "foreign"}]
  BY DEF Inv, TypeOK
<1>2. snapshot[r]["manifest"] \in Exports /\ export[snapshot[r]["manifest"]] = "ok"
  BY <1>1 DEF Inv, Finished, Loads
<1> QED
  BY <1>1, <1>2, LoadedIsOneExport

(* A training run reads the rows of one finished export, for any number of *)
(* overlapping exports and runs (train_adapter, _snapshot_dataset).        *)
THEOREM RunsTrainOnOneExport ==
  ASSUME DatasetAssumption PROVE Spec => []TrainsOnOneExport
<1>1. Inv => TrainsOnOneExport
  BY OneExport
<1> QED
  BY <1>1, InvHolds, PTL
-----------------------------------------------------------------------------
(* What the last export to begin has written so far, while nobody else     *)
(* writes: the files behind its stage are its own.                         *)
Alone == latest # "none" /\ latest \notin overlapped

WritesAlone ==
  Alone =>
    /\ Active \subseteq {latest}
    /\ export[latest] \in {"validation", "holdout", "manifest", "ok"} => files["train"] = latest
    /\ export[latest] \in {"holdout", "manifest", "ok"} => files["validation"] = latest
    /\ export[latest] \in {"manifest", "ok"} => files["holdout"] = "none"
    /\ export[latest] = "ok" => files["manifest"] = latest

(* Another export either waits until the last one is over or is overlapped *)
(* with it.                                                                *)
LEMMA WritesAloneIsInductive ==
  ASSUME DatasetAssumption, TypeOK, WritesAlone, [Next]_vars
  PROVE  WritesAlone'
<1> USE DEF TypeOK, WritesAlone, Alone
<1>1. ASSUME NEW e \in Exports, StartExport(e) PROVE WritesAlone'
  <2>1. /\ export' = [export EXCEPT ![e] = "train"] /\ latest' = e /\ UNCHANGED files
        /\ overlapped' = overlapped \cup (IF Active = {} THEN {} ELSE Active \cup {e})
    BY <1>1 DEF StartExport, Advance, runVars
  <2>2. Active = {} \/ e \in overlapped'
    BY <2>1
  <2>3. Active = {} => Active' \subseteq {e}
    BY <2>1 DEF Active
  <2> QED
    BY <2>1, <2>2, <2>3
<1>2. ASSUME NEW e \in Exports, Replace(e) \/ UnlinkHoldout(e) \/ ExportBreaksOff(e)
      PROVE  WritesAlone'
  <2>1. e \in Active /\ UNCHANGED <<latest, overlapped>>
    BY <1>2 DEF Replace, UnlinkHoldout, ExportBreaksOff, Active, After, history
  <2>2. \A d \in Exports : d # e => export'[d] = export[d]
    BY <1>2 DEF Replace, UnlinkHoldout, ExportBreaksOff, Advance
  <2>3. Active' \subseteq Active
    BY <2>1, <2>2 DEF Active
  <2>4. SUFFICES ASSUME Alone
                 PROVE  /\ export'[latest] \in {"validation", "holdout", "manifest", "ok"}
                             => files'["train"] = latest
                        /\ export'[latest] \in {"holdout", "manifest", "ok"}
                             => files'["validation"] = latest
                        /\ export'[latest] \in {"manifest", "ok"} => files'["holdout"] = "none"
                        /\ export'[latest] = "ok" => files'["manifest"] = latest
    BY <2>1, <2>3
  <2>5. e = latest
    BY <2>1, <2>4
  <2>6. CASE Replace(e)
    <3>1. /\ export[e] \in {"train", "validation", "manifest"}
          /\ export'[e] = CASE export[e] = "train" -> "validation"
                            [] export[e] = "validation" -> "holdout"
                            [] export[e] = "manifest" -> "ok"
      BY <2>6 DEF Replace, After, Advance
    <3>2. /\ files'[export[e]] = e
          /\ \A f \in Files : f # export[e] => files'[f] = files[f]
      BY <2>6, <3>1 DEF Replace, Files, RowFiles
    <3> QED
      BY <2>4, <2>5, <3>1, <3>2 DEF Files, RowFiles
  <2>7. CASE UnlinkHoldout(e)
    BY <2>4, <2>5, <2>7 DEF UnlinkHoldout, Advance, Files, RowFiles
  <2>8. CASE ExportBreaksOff(e)
    BY <2>4, <2>5, <2>8 DEF ExportBreaksOff, Advance
  <2> QED
    BY <1>2, <2>6, <2>7, <2>8
<1>3. CASE \/ UNCHANGED vars
           \/ \E r \in Runs : \/ StartRun(r) \/ Copy(r) \/ InspectHoldout(r) \/ Load(r)
                               \/ Refuse(r) \/ Install(r)
  <2>1. UNCHANGED <<export, files, latest, overlapped>>
    BY <1>3 DEF vars, StartRun, Copy, InspectHoldout, Load, Refuse, Install, exportVars, history
  <2> QED
    BY <2>1 DEF Active
<1> QED
  BY <1>1, <1>2, <1>3 DEF Next

(* The files of one export, without a holdout file, match its manifest     *)
(* when no row holds a separator of splitlines.                            *)
LEMMA OwnFilesLoad ==
  ASSUME DatasetAssumption, TypeOK, WritesAlone
  PROVE  ExportedDatasetLoads
<1> SUFFICES ASSUME latest # "none", export[latest] = "ok",
                    latest \notin overlapped \cup Separators
             PROVE  files["holdout"] = "none" /\ Loads(files)
  BY DEF ExportedDatasetLoads
<1>1. /\ files["train"] = latest /\ files["validation"] = latest
      /\ files["holdout"] = "none" /\ files["manifest"] = latest
      /\ latest \in Exports /\ "none" \notin Separators
  BY DEF WritesAlone, Alone, TypeOK, DatasetAssumption
<1>2. ASSUME NEW f \in RowFiles
      PROVE  (IF files[f] \in Separators THEN "broken" ELSE files[f])
               = (IF f = "holdout" THEN "none" ELSE latest)
  BY <1>1 DEF RowFiles
<1>3. Lines([f \in RowFiles |-> files[f]]) = Written(latest)
  BY <1>2 DEF Lines, Written
<1> QED
  BY <1>1, <1>3 DEF Loads

(* An export that had the directory to itself leaves what a training run   *)
(* accepts (export_traces, load_dataset_manifest).                         *)
THEOREM UndisturbedExportLoads ==
  ASSUME DatasetAssumption PROVE Spec => []ExportedDatasetLoads
<1>1. Init => WritesAlone
  BY DEF Init, WritesAlone, Alone
<1>2. Inv /\ WritesAlone /\ [Next]_vars => WritesAlone'
  BY WritesAloneIsInductive DEF Inv
<1>3. Inv /\ WritesAlone => ExportedDatasetLoads
  BY OwnFilesLoad DEF Inv
<1> QED
  BY <1>1, <1>2, <1>3, InvHolds, PTL DEF Spec
=============================================================================
