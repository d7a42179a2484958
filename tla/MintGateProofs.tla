--------------------------- MODULE MintGateProofs ---------------------------
(***************************************************************************)
(* Proofs about the reward rule, for every outcome of a test command, and  *)
(* about what the gate records and the task directory holds, for every     *)
(* such outcome it can meet and whatever call is broken off.               *)
(***************************************************************************)
EXTENDS MintGate, TLAPS

(* The status and the reward of a grade say the same: the full reward is   *)
(* given to "passed" alone (grade_outcome in testcommand.py).              *)
THEOREM FullRewardIffPassed ==
  ASSUME NEW o \in Outcomes, NEW e \in Nat \ {0}
  PROVE  FullReward(Grade(o, e)) <=> Grade(o, e).status = "passed"
<1>1. CASE o.timedOut \/ o.exit \in {"patch", "overlay"} \/ ~o.recognized
  BY <1>1 DEF Grade, GradeByExitCode, Zero, FullReward
<1>2. CASE ~o.timedOut /\ o.exit \notin {"patch", "overlay"} /\ o.recognized
  <2>1. Grade(o, e) = GradeByCounts(o, e)
    BY <1>2 DEF Grade
  <2>2. o.passed \in Nat /\ o.failed \in Nat /\ o.errors \in Nat
    BY DEF Outcomes
  <2>3. CASE \/ Total(o) < e \/ Total(o) = 0
             \/ o.exit # "zero" /\ Bad(o) = 0
    BY <2>1, <2>3 DEF GradeByCounts, Zero, FullReward
  <2>4. CASE ~(Total(o) < e) /\ Total(o) # 0 /\ ~(o.exit # "zero" /\ Bad(o) = 0)
    <3>1. GradeByCounts(o, e) =
            [status |-> IF o.exit = "zero" /\ Bad(o) = 0 THEN "passed" ELSE "failed",
             passed |-> o.passed, total |-> Total(o),
             num |-> o.passed, den |-> Total(o)]
      BY <2>4 DEF GradeByCounts
    <3>2. o.passed = Total(o) <=> Bad(o) = 0
      BY <2>2 DEF Total, Bad
    <3> QED
      BY <2>1, <2>4, <3>1, <3>2 DEF FullReward
  <2> QED
    BY <2>3, <2>4
<1> QED
  BY <1>1, <1>2

(* The count that the gate takes from the reference run is the count with  *)
(* which that run is graded as passed again, although the gate itself      *)
(* graded it with an expectation of one case.                              *)
LEMMA ReferenceRegraded ==
  ASSUME NEW o \in Outcomes, Grade(o, 1).status = "passed"
  PROVE  LET n == Grade(o, 1).passed
         IN  n \in Nat \ {0} /\ Grade(o, n).status = "passed"
<1>1. ~o.timedOut /\ o.exit \notin {"patch", "overlay"}
  BY DEF Grade, Zero
<1>2. CASE ~o.recognized
  BY <1>1, <1>2 DEF Grade, GradeByExitCode, Zero
<1>3. CASE o.recognized
  <2>1. \A e \in Nat : Grade(o, e) = GradeByCounts(o, e)
    BY <1>1, <1>3 DEF Grade
  <2>2. o.passed \in Nat /\ o.failed \in Nat /\ o.errors \in Nat
    BY DEF Outcomes
  <2>3. /\ Total(o) # 0 /\ o.exit = "zero" /\ Bad(o) = 0
        /\ Grade(o, 1).passed = o.passed
    BY <2>1 DEF GradeByCounts, Zero
  <2>4. o.passed = Total(o) /\ o.passed \in Nat \ {0}
    BY <2>2, <2>3 DEF Total, Bad
  <2>5. Grade(o, o.passed).status = "passed"
    BY <2>1, <2>2, <2>3, <2>4 DEF GradeByCounts
  <2> QED
    BY <2>3, <2>4, <2>5
<1> QED
  BY <1>2, <1>3
-----------------------------------------------------------------------------
(* The invariant behind RecordedFlips: what the gate knows at each stage.  *)
Expected == Grade(reference, 1).passed

ReferenceKnown ==
  stage \in {"before", "record_manifest", "record_provenance", "reload"} =>
    reference \in Outcomes /\ Grade(reference, 1).status = "passed"

StartStateKnown ==
  stage \in {"record_manifest", "record_provenance", "reload"} =>
    before \in Outcomes /\ Grade(before, Expected).status # "passed"

CountKnown ==
  stage \in {"record_provenance", "reload"} => manifest.expected = Expected

GateInv == ReferenceKnown /\ StartStateKnown /\ CountKnown

(* The runs the gate can meet are outcomes of a test command.              *)
LEMMA RunsAreOutcomes == CommandRuns \cup {DockerFailed, TimedOut} \subseteq Outcomes
<1>1. 0..MaxCases \subseteq Nat /\ 0..1 \subseteq Nat /\ 0 \in Nat
  BY MintAssumption
<1>2. CommandRuns \subseteq Outcomes
  BY <1>1 DEF CommandRuns, Outcomes
<1>3. DockerFailed \in Outcomes
  BY DEF DockerFailed, Outcomes, ExitCodes
<1>4. TimedOut \in Outcomes
  <2>1. \A o \in Outcomes : [o EXCEPT !.timedOut = TRUE] \in Outcomes
    BY DEF Outcomes
  <2> QED
    BY <1>3, <2>1 DEF TimedOut
<1> QED
  BY <1>2, <1>3, <1>4

(* No step of mint_task loses what the gate learned of its two runs.       *)
LEMMA GateStep ==
  ASSUME GateInv, [Next]_vars
  PROVE  GateInv'
<1>1. ASSUME stage' \in {"idle", "assembling", "building", "reference"} PROVE GateInv'
  BY <1>1 DEF GateInv, ReferenceKnown, StartStateKnown, CountKnown
<1>2. CASE StartMint \/ RemovalInterrupted \/ Assembled \/ NotAssembled
           \/ EditDockerfile \/ StartGate
           \/ Build \/ Reload \/ Killed
  BY <1>1, <1>2 DEF StartMint, RemovalInterrupted, Assembled, NotAssembled, EditDockerfile, StartGate,
                    Build, Reload, Killed, Report, Continue, FailGate
<1>3. CASE RunReference
  <2>1. PICK run \in Outcomes :
          IF ReferencePassed(Grade(run, 1))
          THEN Continue("before") /\ reference' = run
          ELSE FailGate
    BY <1>3, RunsAreOutcomes DEF RunReference
  <2>2. CASE ReferencePassed(Grade(run, 1))
    BY <2>1, <2>2 DEF ReferencePassed, Continue, GateInv, ReferenceKnown,
                      StartStateKnown, CountKnown
  <2> QED
    BY <1>1, <2>1, <2>2 DEF FailGate, Report
<1>4. CASE RunBefore
  <2>1. PICK run \in Outcomes :
          IF Grade(run, Expected).status = "passed"
          THEN FailGate
          ELSE Continue("record_manifest") /\ before' = run /\ UNCHANGED reference
    BY <1>4, RunsAreOutcomes DEF RunBefore, Expected
  <2>2. CASE Grade(run, Expected).status # "passed"
    BY <1>4, <2>1, <2>2 DEF RunBefore, Continue, GateInv, ReferenceKnown,
                            StartStateKnown, CountKnown, Expected
  <2> QED
    BY <1>1, <2>1, <2>2 DEF FailGate, Report
<1>5. CASE RecordManifest
  <2>1. \/ /\ manifest' = [state |-> "gated", image |-> tag, expected |-> Expected]
           /\ stage' = "record_provenance" /\ UNCHANGED <<reference, before>>
        \/ stage' = "idle"
    BY <1>5 DEF RecordManifest, Continue, Report, runVars, ExpectedCases, Expected
  <2> QED
    BY <1>1, <1>5, <2>1 DEF RecordManifest, GateInv, ReferenceKnown,
                            StartStateKnown, CountKnown, Expected
<1>6. CASE RecordProvenance
  <2>1. \/ stage' = "reload" /\ UNCHANGED <<manifest, reference, before>>
        \/ stage' = "idle"
    BY <1>6 DEF RecordProvenance, Continue, Report, runVars
  <2> QED
    BY <1>1, <1>6, <2>1 DEF RecordProvenance, GateInv, ReferenceKnown,
                            StartStateKnown, CountKnown, Expected
<1>7. CASE UNCHANGED vars
  BY <1>7 DEF vars, GateInv, ReferenceKnown, StartStateKnown, CountKnown, Expected
<1> QED
  BY <1>2, <1>3, <1>4, <1>5, <1>6, <1>7 DEF Next

(* What the gate records flips the tests: with the recorded count the      *)
(* reference run earns the full reward and the run on the start state does *)
(* not (_run_gate and _record_gate in mint.py).                            *)
THEOREM GateRecordsAFlip == Spec => []RecordedFlips
<1>1. Init => GateInv
  BY DEF Init, GateInv, ReferenceKnown, StartStateKnown, CountKnown
<1>2. GateInv => RecordedFlips
  <2> SUFFICES ASSUME GateInv, stage \in {"record_provenance", "reload"}
               PROVE  /\ FullReward(Grade(reference, Expected))
                      /\ ~FullReward(Grade(before, Expected))
    BY DEF RecordedFlips, GateInv, CountKnown
  <2>1. /\ reference \in Outcomes /\ Grade(reference, 1).status = "passed"
        /\ before \in Outcomes /\ Grade(before, Expected).status # "passed"
    BY DEF GateInv, ReferenceKnown, StartStateKnown
  <2>2. Expected \in Nat \ {0} /\ Grade(reference, Expected).status = "passed"
    BY <2>1, ReferenceRegraded DEF Expected
  <2> QED
    BY <2>1, <2>2, FullRewardIffPassed
<1> QED
  BY <1>1, <1>2, GateStep, PTL DEF Spec
-----------------------------------------------------------------------------
(* The types.  That the recorded count is positive takes what the gate     *)
(* knows of the reference run.                                             *)

(* What the task directory holds before a gate ran is of its type.         *)
LEMMA ManifestTypes ==
  /\ NoManifest \in [state : FileStates, expected : Nat \ {0}, image : Dockerfiles \cup {-1}]
  /\ Placeholder \in [state : FileStates, expected : Nat \ {0}, image : Dockerfiles \cup {-1}]
  /\ DockerFailed \in Outcomes
  /\ 0 \in Dockerfiles
<1>1. Placeholder \in [state : FileStates, expected : Nat \ {0}, image : Dockerfiles \cup {-1}]
  BY DEF Placeholder, FileStates
<1>2. NoManifest = [state |-> "none", expected |-> 1, image |-> -1]
  BY DEF Placeholder, NoManifest
<1>3. NoManifest \in [state : FileStates, expected : Nat \ {0}, image : Dockerfiles \cup {-1}]
  BY <1>2 DEF FileStates
<1>4. DockerFailed \in Outcomes
  BY RunsAreOutcomes
<1>5. 0 \in Dockerfiles
  BY MintAssumption DEF Dockerfiles
<1> QED
  BY <1>1, <1>3, <1>4, <1>5

(* Every step keeps the types, given what the gate knows of its runs.      *)
LEMMA TypeStep ==
  ASSUME TypeOK, GateInv, [Next]_vars
  PROVE  TypeOK'
<1> DEFINE Manifests == [state : FileStates, expected : Nat \ {0}, image : Dockerfiles \cup {-1}]
<1>1. ASSUME NEW r \in {"minted", "rejected", "killed"}, Report(r)
      PROVE  /\ stage' \in Stages /\ report' \in {"none", "minted", "rejected", "killed"}
             /\ reference' \in Outcomes /\ before' \in Outcomes /\ beforeRan' \in BOOLEAN
  BY <1>1, ManifestTypes DEF Report, Stages
<1>2. ASSUME RemoveTree
      PROVE  present' \in BOOLEAN /\ dockerfile' \in Dockerfiles
             /\ manifest' \in Manifests /\ provenance' \in FileStates
  BY <1>2, ManifestTypes DEF RemoveTree, FileStates
<1>3. ASSUME FailGate
      PROVE  /\ stage' \in Stages /\ report' \in {"none", "minted", "rejected", "killed"}
             /\ reference' \in Outcomes /\ before' \in Outcomes /\ beforeRan' \in BOOLEAN
             /\ present' \in BOOLEAN /\ dockerfile' \in Dockerfiles
             /\ manifest' \in Manifests /\ provenance' \in FileStates
  BY <1>1, <1>2, <1>3 DEF FailGate, diskVars, TypeOK
<1>4. CASE StartMint
  BY <1>4, ManifestTypes DEF StartMint, TypeOK, Stages, FileStates, runVars
<1>5. CASE RemovalInterrupted
  BY <1>5, ManifestTypes DEF RemovalInterrupted, TypeOK, FileStates, runVars
<1>6. CASE Assembled
  <2>1. CASE command = "mint"
    BY <1>6, <2>1, ManifestTypes DEF Assembled, Continue, TypeOK, Stages, FileStates, runVars, callVars
  <2>2. CASE command # "mint"
    BY <1>1, <1>6, <2>2, ManifestTypes DEF Assembled, TypeOK, FileStates, callVars
  <2> QED
    BY <2>1, <2>2
<1>7. CASE NotAssembled
  BY <1>1, <1>2, <1>7 DEF NotAssembled, TypeOK, callVars
<1>8. CASE EditDockerfile
  BY <1>8 DEF EditDockerfile, TypeOK, callVars, runVars
<1>9. CASE StartGate
  <2>1. CASE Loads
    BY <1>9, <2>1 DEF StartGate, TypeOK, Stages, diskVars, runVars
  <2>2. CASE ~Loads
    BY <1>1, <1>9, <2>2 DEF StartGate, TypeOK, diskVars
  <2> QED
    BY <2>1, <2>2
<1>10. CASE Build
  <2>1. CASE Continue("reference") /\ tag' = dockerfile /\ UNCHANGED <<diskVars, runVars>>
    BY <1>10, <2>1 DEF Build, Continue, TypeOK, Stages, callVars, diskVars, runVars
  <2>2. CASE FailGate /\ tag' \in {tag, dockerfile}
    BY <1>3, <1>10, <2>2 DEF Build, TypeOK, callVars
  <2> QED
    BY <1>10, <2>1, <2>2 DEF Build
<1>11. CASE RunReference
  <2>1. PICK run \in Outcomes :
          IF ReferencePassed(Grade(run, 1))
          THEN /\ Continue("before") /\ reference' = run
               /\ UNCHANGED <<before, beforeRan, diskVars>>
          ELSE FailGate
    BY <1>11, RunsAreOutcomes DEF RunReference
  <2>2. CASE ReferencePassed(Grade(run, 1))
    BY <1>11, <2>1, <2>2 DEF RunReference, Continue, TypeOK, Stages, callVars, diskVars
  <2>3. CASE FailGate
    BY <1>3, <1>11, <2>3 DEF RunReference, TypeOK, callVars
  <2> QED
    BY <2>1, <2>2, <2>3
<1>12. CASE RunBefore
  <2>1. PICK run \in Outcomes, started \in BOOLEAN :
          IF Grade(run, Expected).status = "passed"
          THEN FailGate
          ELSE /\ Continue("record_manifest")
               /\ before' = run /\ beforeRan' = started
               /\ UNCHANGED <<reference, diskVars>>
    BY <1>12, RunsAreOutcomes DEF RunBefore, Expected
  <2>2. CASE Grade(run, Expected).status # "passed"
    BY <1>12, <2>1, <2>2 DEF RunBefore, Continue, TypeOK, Stages, callVars, diskVars
  <2>3. CASE FailGate
    BY <1>3, <1>12, <2>3 DEF RunBefore, TypeOK, callVars
  <2> QED
    BY <2>1, <2>2, <2>3
<1>13. CASE RecordManifest
  <2>1. manifest \in Manifests /\ [manifest EXCEPT !.state = "torn"] \in Manifests
    BY DEF TypeOK, FileStates
  <2>2. CASE manifest' \in {manifest, [manifest EXCEPT !.state = "torn"]} /\ Report("rejected")
    BY <1>1, <1>13, <2>1, <2>2 DEF RecordManifest, TypeOK, callVars
  <2>3. CASE /\ manifest' = [state |-> "gated", image |-> tag,
                             expected |-> ExpectedCases(Grade(reference, 1))]
             /\ Continue("record_provenance") /\ UNCHANGED runVars
    <3>1. Grade(reference, 1).passed \in Nat \ {0}
      BY <1>13, ReferenceRegraded DEF RecordManifest, GateInv, ReferenceKnown
    <3>2. manifest' \in Manifests
      BY <2>3, <3>1 DEF TypeOK, FileStates, ExpectedCases
    <3> QED
      BY <1>13, <2>3, <3>2 DEF RecordManifest, Continue, TypeOK, Stages, callVars, runVars
  <2> QED
    BY <1>13, <2>2, <2>3 DEF RecordManifest
<1>14. CASE RecordProvenance
  <2>1. CASE Continue("reload") /\ UNCHANGED runVars /\ provenance' = "gated"
    BY <1>14, <2>1 DEF RecordProvenance, Continue, TypeOK, Stages, FileStates, callVars, runVars
  <2>2. CASE (Report("killed") \/ Report("rejected")) /\ provenance' \in {provenance, "torn"}
    BY <1>1, <1>14, <2>2 DEF RecordProvenance, TypeOK, FileStates, callVars
  <2> QED
    BY <1>14, <2>1, <2>2 DEF RecordProvenance
<1>15. CASE Reload
  <2>1. Report("minted") \/ Report("rejected")
    BY <1>15 DEF Reload
  <2> QED
    BY <1>1, <1>15, <2>1 DEF Reload, TypeOK, callVars, diskVars
<1>16. CASE Killed
  <2>1. [manifest EXCEPT !.state = "torn"] \in Manifests
    BY DEF TypeOK, FileStates
  <2>2. [Placeholder EXCEPT !.state = "torn"] \in Manifests
    BY ManifestTypes DEF FileStates
  <2>3. manifest' \in {manifest, [manifest EXCEPT !.state = "torn"],
                       [Placeholder EXCEPT !.state = "torn"], Placeholder, NoManifest}
    BY <1>16 DEF Killed
  <2>4. manifest' \in Manifests
    BY <2>1, <2>2, <2>3, ManifestTypes DEF TypeOK
  <2>5. provenance' \in {provenance, "torn", "ungated", "none"}
    BY <1>16 DEF Killed
  <2> QED
    BY <1>1, <1>16, <2>4, <2>5 DEF Killed, TypeOK, FileStates, callVars
<1>17. CASE UNCHANGED vars
  BY <1>17 DEF vars, TypeOK
<1> QED
  BY <1>4, <1>5, <1>6, <1>7, <1>8, <1>9, <1>10, <1>11, <1>12, <1>13, <1>14,
     <1>15, <1>16, <1>17 DEF Next

(* The task directory, its files and the runs keep their types; above all  *)
(* no gate records an expected_cases of zero, which task.toml may not have *)
(* (_record_gate in mint.py).                                              *)
THEOREM TypeCorrect == Spec => []TypeOK
<1>1. Init => TypeOK /\ GateInv
  BY ManifestTypes DEF Init, TypeOK, Stages, FileStates, GateInv, ReferenceKnown,
                       StartStateKnown, CountKnown
<1> QED
  BY <1>1, TypeStep, GateStep, PTL DEF Spec
-----------------------------------------------------------------------------
(* What the program knows of the directory at each of its stages.          *)

AtWork ==
  stage # "idle" =>
    /\ present
    /\ report = "none"
    /\ IF stage = "assembling" THEN command \in {"mint", "mint_no_gate"}
                               ELSE command # "mint_no_gate"

ImageNamed ==
  stage \in {"reference", "before", "record_manifest", "record_provenance", "reload"} =>
    tag = dockerfile

ManifestWritten ==
  stage \in {"record_provenance", "reload"} =>
    manifest.state = "gated" /\ manifest.image = tag

BothWritten == stage = "reload" => provenance = "gated"

\* Nothing is left in a directory that is being assembled.
StartsEmpty == stage = "assembling" => manifest = NoManifest /\ provenance = "none"

DirectoryInv == AtWork /\ ImageNamed /\ ManifestWritten /\ BothWritten /\ StartsEmpty

(* Each stage leaves the directory as the next one expects it.             *)
LEMMA DirectoryStep ==
  ASSUME DirectoryInv, [Next]_vars
  PROVE  DirectoryInv'
<1> USE DEF DirectoryInv, AtWork, ImageNamed, ManifestWritten, BothWritten, StartsEmpty
<1>1. ASSUME stage' = "idle" PROVE DirectoryInv'
  BY <1>1
<1>2. CASE StartMint
  BY <1>2 DEF StartMint
<1>3. CASE RemovalInterrupted \/ NotAssembled \/ EditDockerfile \/ Reload \/ Killed
  BY <1>1, <1>3 DEF RemovalInterrupted, NotAssembled, EditDockerfile, Reload, Killed, Report
<1>4. CASE Assembled
  BY <1>1, <1>4 DEF Assembled, Report, Continue, callVars
<1>5. CASE StartGate
  BY <1>1, <1>5 DEF StartGate, Report, diskVars
<1>6. CASE Build
  BY <1>1, <1>6 DEF Build, FailGate, Report, Continue, diskVars, callVars
<1>7. CASE RunReference
  <2>1. FailGate \/ (Continue("before") /\ UNCHANGED diskVars)
    BY <1>7 DEF RunReference
  <2> QED
    BY <1>1, <1>7, <2>1 DEF RunReference, FailGate, Report, Continue, diskVars, callVars
<1>8. CASE RunBefore
  <2>1. FailGate \/ (Continue("record_manifest") /\ UNCHANGED diskVars)
    BY <1>8 DEF RunBefore
  <2> QED
    BY <1>1, <1>8, <2>1 DEF RunBefore, FailGate, Report, Continue, diskVars, callVars
<1>9. CASE RecordManifest
  BY <1>1, <1>9 DEF RecordManifest, Report, Continue, callVars
<1>10. CASE RecordProvenance
  BY <1>1, <1>10 DEF RecordProvenance, Report, Continue, callVars
<1>11. CASE UNCHANGED vars
  BY <1>11 DEF vars
<1> QED
  BY <1>2, <1>3, <1>4, <1>5, <1>6, <1>7, <1>8, <1>9, <1>10, <1>11 DEF Next

(* A task that was reported as minted stays proven: the next call takes    *)
(* that report back before it touches the directory.                       *)
LEMMA ProvenStep ==
  ASSUME MintedIsProven, DirectoryInv, [Next]_vars
  PROVE  MintedIsProven'
<1>1. ASSUME report' # "minted" PROVE MintedIsProven'
  BY <1>1 DEF MintedIsProven
<1>2. CASE stage # "idle"
  <2>1. report = "none"
    BY <1>2 DEF DirectoryInv, AtWork
  <2>2. CASE Assembled
    <3>1. CASE command = "mint_no_gate"
      <4>1. /\ manifest' = Placeholder /\ present' = present
            /\ command' = "mint_no_gate"
        BY <2>2, <3>1 DEF Assembled, callVars
      <4>2. present /\ Placeholder.state = "ungated" /\ Placeholder.expected = 1
        BY <1>2 DEF DirectoryInv, AtWork, Placeholder
      <4>3. 1 <= MaxExpected
        BY MintAssumption
      <4> QED
        BY <4>1, <4>2, <4>3 DEF MintedIsProven, Loads
    <3>2. CASE command = "mint"
      BY <1>1, <2>1, <2>2, <3>2 DEF Assembled, Continue
    <3> QED
      BY <2>2, <3>1, <3>2 DEF Assembled, DirectoryInv, AtWork
  <2>3. CASE Reload
    BY <1>1, <2>3 DEF Reload, MintedIsProven, Loads, Report, DirectoryInv, AtWork,
                      ImageNamed, ManifestWritten, BothWritten, callVars, diskVars
  <2>4. CASE NotAssembled \/ Build \/ RecordManifest \/ RecordProvenance \/ Killed
    BY <1>1, <2>1, <2>4 DEF NotAssembled, Build, RecordManifest, RecordProvenance, Killed,
                            FailGate, Report, Continue
  <2>5. CASE RunReference
    <3>1. FailGate \/ Continue("before")
      BY <2>5 DEF RunReference
    <3> QED
      BY <1>1, <2>1, <3>1 DEF FailGate, Report, Continue
  <2>6. CASE RunBefore
    <3>1. FailGate \/ Continue("record_manifest")
      BY <2>6 DEF RunBefore
    <3> QED
      BY <1>1, <2>1, <3>1 DEF FailGate, Report, Continue
  <2>7. CASE UNCHANGED vars
    BY <1>1, <2>1, <2>7 DEF vars
  <2>8. ~StartMint /\ ~RemovalInterrupted /\ ~EditDockerfile /\ ~StartGate
    BY <1>2 DEF StartMint, RemovalInterrupted, EditDockerfile, StartGate
  <2> QED
    BY <2>2, <2>3, <2>4, <2>5, <2>6, <2>7, <2>8 DEF Next
<1>3. CASE stage = "idle"
  <2>1. CASE StartMint \/ RemovalInterrupted \/ EditDockerfile \/ StartGate
    BY <1>1, <2>1 DEF StartMint, RemovalInterrupted, EditDockerfile, StartGate, Report
  <2>2. CASE UNCHANGED vars
    BY <2>2 DEF vars, MintedIsProven, Loads
  <2> QED
    BY <1>3, <2>1, <2>2 DEF Next, Assembled, NotAssembled, Build, RunReference, RunBefore,
                            RecordManifest, RecordProvenance, Reload, Killed
<1> QED
  BY <1>2, <1>3

(* No step writes the provenance before the manifest, nor tears the        *)
(* manifest beside a whole provenance.                                     *)
LEMMA ProvenanceStep ==
  ASSUME TypeOK, ProvenanceComesLast, DirectoryInv, [Next]_vars
  PROVE  ProvenanceComesLast'
<1> USE DEF ProvenanceComesLast
<1>1. NoManifest.state = "none" /\ [Placeholder EXCEPT !.state = "torn"].state = "torn"
  BY DEF NoManifest, Placeholder
<1>2. ASSUME UNCHANGED <<manifest, provenance>> PROVE ProvenanceComesLast'
  BY <1>2
<1>3. ASSUME FailGate PROVE ProvenanceComesLast'
  BY <1>2, <1>3 DEF FailGate, RemoveTree, diskVars
<1>4. CASE StartMint \/ EditDockerfile \/ StartGate \/ Reload \/ Assembled \/ NotAssembled
  BY <1>2, <1>4 DEF StartMint, EditDockerfile, StartGate, Reload, Assembled, NotAssembled,
                    RemoveTree, diskVars
<1>5. CASE RemovalInterrupted
  BY <1>1, <1>5 DEF RemovalInterrupted
<1>6. CASE Build
  BY <1>2, <1>3, <1>6 DEF Build, diskVars
<1>7. CASE RunReference
  <2>1. FailGate \/ UNCHANGED diskVars
    BY <1>7 DEF RunReference
  <2> QED
    BY <1>2, <1>3, <2>1 DEF diskVars
<1>8. CASE RunBefore
  <2>1. FailGate \/ UNCHANGED diskVars
    BY <1>8 DEF RunBefore
  <2> QED
    BY <1>2, <1>3, <2>1 DEF diskVars
<1>9. CASE RecordManifest
  <2>1. manifest' = manifest \/ manifest'.state # "ungated"
    <3>1. [manifest EXCEPT !.state = "torn"].state = "torn"
      BY DEF TypeOK
    <3>2. \/ manifest' = [state |-> "gated", image |-> tag,
                            expected |-> ExpectedCases(Grade(reference, 1))]
          \/ manifest' = manifest
          \/ manifest' = [manifest EXCEPT !.state = "torn"]
      BY <1>9 DEF RecordManifest
    <3>3. ASSUME NEW n PROVE [state |-> "gated", image |-> tag, expected |-> n].state # "ungated"
      OBVIOUS
    <3> QED
      BY <3>1, <3>2, <3>3
  <2> QED
    BY <1>9, <2>1 DEF RecordManifest
<1>10. CASE RecordProvenance
  BY <1>10 DEF RecordProvenance, DirectoryInv, ManifestWritten
<1>11. CASE Killed
  <2>1. CASE provenance' # "gated"
    BY <2>1
  <2>2. CASE provenance' = "gated"
    <3>1. provenance = "gated"
      BY <1>11, <2>2 DEF Killed
    <3>2. stage # "assembling"
      BY <3>1 DEF DirectoryInv, StartsEmpty
    <3>3. \/ manifest' \in {manifest, NoManifest}
          \/ manifest' = [manifest EXCEPT !.state = "torn"]
      BY <1>11, <3>2 DEF Killed
    <3>4. [manifest EXCEPT !.state = "torn"].state = "torn"
      BY DEF TypeOK
    <3> QED
      BY <1>1, <3>1, <3>3, <3>4
  <2> QED
    BY <2>1, <2>2
<1>12. CASE UNCHANGED vars
  BY <1>2, <1>12 DEF vars
<1> QED
  BY <1>4, <1>5, <1>6, <1>7, <1>8, <1>9, <1>10, <1>11, <1>12 DEF Next

(* A task that mint or gate reports as good loads and, with --no-gate      *)
(* apart, carries in both files the proof for the image of its own         *)
(* Dockerfile, wherever an earlier call was killed or failed               *)
(* (mint_episode, gate_task and _record_gate in mint.py).                  *)
THEOREM MintedTasksAreProven == Spec => []MintedIsProven
<1>1. Init => MintedIsProven /\ DirectoryInv
  BY DEF Init, MintedIsProven, DirectoryInv, AtWork, ImageNamed, ManifestWritten,
         BothWritten, StartsEmpty
<1> QED
  BY <1>1, ProvenStep, DirectoryStep, PTL DEF Spec

(* provenance.json never tells of a gate beside a task.toml that still     *)
(* holds the placeholders (_record_gate in mint.py writes them in one      *)
(* order, and mint_episode starts from an empty directory).                *)
THEOREM ProvenanceFollows == Spec => []ProvenanceComesLast
<1>1. Init => ProvenanceComesLast /\ DirectoryInv
  BY DEF Init, ProvenanceComesLast, DirectoryInv, AtWork, ImageNamed, ManifestWritten,
         BothWritten, StartsEmpty
<1> QED
  BY <1>1, ProvenanceStep, DirectoryStep, TypeCorrect, PTL DEF Spec
=============================================================================
