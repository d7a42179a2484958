------------------------------ MODULE MintGate ------------------------------
(***************************************************************************)
(* The life of one minted task directory (mint.py): mint_episode writes    *)
(* it, gate_task builds its image, runs the sealed command once with the   *)
(* reference patch and once without it, and records the proof in task.toml *)
(* and provenance.json, one file after the other.  The program may be      *)
(* killed between any two of its steps; the Dockerfile may be edited and   *)
(* the directory gated again.                                              *)
(***************************************************************************)
EXTENDS GradeOutcome, Sequences

CONSTANTS
  MaxCases,      \* bound: a summary counts no more than this of a kind
  MaxExpected,   \* MAX_EXPECTED_CASES, the most load_task accepts
  MaxEdits       \* bound: how many Dockerfiles there are to choose from

ASSUME MintAssumption ==
  MaxCases \in Nat /\ MaxExpected \in Nat \ {0} /\ MaxEdits \in Nat

VARIABLES
  stage,         \* where the program is; "idle" when none runs
  command,       \* how it was called: mint, mint --no-gate, gate
  keepFailed,    \* --keep-failed
  report,        \* what the last call reported for the task
  present,       \* the task directory exists
  dockerfile,    \* the Dockerfile in it
  manifest,      \* task.toml: its state, expected_cases, and the image named
                 \* by image_digest
  provenance,    \* provenance.json
  tag,           \* the image the tag of the task names, -1 for none
  reference,     \* the run with the reference patch
  before,        \* the run on the start state
  beforeRan      \* was the sealed command started in it (history)

vars == <<stage, command, keepFailed, report, present, dockerfile, manifest,
          provenance, tag, reference, before, beforeRan>>
callVars == <<command, keepFailed>>
diskVars == <<present, dockerfile, manifest, provenance>>
runVars == <<reference, before, beforeRan>>

Dockerfiles == 0..MaxEdits
Stages == {"idle", "assembling", "building", "reference", "before",
           "record_manifest", "record_provenance", "reload"}
FileStates == {"none", "torn", "ungated", "gated"}

\* docker create, cp or start failed: its exit code, no test output.
DockerFailed == [exit |-> "other", timedOut |-> FALSE, recognized |-> FALSE,
                 passed |-> 0, failed |-> 0, errors |-> 0]
TimedOut == [DockerFailed EXCEPT !.timedOut = TRUE]
Placeholder == [state |-> "ungated", expected |-> 1, image |-> -1]
NoManifest == [Placeholder EXCEPT !.state = "none"]

\* The sealed command came to its end; without a summary the counts are void.
CommandRuns ==
  [exit : ExitCodes, timedOut : {FALSE}, recognized : {TRUE},
   passed : 0..MaxCases, failed : 0..MaxCases, errors : 0..1]
  \cup [exit : ExitCodes, timedOut : {FALSE}, recognized : {FALSE},
        passed : {0}, failed : {0}, errors : {0}]

TypeOK ==
  /\ stage \in Stages
  /\ command \in {"mint", "mint_no_gate", "gate"}
  /\ keepFailed \in BOOLEAN
  /\ report \in {"none", "minted", "rejected", "killed"}
  /\ present \in BOOLEAN
  /\ dockerfile \in Dockerfiles
  /\ manifest \in [state : FileStates, expected : Nat \ {0}, image : Dockerfiles \cup {-1}]
  /\ provenance \in FileStates
  /\ tag \in Dockerfiles \cup {-1}
  /\ reference \in Outcomes /\ before \in Outcomes
  /\ beforeRan \in BOOLEAN

Init ==
  /\ stage = "idle"
  /\ command = "mint" /\ keepFailed = FALSE
  /\ report = "none"
  /\ present = FALSE
  /\ dockerfile = 0
  /\ manifest = NoManifest
  /\ provenance = "none"
  /\ tag = -1
  /\ reference = DockerFailed /\ before = DockerFailed /\ beforeRan = FALSE

\* load_task reads task.toml and not provenance.json.
Loads == present /\ manifest.state \in {"ungated", "gated"} /\ manifest.expected <= MaxExpected

RemoveTree ==
  /\ present' = FALSE
  /\ dockerfile' = 0
  /\ manifest' = NoManifest
  /\ provenance' = "none"

\* The call is over; the runs are gone with its temporary directories.
Report(r) ==
  /\ stage' = "idle" /\ report' = r
  /\ reference' = DockerFailed /\ before' = DockerFailed /\ beforeRan' = FALSE

\* The call goes on.
Continue(s) == stage' = s /\ UNCHANGED report
-----------------------------------------------------------------------------
(* mint.                                                                   *)

\* Mutant: an earlier directory is written over.
StartMintOver ==
  /\ stage = "idle"
  /\ command' \in {"mint", "mint_no_gate"}
  /\ keepFailed' \in BOOLEAN
  /\ stage' = "assembling"
  /\ report' = "none"
  /\ present' = TRUE
  /\ UNCHANGED <<dockerfile, manifest, provenance, tag, runVars>>

\* An earlier directory of the same episode is removed first.
StartMint ==
  /\ stage = "idle"
  /\ command' \in {"mint", "mint_no_gate"}
  /\ keepFailed' \in BOOLEAN
  /\ stage' = "assembling"
  /\ report' = "none"
  /\ present' = TRUE
  /\ dockerfile' = 0 /\ manifest' = NoManifest /\ provenance' = "none"
  /\ UNCHANGED <<tag, runVars>>

\* The program is killed while it removes the earlier directory.
RemovalInterrupted ==
  /\ stage = "idle" /\ present
  /\ command' \in {"mint", "mint_no_gate"}
  /\ keepFailed' \in BOOLEAN
  /\ report' = "killed"
  /\ manifest' \in {manifest, NoManifest}
  /\ provenance' \in {provenance, "none"}
  /\ UNCHANGED <<stage, present, dockerfile, tag, runVars>>

\* Everything is written and loads.
Assembled ==
  /\ stage = "assembling"
  /\ manifest' = Placeholder
  /\ provenance' = "ungated"
  /\ IF command = "mint" THEN Continue("building") /\ UNCHANGED runVars
                         ELSE Report("minted")
  /\ UNCHANGED <<callVars, present, dockerfile, tag>>

\* A rejection or an OSError: the directory goes, --keep-failed or not.
NotAssembled ==
  /\ stage = "assembling"
  /\ RemoveTree
  /\ Report("rejected")
  /\ UNCHANGED <<callVars, tag>>
-----------------------------------------------------------------------------
(* gate_task.                                                              *)

EditDockerfile ==
  /\ stage = "idle" /\ present
  /\ dockerfile' \in Dockerfiles \ {dockerfile}
  /\ report' = "none"
  /\ UNCHANGED <<stage, callVars, present, manifest, provenance, tag, runVars>>

\* omp-coding-mint gate TASK_DIR; a directory that does not load stays as it is.
StartGate ==
  /\ stage = "idle" /\ present
  /\ command' = "gate"
  /\ keepFailed' \in BOOLEAN
  /\ IF Loads THEN stage' = "building" /\ report' = "none" /\ UNCHANGED runVars
              ELSE Report("rejected")
  /\ UNCHANGED <<diskVars, tag>>

\* _run_gate returned a GateFailure.
FailGate ==
  /\ Report("rejected")
  /\ IF keepFailed THEN UNCHANGED diskVars ELSE RemoveTree

\* Mutant: an image that is there already is not built again.
BuildOnce ==
  /\ stage = "building"
  /\ \/ /\ tag' = IF tag = -1 THEN dockerfile ELSE tag
        /\ Continue("reference")
        /\ UNCHANGED <<diskVars, runVars>>
     \/ FailGate /\ UNCHANGED tag
  /\ UNCHANGED callVars

\* docker build and inspect; a failed build leaves the tag where it was, a
\* failed inspection does not.
Build ==
  /\ stage = "building"
  /\ \/ /\ tag' = dockerfile
        /\ Continue("reference")
        /\ UNCHANGED <<diskVars, runVars>>
     \/ FailGate /\ tag' \in {tag, dockerfile}
  /\ UNCHANGED callVars

\* Mutant: a reference run with a passing case is good enough.
SomePassed(g) == g.passed >= 1

ReferencePassed(g) == g.status = "passed" /\ g.passed >= 1

RunReference ==
  /\ stage = "reference"
  /\ \E run \in CommandRuns \cup {DockerFailed, TimedOut} :
       IF ReferencePassed(Grade(run, 1))
       THEN /\ Continue("before") /\ reference' = run
            /\ UNCHANGED <<before, beforeRan, diskVars>>
       ELSE FailGate
  /\ UNCHANGED <<callVars, tag>>

\* The start state, without a patch and with the count of the reference to
\* meet.  The overlay of the sealed files may fail before the command starts.
RunBefore ==
  /\ stage = "before"
  /\ \E run \in CommandRuns \cup {DockerFailed, TimedOut}, started \in BOOLEAN :
       /\ run.exit # "patch"
       /\ started => run.exit # "overlay"
       /\ ~started => run.exit = "overlay" \/ run = DockerFailed
       /\ IF Grade(run, Grade(reference, 1).passed).status = "passed"
          THEN FailGate
          ELSE /\ Continue("record_manifest")
               /\ before' = run /\ beforeRan' = started
               /\ UNCHANGED <<reference, diskVars>>
  /\ UNCHANGED <<callVars, tag>>

\* Mutant: one case less than the reference passed.
ExpectedLess(g) == g.passed - 1

ExpectedCases(g) == g.passed

\* task.toml is written in place; an OSError leaves it as it was or torn, and
\* the directory is not removed.
RecordManifest ==
  /\ stage = "record_manifest"
  /\ \/ /\ manifest' = [state |-> "gated", image |-> tag,
                        expected |-> ExpectedCases(Grade(reference, 1))]
        /\ Continue("record_provenance")
        /\ UNCHANGED runVars
     \/ /\ manifest' \in {manifest, [manifest EXCEPT !.state = "torn"]}
        /\ Report("rejected")
  /\ UNCHANGED <<callVars, present, dockerfile, provenance, tag>>

\* provenance.json is read, extended and written in place.  A file that is no
\* JSON raises out of gate_task.
RecordProvenance ==
  /\ stage = "record_provenance"
  /\ \/ provenance = "torn" /\ Report("killed") /\ UNCHANGED provenance
     \/ /\ provenance # "torn"
        /\ provenance' = "gated"
        /\ Continue("reload") /\ UNCHANGED runVars
     \/ /\ provenance # "torn"
        /\ provenance' \in {provenance, "torn"} /\ Report("rejected")
  /\ UNCHANGED <<callVars, present, dockerfile, manifest, tag>>

Reload ==
  /\ stage = "reload"
  /\ Report(IF Loads THEN "minted" ELSE "rejected")
  /\ UNCHANGED <<callVars, diskVars, tag>>

\* A failed gate may be half through the removal of the directory.
InRemoval == stage \in {"building", "reference", "before"} /\ ~keepFailed

\* The program is killed; a file it is writing may be torn.
Killed ==
  /\ stage # "idle"
  /\ Report("killed")
  /\ manifest' \in {manifest} \cup
       CASE stage = "assembling" -> {[Placeholder EXCEPT !.state = "torn"], Placeholder}
         [] InRemoval -> {NoManifest}
         [] stage = "record_manifest" -> {[manifest EXCEPT !.state = "torn"]}
         [] OTHER -> {}
  /\ provenance' \in {provenance} \cup
       CASE stage = "assembling" /\ manifest'.state = "ungated" -> {"torn", "ungated"}
         [] stage = "record_provenance" -> {"torn"}
         [] InRemoval -> {"none"}
         [] OTHER -> {}
  /\ UNCHANGED <<callVars, present, dockerfile, tag>>

Next ==
  \/ StartMint \/ RemovalInterrupted \/ Assembled \/ NotAssembled
  \/ EditDockerfile \/ StartGate \/ Build \/ RunReference \/ RunBefore
  \/ RecordManifest \/ RecordProvenance \/ Reload
  \/ Killed

Spec == Init /\ [][Next]_vars
-----------------------------------------------------------------------------
(* Properties.                                                             *)

\* The count that the gate records fits the runs it comes from: graded as a
\* rollout would be, the reference patch earns the full reward and the start
\* state does not.
RecordedFlips ==
  stage \in {"record_provenance", "reload"} =>
    /\ FullReward(Grade(reference, manifest.expected))
    /\ ~FullReward(Grade(before, manifest.expected))

\* A task that mint or gate reports as good loads, and with --no-gate apart it
\* carries the proof for the image that its own Dockerfile builds and its tag
\* names.
MintedIsProven ==
  report = "minted" =>
    /\ Loads
    /\ command # "mint_no_gate" =>
         /\ manifest.state = "gated" /\ provenance = "gated"
         /\ manifest.image = dockerfile /\ tag = dockerfile

\* The two files are written in one order, and a directory is minted anew from
\* nothing: provenance.json never tells of a gate while task.toml holds the
\* placeholders of a task that was not gated.
ProvenanceComesLast == provenance = "gated" => manifest.state # "ungated"

\* README.md:127-128 "Tasks that fail the gate are deleted unless you pass
\* --keep-failed".
FailedIsDeleted ==
  command = "mint" /\ report = "rejected" /\ ~keepFailed => ~present

\* README.md:125-126 "runs the sealed test command on the start state (must
\* fail)": no count is recorded unless that command was at least started.
StartStateWasTested ==
  stage \in {"record_provenance", "reload"} => beforeRan
=============================================================================
