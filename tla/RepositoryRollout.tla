-------------------------- MODULE RepositoryRollout --------------------------
(***************************************************************************)
(* One rollout from its task to its reward (environment.py,                *)
(* testcommand.py): set-up, OMP at work, the workspace recorded as a patch *)
(* or as editable files, and a fresh container graded by the sealed        *)
(* command or by the sealed cases.  The Verifiers framework calls the      *)
(* handlers in this order; one that raises makes the trace not ok.  A      *)
(* path is a plain file or absent.                                         *)
(***************************************************************************)
EXTENDS Naturals, FiniteSets

CONSTANT
  MaxOdd   \* bound: the paths the agent makes git see otherwise

RolloutAssumption == MaxOdd \in Nat

VARIABLES
  phase,        \* the handler that is next
  native,       \* the tool contract: test-command-v1, or call-cases
  tree,         \* the workspace in the container of the policy
  hidden,       \* paths not in the index that .gitignore or EXCLUDES_FILE match
  odd,          \* paths whose index or tagged content the agent has tampered with
  ok,           \* trace.ok
  usage,        \* trace.usage against the token budget
  collected,    \* trace.state.artifacts holds something
  artifacts,    \* what it holds: the changed paths and their contents
  fresh,        \* the workspace of the grading container
  reward        \* the recorded reward "tests"

vars == <<phase, native, tree, hidden, odd, ok, usage, collected, artifacts, fresh,
          reward>>
agentVars == <<tree, hidden, odd>>
gradingVars == <<fresh, reward>>

(* A source file, a sealed test, a dependency the image installed, and a   *)
(* file that is not there at first.                                        *)
Paths == {"src", "test", "built", "new"}
Editable == {"src"}
Sealed == {"test"}
FileContents == {"start", "agent", "absent"}
NoFiles == [p \in {} |-> "absent"]

\* render_dockerfile installs, then writes the excludes, then commits and tags.
StartTree == [p \in Paths |-> IF p = "new" THEN "absent" ELSE "start"]
StartTracked == {"src", "test"}
Committed == [p \in Paths |-> IF p \in StartTracked THEN "start" ELSE "absent"]

TypeOK ==
  /\ phase \in {"setup", "install", "launch", "agent", "finalize", "cleanup", "score",
                "grade", "run", "refused", "scored", "raised"}
  /\ native \in BOOLEAN /\ ok \in BOOLEAN /\ usage \in {"missing", "within", "over"}
  /\ tree \in [Paths -> FileContents]
  /\ hidden \subseteq Paths /\ odd \subseteq Paths
  /\ collected \in BOOLEAN
  /\ artifacts \in UNION {[P -> FileContents] : P \in SUBSET Paths}
  /\ fresh \in [Paths -> FileContents \cup {"sealed"}]
  /\ reward \in {"none", "zero", "part", "full"}

Init ==
  /\ phase = "setup" /\ native \in BOOLEAN
  /\ tree = StartTree /\ hidden = {"built"} /\ odd = {}
  /\ ok = TRUE /\ usage = "missing" /\ collected = FALSE /\ artifacts = NoFiles
  /\ fresh = StartTree /\ reward = "none"

\* A handler that raises: the next ones run all the same, up to the score.
Raise(next) == phase' = next /\ ok' = FALSE
-----------------------------------------------------------------------------
\* OmpTask.setup: the repository with its tag, or the public files.
Setup ==
  /\ phase = "setup"
  /\ (phase' = "install" /\ UNCHANGED ok) \/ Raise("cleanup")
  /\ UNCHANGED <<native, agentVars, usage, collected, artifacts, gradingVars>>

\* OmpHarness.setup, which HarnessInstall has in detail.
Install ==
  /\ phase = "install"
  /\ (phase' = "launch" /\ UNCHANGED ok) \/ Raise("cleanup")
  /\ UNCHANGED <<native, agentVars, usage, collected, artifacts, gradingVars>>

\* launch refuses its arguments, a task that is not the installed one, or
\* fails to prepare the runtime; else OMP runs as the agent user.
Launch ==
  /\ phase = "launch"
  /\ (phase' = "agent" /\ UNCHANGED ok) \/ Raise("finalize")
  /\ UNCHANGED <<native, agentVars, usage, collected, artifacts, gradingVars>>

\* _prepare_agent_runtime: everything in a repository, or the editable files.
MayWrite(p) == native \/ p \in Editable

Work(p) ==
  /\ phase = "agent" /\ MayWrite(p)
  /\ tree' = [tree EXCEPT ![p] = "agent"]
  /\ UNCHANGED <<phase, native, hidden, odd, ok, usage, collected, artifacts, gradingVars>>

Remove(p) ==
  /\ phase = "agent" /\ native
  /\ tree' = [tree EXCEPT ![p] = "absent"]
  /\ UNCHANGED <<phase, native, hidden, odd, ok, usage, collected, artifacts, gradingVars>>

\* The agent adds and removes index entries and edits the ignore rules as it
\* likes: any path can be one that add -A passes over, or again not.
UseGit ==
  /\ phase = "agent" /\ native
  /\ \E p \in Paths : hidden' \in {hidden \cup {p}, hidden \ {p}}
  /\ UNCHANGED <<phase, native, tree, odd, ok, usage, collected, artifacts, gradingVars>>

\* It moves the start tag, sets skip-worktree or assume-unchanged, or has a
\* filter convert a file.
Tamper(p) ==
  /\ phase = "agent" /\ native
  /\ p \notin odd /\ Cardinality(odd) < MaxOdd
  /\ odd' = odd \cup {p}
  /\ UNCHANGED <<phase, native, tree, hidden, ok, usage, collected, artifacts, gradingVars>>

\* OMP ends, is stopped at the token budget or by its time, or fails; tokens
\* of the last turn may pass the budget.
AgentEnds ==
  /\ phase = "agent"
  /\ usage' \in {"missing", "within", "over"}
  /\ (phase' = "finalize" /\ UNCHANGED ok) \/ Raise("finalize")
  /\ UNCHANGED <<native, agentVars, collected, artifacts, gradingVars>>

\* What add -A makes of the index, of a path not tampered with: a file that is
\* not in the index stays out of it when an ignore rule matches it.
Index == [p \in Paths |-> IF p \in hidden THEN "absent" ELSE tree[p]]

\* Mutant: add -u, which adds no file to the index.
ChangesOfTracked ==
  LET changed == {p \in StartTracked \ odd : Index[p] # Committed[p]} IN
  {[p \in changed \cup DOMAIN found |-> IF p \in DOMAIN found THEN found[p] ELSE Index[p]] :
     found \in UNION {[P -> FileContents] : P \in SUBSET odd}}

\* changes_script: the difference of the index to the tagged start state,
\* whatever was committed in between, and any difference where the agent has
\* tampered with the one or the other.
Changes ==
  LET changed == {p \in Paths \ odd : Index[p] # Committed[p]} IN
  {[p \in changed \cup DOMAIN found |-> IF p \in DOMAIN found THEN found[p] ELSE Index[p]] :
     found \in UNION {[P -> FileContents] : P \in SUBSET odd}}

\* OmpTask.finalize; git may fail and the patch may be too large.
Finalize ==
  /\ phase = "finalize"
  /\ \/ native /\ collected' = TRUE /\ artifacts' \in Changes
        /\ phase' = "cleanup" /\ UNCHANGED ok
     \/ /\ ~native /\ \A p \in Editable : tree[p] # "absent"
        /\ collected' = TRUE /\ artifacts' = [p \in Editable |-> tree[p]]
        /\ phase' = "cleanup" /\ UNCHANGED ok
     \/ Raise("cleanup") /\ UNCHANGED <<collected, artifacts>>
  /\ UNCHANGED <<native, agentVars, usage, gradingVars>>

\* OmpHarness.cleanup removes the home of the agent.
Cleanup ==
  /\ phase = "cleanup"
  /\ phase' = "score" /\ (UNCHANGED ok \/ ok' = FALSE)
  /\ UNCHANGED <<native, agentVars, usage, collected, artifacts, gradingVars>>
-----------------------------------------------------------------------------
\* Mutant: tokens above the budget are not looked at.
WorthlessUnlessOver == ~ok \/ usage = "missing"

\* OmpEnv.finalize gives nothing for a failed trace, for one without a token
\* count, or for one above its budget.
Worthless == ~ok \/ usage # "within"

Score ==
  /\ phase = "score"
  /\ CASE Worthless -> phase' = "scored" /\ reward' = "zero"
       [] ~Worthless /\ ~collected -> phase' = "raised" /\ UNCHANGED reward
       [] OTHER -> phase' = "grade" /\ UNCHANGED reward
  /\ ok' = (ok /\ usage = "within")
  /\ UNCHANGED <<native, agentVars, usage, collected, artifacts, fresh>>

\* git apply refuses a patch that does not start from what it finds, such as one
\* that creates a file that is there already.
Applies == \A p \in DOMAIN artifacts \ odd : Committed[p] = StartTree[p]

\* Mutant: the sealed files go in before the patch.
OverlayFirst == [p \in Paths |-> IF p \in DOMAIN artifacts THEN artifacts[p]
                                 ELSE IF p \in Sealed THEN "sealed" ELSE StartTree[p]]

\* grading_script: the patch, then the sealed files over it.
Overlay == [p \in Paths |-> IF p \in Sealed THEN "sealed"
                            ELSE IF p \in DOMAIN artifacts THEN artifacts[p] ELSE StartTree[p]]

\* restore, on the public files of the task.
Restored == [p \in Paths |-> IF p \in DOMAIN artifacts THEN artifacts[p] ELSE StartTree[p]]

\* A container cannot be had, or the scoring time runs out.
GradeRaises ==
  /\ phase \in {"grade", "run", "refused"}
  /\ phase' = "raised"
  /\ UNCHANGED <<native, agentVars, ok, usage, collected, artifacts, gradingVars>>

\* _grade_repository, _verify_artifacts: a fresh container.  A change of a path
\* that was tampered with may start from anything.
StageGrading ==
  /\ phase = "grade"
  /\ \/ /\ native => Applies
        /\ fresh' = IF native THEN Overlay ELSE Restored
        /\ phase' = "run"
     \/ native /\ (Applies => DOMAIN artifacts \cap odd # {})
        /\ fresh' = StartTree /\ phase' = "refused"
  /\ UNCHANGED <<native, agentVars, ok, usage, collected, artifacts, reward>>

\* _finalize_repository, with any result of the sealed command (SealedCommand); a
\* patch that was refused ends the script before it.
RunCommand ==
  /\ phase \in {"run", "refused"} /\ native
  /\ reward' \in IF phase = "run" THEN {"zero", "part", "full"} ELSE {"zero"}
  /\ phase' = "scored"
  /\ UNCHANGED <<native, agentVars, ok, usage, collected, artifacts, fresh>>

\* _finalize_call_cases, with any result of the sealed cases (VerifierCases).
RunCases ==
  /\ phase = "run" /\ ~native
  /\ reward' \in {"zero", "part", "full"}
  /\ phase' = "scored"
  /\ UNCHANGED <<native, agentVars, ok, usage, collected, artifacts, fresh>>

Next ==
  \/ Setup \/ Install \/ Launch \/ UseGit \/ AgentEnds
  \/ (\E p \in Paths : Work(p) \/ Remove(p) \/ Tamper(p)) \/ Finalize \/ Cleanup \/ Score \/ GradeRaises \/ StageGrading \/ RunCommand \/ RunCases

Spec == Init /\ [][Next]_vars
-----------------------------------------------------------------------------
\* What earned something is what the agent left: the sealed tests ran, and of
\* the other files those git saw were as the agent left them.  A file that it
\* did not see, as neither the index nor the ignore rules let it, was that of
\* the image, or was missing where the tagged commit has it; nothing is said of
\* a path that was tampered with (changes_script, grading_script).
EarnedByFinalState ==
  reward \in {"part", "full"} =>
    /\ ok /\ usage = "within"
    /\ native => \A p \in Sealed : fresh[p] = "sealed"
    /\ \A p \in Paths \ (IF native THEN Sealed \cup odd ELSE {}) :
         LET seen == p \notin hidden /\ (p \in StartTracked \/ tree[p] # "absent") IN
         fresh[p] = IF seen \/ ~native THEN tree[p]
                    ELSE IF p \in StartTracked THEN "absent" ELSE StartTree[p]

\* "Everything the agent changed, added, or removed since then travels as one
\* binary patch" (changes_script): so does its change of a file of the start
\* state when it has not tampered with that file's index entry or the tag.
EverythingTravels ==
  native /\ collected =>
    \A p \in StartTracked \ odd :
      tree[p] # StartTree[p] => p \in DOMAIN artifacts /\ artifacts[p] = tree[p]
=============================================================================
