---------------------------- MODULE VerifierCases ----------------------------
(***************************************************************************)
(* The sealed cases of one candidate: _verify_artifacts provisions a fresh *)
(* runtime, run_verifier_cases (verifier.py) walks through the cases, and  *)
(* _invoke_candidate cleans the runtime, runs a worker on the case and     *)
(* cleans again.  Everything happens under asyncio.timeout(scoring); the   *)
(* walk has a deadline of its own, set later and to the same length        *)
(* (max_time_seconds).  An action is the coroutine from one await to the   *)
(* next; time passes between actions.                                      *)
(***************************************************************************)
EXTENDS Integers, Sequences

CONSTANTS
  NumCases,      \* len(suite.cases)
  TimeLimit,     \* max_time_seconds, in ticks
  Horizon        \* bound: the clock stops here

ASSUME VerifierAssumption ==
  NumCases \in Nat /\ TimeLimit \in Nat /\ Horizon \in Nat

VARIABLES
  clock,         \* time.monotonic(), 0 when the scoring limit starts
  stage,         \* the await at which the verification is suspended
  deadline,      \* of run_verifier_cases
  index,         \* the case whose turn it is
  residue,       \* cases that left a process or a file in the runtime
  request,       \* the case in the file CASE_REQUEST, 0 when there is none
  captured,      \* what _capture_process returned for the worker
  cleaned,       \* what the cleaner said when the worker was through
  passed,        \* how many cases passed
  failures       \* the CaseFailures, in the order they were appended

vars == <<clock, stage, deadline, index, residue, request, captured, cleaned,
          passed, failures>>

Cases == 1..NumCases
Awaits == {"provision", "clean_before", "write_request", "worker",
           "clean_after", "remove_request"}
\* A valid reply that is right or wrong, one beyond the depth or node limit,
\* or none: a limit of the capture, an exit code, output that is no reply.
Captures == {"right", "wrong", "too_large", "broken"}
Reasons == {"mismatch", "candidate_failure", "reply_limits", "not_run", "deadline"}

TypeOK ==
  /\ clock \in Nat /\ deadline \in Nat
  /\ stage \in Awaits \cup {"returned", "raised"}
  /\ index \in 1..NumCases + 1
  /\ residue \subseteq Cases
  /\ request \in Cases \cup {0}
  /\ captured \in Captures \cup {"none"}
  /\ cleaned \in BOOLEAN
  /\ passed \in 0..NumCases
  /\ failures \in Seq([case : Cases, reason : Reasons])

Init ==
  /\ clock = 0 /\ deadline = 0
  /\ stage = "provision"
  /\ index = 1
  /\ residue = {}
  /\ request = 0
  /\ captured = "none"
  /\ cleaned = TRUE
  /\ passed = 0
  /\ failures = <<>>

Tick ==
  /\ stage \in Awaits
  /\ clock < Horizon
  /\ clock' = clock + 1
  /\ UNCHANGED <<stage, deadline, index, residue, request, captured, cleaned,
                 passed, failures>>
-----------------------------------------------------------------------------
(* The walk through the suite.                                             *)

\* Mutant: the list begins one case too late.
FailedFromNext(first, reason) ==
  [i \in 1..NumCases - first + 1 |-> [case |-> first + i, reason |-> reason]]

\* Cases first..NumCases, each failed for the same reason.
FailedFrom(first, reason) ==
  [i \in 1..NumCases - first + 1 |-> [case |-> first + i - 1, reason |-> reason]]

\* Mutant: the case whose turn it is is left out of the deadline failures.
TakeTurnSkipping(i, fs, limit) ==
  /\ index' = i
  /\ IF i > NumCases
     THEN stage' = "returned" /\ failures' = fs
     ELSE IF limit <= clock
     THEN stage' = "returned" /\ failures' = fs \o FailedFrom(i + 1, "deadline")
     ELSE stage' = "clean_before" /\ failures' = fs

\* The head of the loop: the suite is through, or the deadline has passed, or
\* the candidate is invoked on case i.
TakeTurn(i, fs, limit) ==
  /\ index' = i
  /\ IF i > NumCases
     THEN stage' = "returned" /\ failures' = fs
     ELSE IF limit <= clock
     THEN stage' = "returned" /\ failures' = fs \o FailedFrom(i, "deadline")
     ELSE stage' = "clean_before" /\ failures' = fs

\* The candidate cannot be trusted any more: the remaining cases do not run.
Abandon(reason) ==
  /\ stage' = "returned"
  /\ failures' = Append(failures, [case |-> index, reason |-> reason])
                   \o FailedFrom(index + 1, "not_run")
  /\ UNCHANGED index

\* Mutant: the time spent so far is taken off the deadline of the walk.
ProvisionedLess ==
  /\ stage = "provision"
  /\ deadline' = IF clock < TimeLimit THEN TimeLimit - clock ELSE 0
  /\ TakeTurn(1, failures, deadline')
  /\ UNCHANGED <<clock, residue, request, captured, cleaned, passed>>

\* The runtime is up, the task and the artifacts are in it.
Provisioned ==
  /\ stage = "provision"
  /\ deadline' = clock + TimeLimit
  /\ TakeTurn(1, failures, deadline')
  /\ UNCHANGED <<clock, residue, request, captured, cleaned, passed>>

\* Mutant: the exit code of the cleaner is not looked at.
CleanerUnchecked(left) == {TRUE}

\* What the caller learns of a cleaner that leaves `left` behind: its exit
\* code.  It may fail although nothing is left.
CleanerSays(left) == IF left = {} THEN BOOLEAN ELSE {FALSE}

CleanBefore ==
  /\ stage = "clean_before"
  /\ residue' \in SUBSET residue
  /\ \E ok \in CleanerSays(residue') :
       IF ok
       THEN stage' = "write_request" /\ UNCHANGED <<index, failures>>
       ELSE Abandon("candidate_failure")
  /\ UNCHANGED <<clock, deadline, request, captured, cleaned, passed>>

WriteRequest ==
  /\ stage = "write_request"
  /\ request' = index
  /\ stage' = "worker"
  /\ UNCHANGED <<clock, deadline, index, residue, captured, cleaned, passed,
                 failures>>

\* _capture_process comes back.  Whatever it says, processes that closed their
\* output and files in the scratch directories may be left.
WorkerEnds ==
  /\ stage = "worker"
  /\ captured' \in Captures
  /\ residue' \in {residue, residue \cup {index}}
  /\ stage' = "clean_after"
  /\ UNCHANGED <<clock, deadline, index, request, cleaned, passed, failures>>

\* Mutant: an invocation whose cleanup failed is made once more.
CleanAfterRetries ==
  /\ stage = "clean_after"
  /\ residue' \in SUBSET residue
  /\ cleaned' \in CleanerSays(residue')
  /\ stage' = IF cleaned' THEN "remove_request" ELSE "clean_before"
  /\ UNCHANGED <<clock, deadline, index, request, captured, passed, failures>>

CleanAfter ==
  /\ stage = "clean_after"
  /\ residue' \in SUBSET residue
  /\ cleaned' \in CleanerSays(residue')
  /\ stage' = "remove_request"
  /\ UNCHANGED <<clock, deadline, index, request, captured, passed, failures>>

\* The invocation returns and its reply is judged; the next turn begins.
Judge ==
  \/ /\ ~cleaned \/ captured = "broken"
     /\ Abandon("candidate_failure")
     /\ UNCHANGED passed
  \/ /\ cleaned /\ captured = "too_large"
     /\ Abandon("reply_limits")
     /\ UNCHANGED passed
  \/ /\ cleaned /\ captured = "wrong"
     /\ TakeTurn(index + 1,
                 Append(failures, [case |-> index, reason |-> "mismatch"]), deadline)
     /\ UNCHANGED passed
  \/ /\ cleaned /\ captured = "right"
     /\ passed' = passed + 1
     /\ TakeTurn(index + 1, failures, deadline)

\* rm -f of the request; nobody looks at its exit code.
RemoveRequest ==
  /\ stage = "remove_request"
  /\ request' \in {0, request}
  /\ Judge
  /\ UNCHANGED <<clock, deadline, residue, captured, cleaned>>

\* The scoring limit cancels the coroutine, or a runtime call raises.  A busy
\* event loop may deliver the cancellation late.
Raise ==
  /\ stage \in Awaits
  /\ stage' = "raised"
  /\ residue' \in {residue} \cup
       IF stage = "worker" THEN {residue \cup {index}} ELSE {}
  /\ UNCHANGED <<clock, deadline, index, request, captured, cleaned, passed,
                 failures>>

Step ==
  \/ Provisioned \/ CleanBefore \/ WriteRequest \/ WorkerEnds \/ CleanAfter
  \/ RemoveRequest

\* The result is in the hands of the caller, or the exception is.
Over == stage \in {"returned", "raised"} /\ UNCHANGED vars

Next == Tick \/ Step \/ Raise \/ Over

Spec == Init /\ [][Next]_vars

\* Runtime calls come back and workers are cut off by their own time limit.
FairSpec == Spec /\ WF_vars(Step)
-----------------------------------------------------------------------------
(* Properties.                                                             *)

\* A case has one fate: at every turn the cases before it have passed or are
\* listed as failed, each once and in the order of the suite, and a returned
\* result speaks of every case, wherever the walk broke off.
EveryCaseAccounted ==
  /\ stage # "returned" => passed + Len(failures) = index - 1
  /\ stage = "returned" => passed + Len(failures) = NumCases
  /\ \A i, j \in 1..Len(failures) : i < j => failures[i].case < failures[j].case

\* A worker starts in a runtime without a process or a file of an earlier
\* case, and finds the request of its own case.
CasesAreIsolated == stage = "worker" => residue = {} /\ request = index

\* A case fails for the deadline only in a result that is returned after the
\* scoring limit has passed: the limit, set first, is the one that cuts a slow
\* candidate off, with an exception, unless the event loop is late.
ScoringLimitComesFirst ==
  (\E i \in 1..Len(failures) : failures[i].reason = "deadline")
    => clock >= TimeLimit

\* A verification comes back with a result or an exception, whatever the
\* candidate and the cleaner do.
EveryVerificationEnds == <>(stage \in {"returned", "raised"})
=============================================================================
