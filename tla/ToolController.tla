--------------------------- MODULE ToolController ---------------------------
(***************************************************************************)
(* The host side of the five sandbox tools (environment.py): the aiohttp   *)
(* route hands every POST to _ToolController.dispatch, which serialises    *)
(* the calls of one rollout with an asyncio.Lock; then OmpTask.finalize    *)
(* collects the editable files for grading.                                *)
(*                                                                         *)
(* A call is one HTTP request.  OMP runs its tool calls in threads, and a  *)
(* client that gives up after TOOL_TIMEOUT_SECONDS does not stop the       *)
(* handler, so any number of calls may be in the route together.  Each     *)
(* action is the handler's code between two awaits.                        *)
(***************************************************************************)
EXTENDS Integers, Sequences, FiniteSets

CONSTANTS
  Calls,          \* the requests of one rollout
  Files,          \* task.data.editable_files
  Contents,       \* what an editable file may hold
  Torn,           \* the content left by a write that was killed halfway
  Results,        \* what run_verifier_cases may conclude
  None,           \* "no value"
  MaxTestInvocations

ASSUME ControllerAssumption ==
  /\ Torn \in Contents
  /\ None \notin Contents \cup Results \cup Calls
  /\ MaxTestInvocations \in Nat

VARIABLES
  op,             \* op[c]: the operation call c asks for, None before it comes
  phase,          \* phase[c]: where the handler of c is suspended
  outcome,        \* outcome[c]: how the call ended
  queue,          \* the waiters of the lock, in the order they asked
  holder,         \* the call that holds the lock
  request,        \* TOOL_REQUEST, the file the container tool reads
  workspace,      \* the editable files in the policy runtime
  commandAlive,   \* processes of the command user are running there
  commandOk,      \* commandOk[c]: _capture_process returned a capture for exec c
  lastExec,       \* the exec that ended last (history)
  invocations,    \* test_invocations
  collected,      \* collected[c]: the files collect() has read so far for c
  result,         \* result[c]: the verifier result in the reply to c
  cache,          \* test_cache, by collected content
  route,          \* the life of the tool route and of the finalizer after it
  graded          \* the artifacts of OmpTask.finalize, read so far

vars == <<op, phase, outcome, queue, holder, request, workspace, commandAlive,
          commandOk, lastExec, invocations, collected, result, cache, route,
          graded>>
runtimeVars == <<request, workspace, commandAlive>>
execVars == <<commandOk, lastExec>>
testVars == <<invocations, collected, result, cache>>
endVars == <<route, graded>>

Ops == [kind : {"read", "exec", "tests", "invalid"}]
       \cup [kind : {"write"}, file : Files, content : Contents]
       \cup [kind : {"edit"}, file : Files, old : Contents, content : Contents]
Reap == [kind |-> "reap"]
Artifacts == [Files -> Contents]
Unread == [f \in Files |-> None]

ToolPhases == {"staging", "staged", "ran"}           \* inside _runtime_tool
HoldingPhases == ToolPhases \cup {"command", "collecting", "verifying"}
Phases == HoldingPhases \cup {"idle", "waiting", "done"}

TypeOK ==
  /\ op \in [Calls -> Ops \cup {None}]
  /\ phase \in [Calls -> Phases]
  /\ outcome \in [Calls -> {"none", "ok", "error", "cancelled"}]
  /\ queue \in Seq(Calls)
  /\ holder \in Calls \cup {None}
  /\ request \in Ops \cup {Reap, None}
  /\ workspace \in Artifacts
  /\ commandAlive \in BOOLEAN
  /\ commandOk \in [Calls -> BOOLEAN]
  /\ lastExec \in Calls \cup {None}
  /\ invocations \in Nat
  /\ collected \in [Calls -> [Files -> Contents \cup {None}]]
  /\ result \in [Calls -> Results \cup {None}]
  /\ cache \in [Artifacts -> Results \cup {None}]
  /\ route \in {"open", "closing", "closed", "finalized"}
  /\ graded \in [Files -> Contents \cup {None}]

Init ==
  /\ op = [c \in Calls |-> None]
  /\ phase = [c \in Calls |-> "idle"]
  /\ outcome = [c \in Calls |-> "none"]
  /\ queue = <<>>
  /\ holder = None
  /\ request = None
  /\ workspace \in [Files -> Contents \ {Torn}]
  /\ commandAlive = FALSE
  /\ commandOk = [c \in Calls |-> FALSE]
  /\ lastExec = None
  /\ invocations = 0
  /\ collected = [c \in Calls |-> Unread]
  /\ result = [c \in Calls |-> None]
  /\ cache = [a \in Artifacts |-> None]
  /\ route = "open"
  /\ graded = Unread
-----------------------------------------------------------------------------
(* Entering and leaving the lock.                                          *)

\* A request has been read and parsed; dispatch queues for the lock.
Arrive(c) ==
  /\ route = "open"
  /\ phase[c] = "idle"
  /\ \E o \in Ops : op' = [op EXCEPT ![c] = o]
  /\ phase' = [phase EXCEPT ![c] = "waiting"]
  /\ queue' = Append(queue, c)
  /\ UNCHANGED <<outcome, holder, runtimeVars, execVars, testVars, endVars>>

\* The handler of c answers o and leaves the "async with self.lock" block.
Finish(c, o) ==
  /\ phase' = [phase EXCEPT ![c] = "done"]
  /\ outcome' = [outcome EXCEPT ![c] = o]
  /\ holder' = None
  /\ lastExec' = IF op[c].kind = "exec" THEN c ELSE lastExec

\* Mutant: dispatch without the lock.
AcquireUnlocked(c) ==
  /\ phase[c] = "waiting"
  /\ queue # <<>> /\ c = Head(queue)
  /\ queue' = Tail(queue)

\* asyncio.Lock wakes its waiters in the order they came.
Acquire(c) ==
  /\ phase[c] = "waiting"
  /\ holder = None
  /\ queue # <<>> /\ c = Head(queue)
  /\ queue' = Tail(queue)

\* A file call runs straight to the write of its request, an exec to the start
\* of its command.
DispatchTool(c) ==
  /\ Acquire(c)
  /\ op[c].kind \in {"read", "write", "edit", "exec"}
  /\ holder' = c
  /\ phase' = [phase EXCEPT ![c] =
                 IF op[c].kind = "exec" THEN "command" ELSE "staging"]
  /\ commandAlive' = (commandAlive \/ op[c].kind = "exec")
  /\ UNCHANGED <<op, outcome, request, workspace, execVars, testVars, endVars>>

\* An unknown action, an unknown or wrong argument, a path that is not
\* editable: ValueError before anything is touched.
DispatchInvalid(c) ==
  /\ Acquire(c)
  /\ op[c].kind = "invalid"
  /\ Finish(c, "error")
  /\ UNCHANGED <<op, commandOk, runtimeVars, testVars, endVars>>

\* Mutant: the limit is compared with > instead of >=.
DispatchTestsOneMore(c) ==
  /\ Acquire(c)
  /\ op[c].kind = "tests"
  /\ \/ /\ invocations > MaxTestInvocations
        /\ Finish(c, "error")
        /\ UNCHANGED invocations
     \/ /\ invocations <= MaxTestInvocations
        /\ invocations' = invocations + 1
        /\ holder' = c
        /\ phase' = [phase EXCEPT ![c] = "collecting"]
        /\ UNCHANGED <<outcome, lastExec>>
  /\ UNCHANGED <<op, commandOk, collected, result, cache, runtimeVars,
                 endVars>>

\* _tests: refuse at the limit, count the call, start to collect.
DispatchTests(c) ==
  /\ Acquire(c)
  /\ op[c].kind = "tests"
  /\ \/ /\ invocations >= MaxTestInvocations
        /\ Finish(c, "error")
        /\ UNCHANGED invocations
     \/ /\ invocations < MaxTestInvocations
        /\ invocations' = invocations + 1
        /\ holder' = c
        /\ phase' = [phase EXCEPT ![c] = "collecting"]
        /\ UNCHANGED <<outcome, lastExec>>
  /\ UNCHANGED <<op, commandOk, collected, result, cache, runtimeVars,
                 endVars>>
-----------------------------------------------------------------------------
(* _runtime_tool: write the request file, run the tool on it, remove it.   *)

RequestOf(c) == IF op[c].kind = "exec" THEN Reap ELSE op[c]

Stage(c) ==
  /\ phase[c] = "staging"
  /\ request' = RequestOf(c)
  /\ phase' = [phase EXCEPT ![c] = "staged"]
  /\ UNCHANGED <<op, outcome, queue, holder, workspace, commandAlive, execVars,
                 testVars, endVars>>

\* The write of the request raises, with or without a file to show for it.
StageFails(c) ==
  /\ phase[c] = "staging"
  /\ request' \in {request, RequestOf(c)}
  /\ Finish(c, "error")
  /\ UNCHANGED <<op, queue, workspace, commandAlive, commandOk, testVars,
                 endVars>>

\* What the tool makes of request r when it runs to its end.
Applied(r) ==
  IF r.kind = "write" \/ (r.kind = "edit" /\ workspace[r.file] = r.old)
  THEN [workspace EXCEPT ![r.file] = r.content]
  ELSE workspace

Refused(r) == r.kind = "edit" /\ workspace[r.file] # r.old

\* Mutant: the tool unlinks the file before it creates it anew.
InterruptedUnlink(r) ==
  {workspace, Applied(r)} \cup
  IF Applied(r) # workspace THEN {[workspace EXCEPT ![r.file] = None]} ELSE {}

\* The tool can be killed before, in and after the write it makes.
Interrupted(r) ==
  {workspace, Applied(r)} \cup
  IF Applied(r) # workspace THEN {[workspace EXCEPT ![r.file] = Torn]} ELSE {}

\* The tool reads whatever request file it finds, and says whether it worked;
\* its time limit or its output may also make a failure of a finished tool.
RunTool(c) ==
  /\ phase[c] = "staged"
  /\ request # None
  /\ \/ /\ ~Refused(request)
        /\ workspace' = Applied(request)
        /\ commandAlive' = (commandAlive /\ request # Reap)
        /\ outcome' = [outcome EXCEPT ![c] = "ok"]
     \/ /\ workspace' \in Interrupted(request)
        /\ commandAlive' \in {commandAlive, commandAlive /\ request # Reap}
        /\ outcome' = [outcome EXCEPT ![c] = "error"]
  /\ phase' = [phase EXCEPT ![c] = "ran"]
  /\ UNCHANGED <<op, queue, holder, request, execVars, testVars, endVars>>

\* Mutant: the reply to an exec is that of its capture, whatever the reap said.
RemoveRequestOnly(c) ==
  /\ phase[c] = "ran"
  /\ request' \in {None, request}
  /\ Finish(c, IF op[c].kind # "exec" THEN outcome[c]
               ELSE IF commandOk[c] THEN "ok" ELSE "error")
  /\ UNCHANGED <<op, queue, workspace, commandAlive, commandOk, testVars,
                 endVars>>

\* The finally block removes the request file, and nobody looks at the exit code
\* of rm; then the reply.  An exec is good only when its processes were reaped
\* and its capture was one.
RemoveRequest(c) ==
  /\ phase[c] = "ran"
  /\ request' \in {None, request}
  /\ Finish(c, IF op[c].kind = "exec" /\ ~commandOk[c] THEN "error" ELSE outcome[c])
  /\ UNCHANGED <<op, queue, workspace, commandAlive, commandOk, testVars,
                 endVars>>
-----------------------------------------------------------------------------
(* exec and tests.                                                         *)

\* A process of the command user writes an editable file (mode a=rw).
CommandWrites(f, v) ==
  /\ commandAlive
  /\ route # "finalized"
  /\ workspace[f] # v
  /\ workspace' = [workspace EXCEPT ![f] = v]
  /\ UNCHANGED <<op, phase, outcome, queue, holder, request, commandAlive,
                 execVars, testVars, endVars>>

\* The capture of the command ends, as a capture or as a failure; either way
\* the reap follows.  Descendants of the command may still be running.
EndCommand(c) ==
  /\ phase[c] = "command"
  /\ \E ok \in BOOLEAN : commandOk' = [commandOk EXCEPT ![c] = ok]
  /\ commandAlive' \in {commandAlive, FALSE}
  /\ phase' = [phase EXCEPT ![c] = "staging"]
  /\ UNCHANGED <<op, outcome, queue, holder, request, workspace, lastExec,
                 testVars, endVars>>

\* The runtime raises while the command is started or runs: there is no capture
\* and no reap.
CommandRaises(c) ==
  /\ phase[c] = "command"
  /\ commandAlive' \in {commandAlive, FALSE}
  /\ Finish(c, "error")
  /\ UNCHANGED <<op, queue, request, workspace, commandOk, testVars, endVars>>

\* collect() reads the artifacts one after the other.
CollectFile(c, f) ==
  /\ phase[c] = "collecting"
  /\ collected[c][f] = None
  /\ collected' = [collected EXCEPT ![c][f] = workspace[f]]
  /\ UNCHANGED <<op, phase, outcome, queue, holder, invocations, result, cache,
                 runtimeVars, execVars, endVars>>

Complete(a) == \A f \in Files : a[f] # None

\* Collected everything: answer from the cache or provision a fresh runtime.
LookUp(c) ==
  /\ phase[c] = "collecting"
  /\ Complete(collected[c])
  /\ \/ /\ cache[collected[c]] # None
        /\ result' = [result EXCEPT ![c] = cache[collected[c]]]
        /\ Finish(c, "ok")
     \/ /\ cache[collected[c]] = None
        /\ phase' = [phase EXCEPT ![c] = "verifying"]
        /\ UNCHANGED <<result, outcome, holder, lastExec>>
  /\ UNCHANGED <<op, queue, commandOk, invocations, collected, cache,
                 runtimeVars, endVars>>

\* Mutant: a failed verification returns around the release of the lock.
TestsFailHolding(c) ==
  /\ phase[c] \in {"collecting", "verifying"}
  /\ phase' = [phase EXCEPT ![c] = "done"]
  /\ outcome' = [outcome EXCEPT ![c] = "error"]
  /\ UNCHANGED <<op, queue, holder, runtimeVars, execVars, testVars, endVars>>

\* collect() or _verify_artifacts raises (a runtime error, the scoring limit):
\* the invocation stays counted and nothing is cached.
TestsFail(c) ==
  /\ phase[c] \in {"collecting", "verifying"}
  /\ Finish(c, "error")
  /\ UNCHANGED <<op, queue, commandOk, runtimeVars, testVars, endVars>>

\* Mutant: the digest is taken of the workspace after the verification.
VerifiedLate(c) ==
  /\ phase[c] = "verifying"
  /\ \E v \in Results :
       /\ result' = [result EXCEPT ![c] = v]
       /\ cache' = [cache EXCEPT ![workspace] = v]
  /\ Finish(c, "ok")
  /\ UNCHANGED <<op, queue, commandOk, invocations, collected, runtimeVars,
                 endVars>>

\* A fresh runtime has judged the collected files; a candidate may be flaky,
\* so the verdict is not a function of them.
Verified(c) ==
  /\ phase[c] = "verifying"
  /\ \E v \in Results :
       /\ result' = [result EXCEPT ![c] = v]
       /\ cache' = [cache EXCEPT ![collected[c]] = v]
  /\ Finish(c, "ok")
  /\ UNCHANGED <<op, queue, commandOk, invocations, collected, runtimeVars,
                 endVars>>
-----------------------------------------------------------------------------
(* The end of the rollout.                                                 *)

\* The agent program returned, failed or was cancelled; runner.cleanup stops
\* the site, and handlers may still run for the grace period.
CloseRoute ==
  /\ route = "open"
  /\ route' = "closing"
  /\ UNCHANGED <<op, phase, outcome, queue, holder, graded, runtimeVars,
                 execVars, testVars>>

\* A cancelled waiter is removed from its place in the lock's deque.
Without(q, c) ==
  LET place == CHOOSE i \in 1..Len(q) : q[i] = c
  IN  IF \E i \in 1..Len(q) : q[i] = c
      THEN SubSeq(q, 1, place - 1) \o SubSeq(q, place + 1, Len(q))
      ELSE q

\* runner.cleanup cancels a handler that is still there: a waiter leaves the
\* queue, a tool run is killed and its request removed, an exec is killed
\* without a reap.
CancelHandler(c) ==
  /\ route = "closing"
  /\ phase[c] \in HoldingPhases \cup {"waiting"}
  /\ phase' = [phase EXCEPT ![c] = "done"]
  /\ outcome' = [outcome EXCEPT ![c] = "cancelled"]
  /\ queue' = Without(queue, c)
  /\ holder' = IF holder = c THEN None ELSE holder
  /\ lastExec' = IF phase[c] # "waiting" /\ op[c].kind = "exec" THEN c ELSE lastExec
  /\ IF phase[c] = "staged" THEN workspace' \in Interrupted(request)
                            ELSE UNCHANGED workspace
  /\ commandAlive' \in
       IF phase[c] = "command" \/ (phase[c] = "staged" /\ request = Reap)
       THEN {commandAlive, FALSE} ELSE {commandAlive}
  /\ request' \in IF phase[c] \in {"staged", "ran"} THEN {None, request}
                  ELSE IF phase[c] = "staging" THEN {request, RequestOf(c)}
                  ELSE {request}
  /\ UNCHANGED <<op, commandOk, testVars, endVars>>

RouteClosed ==
  /\ route = "closing"
  /\ \A c \in Calls : phase[c] \in {"idle", "done"}
  /\ route' = "closed"
  /\ UNCHANGED <<op, phase, outcome, queue, holder, graded, runtimeVars,
                 execVars, testVars>>

\* OmpTask.finalize collects what will be graded, one file after the other.
CollectGraded(f) ==
  /\ route = "closed"
  /\ graded[f] = None
  /\ graded' = [graded EXCEPT ![f] = workspace[f]]
  /\ route' = IF Complete(graded') THEN "finalized" ELSE "closed"
  /\ UNCHANGED <<op, phase, outcome, queue, holder, runtimeVars, execVars,
                 testVars>>

\* A file is missing or no plain file, or the runtime raises: the rollout ends
\* with an error and without artifacts.
FinalizeFails ==
  /\ route = "closed"
  /\ graded' = Unread
  /\ route' = "finalized"
  /\ UNCHANGED <<op, phase, outcome, queue, holder, runtimeVars, execVars,
                 testVars>>

Finalized == route = "finalized" /\ UNCHANGED vars

Handle(c) ==
  \/ DispatchTool(c) \/ DispatchInvalid(c) \/ DispatchTests(c)
  \/ Stage(c) \/ StageFails(c) \/ RunTool(c) \/ RemoveRequest(c)
  \/ EndCommand(c) \/ CommandRaises(c)
  \/ \E f \in Files : CollectFile(c, f)
  \/ LookUp(c) \/ TestsFail(c) \/ Verified(c)

Next ==
  \/ \E c \in Calls : Arrive(c) \/ Handle(c) \/ CancelHandler(c)
  \/ \E f \in Files, v \in Contents : CommandWrites(f, v)
  \/ CloseRoute \/ RouteClosed
  \/ \E f \in Files : CollectGraded(f)
  \/ FinalizeFails \/ Finalized

Spec == Init /\ [][Next]_vars

\* Each await of a handler comes back: captures, tool runs and scoring have
\* time limits.  Nobody promises that calls come or that the route closes.
FairSpec == Spec /\ \A c \in Calls : WF_vars(Handle(c))
-----------------------------------------------------------------------------
(* Properties.                                                             *)

\* The container tool always finds the request of the call it runs for, though
\* all calls of a rollout share the one file TOOL_REQUEST.
RequestIntact == \A c \in Calls : phase[c] = "staged" => request = RequestOf(c)

\* Is there no exec yet, or did the last one end with ok?
LastExecOk == lastExec = None \/ outcome[lastExec] = "ok"

ExecInProgress ==
  \E c \in Calls : phase[c] \in HoldingPhases /\ op[c].kind = "exec"

\* Between execs a command process can be alive only if the last exec was
\* answered with an error or cancelled: an ok means that nothing is left.
QuietUnlessReported == commandAlive => ExecInProgress \/ ~LastExecOk

\* One file state has one verdict: two answered run_tests calls on the same
\* collected content agree, however flaky the candidate is.
VerdictsAgree ==
  \A c, d \in Calls :
    result[c] # None /\ result[d] # None /\ collected[c] = collected[d]
      => result[c] = result[d]

\* Calls that began to collect, whatever came of them.
StartedTests ==
  {c \in Calls : phase[c] = "collecting" \/ collected[c] # Unread}

\* No more than MaxTestInvocations calls ever reach the workspace or the
\* verifier; a call that failed or was answered from the cache counts.
TestsBudget == Cardinality(StartedTests) <= MaxTestInvocations

\* What is verified, and what is graded in the end, is the workspace as it is
\* and not a mix of two states of it, unless the last exec failed.
SnapshotsAreCurrent ==
  LastExecOk =>
    /\ \A c \in Calls, f \in Files :
         phase[c] \in {"collecting", "verifying"}
           => collected[c][f] \in {None, workspace[f]}
    /\ \A f \in Files : graded[f] \in {None, workspace[f]}

\* Every call that reached the controller is answered or cancelled.
EveryCallEnds == \A c \in Calls : phase[c] = "waiting" ~> phase[c] = "done"
=============================================================================
