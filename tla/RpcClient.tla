---------------------------- MODULE RpcClient -----------------------------
(***************************************************************************)
(* The parts of RpcClient and of the harness around it, explored side by   *)
(* side: a behaviour belongs to one of them, and the variables of the      *)
(* others are unused in it.  What a part takes from another is inside its  *)
(* own module as a choice: RpcLifecycle has requests that are answered or  *)
(* fail, HarnessSession has requests and turns that do.                    *)
(***************************************************************************)
EXTENDS Naturals, FiniteSets, Sequences

CONSTANTS
  Calls, Commands, Threads, HistoryLimit, MaxRuns, MaxEvents, Ids, MaxCount,
  MaxPayload, Lengths, ToolCalls, Native

VARIABLES
  part,   \* which of the components this behaviour is about
  stage, command, pending, queue, unanswered, process, stdin, full,
  reader, closedError, closer, batch,
  at, op, active, start, errorStart, awake, result, returned, items, offset,
  errors, lastScheduleErrors, scheduled, completed, counting, closed, run, runs,
  log, marked, own, alone, lost,
  negotiated, partial, frame, decoder,
  main, outcome, again, ready, request, turn, over, omp, input, held,
  writer, call, table, cancelled, results, sizeSeen, toldOff, disturbed, dialog, headless

Requests == INSTANCE RpcRequests
Lifecycle == INSTANCE RpcLifecycle
Frames == INSTANCE RpcFrames
Harness == INSTANCE HarnessSession

ASSUME ClientAssumption ==
  /\ Requests!RequestsAssumption
  /\ Lifecycle!LifecycleAssumption
  /\ Frames!FramesAssumption
  /\ Harness!SessionAssumption

requestsVars == <<stage, command, pending, queue, unanswered, process, stdin,
  full, reader, closedError, closer, batch>>
lifecycleVars == <<at, op, active, start, errorStart, awake, result, returned,
  items, offset, errors, lastScheduleErrors, scheduled, completed, counting,
  closed, run, runs, log, marked, own, alone, lost>>
framesVars == <<negotiated, partial, frame, decoder>>
harnessVars == <<main, outcome, again, ready, request, turn, over, omp, input,
  held, writer, call, table, cancelled, results, sizeSeen, toldOff, disturbed, dialog,
  headless>>
vars == <<part, requestsVars, lifecycleVars, framesVars, harnessVars>>

\* The variables of a component in the behaviours of the others.
NoRequests ==
  /\ stage = "unused" /\ command = "unused" /\ pending = "unused"
  /\ queue = "unused" /\ unanswered = "unused" /\ process = "unused"
  /\ stdin = "unused" /\ full = "unused" /\ reader = "unused" /\ closedError = "unused"
  /\ closer = "unused" /\ batch = "unused"
NoLifecycle ==
  /\ at = "unused" /\ op = "unused" /\ active = "unused" /\ start = "unused"
  /\ errorStart = "unused" /\ awake = "unused" /\ result = "unused"
  /\ returned = "unused" /\ items = "unused" /\ offset = "unused"
  /\ errors = "unused" /\ lastScheduleErrors = "unused" /\ scheduled = "unused"
  /\ completed = "unused" /\ counting = "unused" /\ closed = "unused"
  /\ run = "unused" /\ runs = "unused" /\ log = "unused" /\ marked = "unused"
  /\ own = "unused" /\ alone = "unused" /\ lost = "unused"
NoFrames ==
  /\ negotiated = "unused" /\ partial = "unused" /\ frame = "unused"
  /\ decoder = "unused"
NoHarness ==
  /\ main = "unused" /\ outcome = "unused" /\ again = "unused"
  /\ ready = "unused" /\ request = "unused" /\ turn = "unused" /\ over = "unused"
  /\ omp = "unused" /\ input = "unused" /\ held = "unused" /\ writer = "unused" /\ call = "unused" /\ table = "unused"
  /\ cancelled = "unused" /\ results = "unused" /\ sizeSeen = "unused"
  /\ toldOff = "unused" /\ disturbed = "unused" /\ dialog = "unused"
  /\ headless = "unused"

Init ==
  \/ part = "requests" /\ Requests!Init /\ NoLifecycle /\ NoFrames /\ NoHarness
  \/ part = "lifecycle" /\ Lifecycle!Init /\ NoRequests /\ NoFrames /\ NoHarness
  \/ part = "frames" /\ Frames!Init /\ NoRequests /\ NoLifecycle /\ NoHarness
  \/ part = "harness" /\ Harness!Init /\ NoRequests /\ NoLifecycle /\ NoFrames

Next ==
  \/ part = "requests" /\ Requests!Next
     /\ UNCHANGED <<part, lifecycleVars, framesVars, harnessVars>>
  \/ part = "lifecycle" /\ Lifecycle!Next
     /\ UNCHANGED <<part, requestsVars, framesVars, harnessVars>>
  \/ part = "frames" /\ Frames!Next
     /\ UNCHANGED <<part, requestsVars, lifecycleVars, harnessVars>>
  \/ part = "harness" /\ Harness!Next
     /\ UNCHANGED <<part, requestsVars, lifecycleVars, framesVars>>

Spec == Init /\ [][Next]_vars
\* The threads of the callers, the main thread of the harness and a thread in
\* a write run, and time limits pass; a write into a full pipe and the closing
\* of a held one have no limit, and the server and omp owe nothing.
Fairness ==
  /\ \A c \in Calls : WF_requestsVars(part = "requests" /\ Requests!CallStep(c))
  /\ WF_harnessVars(part = "harness" /\ Harness!MainStep)
  /\ WF_harnessVars(part = "harness" /\ Harness!Written)
FairSpec == Spec /\ Fairness
-----------------------------------------------------------------------------
TypeOK ==
  /\ part = "requests" => Requests!TypeOK
  /\ part = "lifecycle" => Lifecycle!TypeOK
  /\ part = "frames" => Frames!TypeOK
  /\ part = "harness" => Harness!TypeOK

\* A call returns the answer to its own request, or an error of a request that
\* has left the table: one of its command, or one the server could not parse
\* (_deliver_correlated_error_response).
RightAnswer == part = "requests" => Requests!RightAnswer

\* The reader thread never blocks on a waiter, gives up no table entry that
\* nobody answers, and hands on only whole frames (_RpcFrameDecoder).
ReaderIsSound ==
  /\ part = "requests" => Requests!NobodyBlocks /\ Requests!TableIsWaiting
  /\ part = "frames" => Frames!FramesAreWhole

\* prompt_and_wait and collect_events return all events since they began, with
\* an end, and the end of their own prompt when no other run was around.
TurnIsRight == part = "lifecycle" => Lifecycle!TurnIsWhole /\ Lifecycle!TurnIsOwn

\* wait_for_idle reports idle only when no counted run goes on.
IdleIsTrue ==
  [][part = "lifecycle" =>
       (\A t \in Threads :
          result'[t] = "idle" /\ at[t] = "look" /\ ~lost /\ (\A s \in Threads : at[s] # "answered")
            => run \notin marked)]_vars

\* A host tool call is answered once at most, and not at all when it was
\* cancelled while its tool ran (run_tool).
AnsweredOnce == part = "harness" => Harness!AnsweredOnce

\* The harness leaves nothing of omp behind, unless a tool call begins or ends
\* while stop() walks its table.
StopsUnlessDisturbed == part = "harness" => Harness!StopsUnlessDisturbed

\* The same without the exception (_terminate_process_group).
StoppedIsTerminated == part = "harness" => Harness!StoppedIsTerminated

\* No wakeup of a waiter of the lifecycle is lost.
NoLostWakeup == part = "lifecycle" => Lifecycle!NoLostWakeup

\* No pipe of the server or of omp is stuck.
PipesFlow ==
  /\ part = "requests" => ~full
  /\ part = "harness" => ~held

\* Every request comes back and the harness ends, whatever the server and omp
\* answer or leave out, provided that from some time on no pipe is stuck: again
\* and again no request is under way, and the harness ends.
EveryWaitEnds ==
  <>[]PipesFlow =>
    []<>(/\ part = "requests" => Requests!NobodyWaits
         /\ part = "harness" => main = "ended")
=============================================================================
