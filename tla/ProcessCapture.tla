--------------------------- MODULE ProcessCapture ---------------------------
(***************************************************************************)
(* _capture_process of environment.py: one asyncio coroutine ("main"), two *)
(* reader tasks that share one output budget, a task on process.wait() and *)
(* a task on the overflow event.  Every action is one uninterrupted run of *)
(* the event loop between two awaits; the operating system (module         *)
(* CandidateProcess) moves in between.  The two asyncio.wait timeouts are  *)
(* one timer that may expire at any moment while it is armed.              *)
(***************************************************************************)
EXTENDS CandidateProcess

CONSTANTS
  MaxOutput,      \* MAX_COMMAND_OUTPUT_BYTES in units
  PipeCapacity,   \* units a pipe holds before its writer blocks
  MaxCancels      \* bound: how often the caller's scope is cancelled

ASSUME CaptureAssumption ==
  /\ MaxOutput \in Nat
  /\ PipeCapacity \in Nat \ {0}
  /\ MaxCancels \in Nat

VARIABLES
  main,           \* where the coroutine is suspended
  verdict,        \* the value it is about to return, "none" before it decides
  returned,       \* the output decoded into that value
  pipe,           \* pipe[s]: units written but not read
  kept,           \* kept[s]: units in the bytearray of stream s
  remaining,      \* _OutputBudget.remaining_bytes
  overflow,       \* _OutputBudget.overflow
  reader,         \* reader[s]: the state of the task that drains stream s
  waitTask,       \* the task on process.wait()
  overflowTask,   \* the task on overflow.wait()
  timer,          \* the timeout of the asyncio.wait in progress
  cancels         \* cancellations delivered so far

loopVars == <<main, verdict, returned, pipe, kept, remaining, overflow, reader,
              waitTask, overflowTask, timer, cancels>>
vars == <<procVars, loopVars>>
outputVars == <<pipe, kept, remaining, overflow>>
taskVars == <<reader, waitTask, overflowTask>>
resultVars == <<verdict, returned>>

MainStates == {"start", "wait", "kill_overflow", "kill_timeout",
               "reap_overflow", "reap_timeout", "drain", "cleanup_kill",
               "join", "returned"}
Verdicts == {"captured", "output_limit", "timeout", "process_leak",
             "unavailable", "raised"}
NoOutput == [s \in Streams |-> 0]

TypeOK ==
  /\ ProcTypeOK
  /\ main \in MainStates
  /\ verdict \in Verdicts \cup {"none"}
  /\ returned \in [Streams -> Nat]
  /\ pipe \in [Streams -> Nat]
  /\ kept \in [Streams -> Nat]
  /\ remaining \in Nat
  /\ overflow \in BOOLEAN
  /\ reader \in [Streams -> {"unborn", "reading", "done", "cancelled"}]
  /\ waitTask \in {"unborn", "pending", "done", "cancelled"}
  /\ overflowTask \in {"unborn", "pending", "done", "cancelled"}
  /\ timer \in {"off", "armed", "expired"}
  /\ cancels \in Nat

Init ==
  /\ ProcInit
  /\ main = "start"
  /\ verdict = "none"
  /\ returned = NoOutput
  /\ pipe = [s \in Streams |-> 0]
  /\ kept = [s \in Streams |-> 0]
  /\ remaining = MaxOutput
  /\ overflow = FALSE
  /\ reader = [s \in Streams |-> "unborn"]
  /\ waitTask = "unborn"
  /\ overflowTask = "unborn"
  /\ timer = "off"
  /\ cancels = 0
-----------------------------------------------------------------------------
(* The processes.                                                          *)

WriterStep(p, s) ==
  /\ pipe[s] < PipeCapacity
  /\ Write(p, s)
  /\ pipe' = [pipe EXCEPT ![s] = @ + 1]
  /\ UNCHANGED <<main, kept, remaining, overflow, timer, cancels, taskVars,
                 resultVars>>

ProcessStep ==
  /\ \/ Fork \/ Exit
     \/ \E s \in Streams : BeginWrite(s)
     \/ \E p \in Writers, s \in Streams : Close(p, s)
  /\ UNCHANGED loopVars

DieStep == Die /\ UNCHANGED loopVars
-----------------------------------------------------------------------------
(* The helper tasks.                                                       *)

\* Mutant: the overflow flag is raised only when nothing of the chunk fits.
FlagsOverflowLate(taken, n) == n > 0 /\ taken = 0

FlagsOverflow(taken, n) == taken # n

\* Mutant: the chunk is kept whole although it exceeds the budget.
ConsumeWhole(s, n) ==
  /\ kept' = [kept EXCEPT ![s] = @ + n]
  /\ remaining' = remaining - n
  /\ overflow' = (overflow \/ n > remaining)

\* _OutputBudget.consume for a chunk of n units of stream s.
Consume(s, n) ==
  LET taken == IF n <= remaining THEN n ELSE remaining
  IN  /\ kept' = [kept EXCEPT ![s] = @ + taken]
      /\ remaining' = remaining - taken
      /\ overflow' = (overflow \/ FlagsOverflow(taken, n))

\* Mutant: the streams are read one after the other instead of side by side.
ReadSequentially(s) ==
  /\ reader[s] = "reading"
  /\ s = "stderr" => reader["stdout"] = "done"
  /\ \E n \in 1..pipe[s] :
       /\ Consume(s, n)
       /\ pipe' = [pipe EXCEPT ![s] = @ - n]
  /\ UNCHANGED <<procVars, main, timer, cancels, taskVars, resultVars>>

\* _read_bounded takes one chunk; it reads on after the budget is spent.
ReadChunk(s) ==
  /\ reader[s] = "reading"
  /\ \E n \in 1..pipe[s] :
       /\ Consume(s, n)
       /\ pipe' = [pipe EXCEPT ![s] = @ - n]
  /\ UNCHANGED <<procVars, main, timer, cancels, taskVars, resultVars>>

\* End of file: no process holds the write end and the pipe is empty.
ReadEnd(s) ==
  /\ reader[s] = "reading"
  /\ pipe[s] = 0 /\ holders[s] = {}
  /\ reader' = [reader EXCEPT ![s] = "done"]
  /\ UNCHANGED <<procVars, main, waitTask, overflowTask, timer, cancels,
                 outputVars, resultVars>>

ReaderStep(s) == ReadChunk(s) \/ ReadEnd(s)

WaitDone ==
  /\ waitTask = "pending"
  /\ child = "exited"
  /\ waitTask' = "done"
  /\ UNCHANGED <<procVars, main, reader, overflowTask, timer, cancels,
                 outputVars, resultVars>>

OverflowSeen ==
  /\ overflowTask = "pending"
  /\ overflow
  /\ overflowTask' = "done"
  /\ UNCHANGED <<procVars, main, reader, waitTask, timer, cancels, outputVars,
                 resultVars>>

TimerExpires ==
  /\ timer = "armed"
  /\ timer' = "expired"
  /\ UNCHANGED <<procVars, main, cancels, outputVars, taskVars, resultVars>>
-----------------------------------------------------------------------------
(* The coroutine.                                                          *)

\* The runtime cannot hold a live process, or open_process raises: nothing was
\* started that this call could stop.
Unavailable ==
  /\ main = "start"
  /\ main' = "returned"
  /\ verdict' \in {"unavailable", "raised"}
  /\ UNCHANGED <<procVars, returned, timer, cancels, outputVars, taskVars>>

Start ==
  /\ main = "start"
  /\ Spawn
  /\ main' = "wait"
  /\ reader' = [s \in Streams |-> "reading"]
  /\ waitTask' = "pending"
  /\ overflowTask' = "pending"
  /\ timer' = "armed"
  /\ UNCHANGED <<cancels, outputVars, resultVars>>

\* Mutant: a finally block that stops nothing before it joins the tasks.
LeaveRunning(v, out, waited) ==
  /\ verdict' = v
  /\ returned' = out
  /\ overflowTask' = "cancelled"
  /\ waitTask' = waited
  /\ main' = "join"
  /\ UNCHANGED reader

\* The return statement, or the exception, up to the next await: the finally
\* block cancels the overflow task, kills a process that was not waited for
\* and then cancels the readers that have not finished.
EnterFinally(v, out, waited) ==
  /\ verdict' = v
  /\ returned' = out
  /\ overflowTask' = IF overflowTask = "done" THEN "done" ELSE "cancelled"
  /\ waitTask' = waited
  /\ IF waited = "pending"
     THEN main' = "cleanup_kill" /\ UNCHANGED reader
     ELSE /\ main' = "join"
          /\ reader' = [s \in Streams |->
                          IF reader[s] = "done" THEN "done" ELSE "cancelled"]

\* asyncio.wait woke up; what is done is looked at when the coroutine runs.
DecideOverflow ==
  /\ main = "wait"
  /\ overflowTask = "done"
  /\ main' = "kill_overflow"
  /\ timer' = "off"
  /\ UNCHANGED <<procVars, cancels, outputVars, taskVars, resultVars>>

DecideTimeout ==
  /\ main = "wait"
  /\ timer = "expired"
  /\ overflowTask # "done" /\ waitTask # "done"
  /\ main' = "kill_timeout"
  /\ timer' = "off"
  /\ UNCHANGED <<procVars, cancels, outputVars, taskVars, resultVars>>

DecideExited ==
  /\ main = "wait"
  /\ overflowTask # "done" /\ waitTask = "done"
  /\ main' = "drain"
  /\ timer' = "armed"
  /\ UNCHANGED <<procVars, cancels, outputVars, taskVars, resultVars>>

KillDelivered ==
  /\ main \in {"kill_overflow", "kill_timeout"}
  /\ Kill
  /\ main' = IF main = "kill_overflow" THEN "reap_overflow" ELSE "reap_timeout"
  /\ UNCHANGED <<timer, cancels, outputVars, taskVars, resultVars>>

\* Mutant: the killed process is not waited for before the verdict.
ReapedWithoutWait ==
  /\ main \in {"reap_overflow", "reap_timeout"}
  /\ EnterFinally(IF main = "reap_overflow" THEN "output_limit" ELSE "timeout",
                  kept, "done")
  /\ UNCHANGED <<procVars, timer, cancels, outputVars>>

Reaped ==
  /\ main \in {"reap_overflow", "reap_timeout"}
  /\ waitTask = "done"
  /\ EnterFinally(IF main = "reap_overflow" THEN "output_limit" ELSE "timeout",
                  kept, "done")
  /\ UNCHANGED <<procVars, timer, cancels, outputVars>>

BothRead == \A s \in Streams : reader[s] = "done"

\* Mutant: the readers are awaited without the drain limit.
LeakIgnored == FALSE /\ UNCHANGED vars

\* The drain time is over and a pipe is still open.
DecideLeak ==
  /\ main = "drain"
  /\ timer = "expired" /\ ~BothRead
  /\ EnterFinally("process_leak", kept, waitTask)
  /\ timer' = "off"
  /\ UNCHANGED <<procVars, cancels, outputVars>>

\* Mutant: the exit status alone makes a capture, as if a drained pipe could
\* not have spent the budget.
DrainedUnchecked ==
  /\ main = "drain"
  /\ BothRead
  /\ EnterFinally("captured", kept, waitTask)
  /\ timer' = "off"
  /\ UNCHANGED <<procVars, cancels, outputVars>>

\* Both readers reached the end: the budget decides.
Drained ==
  /\ main = "drain"
  /\ BothRead
  /\ EnterFinally(IF overflow THEN "output_limit" ELSE "captured", kept, waitTask)
  /\ timer' = "off"
  /\ UNCHANGED <<procVars, cancels, outputVars>>

CleanupKill ==
  /\ main = "cleanup_kill"
  /\ Kill
  /\ main' = "join"
  /\ reader' = [s \in Streams |->
                  IF reader[s] = "done" THEN "done" ELSE "cancelled"]
  /\ UNCHANGED <<waitTask, overflowTask, timer, cancels, outputVars,
                 resultVars>>

\* The gather of the finally block: every task has come to an end.
Joined ==
  /\ main = "join"
  /\ waitTask # "pending"
  /\ main' = "returned"
  /\ UNCHANGED <<procVars, timer, cancels, outputVars, taskVars, resultVars>>

\* The caller's scope (asyncio.timeout of the scoring limit, the end of the
\* rollout) cancels the coroutine where it is suspended.  Awaiting a task
\* directly, or through gather, cancels the task too; asyncio.wait does not.
Cancel ==
  /\ cancels < MaxCancels
  /\ cancels' = cancels + 1
  /\ \/ /\ main \in {"wait", "drain", "kill_overflow", "kill_timeout"}
        /\ EnterFinally("raised", NoOutput, waitTask)
     \/ /\ main \in {"reap_overflow", "reap_timeout"}
        /\ EnterFinally("raised", NoOutput,
                        IF waitTask = "done" THEN "done" ELSE "cancelled")
     \/ /\ main = "cleanup_kill"       \* the finally block itself is cut short
        /\ main' = "returned"
        /\ UNCHANGED <<taskVars, resultVars>>
     \/ /\ main = "join"
        /\ verdict' = "raised"
        /\ returned' = NoOutput
        /\ waitTask' = IF waitTask = "done" THEN "done" ELSE "cancelled"
        /\ UNCHANGED <<main, reader, overflowTask>>
  /\ timer' = "off"
  /\ UNCHANGED <<procVars, outputVars>>

MainStep ==
  \/ Unavailable \/ Start
  \/ DecideOverflow \/ DecideTimeout \/ DecideExited
  \/ KillDelivered \/ Reaped
  \/ DecideLeak \/ Drained
  \/ CleanupKill \/ Joined

\* The call is over and so is everything it started.
Terminated ==
  /\ main = "returned"
  /\ UNCHANGED vars

Next ==
  \/ \E p \in Writers, s \in Streams : WriterStep(p, s)
  \/ ProcessStep \/ DieStep
  \/ \E s \in Streams : ReaderStep(s)
  \/ WaitDone \/ OverflowSeen \/ TimerExpires
  \/ MainStep \/ Cancel
  \/ Terminated

Spec == Init /\ [][Next]_vars

\* The event loop runs every task that is ready, time passes, and a killed
\* process dies.  Nothing is asked of the command: it may write, sleep or
\* keep its pipes open for ever.
Fairness ==
  /\ WF_vars(MainStep)
  /\ \A s \in Streams : WF_vars(ReaderStep(s))
  /\ WF_vars(WaitDone)
  /\ WF_vars(OverflowSeen)
  /\ WF_vars(TimerExpires)
  /\ WF_vars(DieStep)

FairSpec == Spec /\ Fairness

\* The same loop with a limit so generous that the timer need never expire.
PatientSpec ==
  /\ Spec
  /\ WF_vars(MainStep)
  /\ \A s \in Streams : WF_vars(ReaderStep(s)) /\ WF_vars(WriterStep("child", s))
  /\ WF_vars(WaitDone)
  /\ WF_vars(OverflowSeen)
  /\ WF_vars(DieStep)
-----------------------------------------------------------------------------
(* Properties.                                                             *)

\* The budget accounts for every unit that was read: as long as the overflow
\* flag is down each stream is kept in full, and the flag is raised only when
\* the budget shared by the two readers is spent.
NoSilentLoss ==
  /\ overflow => remaining = 0
  /\ ~overflow => \A s \in Streams : kept[s] + pipe[s] = written[s]
  /\ kept["stdout"] + kept["stderr"] + remaining = MaxOutput

\* A capture that is reported as complete holds all the command ever wrote:
\* no truncation, no unit still in a pipe, no writer left.
CompleteOutput ==
  verdict = "captured" =>
    /\ returned = written
    /\ \A s \in Streams : pipe[s] = 0 /\ holders[s] = {}

\* When the call is over, cancelled at most once, no task of it is left and
\* its process has ended or been sent a kill.
NothingOutlivesCall ==
  main = "returned" /\ cancels <= 1 =>
    /\ \A s \in Streams : reader[s] # "reading"
    /\ waitTask # "pending" /\ overflowTask # "pending"
    /\ child \in {"unborn", "exited"} \/ killed

\* Each verdict is one the contract allows for the process as it is when the
\* caller gets it.
Contract == INSTANCE CaptureContract
  WITH verdict  <- IF main = "returned" THEN verdict ELSE "none",
       returned <- IF main = "returned" THEN returned ELSE NoOutput

ImplementsContract == Contract!ContractSpec

\* Whatever the command does (write for ever, sleep, leave a descendant on
\* the pipes), the call ends.
EveryCaptureEnds == <>(main = "returned")

\* A command blocked on a full pipe gets on without help of the time limit:
\* both pipes are drained side by side, whichever it writes to.
NoPipeDeadlock == \A s \in Streams : child = s ~> child # s
=============================================================================
