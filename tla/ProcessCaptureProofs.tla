------------------------ MODULE ProcessCaptureProofs ------------------------
(***************************************************************************)
(* Proofs about ProcessCapture for every budget, pipe capacity and number  *)
(* of cancellations.                                                       *)
(***************************************************************************)
EXTENDS ProcessCapture, TLAPS

(* A step of the processes alone keeps the types of their variables.       *)
LEMMA ProcessTypes ==
  ASSUME TypeOK, ProcessStep \/ DieStep
  PROVE  TypeOK'
<1> USE DEF TypeOK, ProcTypeOK, Streams, Writers, Vanish
<1>1. ASSUME Fork, UNCHANGED loopVars PROVE TypeOK'
  BY <1>1 DEF Fork, loopVars
<1>2. ASSUME Exit \/ Die, UNCHANGED loopVars PROVE TypeOK'
  BY <1>2 DEF Exit, Die, loopVars
<1>3. ASSUME NEW s \in Streams, BeginWrite(s), UNCHANGED loopVars PROVE TypeOK'
  BY <1>3 DEF BeginWrite, loopVars
<1>4. ASSUME NEW p \in Writers, NEW s \in Streams, Close(p, s), UNCHANGED loopVars
      PROVE  TypeOK'
  BY <1>4 DEF Close, loopVars
<1> QED
  BY <1>1, <1>2, <1>3, <1>4 DEF ProcessStep, DieStep

(* What the finally block does to the tasks, whatever it is entered with.  *)
LEMMA FinallyTypes ==
  ASSUME TypeOK,
         NEW v \in Verdicts \cup {"none"}, NEW out \in [Streams -> Nat],
         NEW w \in {"unborn", "pending", "done", "cancelled"},
         EnterFinally(v, out, w)
  PROVE  /\ main' \in MainStates
         /\ verdict' \in Verdicts \cup {"none"}
         /\ returned' \in [Streams -> Nat]
         /\ reader' \in [Streams -> {"unborn", "reading", "done", "cancelled"}]
         /\ waitTask' \in {"unborn", "pending", "done", "cancelled"}
         /\ overflowTask' \in {"unborn", "pending", "done", "cancelled"}
BY DEF TypeOK, EnterFinally, MainStates

(* Every step keeps the types.                                             *)
LEMMA TypeStep ==
  ASSUME TypeOK, [Next]_vars
  PROVE  TypeOK'
<1> USE CaptureAssumption
<1>1. ASSUME NEW p \in Writers, NEW s \in Streams, WriterStep(p, s) PROVE TypeOK'
  BY <1>1 DEF WriterStep, Write, TypeOK, ProcTypeOK, Streams, Writers, taskVars,
                resultVars
<1>2. CASE ProcessStep \/ DieStep
  BY <1>2, ProcessTypes
<1>3. ASSUME NEW s \in Streams, ReadChunk(s) PROVE TypeOK'
  BY <1>3 DEF ReadChunk, Consume, TypeOK, ProcTypeOK, procVars, resultVars, taskVars
<1>4. ASSUME NEW s \in Streams, ReadEnd(s) PROVE TypeOK'
  BY <1>4 DEF ReadEnd, TypeOK, ProcTypeOK, procVars, resultVars, outputVars
<1>5. CASE WaitDone \/ OverflowSeen \/ TimerExpires
  BY <1>5 DEF WaitDone, OverflowSeen, TimerExpires, TypeOK, ProcTypeOK,
              procVars, resultVars, outputVars, taskVars
<1>6. CASE Unavailable
  BY <1>6 DEF Unavailable, TypeOK, ProcTypeOK, procVars, outputVars, taskVars,
              MainStates, Verdicts
<1>7. CASE Start
  BY <1>7 DEF Start, Spawn, TypeOK, ProcTypeOK, Streams, Writers, resultVars,
              outputVars, MainStates
<1>8. CASE DecideOverflow \/ DecideTimeout \/ DecideExited
  BY <1>8 DEF DecideOverflow, DecideTimeout, DecideExited, TypeOK, ProcTypeOK,
              procVars, resultVars, outputVars, taskVars, MainStates
<1>9. CASE KillDelivered
  BY <1>9 DEF KillDelivered, Kill, TypeOK, ProcTypeOK, resultVars, outputVars,
              taskVars, MainStates
<1>10. CASE Reaped
  <2>1. /\ kept \in [Streams -> Nat]
        /\ (IF main = "reap_overflow" THEN "output_limit" ELSE "timeout") \in Verdicts
    BY DEF TypeOK, Verdicts
  <2> QED
    BY <1>10, <2>1, FinallyTypes
    DEF Reaped, TypeOK, ProcTypeOK, procVars, outputVars
<1>11. CASE DecideLeak
  <2>1. kept \in [Streams -> Nat] /\ "process_leak" \in Verdicts
    BY DEF TypeOK, Verdicts
  <2>2. waitTask \in {"unborn", "pending", "done", "cancelled"}
    BY DEF TypeOK
  <2> QED
    BY <1>11, <2>1, <2>2, FinallyTypes
    DEF DecideLeak, TypeOK, ProcTypeOK, procVars, outputVars
<1>12. CASE Drained
  <2>1. /\ kept \in [Streams -> Nat]
        /\ (IF overflow THEN "output_limit" ELSE "captured") \in Verdicts
    BY DEF TypeOK, Verdicts
  <2>2. waitTask \in {"unborn", "pending", "done", "cancelled"}
    BY DEF TypeOK
  <2> QED
    BY <1>12, <2>1, <2>2, FinallyTypes
    DEF Drained, TypeOK, ProcTypeOK, procVars, outputVars
<1>13. CASE CleanupKill
  BY <1>13 DEF CleanupKill, Kill, TypeOK, ProcTypeOK, resultVars, outputVars,
               MainStates
<1>14. CASE Joined
  BY <1>14 DEF Joined, TypeOK, ProcTypeOK, procVars, resultVars, outputVars,
               taskVars, MainStates
<1>15. CASE Cancel
  <2>1. NoOutput \in [Streams -> Nat] /\ "raised" \in Verdicts
    BY DEF NoOutput, Verdicts
  <2>2. ASSUME NEW w \in {"unborn", "pending", "done", "cancelled"},
               EnterFinally("raised", NoOutput, w), Cancel
        PROVE  TypeOK'
    BY <2>1, <2>2, FinallyTypes
    DEF Cancel, TypeOK, ProcTypeOK, procVars, outputVars
  <2>3. CASE main \in {"wait", "drain", "kill_overflow", "kill_timeout"}
    BY <1>15, <2>2, <2>3 DEF Cancel, TypeOK
  <2>4. CASE main \in {"reap_overflow", "reap_timeout"}
    BY <1>15, <2>2, <2>4 DEF Cancel, TypeOK
  <2>5. CASE main = "cleanup_kill"
    BY <1>15, <2>5
    DEF Cancel, TypeOK, ProcTypeOK, procVars, outputVars, resultVars, taskVars,
        MainStates
  <2>6. CASE main = "join"
    BY <1>15, <2>1, <2>6
    DEF Cancel, TypeOK, ProcTypeOK, procVars, outputVars
  <2> QED
    BY <1>15, <2>3, <2>4, <2>5, <2>6 DEF Cancel
<1>16. CASE UNCHANGED vars
  BY <1>16 DEF vars, loopVars, procVars, TypeOK, ProcTypeOK
<1> QED
  BY <1>1, <1>2, <1>3, <1>4, <1>5, <1>6, <1>7, <1>8, <1>9, <1>10, <1>11,
     <1>12, <1>13, <1>14, <1>15, <1>16
  DEF Next, ReaderStep, MainStep, Terminated

(* The variables of a capture always have their types: no sequence of      *)
(* chunks, kills and cancellations spends more than the budget.            *)
THEOREM TypeCorrect == Spec => []TypeOK
<1>1. ASSUME Init PROVE TypeOK
  <2>1. holders \in [Streams -> SUBSET Writers] /\ written \in [Streams -> Nat]
    BY <1>1 DEF Init, ProcInit
  <2>2. ProcTypeOK
    BY <1>1, <2>1 DEF Init, ProcInit, ProcTypeOK
  <2>3. /\ returned \in [Streams -> Nat] /\ pipe \in [Streams -> Nat]
        /\ kept \in [Streams -> Nat]
        /\ reader \in [Streams -> {"unborn", "reading", "done", "cancelled"}]
    BY <1>1 DEF Init, NoOutput
  <2> QED
    BY <1>1, <2>2, <2>3, CaptureAssumption DEF Init, TypeOK, MainStates
<1> QED
  BY <1>1, TypeStep, PTL DEF Spec
-----------------------------------------------------------------------------
(* A reader that came to its end left nothing behind it.                   *)
ReadersAtEnd ==
  \A s \in Streams : reader[s] = "done" => pipe[s] = 0 /\ holders[s] = {}

(* Nothing is read or decided before the process is started.               *)
NotStarted ==
  main = "start" => verdict = "none" /\ \A s \in Streams : reader[s] = "unborn"

(* The verdict "captured" is given on what the readers had at their end.   *)
CapturedAtEnd ==
  verdict = "captured" => BothRead /\ ~overflow /\ returned = kept

(* The inductive invariant: CompleteOutput says nothing of the time before *)
(* the verdict, so it needs the readers, and NoSilentLoss what they read.  *)
CaptureInv ==
  TypeOK /\ NoSilentLoss /\ ReadersAtEnd /\ NotStarted /\ CapturedAtEnd

(* Only a writer and a reader touch the output and its account.            *)
LEMMA OutputUntouched ==
  ASSUME Next, ~(\E p \in Writers, s \in Streams : WriterStep(p, s)),
         ~(\E s \in Streams : ReadChunk(s))
  PROVE  UNCHANGED <<written, outputVars>>
<1>1. CASE ProcessStep \/ DieStep
  BY <1>1 DEF ProcessStep, DieStep, Fork, Exit, Die, Vanish, BeginWrite, Close,
              loopVars, outputVars
<1>2. CASE MainStep
  <2>1. CASE Unavailable \/ Start \/ KillDelivered \/ CleanupKill \/ Joined
    BY <2>1 DEF Unavailable, Start, Spawn, KillDelivered, Kill, CleanupKill,
                Joined, procVars, outputVars
  <2>2. CASE DecideOverflow \/ DecideTimeout \/ DecideExited
    BY <2>2 DEF DecideOverflow, DecideTimeout, DecideExited, procVars, outputVars
  <2>3. CASE Reaped \/ DecideLeak \/ Drained
    BY <2>3 DEF Reaped, DecideLeak, Drained, procVars, outputVars
  <2> QED
    BY <1>2, <2>1, <2>2, <2>3 DEF MainStep
<1>3. CASE Cancel
  BY <1>3 DEF Cancel, procVars, outputVars
<1>4. ASSUME NEW s \in Streams, ReadEnd(s) PROVE UNCHANGED <<written, outputVars>>
  BY <1>4 DEF ReadEnd, procVars, outputVars
<1>5. CASE WaitDone \/ OverflowSeen \/ TimerExpires \/ Terminated
  BY <1>5 DEF WaitDone, OverflowSeen, TimerExpires, Terminated, vars, loopVars,
              procVars, outputVars
<1> QED
  BY <1>1, <1>2, <1>3, <1>4, <1>5 DEF Next, ReaderStep

(* The budget is exact: a step of the system keeps the account of units    *)
(* read, units in the pipes and budget left.                               *)
LEMMA AccountStep ==
  ASSUME TypeOK, TypeOK', NoSilentLoss, [Next]_vars
  PROVE  NoSilentLoss'
<1>1. ASSUME NEW p \in Writers, NEW s \in Streams, WriterStep(p, s)
      PROVE  NoSilentLoss'
  BY <1>1 DEF WriterStep, Write, NoSilentLoss, TypeOK, ProcTypeOK, Streams
<1>2. ASSUME NEW s \in Streams, ReadChunk(s) PROVE NoSilentLoss'
  <2>1. PICK n \in 1..pipe[s] : Consume(s, n) /\ pipe' = [pipe EXCEPT ![s] = @ - n]
    BY <1>2 DEF ReadChunk
  <2> DEFINE taken == IF n <= remaining THEN n ELSE remaining
  <2>2. /\ kept' = [kept EXCEPT ![s] = @ + taken]
        /\ remaining' = remaining - taken
        /\ overflow' = (overflow \/ taken # n)
    BY <2>1 DEF Consume, FlagsOverflow
  <2>3. n \in Nat /\ taken \in Nat /\ (taken # n => taken = remaining)
    BY <2>1 DEF TypeOK
  <2>4. written' = written
    BY <1>2 DEF ReadChunk, procVars
  <2> HIDE DEF taken
  <2>5. overflow' => remaining' = 0
    BY <2>2, <2>3 DEF NoSilentLoss, TypeOK
  <2>6. ~overflow' => \A t \in Streams : kept'[t] + pipe'[t] = written'[t]
    <3> SUFFICES ASSUME ~overflow', NEW t \in Streams
                 PROVE  kept'[t] + pipe'[t] = written[t]
      BY <2>4
    <3>1. taken = n /\ kept[t] + pipe[t] = written[t]
      BY <2>2 DEF NoSilentLoss
    <3>2. n \in Nat /\ kept[t] \in Nat /\ pipe[t] \in Nat
      BY <2>3 DEF TypeOK
    <3>3. /\ kept'[t] = IF t = s THEN kept[t] + n ELSE kept[t]
          /\ pipe'[t] = IF t = s THEN pipe[t] - n ELSE pipe[t]
      BY <2>1, <2>2, <3>1 DEF TypeOK
    <3> QED
      BY <3>1, <3>2, <3>3
  <2>7. kept'["stdout"] + kept'["stderr"] + remaining' = MaxOutput
    BY <2>2, <2>3 DEF NoSilentLoss, TypeOK, Streams
  <2> QED
    BY <2>5, <2>6, <2>7 DEF NoSilentLoss
<1>3. CASE UNCHANGED <<written, outputVars>>
  BY <1>3 DEF outputVars, NoSilentLoss
<1>4. ASSUME Next, ~(\E p \in Writers, s \in Streams : WriterStep(p, s)),
             ~(\E s \in Streams : ReadChunk(s))
      PROVE  UNCHANGED <<written, outputVars>>
  BY <1>4, OutputUntouched
<1>5. CASE UNCHANGED vars
  BY <1>3, <1>5 DEF vars, loopVars, procVars, outputVars
<1> QED
  BY <1>1, <1>2, <1>3, <1>4, <1>5

(* A reader that is done stays done and finds its pipe as it left it.      *)
LEMMA ReadersAtEndStep ==
  ASSUME TypeOK, ReadersAtEnd, NotStarted, [Next]_vars
  PROVE  ReadersAtEnd'
<1> DEFINE AtEnd(s) == reader[s] = "done" => pipe[s] = 0 /\ holders[s] = {}
<1> SUFFICES ASSUME NEW s \in Streams PROVE AtEnd(s)'
  BY DEF ReadersAtEnd
<1>0. AtEnd(s)
  BY DEF ReadersAtEnd
<1>1. ASSUME NEW p \in Writers, NEW t \in Streams, WriterStep(p, t) PROVE AtEnd(s)'
  BY <1>0, <1>1 DEF WriterStep, Write, TypeOK, ProcTypeOK, taskVars
<1>2. CASE ProcessStep \/ DieStep
  <2>1. holders[s] = {} => holders'[s] = {}
    BY <1>2 DEF ProcessStep, DieStep, Fork, Exit, Die, Vanish, BeginWrite, Close,
                TypeOK, ProcTypeOK, Streams
  <2> QED
    BY <1>0, <1>2, <2>1 DEF ProcessStep, DieStep, loopVars
<1>3. ASSUME NEW t \in Streams, ReaderStep(t) PROVE AtEnd(s)'
  BY <1>0, <1>3 DEF ReaderStep, ReadChunk, ReadEnd, TypeOK, procVars, outputVars,
                    taskVars
<1>4. CASE Start
  BY <1>4 DEF Start
<1>5. ASSUME UNCHANGED <<pipe, holders>>, reader'[s] = "done" => reader[s] = "done"
      PROVE  AtEnd(s)'
  BY <1>0, <1>5
<1>6. ASSUME NEW v, NEW out, NEW w, EnterFinally(v, out, w)
      PROVE  reader'[s] = "done" => reader[s] = "done"
  BY <1>6 DEF EnterFinally
<1>7. CASE MainStep /\ ~Start
  BY <1>5, <1>6, <1>7
  DEF MainStep, Unavailable, DecideOverflow, DecideTimeout, DecideExited,
      KillDelivered, Kill, Reaped, DecideLeak, Drained, CleanupKill, Joined,
      procVars, outputVars, taskVars
<1>8. CASE Cancel
  BY <1>5, <1>6, <1>8 DEF Cancel, procVars, outputVars, taskVars
<1>9. CASE WaitDone \/ OverflowSeen \/ TimerExpires \/ UNCHANGED vars
  BY <1>5, <1>9 DEF WaitDone, OverflowSeen, TimerExpires, vars, loopVars,
                    procVars, outputVars, taskVars
<1> QED
  BY <1>1, <1>2, <1>3, <1>4, <1>7, <1>8, <1>9 DEF Next, Terminated

(* The coroutine starts once.                                              *)
LEMMA StartedForGood ==
  ASSUME main # "start", Next
  PROVE  main' # "start"
<1>1. CASE ProcessStep \/ DieStep
  BY <1>1 DEF ProcessStep, DieStep, loopVars
<1>2. ASSUME NEW p \in Writers, NEW s \in Streams,
             WriterStep(p, s) \/ ReaderStep(s)
      PROVE  main' # "start"
  BY <1>2 DEF WriterStep, ReaderStep, ReadChunk, ReadEnd
<1>3. CASE WaitDone \/ OverflowSeen \/ TimerExpires \/ Terminated
  BY <1>3 DEF WaitDone, OverflowSeen, TimerExpires, Terminated, vars, loopVars
<1>4. CASE MainStep
  BY <1>4
  DEF MainStep, Unavailable, Start, DecideOverflow, DecideTimeout, DecideExited,
      KillDelivered, Reaped, DecideLeak, Drained, CleanupKill, Joined, EnterFinally
<1>5. CASE Cancel
  BY <1>5 DEF Cancel, EnterFinally
<1> QED
  BY <1>1, <1>2, <1>3, <1>4, <1>5 DEF Next, Writers

(* The process starts with the coroutine, and it starts once.              *)
LEMMA NotStartedStep ==
  ASSUME NotStarted, [Next]_vars
  PROVE  NotStarted'
<1>1. ASSUME main # "start", Next PROVE main' # "start"
  BY <1>1, StartedForGood
<1>2. ASSUME main = "start", Next, main' = "start" PROVE UNCHANGED <<verdict, reader>>
  <2>1. CASE ProcessStep \/ DieStep
    BY <2>1 DEF ProcessStep, DieStep, loopVars
  <2>2. ASSUME NEW p \in Writers, NEW s \in Streams, WriterStep(p, s)
        PROVE  UNCHANGED <<verdict, reader>>
    BY <2>2 DEF WriterStep, taskVars, resultVars
  <2>3. ASSUME NEW s \in Streams, ReaderStep(s) PROVE FALSE
    <3>1. reader[s] = "unborn"
      BY <1>2 DEF NotStarted
    <3>2. reader[s] = "reading"
      BY <2>3 DEF ReaderStep, ReadChunk, ReadEnd
    <3> QED
      BY <3>1, <3>2
  <2>4. CASE WaitDone \/ OverflowSeen \/ TimerExpires \/ Terminated
    BY <2>4 DEF WaitDone, OverflowSeen, TimerExpires, Terminated, vars, loopVars,
                resultVars, taskVars
  <2>5. ~MainStep /\ ~Cancel
    BY <1>2
    DEF MainStep, Unavailable, Start, DecideOverflow, DecideTimeout, DecideExited,
        KillDelivered, Reaped, DecideLeak, Drained, CleanupKill, Joined, Cancel
  <2> QED
    BY <1>2, <2>1, <2>2, <2>3, <2>4, <2>5 DEF Next
<1> QED
  BY <1>1, <1>2 DEF NotStarted, vars, loopVars

(* Once given, the verdict "captured" stays true of what it was given on,  *)
(* until the caller cancels the call and it is no longer given.            *)
LEMMA CapturedAtEndStep ==
  ASSUME TypeOK, NotStarted, CapturedAtEnd, [Next]_vars
  PROVE  CapturedAtEnd'
<1>1. ASSUME UNCHANGED <<verdict, returned, kept, overflow>>, BothRead => BothRead'
      PROVE  CapturedAtEnd'
  BY <1>1 DEF CapturedAtEnd
<1>2. ASSUME verdict' # "captured" PROVE CapturedAtEnd'
  BY <1>2 DEF CapturedAtEnd
<1>3. ASSUME UNCHANGED reader PROVE BothRead => BothRead'
  BY <1>3 DEF BothRead
<1>4. ASSUME NEW p \in Writers, NEW s \in Streams, WriterStep(p, s)
      PROVE  CapturedAtEnd'
  BY <1>1, <1>3, <1>4 DEF WriterStep, taskVars, resultVars
<1>5. CASE ProcessStep \/ DieStep
  BY <1>1, <1>3, <1>5 DEF ProcessStep, DieStep, loopVars
<1>6. ASSUME NEW s \in Streams, ReadChunk(s) PROVE CapturedAtEnd'
  <2>1. ~BothRead /\ UNCHANGED verdict
    BY <1>6 DEF ReadChunk, BothRead, resultVars
  <2> QED
    BY <1>2, <2>1 DEF CapturedAtEnd
<1>7. ASSUME NEW s \in Streams, ReadEnd(s) PROVE CapturedAtEnd'
  <2>1. ~BothRead /\ UNCHANGED verdict
    BY <1>7 DEF ReadEnd, BothRead, resultVars
  <2> QED
    BY <1>2, <2>1 DEF CapturedAtEnd
<1>8. CASE WaitDone \/ OverflowSeen \/ TimerExpires \/ UNCHANGED vars
  BY <1>1, <1>3, <1>8 DEF WaitDone, OverflowSeen, TimerExpires, vars, loopVars,
                          resultVars, outputVars, taskVars
<1>9. CASE Unavailable \/ Start
  BY <1>2, <1>9 DEF Unavailable, Start, NotStarted, resultVars
<1>10. CASE DecideOverflow \/ DecideTimeout \/ DecideExited \/ KillDelivered \/ Joined
  BY <1>1, <1>3, <1>10 DEF DecideOverflow, DecideTimeout, DecideExited,
     KillDelivered, Joined, resultVars, outputVars, taskVars
<1>11. CASE Reaped \/ DecideLeak
  BY <1>2, <1>11 DEF Reaped, DecideLeak, EnterFinally
<1>12. CASE Drained
  <2>1. /\ verdict' = IF overflow THEN "output_limit" ELSE "captured"
        /\ returned' = kept
        /\ UNCHANGED <<kept, overflow>>
    BY <1>12 DEF Drained, EnterFinally, outputVars
  <2>2. BothRead'
    BY <1>12 DEF Drained, EnterFinally, BothRead, TypeOK
  <2> QED
    BY <2>1, <2>2 DEF CapturedAtEnd
<1>13. CASE CleanupKill
  <2>1. BothRead => BothRead'
    BY <1>13 DEF CleanupKill, BothRead, TypeOK
  <2> QED
    BY <1>1, <1>13, <2>1 DEF CleanupKill, resultVars, outputVars
<1>14. CASE Cancel
  BY <1>1, <1>2, <1>3, <1>14 DEF Cancel, EnterFinally, resultVars, taskVars, outputVars
<1> QED
  BY <1>4, <1>5, <1>6, <1>7, <1>8, <1>9, <1>10, <1>11, <1>12, <1>13, <1>14
  DEF Next, ReaderStep, MainStep, Terminated

(* The invariant holds in every state of every capture.                    *)
THEOREM CaptureInvariant == Spec => []CaptureInv
<1>1. Init => NoSilentLoss /\ ReadersAtEnd /\ NotStarted /\ CapturedAtEnd
  BY CaptureAssumption
  DEF Init, ProcInit, NoSilentLoss, ReadersAtEnd, NotStarted, CapturedAtEnd, Streams
<1>2. TypeOK /\ TypeOK' /\ CaptureInv /\ [Next]_vars => CaptureInv'
  BY AccountStep, ReadersAtEndStep, NotStartedStep, CapturedAtEndStep DEF CaptureInv
<1> QED
  BY <1>1, <1>2, TypeCorrect, PTL DEF Spec, CaptureInv

(* The budget accounts for every unit that was read (_OutputBudget.consume *)
(* and the two _read_bounded tasks that share it).                         *)
THEOREM NothingIsLostSilently == Spec => []NoSilentLoss
BY CaptureInvariant, PTL DEF CaptureInv

(* Output that is graded as complete is complete: with the verdict         *)
(* "captured" the caller has every unit the command and its descendants    *)
(* wrote, and none of them can write another one.                          *)
THEOREM CapturesAreComplete == Spec => []CompleteOutput
<1>1. CaptureInv => CompleteOutput
  <2> SUFFICES ASSUME CaptureInv, verdict = "captured"
               PROVE  /\ returned = written
                      /\ \A s \in Streams : pipe[s] = 0 /\ holders[s] = {}
    BY DEF CompleteOutput
  <2>1. \A s \in Streams : pipe[s] = 0 /\ holders[s] = {}
    BY DEF CaptureInv, CapturedAtEnd, ReadersAtEnd, BothRead
  <2>2. \A s \in Streams : kept[s] = written[s]
    BY <2>1 DEF CaptureInv, CapturedAtEnd, NoSilentLoss, TypeOK
  <2>3. kept = written
    BY <2>2 DEF CaptureInv, TypeOK, ProcTypeOK
  <2> QED
    BY <2>1, <2>3 DEF CaptureInv, CapturedAtEnd
<1> QED
  BY <1>1, CaptureInvariant, PTL
-----------------------------------------------------------------------------
(* The way to a verdict: what each wait of the coroutine has established   *)
(* when it ends, and what the finally block leaves behind.                 *)

AtStart ==
  main = "start" =>
    /\ child = "unborn" /\ returned = NoOutput
    /\ \A s \in Streams : reader[s] = "unborn"
    /\ waitTask = "unborn" /\ overflowTask = "unborn"

Waited ==
  /\ waitTask = "done" => child = "exited"
  /\ main \in {"wait", "kill_overflow", "kill_timeout"} => waitTask \in {"pending", "done"}
  /\ main = "drain" => waitTask = "done"
  /\ main \in {"reap_overflow", "reap_timeout"} => killed
  /\ main = "join" => waitTask = "done" \/ killed

Dropped ==
  /\ \A s \in Streams : kept[s] + pipe[s] <= written[s]
  /\ overflow =>
       kept["stdout"] + kept["stderr"] < written["stdout"] + written["stderr"]

Overflowed ==
  /\ overflowTask = "done" => overflow
  /\ main \in {"kill_overflow", "reap_overflow"} => overflow

TasksStopped ==
  /\ main \in {"cleanup_kill", "join", "returned"} => overflowTask # "pending"
  /\ main = "cleanup_kill" => cancels >= 1
  /\ main = "join" => \A s \in Streams : reader[s] # "reading"

Decided ==
  /\ main = "cleanup_kill" => verdict = "raised" /\ returned = NoOutput
  /\ main = "join" => /\ verdict \in Verdicts \ {"unavailable"}
                      /\ Contract!Justified(verdict, returned)

(* Every step but the start leaves the processes further on: an exit, a    *)
(* kill and the end of a stream are for good, and output only grows.       *)
LEMMA ProcessesMoveOn ==
  ASSUME TypeOK, main # "start", [Next]_vars
  PROVE  /\ child = "exited" => child' = "exited"
         /\ child = "unborn" => child' = "unborn"
         /\ killed => killed'
         /\ \A s \in Streams :
              /\ written[s] \in Nat /\ written'[s] \in Nat /\ written[s] <= written'[s]
              /\ holders[s] = {} => holders'[s] = {} /\ written'[s] = written[s]
<1>0. \A s \in Streams : written[s] \in Nat
  BY DEF TypeOK, ProcTypeOK
<1>1. CASE UNCHANGED procVars
  BY <1>0, <1>1 DEF procVars
<1>2. ASSUME NEW p \in Writers, NEW t \in Streams, WriterStep(p, t)
      PROVE  /\ child = "exited" => child' = "exited"
             /\ child = "unborn" => child' = "unborn"
             /\ killed' = killed /\ holders' = holders
             /\ \A s \in Streams :
                  /\ written'[s] \in Nat /\ written[s] <= written'[s]
                  /\ holders[s] = {} => written'[s] = written[s]
  <2>1. /\ p \in holders[t] /\ killed' = killed /\ holders' = holders
        /\ written' = [written EXCEPT ![t] = @ + 1]
        /\ child = t \/ UNCHANGED child
    BY <1>2 DEF WriterStep, Write
  <2>2. \A s \in Streams : written'[s] = IF s = t THEN written[s] + 1 ELSE written[s]
    BY <2>1 DEF TypeOK, ProcTypeOK
  <2>3. child = t => child # "exited" /\ child # "unborn"
    BY DEF Streams
  <2> QED
    BY <1>0, <2>1, <2>2, <2>3
<1>3. CASE ProcessStep \/ DieStep
  <2>1. child = "exited" => child' = "exited"
    BY <1>3 DEF ProcessStep, DieStep, Fork, Exit, Die, Vanish, BeginWrite, Close
  <2>2. child = "unborn" => child' = "unborn"
    BY <1>3 DEF ProcessStep, DieStep, Fork, Exit, Die, Vanish, BeginWrite, Close, Streams
  <2>3. UNCHANGED <<written, killed>>
    BY <1>3 DEF ProcessStep, DieStep, Fork, Exit, Die, Vanish, BeginWrite, Close
  <2>4. \A s \in Streams : holders[s] = {} => holders'[s] = {}
    BY <1>3 DEF ProcessStep, DieStep, Fork, Exit, Die, Vanish, BeginWrite, Close,
                TypeOK, ProcTypeOK, Streams
  <2> QED
    BY <1>0, <2>1, <2>2, <2>3, <2>4
<1>4. ASSUME NEW s \in Streams, ReaderStep(s) PROVE UNCHANGED procVars
  BY <1>4 DEF ReaderStep, ReadChunk, ReadEnd
<1>5. CASE WaitDone \/ OverflowSeen \/ TimerExpires \/ Cancel \/ Terminated \/ UNCHANGED vars
  BY <1>1, <1>5 DEF WaitDone, OverflowSeen, TimerExpires, Cancel, Terminated, vars
<1>6. CASE KillDelivered \/ CleanupKill
  BY <1>0, <1>6 DEF KillDelivered, CleanupKill, Kill
<1>7. CASE Unavailable \/ DecideOverflow \/ DecideTimeout \/ DecideExited
           \/ Reaped \/ DecideLeak \/ Drained \/ Joined
  BY <1>1, <1>7 DEF Unavailable, DecideOverflow, DecideTimeout, DecideExited,
                    Reaped, DecideLeak, Drained, Joined
<1>8. ~Start
  BY DEF Start
<1> QED
  BY <1>0, <1>1, <1>2, <1>3, <1>4, <1>5, <1>6, <1>7, <1>8 DEF Next, MainStep

(* What a verdict says of the process stays true, so that it does not      *)
(* matter how long the finally block takes to join its tasks.              *)
LEMMA VerdictsStayRight ==
  ASSUME TypeOK, main # "start", [Next]_vars, UNCHANGED resultVars,
         verdict # "unavailable", Contract!Justified(verdict, returned)
  PROVE  Contract!Justified(verdict, returned)'
<1> USE DEF Contract!Justified, Contract!Streams, Contract!NoOutput, resultVars
<1>1. CASE verdict = "captured"
  <2>1. written' = written
    BY <1>1, TypeStep, ProcessesMoveOn DEF TypeOK, ProcTypeOK, Streams
  <2> QED
    BY <1>1, <2>1, ProcessesMoveOn DEF Streams
<1>2. CASE verdict = "output_limit"
  <2>1. "stdout" \in Streams /\ "stderr" \in Streams
    BY DEF Streams
  <2> QED
    BY <1>2, <2>1, ProcessesMoveOn, CaptureAssumption
<1>3. CASE verdict = "timeout" \/ verdict = "process_leak"
  <2>1. \A s \in Streams : returned[s] <= written'[s]
    <3> SUFFICES ASSUME NEW s \in Streams PROVE returned[s] <= written'[s]
      OBVIOUS
    <3>1. returned[s] \in Nat /\ returned[s] <= written[s]
      BY <1>3 DEF TypeOK, Streams
    <3> QED
      BY <3>1, ProcessesMoveOn
  <2> QED
    BY <1>3, <2>1, ProcessesMoveOn DEF Streams
<1>4. CASE verdict = "raised"
  BY <1>4
<1> QED
  BY <1>1, <1>2, <1>3, <1>4

(* Units are only lost to an exhausted budget, and lost units were written.*)
LEMMA DroppedStep ==
  ASSUME TypeOK, TypeOK', NoSilentLoss, Dropped, [Next]_vars
  PROVE  Dropped'
<1>0. "stdout" \in Streams /\ "stderr" \in Streams /\ "stdout" # "stderr"
  BY DEF Streams
<1>1. ASSUME NEW p \in Writers, NEW s \in Streams, WriterStep(p, s) PROVE Dropped'
  BY <1>1 DEF WriterStep, Write, Dropped, TypeOK, ProcTypeOK, Streams
<1>2. ASSUME NEW s \in Streams, ReadChunk(s) PROVE Dropped'
  <2>1. PICK n \in 1..pipe[s] : Consume(s, n) /\ pipe' = [pipe EXCEPT ![s] = @ - n]
    BY <1>2 DEF ReadChunk
  <2> DEFINE taken == IF n <= remaining THEN n ELSE remaining
  <2>2. /\ kept' = [kept EXCEPT ![s] = @ + taken]
        /\ overflow' = (overflow \/ taken # n)
        /\ written' = written
    BY <1>2, <2>1 DEF ReadChunk, Consume, FlagsOverflow, procVars
  <2>3. n \in Nat /\ taken \in Nat /\ taken <= n /\ n <= pipe[s]
    BY <2>1 DEF TypeOK
  <2> HIDE DEF taken
  <2>4. \A t \in Streams :
          /\ kept'[t] = IF t = s THEN kept[t] + taken ELSE kept[t]
          /\ pipe'[t] = IF t = s THEN pipe[t] - n ELSE pipe[t]
    BY <2>1, <2>2 DEF TypeOK
  <2>5. \A t \in Streams : kept[t] \in Nat /\ pipe[t] \in Nat /\ written[t] \in Nat
    BY DEF TypeOK, ProcTypeOK
  <2>6. \A t \in Streams : kept'[t] + pipe'[t] <= written'[t]
    BY <2>2, <2>3, <2>4, <2>5 DEF Dropped
  <2>7. ASSUME overflow'
        PROVE  kept'["stdout"] + kept'["stderr"] < written'["stdout"] + written'["stderr"]
    <3>1. CASE taken # n
      <4>1. kept'[s] < written[s]
        BY <2>2, <2>3, <2>4, <2>5, <3>1 DEF Dropped
      <4>2. \A t \in Streams : kept'[t] <= written[t] /\ kept'[t] \in Nat
        BY <2>2, <2>3, <2>4, <2>5, <2>6
      <4>3. s = "stdout" \/ s = "stderr"
        BY DEF Streams
      <4> QED
        BY <1>0, <2>2, <2>5, <4>1, <4>2, <4>3
    <3>2. CASE taken = n /\ overflow
      \* The flag was raised before, and then nothing was left to take from.
      BY <2>1, <3>2 DEF taken, NoSilentLoss, TypeOK
    <3> QED
      BY <2>2, <2>7, <3>1, <3>2
  <2> QED
    BY <2>6, <2>7 DEF Dropped
<1>3. CASE UNCHANGED <<written, outputVars>>
  BY <1>3 DEF outputVars, Dropped
<1>4. ASSUME Next, ~(\E p \in Writers, s \in Streams : WriterStep(p, s)),
             ~(\E s \in Streams : ReadChunk(s))
      PROVE  UNCHANGED <<written, outputVars>>
  BY <1>4, OutputUntouched
<1>5. CASE UNCHANGED vars
  BY <1>3, <1>5 DEF vars, loopVars, procVars, outputVars
<1> QED
  BY <1>1, <1>2, <1>3, <1>4, <1>5

DecisionInv == AtStart /\ Waited /\ Dropped /\ Overflowed /\ TasksStopped /\ Decided

(* Before the start there is nothing that a step could change.             *)
LEMMA AtStartStep ==
  ASSUME AtStart, [Next]_vars
  PROVE  AtStart'
<1>1. ASSUME main # "start", Next PROVE main' # "start"
  BY <1>1, StartedForGood
<1>2. ASSUME main = "start", Next, main' = "start"
      PROVE  UNCHANGED <<child, returned, taskVars>>
  <2>1. CASE ProcessStep \/ DieStep
    BY <1>2, <2>1 DEF ProcessStep, DieStep, loopVars, taskVars, AtStart, Fork, Exit, Die,
                      BeginWrite, Close, Streams
  <2>2. ASSUME NEW p \in Writers, NEW s \in Streams, WriterStep(p, s)
        PROVE  UNCHANGED <<child, returned, taskVars>>
    BY <1>2, <2>2 DEF WriterStep, Write, resultVars, AtStart, Streams
  <2>3. ASSUME NEW s \in Streams, ReaderStep(s) PROVE FALSE
    BY <1>2, <2>3 DEF ReaderStep, ReadChunk, ReadEnd, AtStart
  <2>4. ~WaitDone /\ ~OverflowSeen
    BY <1>2 DEF WaitDone, OverflowSeen, AtStart
  <2>5. CASE TimerExpires \/ Terminated
    BY <2>5 DEF TimerExpires, Terminated, vars, loopVars, procVars, resultVars, taskVars
  <2>6. ~MainStep /\ ~Cancel
    BY <1>2
    DEF MainStep, Unavailable, Start, DecideOverflow, DecideTimeout, DecideExited,
        KillDelivered, Reaped, DecideLeak, Drained, CleanupKill, Joined, Cancel
  <2> QED
    BY <1>2, <2>1, <2>2, <2>3, <2>4, <2>5, <2>6 DEF Next
<1> QED
  BY <1>1, <1>2 DEF AtStart, vars, loopVars, procVars, taskVars

(* A wait that ended tells of an exit, and the finally block is entered    *)
(* with an exit or a kill.                                                 *)
LEMMA WaitedStep ==
  ASSUME TypeOK, AtStart, Waited, [Next]_vars
  PROVE  Waited'
<1>1. CASE main = "start"
  <2>1. CASE main' = "start"
    BY <2>1, AtStartStep DEF AtStart, Waited
  <2>2. CASE main' # "start"
    <3>1. ~DecideOverflow /\ ~DecideTimeout /\ ~DecideExited /\ ~KillDelivered
          /\ ~Reaped /\ ~DecideLeak /\ ~Drained /\ ~CleanupKill /\ ~Joined /\ ~Cancel
      BY <1>1 DEF DecideOverflow, DecideTimeout, DecideExited, KillDelivered, Reaped,
                  DecideLeak, Drained, CleanupKill, Joined, Cancel
    <3>2. ~ProcessStep /\ ~DieStep /\ ~WaitDone /\ ~OverflowSeen /\ ~TimerExpires
          /\ ~Terminated /\ ~UNCHANGED vars
      BY <1>1, <2>2 DEF ProcessStep, DieStep, WaitDone, OverflowSeen, TimerExpires,
                        Terminated, vars, loopVars
    <3>3. ASSUME NEW p \in Writers, NEW s \in Streams PROVE ~WriterStep(p, s) /\ ~ReaderStep(s)
      BY <1>1, <2>2 DEF WriterStep, ReaderStep, ReadChunk, ReadEnd
    <3>4. Unavailable \/ Start
      BY <3>1, <3>2, <3>3 DEF Next, MainStep, Writers
    <3> QED
      BY <1>1, <3>4 DEF Unavailable, Start, AtStart, Waited, taskVars
  <2> QED
    BY <2>1, <2>2
<1>2. CASE main # "start"
  <2> USE DEF Waited
  <2>0. /\ child = "exited" => child' = "exited"
        /\ killed => killed'
    BY <1>2, ProcessesMoveOn
  <2>1. ASSUME UNCHANGED <<main, waitTask>> PROVE Waited'
    BY <2>0, <2>1
  <2>2. ASSUME NEW p \in Writers, NEW s \in Streams, WriterStep(p, s) PROVE Waited'
    BY <2>1, <2>2 DEF WriterStep, taskVars
  <2>3. CASE ProcessStep \/ DieStep
    BY <2>1, <2>3 DEF ProcessStep, DieStep, loopVars
  <2>4. ASSUME NEW s \in Streams, ReaderStep(s) PROVE Waited'
    BY <2>1, <2>4 DEF ReaderStep, ReadChunk, ReadEnd, taskVars
  <2>5. CASE WaitDone
    BY <2>0, <2>5 DEF WaitDone, procVars
  <2>6. CASE OverflowSeen \/ TimerExpires \/ Terminated \/ UNCHANGED vars
    BY <2>1, <2>6 DEF OverflowSeen, TimerExpires, Terminated, vars, loopVars, taskVars
  <2>7. CASE DecideOverflow \/ DecideTimeout \/ DecideExited \/ Joined
    BY <2>0, <2>7 DEF DecideOverflow, DecideTimeout, DecideExited, Joined, taskVars
  <2>8. CASE KillDelivered \/ CleanupKill
    BY <2>0, <2>8 DEF KillDelivered, CleanupKill, Kill, taskVars
  <2>9. CASE Reaped \/ DecideLeak \/ Drained
    BY <2>0, <2>9 DEF Reaped, DecideLeak, Drained, EnterFinally
  <2>10. CASE Cancel
    <3>1. CASE main \in {"wait", "drain", "kill_overflow", "kill_timeout"}
      <4>1. /\ UNCHANGED <<waitTask, child>>
            /\ main' = IF waitTask = "pending" THEN "cleanup_kill" ELSE "join"
        BY <2>10, <3>1 DEF Cancel, EnterFinally, procVars
      <4> QED
        BY <2>0, <3>1, <4>1
    <3>2. CASE main \in {"reap_overflow", "reap_timeout"}
      BY <2>0, <2>10, <3>2 DEF Cancel, EnterFinally
    <3>3. CASE main \in {"cleanup_kill", "join"}
      BY <2>0, <2>10, <3>3 DEF Cancel, taskVars
    <3> QED
      BY <2>10, <3>1, <3>2, <3>3 DEF Cancel
  <2>11. ~Unavailable /\ ~Start
    BY <1>2 DEF Unavailable, Start
  <2> QED
    BY <2>2, <2>3, <2>4, <2>5, <2>6, <2>7, <2>8, <2>9, <2>10, <2>11 DEF Next, MainStep
<1> QED
  BY <1>1, <1>2

(* Outside the coroutine and the cancellations of its caller nothing is    *)
(* decided, and a task only comes to its end.                              *)
LEMMA OthersDecideNothing ==
  ASSUME TypeOK, Next, ~MainStep, ~Cancel
  PROVE  /\ UNCHANGED <<main, verdict, returned, cancels>>
         /\ overflowTask' \in {overflowTask, "done"} /\ waitTask' \in {waitTask, "done"}
         /\ \A s \in Streams : reader'[s] \in {reader[s], "done"}
<1>1. ASSUME NEW p \in Writers, NEW s \in Streams, WriterStep(p, s)
      PROVE  UNCHANGED <<main, cancels, taskVars, resultVars>>
  BY <1>1 DEF WriterStep
<1>2. CASE ProcessStep \/ DieStep
  BY <1>2 DEF ProcessStep, DieStep, loopVars
<1>3. ASSUME NEW s \in Streams, ReadChunk(s)
      PROVE  UNCHANGED <<main, cancels, taskVars, resultVars>>
  BY <1>3 DEF ReadChunk
<1>4. ASSUME NEW s \in Streams, ReadEnd(s)
      PROVE  /\ UNCHANGED <<main, cancels, waitTask, overflowTask, resultVars>>
             /\ \A t \in Streams : reader'[t] \in {reader[t], "done"}
  BY <1>4 DEF ReadEnd, TypeOK
<1>5. CASE WaitDone
  BY <1>5 DEF WaitDone, resultVars
<1>6. CASE OverflowSeen
  BY <1>6 DEF OverflowSeen, resultVars
<1>7. CASE TimerExpires \/ Terminated
  BY <1>7 DEF TimerExpires, Terminated, vars, loopVars, resultVars, taskVars
<1> QED
  BY <1>1, <1>2, <1>3, <1>4, <1>5, <1>6, <1>7 DEF Next, ReaderStep, resultVars, taskVars

(* The overflow that ends a capture is the one the budget saw.             *)
LEMMA OverflowedStep ==
  ASSUME TypeOK, AtStart, Overflowed, [Next]_vars
  PROVE  Overflowed'
<1>1. ASSUME Next PROVE overflow => overflow'
  <2>1. ASSUME NEW p \in Writers, NEW s \in Streams, WriterStep(p, s)
        PROVE  overflow => overflow'
    BY <2>1 DEF WriterStep
  <2>2. ASSUME NEW s \in Streams, ReadChunk(s) PROVE overflow => overflow'
    BY <2>2 DEF ReadChunk, Consume
  <2> QED
    BY <1>1, <2>1, <2>2, OutputUntouched DEF outputVars
<1>2. CASE OverflowSeen
  BY <1>2 DEF OverflowSeen, Overflowed, outputVars
<1>3. ASSUME Next, ~OverflowSeen, ~MainStep, ~Cancel PROVE UNCHANGED <<main, overflowTask>>
  <2>1. UNCHANGED main
    BY <1>3, OthersDecideNothing
  <2>2. ASSUME NEW p \in Writers, NEW s \in Streams, WriterStep(p, s) \/ ReaderStep(s)
        PROVE  UNCHANGED overflowTask
    BY <2>2 DEF WriterStep, ReaderStep, ReadChunk, ReadEnd, taskVars
  <2>3. CASE ProcessStep \/ DieStep \/ WaitDone \/ TimerExpires \/ Terminated
    BY <2>3 DEF ProcessStep, DieStep, WaitDone, TimerExpires, Terminated, vars, loopVars,
                taskVars
  <2> QED
    BY <1>3, <2>1, <2>2, <2>3 DEF Next, Writers
<1>4. CASE Unavailable \/ Start \/ DecideOverflow \/ DecideTimeout \/ DecideExited
           \/ KillDelivered \/ CleanupKill \/ Joined
  BY <1>4 DEF Unavailable, Start, DecideOverflow, DecideTimeout, DecideExited, KillDelivered,
              CleanupKill, Joined, Overflowed, taskVars, outputVars
<1>5. CASE Reaped \/ DecideLeak \/ Drained
  BY <1>5 DEF Reaped, DecideLeak, Drained, EnterFinally, Overflowed, outputVars
<1>6. CASE Cancel
  BY <1>6 DEF Cancel, EnterFinally, Overflowed, taskVars, outputVars
<1>7. CASE UNCHANGED vars
  BY <1>7 DEF vars, loopVars, Overflowed
<1> QED
  BY <1>1, <1>2, <1>3, <1>4, <1>5, <1>6, <1>7 DEF MainStep, Overflowed

(* The finally block ends the helper tasks, and it is cut short only by a  *)
(* second cancellation.                                                    *)
LEMMA TasksStoppedStep ==
  ASSUME TypeOK, AtStart, Waited, TasksStopped, [Next]_vars
  PROVE  TasksStopped'
<1> USE DEF TasksStopped
<1>1. CASE Next /\ ~MainStep /\ ~Cancel
  BY <1>1, OthersDecideNothing
<1>2. CASE Unavailable
  BY <1>2 DEF Unavailable, AtStart, taskVars
<1>3. CASE Start \/ DecideOverflow \/ DecideTimeout \/ DecideExited
  BY <1>3 DEF Start, DecideOverflow, DecideTimeout, DecideExited
<1>4. CASE KillDelivered \/ Joined
  BY <1>4 DEF KillDelivered, Joined, taskVars
<1>5. CASE CleanupKill
  BY <1>5 DEF CleanupKill
<1>6. CASE Reaped
  BY <1>6 DEF Reaped, EnterFinally
<1>7. CASE DecideLeak \/ Drained
  <2>1. waitTask = "done"
    BY <1>7 DEF DecideLeak, Drained, Waited
  <2> QED
    BY <1>7, <2>1 DEF DecideLeak, Drained, EnterFinally
<1>8. CASE Cancel
  <2>1. cancels' >= 1
    BY <1>8 DEF Cancel, TypeOK
  <2> QED
    BY <1>8, <2>1 DEF Cancel, EnterFinally, taskVars
<1>9. CASE UNCHANGED vars
  BY <1>9 DEF vars, loopVars
<1> QED
  BY <1>1, <1>2, <1>3, <1>4, <1>5, <1>6, <1>7, <1>8, <1>9 DEF MainStep

(* A verdict is right for the process as it is when it is given, and it is *)
(* still right when the tasks are joined.                                  *)
LEMMA DecidedStep ==
  ASSUME CaptureInv, AtStart, Waited, Dropped, Overflowed, Decided, [Next]_vars
  PROVE  Decided'
<1> USE DEF Contract!Justified
<1>a. Contract!Streams = Streams /\ Contract!NoOutput = NoOutput
  BY DEF Contract!Streams, Contract!NoOutput, Streams, NoOutput
<1>0. TypeOK /\ kept \in [Streams -> Nat] /\ written \in [Streams -> Nat]
      /\ \A s \in Streams : kept[s] \in Nat /\ pipe[s] \in Nat /\ written[s] \in Nat
  BY DEF CaptureInv, TypeOK, ProcTypeOK
<1>1. \A s \in Streams : kept[s] <= written[s]
  BY <1>0 DEF Dropped
<1>2. overflow => /\ kept["stdout"] + kept["stderr"] = MaxOutput
                  /\ written["stdout"] + written["stderr"] > MaxOutput
  <2>1. "stdout" \in Streams /\ "stderr" \in Streams
    BY DEF Streams
  <2>2. overflow => kept["stdout"] + kept["stderr"] = MaxOutput
    BY <1>0, <2>1 DEF CaptureInv, NoSilentLoss
  <2> QED
    BY <1>0, <2>1, <2>2, CaptureAssumption DEF Dropped
<1>3. ASSUME verdict' = "raised", returned' = NoOutput PROVE Decided'
  BY <1>3, <1>a DEF Decided, Verdicts
<1>4. CASE Next /\ ~MainStep /\ ~Cancel
  <2>1. UNCHANGED <<main, verdict, returned>>
    BY <1>0, <1>4, OthersDecideNothing
  <2>2. main = "join" => Contract!Justified(verdict, returned)'
    BY <1>0, <1>4, <2>1, VerdictsStayRight DEF Decided, resultVars
  <2> QED
    BY <2>1, <2>2 DEF Decided
<1>5. CASE Unavailable \/ Start \/ DecideOverflow \/ DecideTimeout \/ DecideExited
           \/ KillDelivered \/ Joined
  BY <1>5 DEF Unavailable, Start, DecideOverflow, DecideTimeout, DecideExited,
              KillDelivered, Joined, Decided
<1>6. CASE CleanupKill
  BY <1>3, <1>6 DEF CleanupKill, resultVars, Decided
<1>7. CASE Reaped
  <2>1. /\ child = "exited" /\ killed /\ UNCHANGED procVars
        /\ verdict' = IF main = "reap_overflow" THEN "output_limit" ELSE "timeout"
        /\ returned' = kept /\ main' = "join"
        /\ main = "reap_overflow" => overflow
    BY <1>7 DEF Reaped, EnterFinally, Waited, Overflowed
  <2>2. CASE main = "reap_overflow"
    BY <1>2, <2>1, <2>2 DEF Decided, Verdicts, procVars
  <2>3. CASE main # "reap_overflow"
    BY <1>1, <1>a, <2>1, <2>3 DEF Decided, Verdicts, procVars
  <2> QED
    BY <2>2, <2>3
<1>8. CASE DecideLeak
  <2>1. child = "exited" /\ waitTask = "done"
    BY <1>8 DEF DecideLeak, Waited
  <2>2. /\ UNCHANGED procVars /\ verdict' = "process_leak"
        /\ returned' = kept /\ main' = "join"
    BY <1>8, <2>1 DEF DecideLeak, EnterFinally
  <2> QED
    BY <1>1, <1>a, <2>1, <2>2 DEF Decided, Verdicts, procVars
<1>9. CASE Drained
  <2>1. child = "exited" /\ waitTask = "done"
    BY <1>9 DEF Drained, Waited
  <2>2. /\ UNCHANGED procVars /\ returned' = kept /\ main' = "join"
        /\ verdict' = IF overflow THEN "output_limit" ELSE "captured"
    BY <1>9, <2>1 DEF Drained, EnterFinally
  <2>3. CASE overflow
    BY <1>2, <2>1, <2>2, <2>3 DEF Decided, Verdicts, procVars
  <2>4. CASE ~overflow
    <3>1. \A s \in Streams : pipe[s] = 0 /\ holders[s] = {}
      BY <1>9 DEF Drained, BothRead, CaptureInv, ReadersAtEnd
    <3>2. \A s \in Streams : kept[s] = written[s]
      BY <1>0, <2>4, <3>1 DEF CaptureInv, NoSilentLoss
    <3>3. kept = written
      BY <1>0, <3>2
    <3> QED
      BY <1>a, <2>1, <2>2, <2>4, <3>1, <3>3 DEF Decided, Verdicts, procVars
  <2> QED
    BY <2>3, <2>4
<1>10. CASE Cancel
  <2>1. CASE main = "cleanup_kill"
    BY <1>10, <2>1 DEF Cancel, Decided
  <2>2. CASE main # "cleanup_kill"
    BY <1>3, <1>10, <2>2 DEF Cancel, EnterFinally
  <2> QED
    BY <2>1, <2>2
<1>11. CASE UNCHANGED vars
  BY <1>11 DEF vars, loopVars, procVars, Decided
<1> QED
  BY <1>4, <1>5, <1>6, <1>7, <1>8, <1>9, <1>10, <1>11 DEF MainStep

(* Both invariants hold in every state of every capture.                   *)
THEOREM DecisionInvariant == Spec => [](CaptureInv /\ DecisionInv)
<1>1. Init => DecisionInv
  BY DEF Init, ProcInit, DecisionInv, AtStart, Waited, Dropped, Overflowed, TasksStopped,
         Decided, Streams
<1>2. CaptureInv /\ CaptureInv' /\ DecisionInv /\ [Next]_vars => DecisionInv'
  BY AtStartStep, WaitedStep, DroppedStep, OverflowedStep, TasksStoppedStep, DecidedStep
  DEF DecisionInv, CaptureInv
<1> QED
  BY <1>1, <1>2, CaptureInvariant, PTL DEF Spec

(* Nothing comes back once the call is over.                               *)
LEMMA OutlivesStep ==
  ASSUME TypeOK, DecisionInv, NothingOutlivesCall, [Next]_vars
  PROVE  NothingOutlivesCall'
<1> USE DEF DecisionInv, NothingOutlivesCall, TypeOK
<1>1. ASSUME main' # "returned" PROVE NothingOutlivesCall'
  BY <1>1
<1>2. CASE main = "returned"
  <2>1. ~MainStep /\ ~Cancel
    BY <1>2
    DEF MainStep, Unavailable, Start, DecideOverflow, DecideTimeout, DecideExited,
        KillDelivered, Reaped, DecideLeak, Drained, CleanupKill, Joined, Cancel
  <2>2. CASE Next
    BY <1>2, <2>1, <2>2, OthersDecideNothing, ProcessesMoveOn
  <2>3. CASE UNCHANGED vars
    BY <2>3 DEF vars, loopVars, procVars
  <2> QED
    BY <2>2, <2>3
<1>3. CASE main # "returned"
  <2>1. CASE Unavailable
    BY <2>1 DEF Unavailable, AtStart, taskVars, procVars
  <2>2. CASE Joined
    <3>1. \A s \in Streams : reader'[s] # "reading"
      BY <2>2 DEF Joined, TasksStopped, taskVars
    <3>2. waitTask' # "pending" /\ overflowTask' # "pending"
      BY <2>2 DEF Joined, TasksStopped, taskVars
    <3>3. child' = "exited" \/ killed'
      BY <2>2 DEF Joined, Waited, procVars
    <3> QED
      BY <3>1, <3>2, <3>3
  <2>3. CASE Cancel
    <3>1. CASE main = "cleanup_kill"
      <4>1. cancels' > 1
        BY <2>3, <3>1 DEF Cancel, TasksStopped
      <4> QED
        BY <2>3, <4>1 DEF Cancel
    <3>2. CASE main # "cleanup_kill"
      BY <1>1, <1>3, <2>3, <3>2 DEF Cancel, EnterFinally
    <3> QED
      BY <3>1, <3>2
  <2>4. CASE Start \/ DecideOverflow \/ DecideTimeout \/ DecideExited
             \/ KillDelivered \/ Reaped \/ DecideLeak \/ Drained \/ CleanupKill
    BY <1>1, <2>4 DEF Start, DecideOverflow, DecideTimeout, DecideExited, KillDelivered,
                      Reaped, DecideLeak, Drained, CleanupKill, EnterFinally
  <2>5. CASE Next /\ ~MainStep /\ ~Cancel
    BY <1>1, <1>3, <2>5, OthersDecideNothing
  <2>6. CASE UNCHANGED vars
    BY <1>1, <1>3, <2>6 DEF vars, loopVars
  <2> QED
    BY <2>1, <2>2, <2>3, <2>4, <2>5, <2>6 DEF MainStep
<1> QED
  BY <1>2, <1>3

(* When a call is over that its caller cancelled at most once, it left no  *)
(* task behind, and its process has ended or was sent a kill: the finally  *)
(* block of _capture_process runs to its end.                              *)
THEOREM NothingIsLeftBehind == Spec => []NothingOutlivesCall
<1>1. Init => NothingOutlivesCall
  BY DEF Init, NothingOutlivesCall
<1> QED
  BY <1>1, OutlivesStep, DecisionInvariant, TypeCorrect, PTL DEF Spec
-----------------------------------------------------------------------------
(* The refinement of CaptureContract.                                      *)

(* Each step is one of the contract or changes nothing that it speaks of:  *)
(* the verdict becomes known when the coroutine returns.                   *)
LEMMA ContractStep ==
  ASSUME CaptureInv, DecisionInv, [Next]_vars
  PROVE  [Contract!ContractNext]_(Contract!contractVars)
<1> DEFINE toldVerdict == IF main = "returned" THEN verdict ELSE "none"
           toldOutput == IF main = "returned" THEN returned ELSE NoOutput
           told == <<toldVerdict, toldOutput>>
<1>a. Contract!Streams = Streams /\ Contract!Writers = Writers
      /\ Contract!NoOutput = NoOutput /\ Contract!Verdicts = Verdicts
  BY DEF Contract!Streams, Contract!Writers, Contract!NoOutput, Contract!Verdicts, Streams,
         Writers, NoOutput, Verdicts
<1>b. TypeOK
  BY DEF CaptureInv
<1>1. ASSUME UNCHANGED procVars, UNCHANGED told PROVE UNCHANGED Contract!contractVars
  BY <1>1 DEF procVars, Contract!contractVars, Contract!procVars
<1>2. ASSUME Contract!Environment, UNCHANGED told PROVE Contract!ContractNext
  BY <1>2 DEF Contract!ContractNext
<1>3. ASSUME main # "returned", main' # "returned" PROVE UNCHANGED told
  BY <1>3
<1>4. ASSUME UNCHANGED <<main, verdict, returned>> PROVE UNCHANGED told
  BY <1>4
<1>5. ASSUME main # "returned", main' = "returned", UNCHANGED procVars,
             verdict' \in Verdicts, Contract!Justified(verdict', returned')
      PROVE  Contract!Finish
  BY <1>5, <1>a DEF Contract!Finish, procVars, Contract!procVars
<1>6. ASSUME NEW p \in Writers, NEW s \in Streams, WriterStep(p, s)
      PROVE  Contract!ContractNext
  <2>1. Contract!Write(p, s)
    BY <1>6 DEF WriterStep, Write, Contract!Write
  <2>2. UNCHANGED told
    BY <1>4, <1>6 DEF WriterStep, resultVars
  <2> QED
    BY <1>2, <1>a, <2>1, <2>2 DEF Contract!Environment
<1>7. CASE ProcessStep \/ DieStep
  <2>1. UNCHANGED told
    BY <1>4, <1>7 DEF ProcessStep, DieStep, loopVars
  <2>2. ASSUME Fork PROVE Contract!Fork
    BY <1>a, <2>2 DEF Fork, Contract!Fork
  <2>3. ASSUME Exit \/ Die PROVE Contract!Exit \/ Contract!Die
    BY <1>a, <2>3 DEF Exit, Die, Vanish, Contract!Exit, Contract!Die, Contract!Vanish
  <2>4. ASSUME NEW s \in Streams, BeginWrite(s) PROVE Contract!BeginWrite(s)
    BY <2>4 DEF BeginWrite, Contract!BeginWrite
  <2>5. ASSUME NEW p \in Writers, NEW s \in Streams, Close(p, s) PROVE Contract!Close(p, s)
    BY <2>5 DEF Close, Contract!Close
  <2> QED
    BY <1>2, <1>7, <1>a, <2>1, <2>2, <2>3, <2>4, <2>5
    DEF ProcessStep, DieStep, Contract!Environment
<1>8. ASSUME NEW s \in Streams, ReaderStep(s) PROVE UNCHANGED Contract!contractVars
  BY <1>1, <1>4, <1>8 DEF ReaderStep, ReadChunk, ReadEnd, resultVars
<1>9. CASE WaitDone \/ OverflowSeen \/ TimerExpires \/ Terminated \/ UNCHANGED vars
  BY <1>1, <1>4, <1>9 DEF WaitDone, OverflowSeen, TimerExpires, Terminated, vars, loopVars,
                          resultVars
<1>10. CASE Start
  <2>1. Contract!Spawn
    BY <1>10, <1>a DEF Start, Spawn, Contract!Spawn
  <2>2. UNCHANGED told
    BY <1>3, <1>10 DEF Start
  <2> QED
    BY <1>2, <2>1, <2>2 DEF Contract!Environment
<1>11. CASE KillDelivered \/ CleanupKill
  <2>1. Contract!Kill
    BY <1>11 DEF KillDelivered, CleanupKill, Kill, Contract!Kill
  <2>2. UNCHANGED told
    BY <1>3, <1>11 DEF KillDelivered, CleanupKill
  <2> QED
    BY <1>2, <2>1, <2>2 DEF Contract!Environment
<1>12. CASE Unavailable
  <2>1. /\ main # "returned" /\ main' = "returned" /\ UNCHANGED procVars
        /\ verdict' \in {"unavailable", "raised"}
        /\ child = "unborn" /\ returned' = NoOutput
    BY <1>12 DEF Unavailable, DecisionInv, AtStart
  <2>2. verdict' \in Verdicts /\ Contract!Justified(verdict', returned')
    BY <1>a, <2>1 DEF Contract!Justified, Verdicts
  <2> QED
    BY <1>5, <2>1, <2>2 DEF Contract!ContractNext
<1>13. CASE Joined
  <2>1. /\ main # "returned" /\ main' = "returned" /\ UNCHANGED procVars
        /\ UNCHANGED <<verdict, returned>>
    BY <1>13 DEF Joined, resultVars
  <2>2. verdict \in Verdicts /\ Contract!Justified(verdict, returned)
    BY <1>13 DEF Joined, DecisionInv, Decided
  <2>3. Contract!Justified(verdict', returned')
    BY <2>1, <2>2
  <2> QED
    BY <1>5, <2>1, <2>2, <2>3 DEF Contract!ContractNext
<1>14. CASE Cancel
  <2>1. CASE main = "cleanup_kill"
    <3>1. /\ main' = "returned" /\ UNCHANGED procVars
          /\ verdict' = "raised" /\ returned' = NoOutput
      BY <1>14, <2>1 DEF Cancel, resultVars, DecisionInv, Decided
    <3>2. verdict' \in Verdicts /\ Contract!Justified(verdict', returned')
      BY <1>a, <3>1 DEF Contract!Justified, Verdicts
    <3> QED
      BY <1>5, <2>1, <3>1, <3>2 DEF Contract!ContractNext
  <2>2. CASE main # "cleanup_kill"
    BY <1>1, <1>3, <1>14, <2>2 DEF Cancel, EnterFinally
  <2> QED
    BY <2>1, <2>2
<1>15. CASE DecideOverflow \/ DecideTimeout \/ DecideExited
            \/ Reaped \/ DecideLeak \/ Drained
  BY <1>1, <1>3, <1>15 DEF DecideOverflow, DecideTimeout, DecideExited, Reaped, DecideLeak,
                           Drained, EnterFinally
<1> QED
  BY <1>6, <1>7, <1>8, <1>9, <1>10, <1>11, <1>12, <1>13, <1>14, <1>15 DEF Next, MainStep

(* _capture_process keeps its contract: every verdict it returns is one    *)
(* that the process and its output justify when the caller gets it, and    *)
(* it is given once.                                                       *)
THEOREM CaptureKeepsContract == Spec => ImplementsContract
<1>1. Init => Contract!ContractInit
  BY DEF Init, ProcInit, NoOutput, Streams, Contract!ContractInit, Contract!ProcInit,
         Contract!NoOutput, Contract!Streams
<1> QED
  BY <1>1, ContractStep, DecisionInvariant, PTL DEF Spec, ImplementsContract,
     Contract!ContractSpec
=============================================================================
