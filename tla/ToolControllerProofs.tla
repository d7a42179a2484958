------------------------ MODULE ToolControllerProofs ------------------------
(***************************************************************************)
(* Proofs about ToolController for any set of calls, files and contents    *)
(* and any budget of run_tests: one handler at a time has the runtime,     *)
(* verdicts belong to what was collected, commands that live on were       *)
(* reported, snapshots are whole and the budget is kept.                   *)
(***************************************************************************)
EXTENDS ToolController, SequenceTheorems, FiniteSetTheorems, TLAPS

(* The part of TypeOK that the arguments below need.                       *)
Typed ==
  /\ op \in [Calls -> Ops \cup {None}]
  /\ phase \in [Calls -> Phases]
  /\ request \in Ops \cup {Reap, None}
  /\ workspace \in Artifacts
  /\ collected \in [Calls -> [Files -> Contents \cup {None}]]
  /\ result \in [Calls -> Results \cup {None}]
  /\ cache \in [Artifacts -> Results \cup {None}]

(* What a tool run, finished or interrupted, may leave is a workspace.     *)
LEMMA ToolKeepsFiles ==
  ASSUME Typed, request \in Ops \cup {Reap}
  PROVE  Interrupted(request) \subseteq Artifacts /\ Applied(request) \in Artifacts
<1>1. request \in Ops \/ request = Reap
  OBVIOUS
<1>2. request.kind \in {"write", "edit"} => request.file \in Files /\ request.content \in Contents
  BY <1>1 DEF Ops, Reap
<1>3. Applied(request) \in Artifacts
  BY <1>2 DEF Applied, Typed, Artifacts
<1>4. Applied(request) # workspace => request.file \in Files
  BY <1>2 DEF Applied
<1>5. Applied(request) # workspace => [workspace EXCEPT ![request.file] = Torn] \in Artifacts
  BY <1>4, ControllerAssumption DEF Typed, Artifacts
<1> QED
  BY <1>3, <1>5 DEF Interrupted, Typed

(* Collected to the last file is an artifact, the key of the cache.        *)
LEMMA CompleteIsArtifact ==
  ASSUME Typed, NEW c \in Calls, Complete(collected[c])
  PROVE  collected[c] \in Artifacts
<1>1. collected[c] \in [Files -> Contents \cup {None}]
  BY DEF Typed
<1>2. \A f \in Files : collected[c][f] \in Contents
  BY <1>1 DEF Complete
<1> QED
  BY <1>1, <1>2 DEF Artifacts

-----------------------------------------------------------------------------
(* The handler that is past the lock is the one that holds it.             *)
HoldersHold == \A c \in Calls : phase[c] \in HoldingPhases => holder = c

(* A call that came has an operation.                                      *)
Parsed == \A c \in Calls : phase[c] # "idle" => op[c] \in Ops

(* A verification runs only for content that has no verdict yet, and the   *)
(* verdict of an answered call is the one in the cache.                    *)
VerdictsCached ==
  \A c \in Calls :
    /\ phase[c] = "verifying" => Complete(collected[c]) /\ cache[collected[c]] = None
    /\ result[c] # None =>
         /\ phase[c] = "done"
         /\ Complete(collected[c]) /\ cache[collected[c]] = result[c]

ControllerInv == Typed /\ Parsed /\ HoldersHold /\ RequestIntact /\ VerdictsCached

(* The phases in which a call has the runtime are phases.                  *)
LEMMA PhaseSets ==
  /\ HoldingPhases \subseteq Phases
  /\ "done" \in Phases \ HoldingPhases /\ "waiting" \in Phases \ HoldingPhases
BY DEF Phases, HoldingPhases, ToolPhases

(* Every step keeps those types.                                           *)
LEMMA TypedStep ==
  ASSUME Typed, Parsed, RequestIntact, [Next]_vars
  PROVE  Typed'
<1> USE DEF runtimeVars, execVars, testVars, endVars
<1>1. ASSUME NEW c \in Calls, Arrive(c) PROVE Typed'
  BY <1>1, PhaseSets DEF Arrive, Typed
<1>2. ASSUME NEW c \in Calls, DispatchTool(c) \/ DispatchInvalid(c) \/ DispatchTests(c)
      PROVE  Typed'
  BY <1>2 DEF DispatchTool, DispatchInvalid, DispatchTests, Finish, Typed, Phases,
              HoldingPhases, ToolPhases
<1>3. ASSUME NEW c \in Calls, Stage(c) \/ StageFails(c) PROVE Typed'
  <2>1. RequestOf(c) \in Ops \cup {Reap, None}
    BY DEF RequestOf, Typed
  <2> QED
    BY <1>3, <2>1 DEF Stage, StageFails, Finish, Typed, Phases, HoldingPhases, ToolPhases
<1>4. ASSUME NEW c \in Calls, RunTool(c) PROVE Typed'
  <2>1. workspace' \in Artifacts
    BY <1>4, ToolKeepsFiles DEF RunTool, Typed
  <2> QED
    BY <1>4, <2>1 DEF RunTool, Typed, Phases, HoldingPhases, ToolPhases
<1>5. ASSUME NEW c \in Calls, RemoveRequest(c) \/ EndCommand(c) \/ CommandRaises(c) \/ TestsFail(c)
      PROVE  Typed'
  BY <1>5 DEF RemoveRequest, EndCommand, CommandRaises, TestsFail, Finish, Typed, Phases,
              HoldingPhases, ToolPhases
<1>6. ASSUME NEW c \in Calls, NEW f \in Files, CollectFile(c, f) PROVE Typed'
  <2>1. workspace[f] \in Contents \cup {None}
    BY DEF Typed, Artifacts
  <2> QED
    BY <1>6, <2>1 DEF CollectFile, Typed
<1>7. ASSUME NEW c \in Calls, LookUp(c) PROVE Typed'
  <2>1. cache[collected[c]] \in Results \cup {None}
    BY <1>7, CompleteIsArtifact DEF LookUp, Typed
  <2> QED
    BY <1>7, <2>1 DEF LookUp, Finish, Typed, Phases, HoldingPhases, ToolPhases
<1>8. ASSUME NEW c \in Calls, Verified(c) PROVE Typed'
  BY <1>8, PhaseSets DEF Verified, Finish, Typed
<1>9. ASSUME NEW c \in Calls, CancelHandler(c) PROVE Typed'
  <2>1. workspace' \in Artifacts
    <3>1. CASE phase[c] = "staged"
      <4>1. request \in Ops \cup {Reap}
        BY <3>1 DEF RequestIntact, RequestOf, Parsed
      <4> QED
        BY <1>9, <3>1, <4>1, ToolKeepsFiles DEF CancelHandler
    <3>2. CASE phase[c] # "staged"
      BY <1>9, <3>2 DEF CancelHandler, Typed
    <3> QED
      BY <3>1, <3>2
  <2>2. request' \in Ops \cup {Reap, None}
    BY <1>9 DEF CancelHandler, RequestOf, Typed
  <2> QED
    BY <1>9, <2>1, <2>2, PhaseSets DEF CancelHandler, Typed
<1>10. ASSUME NEW f \in Files, NEW v \in Contents, CommandWrites(f, v) PROVE Typed'
  BY <1>10 DEF CommandWrites, Typed, Artifacts
<1>11. CASE CloseRoute \/ RouteClosed \/ FinalizeFails \/ Finalized \/ UNCHANGED vars
  BY <1>11 DEF CloseRoute, RouteClosed, FinalizeFails, Finalized, vars, Typed
<1>12. ASSUME NEW f \in Files, CollectGraded(f) PROVE Typed'
  BY <1>12 DEF CollectGraded, Typed
<1> QED
  BY <1>1, <1>2, <1>3, <1>4, <1>5, <1>6, <1>7, <1>8, <1>9, <1>10, <1>11, <1>12
  DEF Next, Handle

(* Every step keeps it: an operation is parsed once, before its call       *)
(* waits.                                                                  *)
LEMMA ParsedStep ==
  ASSUME Typed, Parsed, [Next]_vars
  PROVE  Parsed'
<1> USE DEF runtimeVars, execVars, testVars, endVars
<1>1. ASSUME NEW c \in Calls, Arrive(c) PROVE Parsed'
  BY <1>1 DEF Arrive, Parsed, Typed
<1>2. ASSUME NEW c \in Calls,
             Handle(c) \/ CancelHandler(c)
      PROVE  op' = op /\ \A d \in Calls : phase[d] = "idle" => phase'[d] = "idle"
  BY <1>2 DEF Handle, CancelHandler, DispatchTool, DispatchInvalid, DispatchTests,
              Acquire, Stage, StageFails, RunTool, RemoveRequest, EndCommand,
              CommandRaises, CollectFile, LookUp, TestsFail, Verified, Finish, Typed, HoldingPhases, ToolPhases
<1>3. ASSUME \/ \E f \in Files, v \in Contents : CommandWrites(f, v)
             \/ CloseRoute \/ RouteClosed \/ FinalizeFails \/ Finalized \/ UNCHANGED vars
             \/ \E f \in Files : CollectGraded(f)
      PROVE  UNCHANGED <<op, phase>>
  BY <1>3 DEF CommandWrites, CloseRoute, RouteClosed, FinalizeFails, Finalized, vars, CollectGraded
<1> QED
  BY <1>1, <1>2, <1>3 DEF Next, Parsed

(* Only a call that finds the lock free goes past it.                      *)
LEMMA HoldersHoldStep ==
  ASSUME Typed, HoldersHold, [Next]_vars
  PROVE  HoldersHold'
<1> USE DEF runtimeVars, execVars, testVars, endVars, HoldingPhases, ToolPhases
<1>1. ASSUME NEW c \in Calls, DispatchTool(c) \/ DispatchInvalid(c) \/ DispatchTests(c)
      PROVE  HoldersHold'
  <2>1. \A d \in Calls : phase[d] \notin HoldingPhases
    BY <1>1, ControllerAssumption
    DEF DispatchTool, DispatchInvalid, DispatchTests, Acquire, HoldersHold
  <2> QED
    BY <1>1, <2>1 DEF DispatchTool, DispatchInvalid, DispatchTests, Finish, HoldersHold,
                      Typed
<1>2. ASSUME NEW c \in Calls, Arrive(c) \/ Stage(c) \/ RunTool(c) \/ EndCommand(c)
      PROVE  HoldersHold'
  BY <1>2 DEF Arrive, Stage, RunTool, EndCommand, HoldersHold, Typed
<1>3. ASSUME NEW c \in Calls,
             \/ StageFails(c) \/ RemoveRequest(c) \/ CommandRaises(c)
             \/ TestsFail(c) \/ Verified(c) \/ LookUp(c)
      PROVE  HoldersHold'
  BY <1>3 DEF StageFails, RemoveRequest, CommandRaises, TestsFail, Verified, LookUp, Finish, HoldersHold, Typed
<1>4. ASSUME NEW c \in Calls, CancelHandler(c) PROVE HoldersHold'
  BY <1>4 DEF CancelHandler, HoldersHold, Typed
<1>5. ASSUME \/ \E c \in Calls, f \in Files : CollectFile(c, f)
             \/ \E f \in Files, v \in Contents : CommandWrites(f, v)
             \/ CloseRoute \/ RouteClosed \/ FinalizeFails \/ Finalized \/ UNCHANGED vars
             \/ \E f \in Files : CollectGraded(f)
      PROVE  HoldersHold'
  BY <1>5 DEF CollectFile, CommandWrites, CloseRoute, RouteClosed, FinalizeFails, Finalized, vars,
              CollectGraded, HoldersHold
<1> QED
  BY <1>1, <1>2, <1>3, <1>4, <1>5 DEF Next, Handle

(* The request file changes hands only with the lock: a call that writes or *)
(* removes it is the only one past the lock.                               *)
LEMMA RequestIntactStep ==
  ASSUME Typed, Parsed, HoldersHold, RequestIntact, [Next]_vars
  PROVE  RequestIntact'
<1> USE DEF runtimeVars, execVars, testVars, endVars, HoldingPhases, ToolPhases
<1>1. ASSUME NEW c \in Calls, Arrive(c) PROVE RequestIntact'
  BY <1>1 DEF Arrive, RequestIntact, RequestOf, Typed
<1>2. ASSUME NEW c \in Calls, DispatchTool(c) \/ DispatchInvalid(c) \/ DispatchTests(c)
      PROVE  RequestIntact'
  BY <1>2 DEF DispatchTool, DispatchInvalid, DispatchTests, Finish, RequestIntact,
              RequestOf, Typed
<1>3. ASSUME NEW c \in Calls, Stage(c) PROVE RequestIntact'
  <2>1. \A d \in Calls : phase[d] = "staged" => d = c
    BY <1>3 DEF Stage, HoldersHold
  <2> QED
    BY <1>3, <2>1 DEF Stage, RequestIntact, RequestOf, Typed
<1>4. ASSUME NEW c \in Calls, StageFails(c) \/ RemoveRequest(c) PROVE RequestIntact'
  <2>1. \A d \in Calls : phase[d] = "staged" => d = c
    BY <1>4 DEF StageFails, RemoveRequest, HoldersHold
  <2> QED
    BY <1>4, <2>1 DEF StageFails, RemoveRequest, Finish, RequestIntact, Typed
<1>5. ASSUME NEW c \in Calls,
             \/ RunTool(c) \/ EndCommand(c) \/ CommandRaises(c)
             \/ LookUp(c) \/ TestsFail(c) \/ Verified(c)
      PROVE  RequestIntact'
  BY <1>5 DEF RunTool, EndCommand, CommandRaises, LookUp, TestsFail, Verified, Finish, RequestIntact,
              RequestOf, Typed
<1>6. ASSUME NEW c \in Calls, CancelHandler(c) PROVE RequestIntact'
  <2>1. CASE phase[c] \in {"staging", "staged", "ran"}
    <3>1. \A d \in Calls : phase[d] = "staged" => d = c
      BY <2>1 DEF HoldersHold
    <3> QED
      BY <1>6, <3>1 DEF CancelHandler, RequestIntact, Typed
  <2>2. CASE phase[c] \notin {"staging", "staged", "ran"}
    BY <1>6, <2>2 DEF CancelHandler, RequestIntact, RequestOf, Typed
  <2> QED
    BY <2>1, <2>2
<1>7. ASSUME \/ \E c \in Calls, f \in Files : CollectFile(c, f)
             \/ \E f \in Files, v \in Contents : CommandWrites(f, v)
             \/ CloseRoute \/ RouteClosed \/ FinalizeFails \/ Finalized \/ UNCHANGED vars
             \/ \E f \in Files : CollectGraded(f)
      PROVE  RequestIntact'
  BY <1>7 DEF CollectFile, CommandWrites, CloseRoute, RouteClosed, FinalizeFails, Finalized, vars,
              CollectGraded, RequestIntact, RequestOf
<1> QED
  BY <1>1, <1>2, <1>3, <1>4, <1>5, <1>6, <1>7 DEF Next, Handle

(* A verdict is put in the cache once: its content had none, the verifying *)
(* call is alone past the lock, and what it collected does not change.     *)
LEMMA VerdictsCachedStep ==
  ASSUME Typed, HoldersHold, VerdictsCached, [Next]_vars
  PROVE  VerdictsCached'
<1> USE DEF runtimeVars, execVars, testVars, endVars, HoldingPhases, ToolPhases
<1>1. ASSUME NEW c \in Calls,
             \/ Arrive(c) \/ DispatchTool(c) \/ DispatchInvalid(c) \/ DispatchTests(c)
             \/ Stage(c) \/ StageFails(c) \/ RunTool(c) \/ RemoveRequest(c)
             \/ EndCommand(c) \/ CommandRaises(c) \/ TestsFail(c) \/ CancelHandler(c)
      PROVE  VerdictsCached'
  <2>1. UNCHANGED <<collected, result, cache>>
    BY <1>1 DEF Arrive, DispatchTool, DispatchInvalid, DispatchTests, Stage, StageFails,
                RunTool, RemoveRequest, EndCommand, CommandRaises, TestsFail,
                CancelHandler
  <2>2. \A d \in Calls : /\ phase'[d] = "verifying" => phase[d] = "verifying"
                         /\ phase[d] = "done" => phase'[d] = "done"
    BY <1>1 DEF Arrive, DispatchTool, DispatchInvalid, DispatchTests, Acquire, Stage,
                StageFails, RunTool, RemoveRequest, EndCommand, CommandRaises,
                TestsFail, CancelHandler, Finish,
                Typed
  <2> QED
    BY <2>1, <2>2 DEF VerdictsCached, Complete
<1>2. ASSUME NEW c \in Calls, NEW f \in Files, CollectFile(c, f) PROVE VerdictsCached'
  BY <1>2 DEF CollectFile, VerdictsCached, Complete, Typed
<1>3. ASSUME NEW c \in Calls, LookUp(c) PROVE VerdictsCached'
  <2>1. CASE cache[collected[c]] # None
    BY <1>3, <2>1 DEF LookUp, Finish, VerdictsCached, Complete, Typed
  <2>2. CASE cache[collected[c]] = None
    BY <1>3, <2>2 DEF LookUp, VerdictsCached, Complete, Typed
  <2> QED
    BY <2>1, <2>2
<1>4. ASSUME NEW c \in Calls, Verified(c) PROVE VerdictsCached'
  <2>1. /\ collected[c] \in Artifacts /\ cache[collected[c]] = None
        /\ Complete(collected[c])
    BY <1>4, CompleteIsArtifact DEF Verified, VerdictsCached
  <2>2. PICK v \in Results : /\ result' = [result EXCEPT ![c] = v]
                             /\ cache' = [cache EXCEPT ![collected[c]] = v]
    BY <1>4 DEF Verified
  <2>3. \A d \in Calls : d # c => phase[d] # "verifying"
    BY <1>4 DEF Verified, HoldersHold
  <2>4. phase' = [phase EXCEPT ![c] = "done"] /\ UNCHANGED collected
    BY <1>4 DEF Verified, Finish
  <2>5. \A d \in Calls : phase'[d] # "verifying"
    BY <2>3, <2>4 DEF Typed
  <2>6. cache'[collected[c]] = v /\ result'[c] = v /\ phase'[c] = "done"
    BY <2>1, <2>2, <2>4 DEF Typed
  <2>7. ASSUME NEW d \in Calls, d # c, result'[d] # None
        PROVE  phase'[d] = "done" /\ Complete(collected[d]) /\ cache'[collected[d]] = result'[d]
    <3>1. result[d] # None /\ result'[d] = result[d]
      BY <2>2, <2>7 DEF Typed
    <3>2. collected[d] # collected[c]
      BY <3>1, <2>1 DEF VerdictsCached
    <3>3. collected[d] \in Artifacts
      BY <3>1, CompleteIsArtifact DEF VerdictsCached
    <3> QED
      BY <2>2, <2>4, <2>7, <3>1, <3>2, <3>3 DEF VerdictsCached, Typed
  <2> QED
    BY <2>1, <2>4, <2>5, <2>6, <2>7 DEF VerdictsCached, Complete
<1>5. ASSUME \/ \E f \in Files, v \in Contents : CommandWrites(f, v)
             \/ CloseRoute \/ RouteClosed \/ FinalizeFails \/ Finalized \/ UNCHANGED vars
             \/ \E f \in Files : CollectGraded(f)
      PROVE  VerdictsCached'
  BY <1>5 DEF CommandWrites, CloseRoute, RouteClosed, FinalizeFails, Finalized, vars, CollectGraded,
              VerdictsCached, Complete
<1> QED
  BY <1>1, <1>2, <1>3, <1>4, <1>5 DEF Next, Handle

(* The invariant of the controller holds in every behaviour.               *)
LEMMA ControllerInvariant == Spec => []ControllerInv
<1>1. Init => ControllerInv
  <2> SUFFICES ASSUME Init PROVE ControllerInv
    OBVIOUS
  <2>1. workspace \in Artifacts
    BY DEF Init, Artifacts
  <2>2. collected \in [Calls -> [Files -> Contents \cup {None}]]
    BY DEF Init, Unread
  <2> QED
    BY <2>1, <2>2, PhaseSets
    DEF Init, ControllerInv, Typed, Parsed, HoldersHold, RequestIntact, VerdictsCached,
        Phases, HoldingPhases, ToolPhases
<1>2. ControllerInv /\ [Next]_vars => ControllerInv'
  BY TypedStep, ParsedStep, HoldersHoldStep, RequestIntactStep, VerdictsCachedStep
  DEF ControllerInv
<1> QED
  BY <1>1, <1>2, PTL DEF Spec

(* However many calls of a rollout are in the route together, the tool     *)
(* process of a call finds that call's request in the shared file.         *)
THEOREM RequestsStayApart == Spec => []RequestIntact
<1>1. ControllerInv => RequestIntact
  BY DEF ControllerInv
<1> QED
  BY <1>1, ControllerInvariant, PTL

(* Two answered run_tests calls on the same content give the same verdict, *)
(* though nothing is assumed of the candidate they ran.                    *)
THEOREM OneVerdictPerContent == Spec => []VerdictsAgree
<1>1. ControllerInv => VerdictsAgree
  BY DEF ControllerInv, VerdictsCached, VerdictsAgree
<1> QED
  BY <1>1, ControllerInvariant, PTL

-----------------------------------------------------------------------------
(* The rest of the types.  The queue holds calls: they join at its end and *)
(* leave from its head or, when cancelled, from any place.                 *)
OthersTyped ==
  /\ outcome \in [Calls -> {"none", "ok", "error", "cancelled"}]
  /\ queue \in Seq(Calls)
  /\ holder \in Calls \cup {None}
  /\ commandAlive \in BOOLEAN
  /\ commandOk \in [Calls -> BOOLEAN]
  /\ lastExec \in Calls \cup {None}
  /\ invocations \in Nat
  /\ route \in {"open", "closing", "closed", "finalized"}
  /\ graded \in [Files -> Contents \cup {None}]

(* A queue from which a cancelled waiter was taken is a queue.             *)
LEMMA WithoutIsQueue ==
  ASSUME NEW q \in Seq(Calls), NEW c \in Calls
  PROVE  Without(q, c) \in Seq(Calls)
<1>1. CASE \E i \in 1..Len(q) : q[i] = c
  <2> DEFINE place == CHOOSE i \in 1..Len(q) : q[i] = c
  <2>1. place \in 1..Len(q) /\ Len(q) \in Nat
    BY <1>1, LenProperties
  <2>2. SubSeq(q, 1, place - 1) \in Seq(Calls)
    <3>1. \A i \in 1..(place - 1) : q[i] \in Calls
      BY <2>1, ElementOfSeq
    <3> QED
      BY <2>1, <3>1, SubSeqProperties
  <2>3. SubSeq(q, place + 1, Len(q)) \in Seq(Calls)
    <3>1. \A i \in place + 1..Len(q) : q[i] \in Calls
      BY <2>1, ElementOfSeq
    <3> QED
      BY <2>1, <3>1, SubSeqProperties
  <2>4. SubSeq(q, 1, place - 1) \o SubSeq(q, place + 1, Len(q)) \in Seq(Calls)
    BY <2>2, <2>3, ConcatProperties
  <2> QED
    BY <1>1, <2>4 DEF Without
<1>2. CASE ~ \E i \in 1..Len(q) : q[i] = c
  BY <1>2 DEF Without
<1> QED
  BY <1>1, <1>2

(* Every step keeps the types of the other variables.                      *)
LEMMA OthersTypedStep ==
  ASSUME Typed, Parsed, OthersTyped, [Next]_vars
  PROVE  OthersTyped'
<1> USE DEF runtimeVars, execVars, testVars, endVars
<1>1. ASSUME NEW c \in Calls, Arrive(c) PROVE OthersTyped'
  BY <1>1, AppendProperties DEF Arrive, OthersTyped
<1>2. ASSUME NEW c \in Calls, DispatchTool(c) \/ DispatchInvalid(c) \/ DispatchTests(c)
      PROVE  OthersTyped'
  <2>1. queue' \in Seq(Calls)
    BY <1>2, HeadTailProperties, SMTT(30)
    DEF DispatchTool, DispatchInvalid, DispatchTests, Acquire, OthersTyped
  <2>2. commandAlive' \in BOOLEAN
    BY <1>2 DEF DispatchTool, DispatchInvalid, DispatchTests, OthersTyped
  <2> QED
    BY <1>2, <2>1, <2>2 DEF DispatchTool, DispatchInvalid, DispatchTests, Finish, OthersTyped
<1>3. ASSUME NEW c \in Calls,
             \/ Stage(c) \/ StageFails(c) \/ RunTool(c) \/ RemoveRequest(c) \/ EndCommand(c)
             \/ CommandRaises(c) \/ (\E f \in Files : CollectFile(c, f)) \/ LookUp(c)
             \/ TestsFail(c) \/ Verified(c)
      PROVE  OthersTyped'
  BY <1>3 DEF Stage, StageFails, RunTool, RemoveRequest, EndCommand, CommandRaises,
              CollectFile, LookUp, TestsFail, Verified, Finish, OthersTyped
<1>4. ASSUME NEW c \in Calls, CancelHandler(c) PROVE OthersTyped'
  <2>1. queue' \in Seq(Calls)
    BY <1>4, WithoutIsQueue DEF CancelHandler, OthersTyped
  <2> QED
    BY <1>4, <2>1 DEF CancelHandler, OthersTyped
<1>5. ASSUME NEW f \in Files, CollectGraded(f) PROVE OthersTyped'
  BY <1>5 DEF CollectGraded, OthersTyped, Typed, Artifacts
<1>6. CASE FinalizeFails
  BY <1>6 DEF FinalizeFails, OthersTyped, Unread
<1>7. ASSUME \/ \E f \in Files, v \in Contents : CommandWrites(f, v)
             \/ CloseRoute \/ RouteClosed \/ Finalized \/ UNCHANGED vars
      PROVE  OthersTyped'
  BY <1>7 DEF CommandWrites, CloseRoute, RouteClosed, Finalized, vars, OthersTyped
<1> QED
  BY <1>1, <1>2, <1>3, <1>4, <1>5, <1>6, <1>7 DEF Next, Handle

-----------------------------------------------------------------------------
(* What an exec leaves behind.  The exec that ended last is over, and an   *)
(* exec is on its way to an ok only after its reap found nothing alive.    *)
LastExecOver == lastExec # None => phase[lastExec] = "done"

ReapedBeforeOk ==
  \A c \in Calls :
    phase[c] = "ran" /\ op[c].kind = "exec" /\ outcome[c] = "ok" => ~commandAlive

(* Files are collected and verified for run_tests alone.                   *)
TestsOnly ==
  \A c \in Calls : phase[c] \in {"collecting", "verifying"} => op[c].kind = "tests"

StrayInv == OthersTyped /\ TestsOnly /\ LastExecOver /\ ReapedBeforeOk /\ QuietUnlessReported

(* The outcome of an ended exec stays, until a call past the lock replaces *)
(* it as the last one.                                                     *)
LEMMA LastExecStep ==
  ASSUME ControllerInv, OthersTyped, LastExecOver, [Next]_vars
  PROVE  /\ LastExecOver'
         /\ \/ lastExec' = lastExec /\ (LastExecOk' <=> LastExecOk)
            \/ \E c \in Calls : /\ phase[c] \in HoldingPhases /\ op[c].kind = "exec"
                                /\ lastExec' = c
<1> USE DEF runtimeVars, execVars, testVars, endVars, HoldingPhases, ToolPhases
<1> DEFINE Conclusion ==
      /\ LastExecOver'
      /\ \/ lastExec' = lastExec /\ (LastExecOk' <=> LastExecOk)
         \/ \E c \in Calls : /\ phase[c] \in HoldingPhases /\ op[c].kind = "exec"
                             /\ lastExec' = c
<1>1. ASSUME NEW c \in Calls,
             \/ Arrive(c) \/ DispatchTool(c) \/ DispatchInvalid(c) \/ DispatchTests(c)
             \/ Stage(c) \/ RunTool(c) \/ EndCommand(c) \/ (\E f \in Files : CollectFile(c, f))
             \/ LookUp(c) \/ TestsFail(c) \/ Verified(c)
      PROVE  Conclusion
  <2>1. CASE lastExec' = lastExec
    <3>1. phase[c] # "done" /\ \A d \in Calls \ {c} : outcome'[d] = outcome[d] /\ phase'[d] = phase[d]
      BY <1>1 DEF Arrive, DispatchTool, DispatchInvalid, DispatchTests, Acquire, Stage,
                  RunTool, EndCommand, CollectFile, LookUp, TestsFail, Verified, Finish,
                  OthersTyped, ControllerInv, Typed
    <3>2. lastExec # None => lastExec \in Calls \ {c}
      BY <3>1 DEF OthersTyped, LastExecOver
    <3> QED
      BY <2>1, <3>1, <3>2 DEF LastExecOver, LastExecOk
  <2>2. CASE lastExec' # lastExec
    <3>1. phase'[c] = "done" /\ lastExec' = c /\ op[c].kind = "exec" /\ phase[c] \in HoldingPhases
      BY <1>1, <2>2 DEF Arrive, DispatchTool, DispatchInvalid, DispatchTests, Acquire, Stage,
                  RunTool, EndCommand, CollectFile, LookUp, TestsFail, Verified, Finish,
                  OthersTyped, ControllerInv, Typed
    <3> QED
      BY <3>1 DEF LastExecOver
  <2> QED
    BY <2>1, <2>2
<1>2. ASSUME NEW c \in Calls,
             StageFails(c) \/ RemoveRequest(c) \/ CommandRaises(c) \/ CancelHandler(c)
      PROVE  Conclusion
  <2>1. /\ phase[c] # "done" /\ phase'[c] = "done"
        /\ \A d \in Calls \ {c} : outcome'[d] = outcome[d] /\ phase'[d] = phase[d]
        /\ \/ lastExec' = c /\ phase[c] \in HoldingPhases /\ op[c].kind = "exec"
           \/ lastExec' = lastExec
    BY <1>2 DEF StageFails, RemoveRequest, CommandRaises, CancelHandler, Finish,
                OthersTyped, ControllerInv, Typed
  <2>2. lastExec # None => lastExec \in Calls \ {c}
    BY <2>1 DEF OthersTyped, LastExecOver
  <2> QED
    BY <2>1, <2>2 DEF LastExecOver, LastExecOk
<1>3. ASSUME \/ \E f \in Files, v \in Contents : CommandWrites(f, v)
             \/ CloseRoute \/ RouteClosed \/ FinalizeFails \/ Finalized \/ UNCHANGED vars
             \/ \E f \in Files : CollectGraded(f)
      PROVE  Conclusion
  BY <1>3 DEF CommandWrites, CloseRoute, RouteClosed, FinalizeFails, Finalized, vars,
              CollectGraded, LastExecOver, LastExecOk
<1> QED
  BY <1>1, <1>2, <1>3 DEF Next, Handle

(* A reap that says ok has ended all processes of the command user, and no *)
(* exec starts before its call has left the lock.                          *)
LEMMA ReapedStep ==
  ASSUME ControllerInv, OthersTyped, ReapedBeforeOk, [Next]_vars
  PROVE  ReapedBeforeOk'
<1> USE DEF runtimeVars, execVars, testVars, endVars, HoldingPhases, ToolPhases, ControllerInv
<1>1. ASSUME NEW c \in Calls, RunTool(c) PROVE ReapedBeforeOk'
  <2>1. \A d \in Calls \ {c} : phase[d] # "ran"
    BY <1>1 DEF RunTool, HoldersHold
  <2>2. op[c].kind = "exec" => request = Reap
    BY <1>1 DEF RunTool, RequestIntact, RequestOf
  <2>3. outcome'[c] = "ok" => commandAlive' = (commandAlive /\ request # Reap)
    BY <1>1 DEF RunTool, OthersTyped
  <2> QED
    BY <1>1, <2>1, <2>2, <2>3 DEF RunTool, ReapedBeforeOk, Typed
<1>2. ASSUME NEW c \in Calls, DispatchTool(c) PROVE ReapedBeforeOk'
  <2>1. \A d \in Calls : phase[d] # "ran"
    BY <1>2, ControllerAssumption DEF DispatchTool, Acquire, HoldersHold
  <2> QED
    BY <1>2, <2>1 DEF DispatchTool, ReapedBeforeOk, Typed
<1>3. ASSUME NEW c \in Calls,
             \/ Arrive(c) \/ DispatchInvalid(c) \/ DispatchTests(c) \/ Stage(c)
             \/ StageFails(c) \/ RemoveRequest(c) \/ EndCommand(c) \/ CommandRaises(c)
             \/ (\E f \in Files : CollectFile(c, f)) \/ LookUp(c) \/ TestsFail(c)
             \/ Verified(c) \/ CancelHandler(c)
      PROVE  ReapedBeforeOk'
  <2>1. commandAlive' => commandAlive
    BY <1>3 DEF Arrive, DispatchInvalid, DispatchTests, Stage, StageFails, RemoveRequest,
                EndCommand, CommandRaises, CollectFile, LookUp, TestsFail, Verified, CancelHandler
  <2>2. \A d \in Calls : phase'[d] = "ran" =>
          phase[d] = "ran" /\ outcome'[d] = outcome[d] /\ op'[d] = op[d]
    BY <1>3 DEF Arrive, DispatchInvalid, DispatchTests, Acquire, Stage, StageFails,
                RemoveRequest, EndCommand, CommandRaises, CollectFile, LookUp, TestsFail,
                Verified, CancelHandler, Finish, Typed, OthersTyped
  <2> QED
    BY <2>1, <2>2 DEF ReapedBeforeOk
<1>4. ASSUME \/ \E f \in Files, v \in Contents : CommandWrites(f, v)
             \/ CloseRoute \/ RouteClosed \/ FinalizeFails \/ Finalized \/ UNCHANGED vars
             \/ \E f \in Files : CollectGraded(f)
      PROVE  ReapedBeforeOk'
  BY <1>4 DEF CommandWrites, CloseRoute, RouteClosed, FinalizeFails, Finalized, vars,
              CollectGraded, ReapedBeforeOk
<1> QED
  BY <1>1, <1>2, <1>3, <1>4 DEF Next, Handle

(* Only a call of run_tests comes into its phases, and it stays one.       *)
LEMMA TestsOnlyStep ==
  ASSUME ControllerInv, TestsOnly, [Next]_vars
  PROVE  TestsOnly'
<1> USE DEF runtimeVars, execVars, testVars, endVars, ControllerInv, Typed
<1>1. ASSUME NEW c \in Calls, Arrive(c) PROVE TestsOnly'
  BY <1>1 DEF Arrive, TestsOnly
<1>2. ASSUME NEW c \in Calls, DispatchTests(c) PROVE TestsOnly'
  BY <1>2 DEF DispatchTests, Finish, TestsOnly
<1>3. ASSUME NEW c \in Calls,
             \/ DispatchTool(c) \/ DispatchInvalid(c) \/ Stage(c) \/ StageFails(c)
             \/ RunTool(c) \/ RemoveRequest(c) \/ EndCommand(c) \/ CommandRaises(c)
             \/ (\E f \in Files : CollectFile(c, f)) \/ LookUp(c) \/ TestsFail(c)
             \/ Verified(c) \/ CancelHandler(c)
      PROVE  TestsOnly'
  <2>1. op' = op /\ \A d \in Calls : phase'[d] \in {"collecting", "verifying"} =>
                                    phase[d] \in {"collecting", "verifying"}
    BY <1>3 DEF DispatchTool, DispatchInvalid, Stage, StageFails, RunTool, RemoveRequest,
                EndCommand, CommandRaises, CollectFile, LookUp, TestsFail, Verified,
                CancelHandler, Finish
  <2> QED
    BY <2>1 DEF TestsOnly
<1>4. ASSUME \/ \E f \in Files, v \in Contents : CommandWrites(f, v)
             \/ CloseRoute \/ RouteClosed \/ FinalizeFails \/ Finalized \/ UNCHANGED vars
             \/ \E f \in Files : CollectGraded(f)
      PROVE  TestsOnly'
  BY <1>4 DEF CommandWrites, CloseRoute, RouteClosed, FinalizeFails, Finalized, vars,
              CollectGraded, TestsOnly
<1> QED
  BY <1>1, <1>2, <1>3, <1>4 DEF Next, Handle

(* A command that lives on has its exec under way, or the last exec did    *)
(* not answer "ok": no step leaves that.                                   *)
LEMMA QuietStep ==
  ASSUME ControllerInv, StrayInv, [Next]_vars
  PROVE  QuietUnlessReported'
<1> USE DEF runtimeVars, execVars, testVars, endVars, HoldingPhases, ToolPhases
<1> SUFFICES ASSUME commandAlive' PROVE ExecInProgress' \/ ~LastExecOk'
  BY DEF QuietUnlessReported
<1>1. ASSUME NEW c \in Calls, DispatchTool(c) PROVE ExecInProgress' \/ ~LastExecOk'
  <2>1. CASE op[c].kind = "exec"
    BY <1>1, <2>1 DEF DispatchTool, ExecInProgress, ControllerInv, Typed
  <2>2. CASE op[c].kind # "exec"
    <3>1. commandAlive /\ UNCHANGED <<outcome, lastExec, op>>
      BY <1>1, <2>2 DEF DispatchTool
    <3>2. \A d \in Calls : phase[d] \in HoldingPhases => phase'[d] \in HoldingPhases
      BY <1>1 DEF DispatchTool, Acquire, ControllerInv, Typed
    <3> QED
      BY <3>1, <3>2 DEF StrayInv, QuietUnlessReported, ExecInProgress, LastExecOk
  <2> QED
    BY <2>1, <2>2
<1>2. ASSUME NEW c \in Calls,
             \/ Arrive(c) \/ DispatchInvalid(c) \/ DispatchTests(c) \/ Stage(c) \/ RunTool(c)
             \/ EndCommand(c) \/ (\E f \in Files : CollectFile(c, f))
      PROVE  ExecInProgress' \/ ~LastExecOk'
  <2>1. commandAlive /\ lastExec' = lastExec
    BY <1>2 DEF Arrive, DispatchInvalid, DispatchTests, Finish, Stage, RunTool, EndCommand, CollectFile
  <2>2. \A d \in Calls : phase[d] \in HoldingPhases =>
          phase'[d] \in HoldingPhases /\ op'[d] = op[d]
    BY <1>2 DEF Arrive, DispatchInvalid, DispatchTests, Acquire, Finish, Stage, RunTool,
                EndCommand, CollectFile, ControllerInv, Typed
  <2>3. lastExec # None => outcome'[lastExec] = outcome[lastExec]
    BY <1>2 DEF Arrive, DispatchInvalid, DispatchTests, Acquire, Finish, Stage, RunTool,
                EndCommand, CollectFile, StrayInv, OthersTyped, LastExecOver
  <2> QED
    BY <2>1, <2>2, <2>3 DEF StrayInv, QuietUnlessReported, ExecInProgress, LastExecOk
<1>3. ASSUME NEW c \in Calls,
             \/ StageFails(c) \/ RemoveRequest(c) \/ CommandRaises(c) \/ LookUp(c)
             \/ TestsFail(c) \/ Verified(c) \/ CancelHandler(c)
      PROVE  ExecInProgress' \/ ~LastExecOk'
  <2>1. commandAlive
    BY <1>3 DEF StageFails, RemoveRequest, CommandRaises, LookUp, TestsFail, Verified,
                CancelHandler, Finish
  <2>2. /\ op' = op /\ phase[c] \in HoldingPhases \cup {"waiting"}
        /\ \A d \in Calls \ {c} : outcome'[d] = outcome[d] /\ phase'[d] = phase[d]
        /\ phase[c] = "waiting" => phase'[c] \notin HoldingPhases /\ lastExec' = lastExec
    BY <1>3 DEF StageFails, RemoveRequest, CommandRaises, LookUp, TestsFail, Verified,
                CancelHandler, Finish, ControllerInv, Typed, StrayInv, OthersTyped
  <2>3. lastExec # None => lastExec \in Calls \ {c}
    BY <2>2 DEF StrayInv, OthersTyped, LastExecOver
  <2>4. CASE phase[c] \in HoldingPhases /\ op[c].kind = "exec"
    <3>1. CASE phase'[c] \in HoldingPhases
      BY <2>2, <2>4, <3>1 DEF ExecInProgress
    <3>2. CASE phase'[c] \notin HoldingPhases
      <4>1. lastExec' = c
        BY <1>3, <2>4, <3>2 DEF StageFails, RemoveRequest, CommandRaises, LookUp, TestsFail,
              Verified, CancelHandler, Finish, ControllerInv, Typed
      <4>2. LookUp(c) \/ Verified(c) => op[c].kind = "tests"
        BY <1>3, <2>4 DEF StrayInv, TestsOnly, LookUp, Verified
      <4>3. TestsFail(c) => outcome'[c] = "error"
        BY DEF TestsFail, Finish, StrayInv, OthersTyped
      <4>4. StageFails(c) \/ CommandRaises(c) => outcome'[c] = "error"
        BY DEF StageFails, CommandRaises, Finish, StrayInv, OthersTyped
      <4>5. CancelHandler(c) => outcome'[c] = "cancelled"
        BY DEF CancelHandler, StrayInv, OthersTyped
      <4>6. RemoveRequest(c) => outcome'[c] # "ok"
        BY <2>1, <2>4 DEF RemoveRequest, Finish, StrayInv, OthersTyped, ReapedBeforeOk
      <4> QED
        BY <1>3, <2>4, <4>1, <4>2, <4>3, <4>4, <4>5, <4>6, ControllerAssumption DEF LastExecOk
    <3> QED
      BY <3>1, <3>2
  <2>5. CASE ~(phase[c] \in HoldingPhases /\ op[c].kind = "exec")
    <3>1. lastExec' = lastExec
      BY <1>3, <2>2, <2>5 DEF StageFails, RemoveRequest, CommandRaises, LookUp, TestsFail,
            Verified, CancelHandler, Finish, ControllerInv, Typed
    <3>2. LastExecOk' <=> LastExecOk
      BY <2>2, <2>3, <3>1 DEF LastExecOk
    <3>3. ExecInProgress => ExecInProgress'
      BY <2>2, <2>5 DEF ExecInProgress
    <3> QED
      BY <2>1, <3>2, <3>3 DEF StrayInv, QuietUnlessReported
  <2> QED
    BY <2>4, <2>5
<1>4. ASSUME \/ \E f \in Files, v \in Contents : CommandWrites(f, v)
             \/ CloseRoute \/ RouteClosed \/ FinalizeFails \/ Finalized \/ UNCHANGED vars
             \/ \E f \in Files : CollectGraded(f)
      PROVE  ExecInProgress' \/ ~LastExecOk'
  BY <1>4 DEF CommandWrites, CloseRoute, RouteClosed, FinalizeFails, Finalized, vars,
              CollectGraded, StrayInv, QuietUnlessReported, ExecInProgress, LastExecOk
<1> QED
  BY <1>1, <1>2, <1>3, <1>4 DEF Next, Handle

-----------------------------------------------------------------------------
(* Snapshots.  A call begins to collect with nothing read, and the files   *)
(* for grading are read when no handler is left.                           *)
NothingReadYet == \A c \in Calls : phase[c] \in {"idle", "waiting"} => collected[c] = Unread

AllEnded == route \in {"closed", "finalized"} => \A c \in Calls : phase[c] \in {"idle", "done"}

GradedLast == \A f \in Files : graded[f] # None => route \in {"closed", "finalized"}

SnapshotInv == NothingReadYet /\ AllEnded /\ GradedLast /\ SnapshotsAreCurrent

(* Every step keeps what is known of collecting: files are read after the  *)
(* lock is taken, and for grading after the route is closed.               *)
LEMMA CollectionStep ==
  ASSUME ControllerInv, OthersTyped, NothingReadYet, AllEnded, GradedLast, [Next]_vars
  PROVE  NothingReadYet' /\ AllEnded' /\ GradedLast'
<1> USE DEF runtimeVars, execVars, testVars, endVars, HoldingPhases, ToolPhases, ControllerInv,
            Typed, OthersTyped
<1>1. ASSUME NEW c \in Calls, Arrive(c) PROVE NothingReadYet' /\ AllEnded' /\ GradedLast'
  BY <1>1 DEF Arrive, NothingReadYet, AllEnded, GradedLast
<1>2. ASSUME NEW c \in Calls, Handle(c) \/ CancelHandler(c)
      PROVE  NothingReadYet' /\ AllEnded' /\ GradedLast'
  <2>1. UNCHANGED <<route, graded>> /\ phase[c] \notin {"idle", "done"}
    BY <1>2 DEF Handle, CancelHandler, DispatchTool, DispatchInvalid, DispatchTests, Acquire,
                Stage, StageFails, RunTool, RemoveRequest, EndCommand, CommandRaises,
                CollectFile, LookUp, TestsFail, Verified, Finish
  <2>2. \A d \in Calls : phase'[d] \in {"idle", "waiting"} =>
          phase[d] = phase'[d] /\ collected'[d] = collected[d]
    BY <1>2 DEF Handle, CancelHandler, DispatchTool, DispatchInvalid, DispatchTests, Acquire,
                Stage, StageFails, RunTool, RemoveRequest, EndCommand, CommandRaises,
                CollectFile, LookUp, TestsFail, Verified, Finish
  <2> QED
    BY <2>1, <2>2 DEF NothingReadYet, AllEnded, GradedLast
<1>3. ASSUME \/ \E f \in Files, v \in Contents : CommandWrites(f, v)
             \/ CloseRoute \/ RouteClosed \/ FinalizeFails \/ Finalized \/ UNCHANGED vars
             \/ \E f \in Files : CollectGraded(f)
      PROVE  NothingReadYet' /\ AllEnded' /\ GradedLast'
  BY <1>3 DEF CommandWrites, CloseRoute, RouteClosed, FinalizeFails, Finalized, vars,
              CollectGraded, Unread, NothingReadYet, AllEnded, GradedLast
<1> QED
  BY <1>1, <1>2, <1>3 DEF Next

(* Nobody writes the workspace while a call collects or verifies, or the   *)
(* finalizer reads, unless the last exec failed.                           *)
LEMMA SnapshotStep ==
  ASSUME ControllerInv, StrayInv, SnapshotInv, [Next]_vars
  PROVE  SnapshotsAreCurrent'
<1> USE DEF runtimeVars, execVars, testVars, endVars, HoldingPhases, ToolPhases, ControllerInv,
            Typed, StrayInv, OthersTyped
<1> DEFINE Reading(c) == phase[c] \in {"collecting", "verifying"}
           Collections == \A c \in Calls, f \in Files :
                            Reading(c) => collected[c][f] \in {None, workspace[f]}
           Grading == \A f \in Files : graded[f] \in {None, workspace[f]}
<1> SUFFICES ASSUME LastExecOk' PROVE Collections' /\ Grading'
  BY DEF SnapshotsAreCurrent
<1>1. LastExecOk => Collections /\ Grading
  BY DEF SnapshotInv, SnapshotsAreCurrent
<1>2. \A c, d \in Calls : phase[c] \in HoldingPhases /\ Reading(d) => c = d
  BY DEF HoldersHold
<1>3. \A c \in Calls : phase[c] \in HoldingPhases \cup {"waiting"} => \A f \in Files : graded[f] = None
  BY DEF SnapshotInv, AllEnded, GradedLast
<1>4. LastExecOk \/ \E c \in Calls : phase[c] \in HoldingPhases /\ op[c].kind = "exec" /\ lastExec' = c
  BY LastExecStep
<1>5. CASE ~LastExecOk
  <2>1. PICK c \in Calls : phase[c] \in HoldingPhases /\ op[c].kind = "exec" /\ lastExec' = c
    BY <1>4, <1>5
  <2>2. lastExec' # lastExec
    BY <2>1, ControllerAssumption DEF LastExecOver
  <2>3. \A d \in Calls : ~Reading(d)
    BY <1>2, <2>1 DEF TestsOnly
  <2>4. ASSUME NEW d \in Calls, Arrive(d) \/ Handle(d)
        PROVE  (\A e \in Calls : ~Reading(e)') /\ graded' = graded
    <3>1. CASE DispatchTests(d)
      BY <2>2, <3>1 DEF DispatchTests, Finish
    <3>2. CASE ~DispatchTests(d)
      BY <2>3, <2>4, <3>2 DEF Arrive, Handle, DispatchTool, DispatchInvalid, Stage, StageFails,
           RunTool, RemoveRequest, EndCommand, CommandRaises, CollectFile, LookUp, TestsFail,
           Verified, Finish
    <3> QED
      BY <3>1, <3>2
  <2>5. ASSUME NEW d \in Calls, CancelHandler(d)
        PROVE  (\A e \in Calls : ~Reading(e)') /\ graded' = graded
    BY <2>3, <2>5 DEF CancelHandler
  <2>6. ASSUME \/ \E f \in Files, v \in Contents : CommandWrites(f, v)
               \/ CloseRoute \/ RouteClosed \/ FinalizeFails \/ Finalized \/ UNCHANGED vars
               \/ \E f \in Files : CollectGraded(f)
        PROVE  FALSE
    BY <2>2, <2>6 DEF CommandWrites, CloseRoute, RouteClosed, FinalizeFails, Finalized, vars,
                      CollectGraded
  <2>7. (\A e \in Calls : ~Reading(e)') /\ graded' = graded
    BY <2>4, <2>5, <2>6 DEF Next
  <2> QED
    BY <1>3, <2>1, <2>7
<1>6. CASE LastExecOk
  <2>1. Collections /\ Grading
    BY <1>1, <1>6
  <2>2. ASSUME NEW c \in Calls, Arrive(c) PROVE Collections' /\ Grading'
    BY <2>1, <2>2 DEF Arrive
  <2>3. ASSUME NEW c \in Calls, DispatchTests(c) PROVE Collections' /\ Grading'
    <3>1. collected[c] = Unread
      BY <2>3 DEF DispatchTests, Acquire, SnapshotInv, NothingReadYet
    <3> QED
      BY <2>1, <2>3, <3>1 DEF DispatchTests, Finish, Unread
  <2>4. ASSUME NEW c \in Calls,
               \/ DispatchTool(c) \/ DispatchInvalid(c) \/ Stage(c) \/ StageFails(c)
               \/ RemoveRequest(c) \/ EndCommand(c) \/ CommandRaises(c) \/ LookUp(c)
               \/ TestsFail(c) \/ Verified(c)
        PROVE  Collections' /\ Grading'
    <3>1. UNCHANGED <<workspace, collected, graded>> /\ \A d \in Calls : Reading(d)' => Reading(d)
      BY <2>4 DEF DispatchTool, DispatchInvalid, Stage, StageFails, RemoveRequest, EndCommand,
                  CommandRaises, LookUp, TestsFail, Verified, Finish
    <3> QED
      BY <2>1, <3>1
  <2>5. ASSUME NEW c \in Calls, RunTool(c) \/ CancelHandler(c) PROVE Collections' /\ Grading'
    <3>1. CASE phase[c] = "staged"
      <4>1. (\A d \in Calls : ~Reading(d)') /\ graded' = graded
        BY <1>2, <2>5, <3>1 DEF RunTool, CancelHandler
      <4> QED
        BY <1>3, <3>1, <4>1
    <3>2. CASE phase[c] # "staged"
      <4>1. UNCHANGED <<workspace, collected, graded>> /\ \A d \in Calls : Reading(d)' => Reading(d)
        BY <2>5, <3>2 DEF RunTool, CancelHandler
      <4> QED
        BY <2>1, <4>1
    <3> QED
      BY <3>1, <3>2
  <2>6. ASSUME NEW c \in Calls, NEW f \in Files, CollectFile(c, f) PROVE Collections' /\ Grading'
    BY <2>1, <2>6 DEF CollectFile
  <2>7. ASSUME NEW f \in Files, NEW v \in Contents, CommandWrites(f, v)
        PROVE  Collections' /\ Grading'
    <3>1. PICK c \in Calls : phase[c] \in HoldingPhases /\ op[c].kind = "exec"
      BY <1>6, <2>7 DEF CommandWrites, QuietUnlessReported, ExecInProgress
    <3>2. \A d \in Calls : ~Reading(d)
      BY <1>2, <3>1 DEF TestsOnly
    <3> QED
      BY <1>3, <2>7, <3>1, <3>2 DEF CommandWrites
  <2>8. ASSUME NEW f \in Files, CollectGraded(f) PROVE Collections' /\ Grading'
    BY <2>1, <2>8 DEF CollectGraded
  <2>9. CASE CloseRoute \/ RouteClosed \/ FinalizeFails \/ Finalized \/ UNCHANGED vars
    BY <2>1, <2>9 DEF CloseRoute, RouteClosed, FinalizeFails, Finalized, vars, Unread
  <2> QED
    BY <2>2, <2>3, <2>4, <2>5, <2>6, <2>7, <2>8, <2>9 DEF Next, Handle
<1> QED
  BY <1>5, <1>6
-----------------------------------------------------------------------------
(* The budget of run_tests: no more calls began to collect than were       *)
(* counted, and the count stops at the limit.                              *)
BudgetInv ==
  /\ IsFiniteSet(StartedTests) /\ Cardinality(StartedTests) <= invocations
  /\ invocations <= MaxTestInvocations

(* A call is counted in the step in which it begins to collect.            *)
LEMMA BudgetStep ==
  ASSUME ControllerInv, OthersTyped, BudgetInv, [Next]_vars
  PROVE  BudgetInv'
<1> USE DEF runtimeVars, execVars, testVars, endVars, ControllerInv, Typed, OthersTyped
<1>1. invocations \in Nat /\ MaxTestInvocations \in Nat
  BY ControllerAssumption
<1>2. ASSUME StartedTests' \subseteq StartedTests, invocations' = invocations
      PROVE  BudgetInv'
  <2>1. /\ IsFiniteSet(StartedTests')
        /\ Cardinality(StartedTests') <= Cardinality(StartedTests)
        /\ Cardinality(StartedTests') \in Nat /\ Cardinality(StartedTests) \in Nat
    BY <1>2, FS_Subset, FS_CardinalityType DEF BudgetInv
  <2> QED
    BY <1>1, <1>2, <2>1 DEF BudgetInv
<1>3. ASSUME NEW c \in Calls, DispatchTests(c) PROVE BudgetInv'
  <2>1. CASE invocations >= MaxTestInvocations
    <3>1. StartedTests' \subseteq StartedTests /\ invocations' = invocations
      BY <1>1, <1>3, <2>1 DEF DispatchTests, Finish, StartedTests, Acquire
    <3> QED
      BY <1>2, <3>1
  <2>2. CASE ~(invocations >= MaxTestInvocations)
    <3>1. StartedTests' \subseteq StartedTests \cup {c} /\ invocations' = invocations + 1
      BY <1>1, <1>3, <2>2 DEF DispatchTests, StartedTests
    <3>2. /\ IsFiniteSet(StartedTests \cup {c})
          /\ Cardinality(StartedTests \cup {c}) <= Cardinality(StartedTests) + 1
          /\ Cardinality(StartedTests \cup {c}) \in Nat /\ Cardinality(StartedTests) \in Nat
      <4>1. IsFiniteSet(StartedTests) /\ Cardinality(StartedTests) \in Nat
        BY FS_CardinalityType DEF BudgetInv
      <4>2. /\ IsFiniteSet(StartedTests \cup {c})
            /\ Cardinality(StartedTests \cup {c}) =
                 IF c \in StartedTests THEN Cardinality(StartedTests)
                                       ELSE Cardinality(StartedTests) + 1
        BY <4>1, FS_AddElement, Zenon
      <4> QED
        BY <4>1, <4>2
    <3>3. /\ IsFiniteSet(StartedTests')
          /\ Cardinality(StartedTests') <= Cardinality(StartedTests \cup {c})
          /\ Cardinality(StartedTests') \in Nat
      BY <3>1, <3>2, FS_Subset, FS_CardinalityType
    <3> QED
      BY <1>1, <2>2, <3>1, <3>2, <3>3 DEF BudgetInv
  <2> QED
    BY <2>1, <2>2
<1>4. ASSUME NEW c \in Calls, NEW f \in Files, CollectFile(c, f) PROVE BudgetInv'
  <2>1. StartedTests' \subseteq StartedTests /\ invocations' = invocations
    BY <1>4 DEF CollectFile, StartedTests
  <2> QED
    BY <1>2, <2>1
<1>5. ASSUME NEW c \in Calls,
             \/ Arrive(c) \/ DispatchTool(c) \/ DispatchInvalid(c) \/ Stage(c) \/ StageFails(c)
             \/ RunTool(c) \/ RemoveRequest(c) \/ EndCommand(c) \/ CommandRaises(c)
             \/ LookUp(c) \/ TestsFail(c) \/ Verified(c) \/ CancelHandler(c)
      PROVE  BudgetInv'
  <2>1. StartedTests' \subseteq StartedTests /\ invocations' = invocations
    BY <1>5 DEF Arrive, DispatchTool, DispatchInvalid, Stage, StageFails, RunTool, RemoveRequest,
                EndCommand, CommandRaises, LookUp, TestsFail, Verified, CancelHandler, Finish,
                StartedTests
  <2> QED
    BY <1>2, <2>1
<1>6. ASSUME \/ \E f \in Files, v \in Contents : CommandWrites(f, v)
             \/ CloseRoute \/ RouteClosed \/ FinalizeFails \/ Finalized \/ UNCHANGED vars
             \/ \E f \in Files : CollectGraded(f)
      PROVE  BudgetInv'
  <2>1. StartedTests' \subseteq StartedTests /\ invocations' = invocations
    BY <1>6 DEF CommandWrites, CloseRoute, RouteClosed, FinalizeFails, Finalized, vars,
                CollectGraded, StartedTests
  <2> QED
    BY <1>2, <2>1
<1> QED
  BY <1>3, <1>4, <1>5, <1>6 DEF Next, Handle
-----------------------------------------------------------------------------
(* The three invariants hold together in every behaviour.                  *)
LEMMA FullInvariant == Spec => [](StrayInv /\ SnapshotInv /\ BudgetInv)
<1>1. Init => StrayInv /\ SnapshotInv /\ BudgetInv
  <2> SUFFICES ASSUME Init PROVE StrayInv /\ SnapshotInv /\ BudgetInv
    OBVIOUS
  <2>1. OthersTyped
    BY EmptySeq DEF Init, OthersTyped, Unread
  <2>2. StartedTests = {}
    BY DEF Init, StartedTests
  <2>3. BudgetInv
    BY <2>2, FS_EmptySet, ControllerAssumption DEF Init, BudgetInv
  <2>4. SnapshotInv
    BY DEF Init, SnapshotInv, NothingReadYet, AllEnded, GradedLast, SnapshotsAreCurrent, Unread
  <2> QED
    BY <2>1, <2>3, <2>4 DEF Init, StrayInv, TestsOnly, LastExecOver, ReapedBeforeOk, QuietUnlessReported
<1>2. ControllerInv /\ StrayInv /\ SnapshotInv /\ BudgetInv /\ [Next]_vars
        => StrayInv' /\ SnapshotInv' /\ BudgetInv'
  <2> SUFFICES ASSUME ControllerInv, StrayInv, SnapshotInv, BudgetInv, [Next]_vars
               PROVE  StrayInv' /\ SnapshotInv' /\ BudgetInv'
    OBVIOUS
  <2>1. StrayInv'
    BY OthersTypedStep, TestsOnlyStep, LastExecStep, ReapedStep, QuietStep DEF StrayInv, ControllerInv
  <2>2. SnapshotInv'
    BY CollectionStep, SnapshotStep DEF SnapshotInv, StrayInv
  <2>3. BudgetInv'
    BY BudgetStep DEF StrayInv
  <2> QED
    BY <2>1, <2>2, <2>3
<1> QED
  BY <1>1, <1>2, ControllerInvariant, PTL DEF Spec

(* Every variable keeps its type; in particular the queue holds calls, and *)
(* what the cache and the replies know are verifier results.               *)
THEOREM TypeCorrect == Spec => []TypeOK
<1>1. ControllerInv /\ StrayInv => TypeOK
  BY DEF ControllerInv, StrayInv, Typed, OthersTyped, TypeOK
<1> QED
  BY <1>1, ControllerInvariant, FullInvariant, PTL

(* A process of the command user that outlives its exec is never hidden    *)
(* behind an ok: the reap of _exec comes before the reply.                 *)
THEOREM StraysAreReported == Spec => []QuietUnlessReported
<1>1. StrayInv => QuietUnlessReported
  BY DEF StrayInv
<1> QED
  BY <1>1, FullInvariant, PTL

(* What run_tests verifies and what finalize grades is the workspace as it *)
(* is, not a mix of two states, unless the last exec failed.               *)
THEOREM SnapshotsAreWhole == Spec => []SnapshotsAreCurrent
<1>1. SnapshotInv => SnapshotsAreCurrent
  BY DEF SnapshotInv
<1> QED
  BY <1>1, FullInvariant, PTL

(* However the calls overlap, fail or are cancelled, no more of them than  *)
(* max_test_invocations begin to collect.                                  *)
THEOREM BudgetIsKept == Spec => []TestsBudget
<1>1. ASSUME BudgetInv, StrayInv PROVE TestsBudget
  <2>1. Cardinality(StartedTests) \in Nat /\ invocations \in Nat /\ MaxTestInvocations \in Nat
    BY <1>1, FS_CardinalityType, ControllerAssumption DEF BudgetInv, StrayInv, OthersTyped
  <2> QED
    BY <1>1, <2>1 DEF BudgetInv, TestsBudget
<1> QED
  BY <1>1, FullInvariant, PTL
=============================================================================
