--------------------------- MODULE RpcClientProofs ---------------------------
(***************************************************************************)
(* Proofs about the parts of RpcClient, for any number of requests,        *)
(* threads, events and tool calls.  A behaviour belongs to one part, so    *)
(* each part has an invariant of its own.                                  *)
(***************************************************************************)
EXTENDS RpcClient, FiniteSetTheorems, SequenceTheorems, TLAPS

-----------------------------------------------------------------------------
(* The harness session.                                                    *)

\* A result is sent from "checked" or by the reader, and each only once.
AnswersLeft ==
  \A c \in ToolCalls :
    /\ call[c] \in {"none", "running", "checked", "refused"} => results[c] = 0
    /\ results[c] <= 1
    /\ writer = c => call[c] = "checked"
    /\ c \in toldOff => call[c] \in {"running", "silent", "returned"} /\ results[c] = 0
    /\ call[c] = "running" => c \in table \/ main = "ended"

\* Only a table that changed makes the walk raise, and only a walk that
\* raised keeps omp from being terminated.
WalkIsQuiet ==
  /\ main = "new" => omp = "unborn"
  /\ main = "walk" /\ ~disturbed => sizeSeen = Harness!Cardinality(table)
  /\ main = "clear" => omp = "terminated"
  /\ Harness!StopsUnlessDisturbed


HarnessInv == Harness!TypeOK /\ AnswersLeft /\ WalkIsQuiet

(* The table is a finite set, no larger than the set of calls.             *)
LEMMA TableSize ==
  ASSUME NEW T \in SUBSET ToolCalls
  PROVE  Harness!Cardinality(T) \in 0..Harness!Cardinality(ToolCalls)
<1>1. \A S : Harness!Cardinality(S) = Cardinality(S)
  BY DEF Harness!Cardinality, Cardinality
<1>2. \A S : Harness!IsFiniteSet(S) <=> IsFiniteSet(S)
  BY DEF Harness!IsFiniteSet, IsFiniteSet
<1>3. IsFiniteSet(ToolCalls)
  BY <1>2, ClientAssumption DEF Harness!SessionAssumption
<1>4. IsFiniteSet(T) /\ Cardinality(T) <= Cardinality(ToolCalls)
  BY <1>3, FS_Subset
<1>5. Cardinality(T) \in Nat /\ Cardinality(ToolCalls) \in Nat
  BY <1>3, <1>4, FS_CardinalityType
<1> QED
  BY <1>1, <1>4, <1>5

(* Types, under the steps of the main thread.                              *)
LEMMA MainThreadTypes ==
  ASSUME Harness!TypeOK, Harness!MainStep
  PROVE  Harness!TypeOK'
<1> USE DEF Harness!callVars, Harness!readerVars, Harness!stopVars, Harness!uiVars,
            Harness!ompVars, Harness!mainVars
<1> DEFINE Mains == {"new", "ready", "headless", "turn", "ended"}
                      \cup Harness!RequestStages \cup Harness!Stopping
<1>1. Harness!Cardinality(table) \in 0..Harness!Cardinality(ToolCalls)
  BY TableSize DEF Harness!TypeOK
<1>2. UNCHANGED <<ready, turn, call, results>> /\ UNCHANGED <<dialog, disturbed>>
  BY DEF Harness!MainStep, Harness!StartFails, Harness!Start, Harness!WaitReady, Harness!WriteRequest,
         Harness!EndRequest, Harness!InstallHeadless, Harness!EndTurn, Harness!WalkRaises,
         Harness!Walk, Harness!CloseInput, Harness!Terminate, Harness!Clear
<1>3. main' \in Mains /\ outcome' \in {"none", "ok", "error"}
      /\ request' \in {"none", "unsent", "sent", "answered", "failed"}
  BY DEF Harness!MainStep, Harness!StartFails, Harness!Start, Harness!WaitReady, Harness!WriteRequest,
         Harness!EndRequest, Harness!InstallHeadless, Harness!EndTurn, Harness!WalkRaises,
         Harness!Walk, Harness!CloseInput, Harness!Terminate, Harness!Clear, Harness!Stop,
         Harness!RequestStages, Harness!Stopping, Harness!TypeOK
<1>4. /\ over' \in BOOLEAN /\ input' \in BOOLEAN /\ headless' \in BOOLEAN
      /\ omp' \in {"unborn", "running", "exited", "terminated"}
      /\ held' = held /\ writer' \in {writer, "main"}
  BY DEF Harness!MainStep, Harness!StartFails, Harness!Start, Harness!WaitReady, Harness!WriteRequest,
         Harness!EndRequest, Harness!InstallHeadless, Harness!EndTurn, Harness!WalkRaises,
         Harness!Walk, Harness!CloseInput, Harness!Terminate, Harness!Clear, Harness!TypeOK
<1>5. again' \in BOOLEAN
  <2>1. ASSUME NEW status, Harness!Stop(status) PROVE again' \in BOOLEAN
    <3>1. CASE main \in {"ready", "negotiate"}
      BY <2>1, <3>1 DEF Harness!Stop
    <3>2. CASE main \notin {"ready", "negotiate"}
      BY <2>1, <3>2 DEF Harness!Stop
    <3> QED
      BY <3>1, <3>2
  <2>2. Harness!Stop("ok") \/ Harness!Stop("error") \/ again' \in {again, FALSE}
    BY DEF Harness!MainStep, Harness!StartFails, Harness!Start, Harness!WaitReady, Harness!WriteRequest,
           Harness!EndRequest, Harness!InstallHeadless, Harness!EndTurn, Harness!WalkRaises,
           Harness!Walk, Harness!CloseInput, Harness!Terminate, Harness!Clear
  <2> QED
    BY <2>1, <2>2 DEF Harness!TypeOK
<1>6. sizeSeen' \in {sizeSeen, Harness!Cardinality(table)}
  BY DEF Harness!MainStep, Harness!StartFails, Harness!Start, Harness!WaitReady, Harness!WriteRequest,
         Harness!EndRequest, Harness!InstallHeadless, Harness!EndTurn, Harness!WalkRaises,
         Harness!Walk, Harness!CloseInput, Harness!Terminate, Harness!Clear, Harness!Stop
<1>7. table' \subseteq ToolCalls /\ cancelled' \subseteq ToolCalls /\ toldOff' \subseteq cancelled'
  BY DEF Harness!MainStep, Harness!StartFails, Harness!Start, Harness!WaitReady, Harness!WriteRequest,
         Harness!EndRequest, Harness!InstallHeadless, Harness!EndTurn, Harness!WalkRaises,
         Harness!Walk, Harness!CloseInput, Harness!Terminate, Harness!Clear, Harness!TypeOK
<1> QED
  BY <1>1, <1>2, <1>3, <1>4, <1>5, <1>6, <1>7 DEF Harness!TypeOK

(* The main thread sends no result, and cancels a call before it stops.    *)
LEMMA MainThreadAnswers ==
  ASSUME Harness!TypeOK, AnswersLeft, Harness!MainStep
  PROVE  AnswersLeft'
<1>1. CASE Harness!Walk
  BY <1>1 DEF Harness!Walk, Harness!ompVars, AnswersLeft, Harness!TypeOK
<1>2. CASE Harness!Clear
  BY <1>2 DEF Harness!Clear, Harness!ompVars, AnswersLeft
<1>3. CASE UNCHANGED Harness!callVars /\ main # "ended" /\ writer' \in {writer, "main"}
  <2>1. \A c \in ToolCalls : c # "main"
    BY ClientAssumption DEF Harness!SessionAssumption
  <2> QED
    BY <1>3, <2>1 DEF AnswersLeft, Harness!callVars
<1>4. ASSUME ~Harness!Walk, ~Harness!Clear
      PROVE  UNCHANGED Harness!callVars /\ main # "ended" /\ writer' \in {writer, "main"}
  BY <1>4 DEF Harness!MainStep, Harness!StartFails, Harness!Start, Harness!WaitReady, Harness!WriteRequest,
              Harness!EndRequest, Harness!InstallHeadless, Harness!EndTurn, Harness!WalkRaises,
              Harness!CloseInput, Harness!Terminate, Harness!RequestStages, Harness!ompVars,
              Harness!mainVars
<1> QED
  BY <1>1, <1>2, <1>3, <1>4

(* stop() gets to the termination of omp unless its walk raises.           *)
LEMMA MainThreadStops ==
  ASSUME Harness!TypeOK, WalkIsQuiet, Harness!MainStep
  PROVE  WalkIsQuiet'
<1> USE DEF WalkIsQuiet, Harness!StopsUnlessDisturbed, Harness!StoppedIsTerminated,
            Harness!RequestStages, Harness!callVars, Harness!readerVars, Harness!stopVars,
            Harness!uiVars, Harness!ompVars
<1>1. CASE Harness!StartFails
  BY <1>1 DEF Harness!StartFails
<1>2. CASE Harness!Start
  BY <1>2 DEF Harness!Start
<1>3. CASE Harness!WaitReady
  BY <1>3 DEF Harness!WaitReady, Harness!WriteRequest, Harness!Stop
<1>4. CASE Harness!EndRequest
  BY <1>4 DEF Harness!EndRequest, Harness!Stop
<1>5. CASE Harness!InstallHeadless
  BY <1>5 DEF Harness!InstallHeadless
<1>6. CASE Harness!EndTurn
  BY <1>6 DEF Harness!EndTurn, Harness!Stop
<1>7. CASE Harness!WalkRaises
  BY <1>7 DEF Harness!WalkRaises
<1>8. CASE Harness!Walk
  BY <1>8 DEF Harness!Walk
<1>9. CASE Harness!CloseInput
  BY <1>9 DEF Harness!CloseInput
<1>10. CASE Harness!Terminate
  BY <1>10 DEF Harness!Terminate
<1>11. CASE Harness!Clear
  BY <1>11 DEF Harness!Clear
<1>12. CASE Harness!WriteRequest
  BY <1>12 DEF Harness!WriteRequest, Harness!mainVars
<1> QED
  BY <1>1, <1>2, <1>3, <1>4, <1>5, <1>6, <1>7, <1>8, <1>9, <1>10, <1>11, <1>12 DEF Harness!MainStep

(* omp and the reader thread touch no call and stop nothing.               *)
LEMMA ReaderThread ==
  ASSUME HarnessInv,
         \/ Harness!Ready \/ Harness!Response \/ Harness!AgentEnd \/ Harness!Dialog
         \/ Harness!StreamEnds \/ Harness!Hold \/ Harness!WrittenByMain
  PROVE  HarnessInv'
<1> USE DEF Harness!callVars, Harness!mainVars, Harness!readerVars, Harness!stopVars,
            Harness!uiVars, Harness!ompVars, Harness!Ready, Harness!Response,
            Harness!AgentEnd, Harness!Dialog, Harness!StreamEnds, Harness!Sends, Harness!Hold,
            Harness!WrittenByMain
<1>1. UNCHANGED <<Harness!callVars, Harness!mainVars, Harness!stopVars, input, headless>>
  OBVIOUS
<1>2. /\ ready' \in {"no", "v1", "v2"}
      /\ request' \in {"none", "unsent", "sent", "answered", "failed"}
      /\ turn' \in BOOLEAN /\ over' \in BOOLEAN /\ held' \in BOOLEAN
      /\ dialog' \in {"none", "early", "asked", "open", "answered"}
      /\ omp' \in {"unborn", "running", "exited", "terminated"}
      /\ writer' \in {writer, "none", "reader"}
  BY DEF HarnessInv, Harness!TypeOK
<1>3. omp' = omp \/ (omp = "running" /\ omp' = "exited")
  OBVIOUS
<1>4. Harness!TypeOK'
  BY <1>1, <1>2 DEF HarnessInv, Harness!TypeOK
<1>5. AnswersLeft'
  <2>1. \A c \in ToolCalls : c \notin {"none", "reader"}
    BY ClientAssumption DEF Harness!SessionAssumption
  <2> QED
    BY <1>1, <1>2, <2>1 DEF HarnessInv, AnswersLeft
<1>6. WalkIsQuiet'
  BY <1>1, <1>3 DEF HarnessInv, WalkIsQuiet, Harness!StopsUnlessDisturbed,
                    Harness!StoppedIsTerminated
<1> QED
  BY <1>4, <1>5, <1>6 DEF HarnessInv

(* A call that the reader refuses is answered by it alone.                 *)
LEMMA ReaderRefuses ==
  ASSUME HarnessInv, Harness!WrittenByReader
  PROVE  HarnessInv'
<1> USE DEF Harness!WrittenByReader, Harness!mainVars, Harness!stopVars
<1>1. UNCHANGED <<main, outcome, ready, request, turn, omp, input, held, table, cancelled,
                  toldOff, again, sizeSeen, disturbed, headless>>
      /\ writer' = "none" /\ over' \in BOOLEAN
      /\ dialog' \in {"none", "early", "asked", "open", "answered"}
  BY DEF HarnessInv, Harness!TypeOK, Harness!Reaches
<1>2. \A c \in ToolCalls :
        /\ call[c] # "refused" => call'[c] = call[c] /\ results'[c] = results[c]
        /\ call[c] = "refused" => call'[c] = "returned" /\ results'[c] \in {0, 1}
  BY DEF HarnessInv, Harness!TypeOK, AnswersLeft
<1>3. /\ call' \in [ToolCalls -> {"none", "running", "checked", "refused", "returned", "silent"}]
      /\ results' \in [ToolCalls -> 0..2]
  BY <1>2 DEF HarnessInv, Harness!TypeOK
<1>4. Harness!TypeOK'
  BY <1>1, <1>3 DEF HarnessInv, Harness!TypeOK
<1>5. AnswersLeft'
  <2>1. \A c \in ToolCalls : c # "none"
    BY ClientAssumption DEF Harness!SessionAssumption
  <2>2. \A c \in ToolCalls : c \in toldOff => call[c] # "refused"
    BY DEF HarnessInv, AnswersLeft
  <2> QED
    BY <1>1, <1>2, <2>1, <2>2 DEF HarnessInv, Harness!TypeOK, AnswersLeft
<1>6. WalkIsQuiet'
  BY <1>1 DEF HarnessInv, WalkIsQuiet, Harness!StopsUnlessDisturbed,
              Harness!StoppedIsTerminated
<1> QED
  BY <1>4, <1>5, <1>6 DEF HarnessInv

(* A host tool call, from its request to the end of its thread.            *)
LEMMA CallThread ==
  ASSUME HarnessInv, NEW c \in ToolCalls,
         \/ Harness!ToolCall(c) \/ Harness!RefuseCall(c) \/ Harness!CancelCall(c)
         \/ Harness!LookCancelled(c) \/ Harness!WriteResult(c) \/ Harness!SendResult(c)
         \/ Harness!Leave(c)
  PROVE  HarnessInv'
<1> USE DEF Harness!mainVars, Harness!readerVars, Harness!callVars, Harness!stopVars, Harness!uiVars,
            Harness!ompVars, Harness!ToolCall, Harness!RefuseCall, Harness!CancelCall,
            Harness!LookCancelled, Harness!WriteResult, Harness!SendResult, Harness!Leave
<1>0. \A d \in ToolCalls : d \notin {"none", "main", "reader"}
  BY ClientAssumption DEF Harness!SessionAssumption
<1>1. UNCHANGED <<Harness!mainVars, Harness!readerVars, omp, input, held, again, sizeSeen,
                  Harness!uiVars>>
  OBVIOUS
<1>2. /\ disturbed' \in BOOLEAN
      /\ table' \subseteq ToolCalls /\ cancelled' \subseteq ToolCalls
      /\ toldOff' \subseteq cancelled'
      /\ writer' \in {writer, "none", "reader", c}
  BY DEF HarnessInv, Harness!TypeOK
<1>3. call' \in [ToolCalls -> {"none", "running", "checked", "refused", "returned", "silent"}]
  BY DEF HarnessInv, Harness!TypeOK
<1>4. results' \in [ToolCalls -> 0..2]
  BY DEF HarnessInv, Harness!TypeOK, AnswersLeft, Harness!Reaches
<1>5. Harness!TypeOK'
  BY <1>1, <1>2, <1>3, <1>4 DEF HarnessInv, Harness!TypeOK
<1>6. AnswersLeft'
  <2>1. \A d \in ToolCalls \ {c} :
          /\ call'[d] = call[d] /\ results'[d] = results[d]
          /\ (d \in toldOff' <=> d \in toldOff) /\ (d \in table' <=> d \in table)
          /\ writer' = d => writer = d
    BY <1>0 DEF HarnessInv, Harness!TypeOK
  <2>2. /\ call'[c] \in {"none", "running", "checked", "refused"} => results'[c] = 0
        /\ results'[c] <= 1
    BY <1>0 DEF HarnessInv, AnswersLeft, Harness!TypeOK, Harness!Reaches
  <2>3. writer' = c => call'[c] = "checked"
    BY <1>0 DEF HarnessInv, AnswersLeft, Harness!TypeOK
  <2>4. c \in toldOff' => call'[c] \in {"running", "silent", "returned"} /\ results'[c] = 0
    BY <1>0 DEF HarnessInv, AnswersLeft, Harness!TypeOK
  <2>5. call'[c] = "running" => c \in table' \/ main' = "ended"
    BY <1>0 DEF HarnessInv, AnswersLeft, Harness!TypeOK
  <2> QED
    BY <1>1, <2>1, <2>2, <2>3, <2>4, <2>5 DEF HarnessInv, AnswersLeft
<1>7. WalkIsQuiet'
  <2>1. main = "walk" /\ ~disturbed' => UNCHANGED table /\ ~disturbed
    BY DEF HarnessInv, Harness!TypeOK
  <2>2. ~disturbed' => ~disturbed
    OBVIOUS
  <2> QED
    BY <1>1, <2>1, <2>2 DEF HarnessInv, WalkIsQuiet, Harness!StopsUnlessDisturbed,
                            Harness!StoppedIsTerminated
<1> QED
  BY <1>5, <1>6, <1>7 DEF HarnessInv

(* The invariant of the harness holds in every state of its behaviours.    *)
THEOREM HarnessInvariant == Spec => [](part = "harness" => HarnessInv)
<1>1. Init => (part = "harness" => HarnessInv)
  <2> SUFFICES ASSUME Harness!Init PROVE HarnessInv
    BY DEF Init
  <2>1. {} \subseteq ToolCalls
    OBVIOUS
  <2>2. 0 \in 0..Harness!Cardinality(ToolCalls)
    BY <2>1, TableSize
  <2>3. Harness!TypeOK
    <3>1. /\ call \in [ToolCalls -> {"none", "running", "checked", "refused", "returned", "silent"}]
          /\ results \in [ToolCalls -> 0..2]
      BY DEF Harness!Init
    <3> QED
      BY <2>2, <3>1 DEF Harness!Init, Harness!TypeOK
  <2>4. AnswersLeft
    <3>1. \A c \in ToolCalls : c # "none"
      BY ClientAssumption DEF Harness!SessionAssumption
    <3> QED
      BY <3>1 DEF Harness!Init, AnswersLeft
  <2>5. WalkIsQuiet
    BY DEF Harness!Init, WalkIsQuiet, Harness!StopsUnlessDisturbed,
           Harness!StoppedIsTerminated
  <2> QED
    BY <2>3, <2>4, <2>5 DEF HarnessInv
<1>2. (part = "harness" => HarnessInv) /\ [Next]_vars => (part = "harness" => HarnessInv)'
  <2> SUFFICES ASSUME part = "harness" => HarnessInv, [Next]_vars, part' = "harness"
               PROVE  HarnessInv'
    OBVIOUS
  <2>1. part = "harness" /\ (Harness!Next \/ UNCHANGED harnessVars)
    BY DEF Next, vars
  <2>2. CASE Harness!Next
    <3>1. Harness!MainStep => HarnessInv'
      BY <2>1, MainThreadTypes, MainThreadAnswers, MainThreadStops DEF HarnessInv
    <3> QED
      BY <2>1, <2>2, <3>1, ReaderThread, ReaderRefuses, CallThread
         DEF Harness!Next, Harness!Written
  <2>3. CASE UNCHANGED harnessVars
    BY <2>1, <2>3 DEF harnessVars, HarnessInv, Harness!TypeOK, AnswersLeft, WalkIsQuiet,
                      Harness!StopsUnlessDisturbed, Harness!StoppedIsTerminated
  <2> QED
    BY <2>1, <2>2, <2>3
<1> QED
  BY <1>1, <1>2, PTL DEF Spec

(* A host tool call is answered once at most, and not at all when it was   *)
(* cancelled while its tool ran (run_tool in client.py).                   *)
THEOREM ToolCallsAreAnsweredOnce == Spec => []AnsweredOnce
<1>1. (part = "harness" => HarnessInv) => AnsweredOnce
  BY DEF AnsweredOnce, Harness!AnsweredOnce, HarnessInv, AnswersLeft
<1> QED
  BY <1>1, HarnessInvariant, PTL

(* The harness does not end before omp's process group was terminated,     *)
(* unless the table of tool calls changed while stop() walked it.          *)
THEOREM OmpIsTerminated == Spec => []StopsUnlessDisturbed
<1>1. (part = "harness" => HarnessInv) => StopsUnlessDisturbed
  BY DEF StopsUnlessDisturbed, HarnessInv, WalkIsQuiet
<1> QED
  BY <1>1, HarnessInvariant, PTL
-----------------------------------------------------------------------------
(* The frame decoder.                                                      *)

\* The chunks so far, in their order and of one frame.
InOrder(chunks) ==
  \A i \in DOMAIN chunks :
    /\ chunks[i].id = chunks[1].id /\ chunks[i].count = chunks[1].count
    /\ chunks[i].length = chunks[1].length /\ chunks[i].index = i - 1

FramesInv ==
  /\ negotiated \in BOOLEAN /\ decoder \in {"open", "refused"}
  /\ partial \in Seq(Frames!Chunks) /\ frame \in Seq(Frames!Chunks)
  /\ partial # <<>> => negotiated /\ InOrder(partial)
  /\ Frames!FramesAreWhole

(* A chunk that fits goes behind the others.                               *)
LEMMA InOrderAppend ==
  ASSUME NEW chunks \in Seq(Frames!Chunks), NEW c \in Frames!Chunks,
         IF chunks = <<>> THEN c.index = 0
         ELSE /\ InOrder(chunks)
              /\ chunks[1].id = c.id /\ chunks[1].count = c.count
              /\ chunks[1].length = c.length /\ Len(chunks) = c.index
  PROVE  /\ Append(chunks, c) \in Seq(Frames!Chunks) /\ Append(chunks, c) # <<>>
         /\ InOrder(Append(chunks, c))
         /\ Append(chunks, c)[1].count = c.count /\ Append(chunks, c)[1].length = c.length
<1> DEFINE more == Append(chunks, c)
<1>1. /\ more \in Seq(Frames!Chunks) /\ Len(more) = Len(chunks) + 1
      /\ \A i \in 1..Len(chunks) : more[i] = chunks[i]
      /\ more[Len(chunks) + 1] = c /\ Len(chunks) \in Nat
  OBVIOUS
<1>2. more # <<>> /\ DOMAIN more = 1..(Len(chunks) + 1) /\ DOMAIN chunks = 1..Len(chunks)
  <2>1. Len(<<>>) = 0 /\ Len(more) # 0
    BY <1>1
  <2>2. DOMAIN more = 1..Len(more) /\ DOMAIN chunks = 1..Len(chunks)
    BY <1>1, LenProperties
  <2> QED
    BY <1>1, <2>1, <2>2
<1> HIDE DEF more
<1>3. CASE chunks = <<>>
  <2>1. Len(chunks) = 0
    BY <1>3
  <2>2. DOMAIN more = {1} /\ more[1] = c
    BY <1>1, <1>2, <2>1
  <2>3. InOrder(more)
    BY <1>3, <2>2 DEF InOrder
  <2> QED
    BY <1>1, <1>2, <2>2, <2>3 DEF more
<1>4. CASE chunks # <<>>
  <2>1. Len(chunks) > 0
    BY <1>1, <1>4, EmptySeq
  <2>2. more[1] = chunks[1]
    BY <1>1, <2>1
  <2>3. ASSUME NEW i \in DOMAIN more
        PROVE  /\ more[i].id = more[1].id /\ more[i].count = more[1].count
               /\ more[i].length = more[1].length /\ more[i].index = i - 1
    <3>1. CASE i \in 1..Len(chunks)
      BY <1>1, <1>2, <1>4, <2>2, <3>1 DEF InOrder
    <3>2. CASE i = Len(chunks) + 1
      BY <1>1, <1>4, <2>2, <3>2
    <3> QED
      BY <1>1, <1>2, <3>1, <3>2
  <2> QED
    BY <1>1, <1>2, <1>4, <2>2, <2>3 DEF InOrder, more
<1> QED
  BY <1>3, <1>4

\* Every step of the decoder keeps it: a chunk that does not fit is refused.
LEMMA FramesStep ==
  ASSUME FramesInv, Frames!Next
  PROVE  FramesInv'
<1>1. CASE Frames!Negotiate
  BY <1>1 DEF Frames!Negotiate, FramesInv, Frames!FramesAreWhole, InOrder
<1>2. CASE Frames!PushLine
  BY <1>2 DEF Frames!PushLine, FramesInv, Frames!FramesAreWhole, InOrder
<1>3. ASSUME NEW c \in Frames!Chunks, Frames!PushChunk(c) PROVE FramesInv'
  <2> DEFINE chunks == Append(partial, c)
             last == Len(chunks) = c.count
             fine == /\ negotiated /\ Frames!Valid(c) /\ Frames!Fits(c)
                     /\ Frames!Received(chunks) <= c.length
                     /\ last => Frames!Received(chunks) = c.length
  <2>1. /\ decoder' = IF fine THEN "open" ELSE "refused"
        /\ partial' = IF ~fine THEN partial ELSE IF last THEN <<>> ELSE chunks
        /\ frame' = IF fine /\ last THEN chunks ELSE frame
        /\ negotiated' = negotiated
    BY <1>3 DEF Frames!PushChunk
  <2>2. ASSUME fine
        PROVE  /\ chunks \in Seq(Frames!Chunks) /\ chunks # <<>> /\ InOrder(chunks)
               /\ chunks[1].count = c.count /\ chunks[1].length = c.length
    <3>1. partial \in Seq(Frames!Chunks) /\ (partial # <<>> => InOrder(partial))
      BY DEF FramesInv
    <3>2. IF partial = <<>> THEN c.index = 0
          ELSE /\ InOrder(partial)
               /\ partial[1].id = c.id /\ partial[1].count = c.count
               /\ partial[1].length = c.length /\ Len(partial) = c.index
      BY <2>2, <3>1 DEF Frames!Fits
    <3> QED
      BY <3>1, <3>2, InOrderAppend
  <2>3. fine /\ last => Frames!Received(chunks) = c.length /\ negotiated
    OBVIOUS
  <2>4. fine => negotiated
    OBVIOUS
  <2> HIDE DEF chunks, fine
  <2>5. CASE fine /\ last
    <3>1. partial' = <<>> /\ frame' = chunks
      BY <2>1, <2>5
    <3>2. Frames!FramesAreWhole'
      BY <2>1, <2>2, <2>3, <2>5, <3>1 DEF Frames!FramesAreWhole, InOrder
    <3>3. <<>> \in Seq(Frames!Chunks)
      OBVIOUS
    <3> QED
      BY <2>1, <2>2, <2>5, <3>1, <3>2, <3>3 DEF FramesInv
  <2>6. CASE fine /\ ~last
    BY <2>1, <2>2, <2>4, <2>6 DEF FramesInv, Frames!FramesAreWhole
  <2>7. CASE ~fine
    BY <2>1, <2>7 DEF FramesInv, Frames!FramesAreWhole, InOrder
  <2> QED
    BY <2>5, <2>6, <2>7
<1> QED
  BY <1>1, <1>2, <1>3 DEF Frames!Next

(* What the decoder hands on is whole, and so are the chunks it holds back.*)
THEOREM FramesInvariant == Spec => [](part = "frames" => FramesInv)
<1>1. Init => (part = "frames" => FramesInv)
  <2>1. <<>> \in Seq(Frames!Chunks)
    OBVIOUS
  <2>2. Frames!Init => FramesInv
    BY <2>1 DEF Frames!Init, FramesInv, Frames!FramesAreWhole
  <2> QED
    BY <2>2 DEF Init
<1>2. (part = "frames" => FramesInv) /\ [Next]_vars => (part = "frames" => FramesInv)'
  <2> SUFFICES ASSUME part = "frames" => FramesInv, [Next]_vars, part' = "frames"
               PROVE  FramesInv'
    OBVIOUS
  <2>1. part = "frames" /\ (Frames!Next \/ UNCHANGED framesVars)
    BY DEF Next, vars
  <2>2. CASE UNCHANGED framesVars
    BY <2>1, <2>2 DEF framesVars, FramesInv, Frames!FramesAreWhole, InOrder
  <2> QED
    BY <2>1, <2>2, FramesStep
<1> QED
  BY <1>1, <1>2, PTL DEF Spec
-----------------------------------------------------------------------------
(* The requests.                                                           *)

\* The reader thread is about to put an answer into the queue of c.
Held(c) == reader # Requests!Reading /\ reader.target = c

\* Who may fill the queue of a request: it is in the table, or the reader has
\* taken it out, or one who closes the client has; never two of them, and
\* nobody once the queue is full.
OneHolder ==
  \A c \in Calls :
    /\ stage[c] \in {"idle", "enter"} =>
         /\ c \notin pending /\ ~Held(c) /\ queue[c] = Requests!Nothing /\ c \notin unanswered
         /\ \A k \in Requests!Closers : c \notin batch[k]
    /\ c \in pending =>
         /\ stage[c] \in {"write", "writing", "drop", "wait", "expired"}
         /\ ~Held(c) /\ queue[c] = Requests!Nothing
         /\ \A k \in Requests!Closers : c \notin batch[k]
    /\ Held(c) =>
         /\ queue[c] = Requests!Nothing
         /\ \A k \in Requests!Closers : c \notin batch[k]
    /\ \A k \in Requests!Closers : c \in batch[k] =>
         /\ queue[c] = Requests!Nothing
         /\ \A j \in Requests!Closers : j # k => c \notin batch[j]

\* An answer of another request is an error, of a request that is over.
Fair(c, item) ==
  item.of \notin {c, "none"} =>
    /\ item.of \in Calls /\ item.kind \in {"error", "parse"}
    /\ item.of \notin pending /\ stage[item.of] \notin {"idle", "enter"}
    /\ item.kind = "error" => command[item.of] = command[c]

AllFair ==
  \A c \in Calls : Fair(c, queue[c]) /\ (Held(c) => Fair(c, reader.item))

\* What the reader has in hand is for a call.
ForACall == reader # Requests!Reading => reader.target \in Calls

RequestsInv == Requests!TypeOK /\ OneHolder /\ AllFair /\ ForACall

(* The steps of a call but the entry leave the table's owners alone.       *)
LEMMA CallSteps ==
  ASSUME RequestsInv, NEW c \in Calls, Requests!CallStep(c)
  PROVE  RequestsInv'
<1> USE DEF RequestsInv, Requests!TypeOK, Requests!Goto, Requests!closeVars,
            Requests!processVars, Requests!Ended
<1>1. UNCHANGED <<command, queue, process, stdin, full, reader, closedError, closer, batch>>
  BY DEF Requests!CallStep, Requests!Request, Requests!Enter, Requests!Write, Requests!Written, Requests!Get,
         Requests!Timeout, Requests!Drop
<1>2. \A d \in Calls : d # c => stage'[d] = stage[d]
  BY DEF Requests!CallStep, Requests!Request, Requests!Enter, Requests!Write, Requests!Written, Requests!Get,
         Requests!Timeout, Requests!Drop
<1>3. /\ pending' \subseteq Calls /\ unanswered' \subseteq Calls
      /\ \A d \in Calls : d # c => (d \in pending' <=> d \in pending)
                                   /\ (d \in unanswered' <=> d \in unanswered)
  BY DEF Requests!CallStep, Requests!Request, Requests!Enter, Requests!Write, Requests!Written, Requests!Get,
         Requests!Timeout, Requests!Drop
<1>4. stage' \in [Calls -> {"idle", "enter", "write", "writing", "drop", "wait", "expired"}
                             \cup Requests!Ended]
  <2>1. CASE Requests!Get(c)
    <3>1. queue[c] \in Requests!Items
      BY <2>1 DEF Requests!Get
    <3> QED
      BY <2>1, <3>1 DEF Requests!Get, Requests!Items
  <2>2. CASE ~Requests!Get(c)
    BY <2>2 DEF Requests!CallStep, Requests!Request, Requests!Enter, Requests!Write, Requests!Written,
                Requests!Timeout, Requests!Drop
  <2> QED
    BY <2>1, <2>2
<1>5. Requests!TypeOK'
  BY <1>1, <1>3, <1>4
<1>6. /\ stage[c] \notin {"idle", "enter"} => stage'[c] \notin {"idle", "enter"}
      /\ c \in pending' =>
           /\ stage'[c] \in {"write", "writing", "drop", "wait", "expired"}
           /\ c \in pending \/ stage[c] = "enter"
      /\ stage'[c] \in {"idle", "enter"} => c \notin pending' /\ c \notin unanswered'
  <2>1. CASE Requests!Get(c)
    <3>1. queue[c].kind \in {"ok", "error", "parse", "closed"}
      BY <2>1 DEF Requests!Get, Requests!Items
    <3>2. c \notin pending
      BY <2>1 DEF Requests!Get, OneHolder
    <3> QED
      BY <2>1, <3>1, <3>2 DEF Requests!Get
  <2>2. CASE ~Requests!Get(c)
    BY <2>2 DEF Requests!CallStep, Requests!Request, Requests!Enter, Requests!Write, Requests!Written,
                Requests!Timeout, Requests!Drop, OneHolder
  <2> QED
    BY <2>1, <2>2
<1>7. \A d \in Calls : Held(d)' <=> Held(d)
  BY <1>1 DEF Held
<1>8. OneHolder'
  BY <1>1, <1>2, <1>3, <1>6, <1>7 DEF OneHolder
<1>9. AllFair'
  <2>1. ASSUME NEW d \in Calls, NEW item, Fair(d, item) PROVE Fair(d, item)'
    BY <1>1, <1>2, <1>3, <1>6, <2>1 DEF Fair, OneHolder
  <2> QED
    BY <1>1, <1>7, <2>1 DEF AllFair
<1>10. ForACall'
  BY <1>1 DEF ForACall
<1> QED
  BY <1>5, <1>8, <1>9, <1>10

(* A set that TLC would count as one element has one.                      *)
LEMMA OneElement ==
  ASSUME NEW S, Requests!Cardinality(S) = 1, Requests!IsFiniteSet(S)
  PROVE  \E x \in S : S = {x}
<1>1. Requests!Cardinality(S) = Cardinality(S)
  BY DEF Requests!Cardinality, Cardinality
<1>2. Requests!IsFiniteSet(S) <=> IsFiniteSet(S)
  BY DEF Requests!IsFiniteSet, IsFiniteSet
<1>3. \E x : S = {x}
  BY <1>1, <1>2, FS_Singleton
<1> QED
  BY <1>3

(* A response goes to a request of the table; to another than its own only *)
(* an error that no longer has one.                                        *)
LEMMA TargetIsFair ==
  ASSUME RequestsInv, NEW c \in Calls, NEW kind \in {"ok", "error", "parse"},
         NEW named \in BOOLEAN, kind = "ok" => named,
         NEW d \in Requests!Target(c, kind, named)
  PROVE  /\ d \in pending
         /\ d # c => /\ c \notin pending /\ kind \in {"error", "parse"}
                     /\ kind = "error" => command[c] = command[d]
<1> DEFINE same == {x \in pending : kind = "error" /\ command[x] = command[c]}
<1>1. Requests!IsFiniteSet(pending) /\ Requests!IsFiniteSet(same)
  <2>1. \A S : Requests!IsFiniteSet(S) <=> IsFiniteSet(S)
    BY DEF Requests!IsFiniteSet, IsFiniteSet
  <2>2. IsFiniteSet(Calls)
    BY <2>1, ClientAssumption DEF Requests!RequestsAssumption
  <2>3. pending \subseteq Calls /\ same \subseteq Calls
    BY DEF RequestsInv, Requests!TypeOK
  <2> QED
    BY <2>1, <2>2, <2>3, FS_Subset
<1>2. CASE named /\ c \in pending
  BY <1>2 DEF Requests!Target
<1>3. CASE ~(named /\ c \in pending) /\ Requests!Cardinality(same) = 1
  <2>1. d \in same
    BY <1>3 DEF Requests!Target
  <2>2. PICK x \in same : same = {x}
    BY <1>1, <1>3, OneElement
  <2>3. c \in pending => c \in same
    BY <2>1
  <2> QED
    BY <2>1, <2>2, <2>3
<1>4. CASE /\ ~(named /\ c \in pending) /\ Requests!Cardinality(same) # 1
           /\ kind = "parse" /\ Requests!Cardinality(pending) = 1
  <2>1. d \in pending
    BY <1>4 DEF Requests!Target
  <2>2. PICK x \in pending : pending = {x}
    BY <1>1, <1>4, OneElement
  <2> QED
    BY <1>4, <2>1, <2>2
<1> QED
  BY <1>2, <1>3, <1>4 DEF Requests!Target

\* An answer removes just the request it belongs to.
LEMMA RespondStep ==
  ASSUME RequestsInv, NEW c \in Calls, NEW kind \in {"ok", "error", "parse"},
         NEW named \in BOOLEAN, Requests!Respond(c, kind, named)
  PROVE  RequestsInv'
<1> DEFINE target == Requests!Target(c, kind, named)
<1>1. /\ reader = Requests!Reading /\ c \in unanswered
      /\ unanswered' = unanswered \ {c} /\ pending' = pending \ target
      /\ reader' = IF target = {} THEN Requests!Reading
                   ELSE [target |-> CHOOSE x \in target : TRUE,
                         item |-> [kind |-> kind, of |-> c]]
      /\ UNCHANGED <<stage, command, queue, process, stdin, full, closedError, closer, batch>>
      /\ kind = "ok" => named
  BY DEF Requests!Respond, Requests!processVars, Requests!closeVars
<1>2. \A x \in target :
        /\ x \in pending
        /\ x # c => /\ c \notin pending /\ kind \in {"error", "parse"}
                    /\ kind = "error" => command[c] = command[x]
  BY <1>1, TargetIsFair
<1>3. stage[c] \notin {"idle", "enter"}
  BY <1>1 DEF RequestsInv, OneHolder
<1> HIDE DEF target
<1>4. CASE target = {}
  <2>1. UNCHANGED <<pending, reader>>
    BY <1>1, <1>4
  <2>2. \A x \in Calls : Held(x)' <=> Held(x)
    BY <2>1 DEF Held
  <2>3. Requests!TypeOK'
    BY <1>1, <2>1 DEF RequestsInv, Requests!TypeOK
  <2>4. OneHolder'
    BY <1>1, <2>1, <2>2 DEF RequestsInv, OneHolder
  <2>5. AllFair'
    BY <1>1, <2>1, <2>2 DEF RequestsInv, AllFair, Fair
  <2>6. ForACall'
    BY <1>1, <2>1 DEF ForACall
  <2> QED
    BY <2>3, <2>4, <2>5, <2>6 DEF RequestsInv
<1>5. CASE target # {}
  <2>1. PICK e \in target : reader' = [target |-> e, item |-> [kind |-> kind, of |-> c]]
    BY <1>1, <1>5
  <2>2. e \in target /\ e \in pending /\ e \in Calls
    BY <1>2, <2>1 DEF RequestsInv, Requests!TypeOK
  <2>3. \A x \in Calls : Held(x)' <=> x = e
    BY <2>1 DEF Held, Requests!Reading, Requests!Nothing
  <2>4. \A x \in Calls : ~Held(x)
    BY <1>1 DEF Held
  <2>5. Requests!TypeOK'
    <3>1. [kind |-> kind, of |-> c] \in Requests!Items
      BY DEF Requests!Items
    <3>2. reader' \in [target : Calls \cup {"none"},
                       item : Requests!Items \cup {Requests!Nothing}]
      BY <2>2, <2>1, <3>1
    <3> QED
      BY <1>1, <3>2 DEF RequestsInv, Requests!TypeOK
  <2>6. OneHolder'
    BY <1>1, <2>2, <2>3, <2>4 DEF RequestsInv, OneHolder
  <2>7. AllFair'
    <3>1. \A x \in Calls : Fair(x, queue[x])'
      BY <1>1 DEF RequestsInv, AllFair, Fair
    <3>2. Fair(e, reader.item)'
      <4>1. reader'.item.of = c /\ reader'.item.kind = kind
        BY <2>1
      <4>2. e # c => c \notin pending' /\ kind \in {"error", "parse"}
                     /\ (kind = "error" => command'[c] = command'[e])
        BY <1>1, <1>2, <2>2
      <4> QED
        BY <1>1, <1>3, <4>1, <4>2 DEF Fair
    <3> QED
      BY <1>1, <2>3, <3>1, <3>2 DEF AllFair
  <2>8. ForACall'
    BY <2>1, <2>2 DEF ForACall
  <2> QED
    BY <2>5, <2>6, <2>7, <2>8 DEF RequestsInv
<1> QED
  BY <1>4, <1>5

(* The reader puts an answer where its taker waits.                        *)
LEMMA PutStep ==
  ASSUME RequestsInv, Requests!Put
  PROVE  RequestsInv'
<1>1. /\ reader # Requests!Reading /\ queue[reader.target] = Requests!Nothing
      /\ queue' = [queue EXCEPT ![reader.target] = reader.item]
      /\ reader' = Requests!Reading
      /\ UNCHANGED <<stage, command, unanswered, pending, process, stdin, full, closedError,
                     closer, batch>>
  BY DEF Requests!Put, Requests!callVars, Requests!processVars, Requests!closeVars
<1>2. \A x \in Calls : ~Held(x)'
  BY <1>1 DEF Held
<1>3. reader.item \in Requests!Items \cup {Requests!Nothing} /\ reader.target \in Calls \cup {"none"}
  BY DEF RequestsInv, Requests!TypeOK
<1>4. \A x \in Calls : queue'[x] = IF x = reader.target THEN reader.item ELSE queue[x]
  BY <1>1 DEF RequestsInv, Requests!TypeOK
<1>5. Requests!TypeOK'
  <2>1. queue' \in [Calls -> Requests!Items \cup {Requests!Nothing}]
    BY <1>1, <1>3 DEF RequestsInv, Requests!TypeOK
  <2>2. reader' \in [target : Calls \cup {"none"},
                     item : Requests!Items \cup {Requests!Nothing}]
    BY <1>1 DEF Requests!Reading
  <2> QED
    BY <1>1, <2>1, <2>2 DEF RequestsInv, Requests!TypeOK
<1>6. OneHolder'
  BY <1>1, <1>2, <1>4 DEF RequestsInv, OneHolder, Held
<1>7. AllFair'
  <2>1. \A x \in Calls : x = reader.target => Fair(x, reader.item)
    BY <1>1 DEF RequestsInv, AllFair, Held
  <2> QED
    BY <1>1, <1>2, <1>4, <2>1 DEF RequestsInv, AllFair, Fair
<1>8. ForACall'
  BY <1>1 DEF ForACall
<1> QED
  BY <1>5, <1>6, <1>7, <1>8 DEF RequestsInv

(* Whoever closes the client takes the table over, and then fails it.      *)
LEMMA CloseSteps ==
  ASSUME RequestsInv,
         \/ Requests!StreamEnds \/ Requests!Fill \/ Requests!CloseStdin \/ Requests!Terminate
         \/ \E k \in Requests!Closers : Requests!CloserStep(k)
  PROVE  RequestsInv'
<1> USE DEF Requests!callVars, Requests!processVars, Requests!closeVars, Requests!After
<1>1. UNCHANGED <<stage, command, unanswered, reader>>
  BY DEF Requests!StreamEnds, Requests!Fill, Requests!CloseStdin, Requests!Terminate, Requests!CloserStep,
         Requests!CheckClosed, Requests!SetClosed, Requests!TakeAll, Requests!FailOne
<1>2. \A x \in Calls : Held(x)' <=> Held(x)
  BY <1>1 DEF Held
<1>3. \/ UNCHANGED <<pending, queue, batch>>
      \/ \E k \in Requests!Closers :
           /\ batch' = [batch EXCEPT ![k] = pending] /\ pending' = {} /\ UNCHANGED queue
      \/ \E k \in Requests!Closers : \E c \in batch[k] :
           /\ queue[c] = Requests!Nothing /\ UNCHANGED pending
           /\ queue' = [queue EXCEPT ![c] = [kind |-> "closed", of |-> "none"]]
           /\ batch' = [batch EXCEPT ![k] = @ \ {c}]
  BY DEF Requests!StreamEnds, Requests!Fill, Requests!CloseStdin, Requests!Terminate, Requests!CloserStep,
         Requests!CheckClosed, Requests!SetClosed, Requests!TakeAll, Requests!FailOne
<1>4. Requests!TypeOK'
  <2>1. /\ process' \in {"alive", "dead", "none"} /\ stdin' \in BOOLEAN /\ full' \in BOOLEAN
        /\ closedError' \in BOOLEAN
    BY DEF RequestsInv, Requests!TypeOK, Requests!StreamEnds, Requests!Fill, Requests!CloseStdin,
           Requests!Terminate, Requests!CloserStep,
           Requests!CheckClosed, Requests!SetClosed, Requests!TakeAll, Requests!FailOne
  <2>2. closer' \in [Requests!Closers -> Requests!CloserStages]
    BY DEF RequestsInv, Requests!TypeOK, Requests!StreamEnds, Requests!Fill, Requests!CloseStdin,
           Requests!Terminate, Requests!CloserStep, Requests!CloserStages,
           Requests!CheckClosed, Requests!SetClosed, Requests!TakeAll, Requests!FailOne
  <2>3. /\ pending' \subseteq Calls
        /\ queue' \in [Calls -> Requests!Items \cup {Requests!Nothing}]
        /\ batch' \in [Requests!Closers -> SUBSET Calls]
    <3>1. [kind |-> "closed", of |-> "none"] \in Requests!Items
      BY DEF Requests!Items
    <3> QED
      BY <1>3, <3>1 DEF RequestsInv, Requests!TypeOK
  <2> QED
    BY <1>1, <2>1, <2>2, <2>3 DEF RequestsInv, Requests!TypeOK
<1>5. OneHolder'
  BY <1>1, <1>2, <1>3 DEF RequestsInv, OneHolder, Requests!TypeOK
<1>6. AllFair'
  <2>1. pending' \subseteq pending
    BY <1>3
  <2>2. \A x \in Calls : queue'[x] = queue[x] \/ queue'[x].of = "none"
    BY <1>3 DEF RequestsInv, Requests!TypeOK
  <2> QED
    BY <1>1, <1>2, <2>1, <2>2 DEF RequestsInv, AllFair, Fair
<1>7. ForACall'
  BY <1>1 DEF RequestsInv, ForACall
<1> QED
  BY <1>4, <1>5, <1>6, <1>7 DEF RequestsInv

(* Every request has one taker, and only errors go astray.                 *)
THEOREM RequestsInvariant == Spec => [](part = "requests" => RequestsInv)
<1>1. Init => (part = "requests" => RequestsInv)
  <2> SUFFICES ASSUME Requests!Init PROVE RequestsInv
    BY DEF Init
  <2> USE DEF Requests!Init
  <2>1. \A c \in Calls : ~Held(c)
    BY DEF Held
  <2>2. Requests!TypeOK
    <3>1. reader \in [target : Calls \cup {"none"}, item : Requests!Items \cup {Requests!Nothing}]
      BY DEF Requests!Reading
    <3>2. /\ stage \in [Calls -> {"idle", "enter", "write", "writing", "drop", "wait", "expired"}
                                  \cup Requests!Ended]
          /\ queue \in [Calls -> Requests!Items \cup {Requests!Nothing}]
          /\ closer \in [Requests!Closers -> Requests!CloserStages]
          /\ batch \in [Requests!Closers -> SUBSET Calls]
      BY DEF Requests!CloserStages
    <3> QED
      BY <3>1, <3>2 DEF Requests!TypeOK
  <2>3. OneHolder
    BY <2>1 DEF OneHolder
  <2>4. AllFair
    BY <2>1 DEF AllFair, Fair, Requests!Nothing
  <2>5. ForACall
    BY DEF ForACall
  <2> QED
    BY <2>2, <2>3, <2>4, <2>5 DEF RequestsInv
<1>2. (part = "requests" => RequestsInv) /\ [Next]_vars => (part = "requests" => RequestsInv)'
  <2> SUFFICES ASSUME part = "requests" => RequestsInv, [Next]_vars, part' = "requests"
               PROVE  RequestsInv'
    OBVIOUS
  <2>1. part = "requests" /\ (Requests!Next \/ UNCHANGED requestsVars)
    BY DEF Next, vars
  <2>2. CASE UNCHANGED requestsVars
    BY <2>1, <2>2 DEF requestsVars, RequestsInv, Requests!TypeOK, OneHolder, AllFair, Fair, Held, ForACall
  <2>3. CASE Requests!Next
    BY <2>1, <2>3, CallSteps, RespondStep, PutStep, CloseSteps DEF Requests!Next
  <2> QED
    BY <2>1, <2>2, <2>3
<1> QED
  BY <1>1, <1>2, PTL DEF Spec

(* A call returns the answer to its own request, or an error of a request  *)
(* that is over, of its command or not parsed by the server                *)
(* (_deliver_correlated_error_response).                                   *)
THEOREM AnswersAreRight == Spec => []RightAnswer
<1>1. (part = "requests" => RequestsInv) => RightAnswer
  BY DEF RightAnswer, Requests!RightAnswer, RequestsInv, AllFair, Fair
<1> QED
  BY <1>1, RequestsInvariant, PTL

(* Neither the reader thread nor whoever closes the client blocks on the   *)
(* queue of a waiter, no table entry is left behind by a call that gave    *)
(* up, and a frame is handed on whole (_handle_response, _mark_closed,     *)
(* _request and _RpcFrameDecoder).                                         *)
THEOREM TheReaderIsSound == Spec => []ReaderIsSound
<1>1. (part = "requests" => RequestsInv) /\ (part = "frames" => FramesInv) => ReaderIsSound
  <2> SUFFICES ASSUME part = "requests", RequestsInv
               PROVE  Requests!NobodyBlocks /\ Requests!TableIsWaiting
    BY DEF ReaderIsSound, FramesInv
  <2>1. Requests!TableIsWaiting
    BY DEF RequestsInv, OneHolder, Requests!TableIsWaiting, Requests!TypeOK
  <2>2. \A k \in Requests!Closers : \A c \in batch[k] : queue[c] = Requests!Nothing
    BY DEF RequestsInv, OneHolder, Requests!TypeOK
  <2>3. reader # Requests!Reading => queue[reader.target] = Requests!Nothing
    BY DEF RequestsInv, OneHolder, Held, ForACall
  <2> QED
    BY <2>1, <2>2, <2>3 DEF Requests!NobodyBlocks
<1> QED
  BY <1>1, RequestsInvariant, FramesInvariant, PTL
-----------------------------------------------------------------------------
(* The lifecycle.                                                          *)

ThreadTypes ==
  /\ at \in [Threads -> {"out", "look", "index", "errorIndex", "request", "answered", "waiting"}]
  /\ op \in [Threads -> Lifecycle!Collecting \cup {"prompt"}]
  /\ active \in Threads \cup {"none"}
  /\ awake \in [Threads -> BOOLEAN] /\ alone \in [Threads -> BOOLEAN] /\ lost \in BOOLEAN
  /\ result \in [Threads -> Lifecycle!Results]
  /\ returned \in [Threads -> Seq(Lifecycle!Events)]
  /\ start \in [Threads -> Nat] /\ errorStart \in [Threads -> Nat]
  /\ own \in [Threads -> 0..MaxRuns]
  /\ \A t \in Threads : at[t] # "out" => result[t] = "none"

\* The history is the end of the log.
HistoryIsEnd ==
  /\ items \in Seq(Lifecycle!Events) /\ log \in Seq(Lifecycle!Events) /\ offset \in Nat
  /\ Len(items) <= HistoryLimit /\ Len(log) = offset + Len(items)
  /\ \A i \in 1..Len(items) : items[i] = log[offset + i]

\* What the threads remember lies behind them.
Remembered ==
  /\ errors \in Nat /\ lastScheduleErrors \in 0..errors
  /\ \A t \in Threads : start[t] <= Len(log) /\ errorStart[t] <= errors

\* A run is over when it has been counted, or is about to be; a prompt is
\* counted once, after its response.
Counted ==
  /\ counting \in {"read", "count"} /\ closed \in {"no", "set", "told"}
  /\ runs \in 0..MaxRuns /\ run \in 0..runs /\ completed \in Nat
  /\ counting = "count" => run = 0
  /\ runs = completed + (IF run = 0 THEN 0 ELSE 1) + (IF counting = "count" THEN 1 ELSE 0)
  /\ marked \subseteq 1..runs /\ scheduled = Cardinality(marked)
  /\ \A t \in Threads : at[t] = "answered" =>
       /\ own[t] \in 1..runs /\ own[t] \notin marked
       /\ \A s \in Threads : s # t /\ at[s] = "answered" => own[s] # own[t]
  /\ ~lost => \A r \in 1..runs :
       r \in marked \/ \E t \in Threads : at[t] = "answered" /\ own[t] = r

\* While no other run is around, the log has nothing new before the own run,
\* and only events of the own run after.
Undisturbed ==
  \A t \in Threads : alone[t] =>
    /\ at[t] \in {"errorIndex", "request"} => run = 0 /\ Len(log) = start[t]
    /\ at[t] \in {"answered", "waiting"} /\ op[t] = "prompt_and_wait" =>
         /\ run \in {0, own[t]}
         /\ \A i \in (start[t] + 1)..Len(log) : log[i].run = own[t]

\* What a turn returned stands in the log, from the start of the turn on.
TurnsAreLogged ==
  \A t \in Threads : result[t] = "turn" =>
    /\ Lifecycle!HasEnd(returned[t])
    /\ start[t] + Len(returned[t]) <= Len(log)
    /\ \A i \in 1..Len(returned[t]) : returned[t][i] = log[start[t] + i]

LifecycleInv ==
  /\ ThreadTypes /\ HistoryIsEnd /\ Remembered /\ Counted /\ Undisturbed
  /\ Lifecycle!NoLostWakeup /\ TurnsAreLogged /\ Lifecycle!TurnIsOwn

(* The limits are positive numbers.                                        *)
LEMMA Limits ==
  HistoryLimit \in Nat \ {0} /\ MaxRuns \in Nat \ {0}
BY ClientAssumption DEF Lifecycle!LifecycleAssumption

(* The snapshot is of events; it is what was logged since the start, when  *)
(* the history goes back that far.                                         *)
LEMMA SnapshotIsLog ==
  ASSUME ThreadTypes, HistoryIsEnd, Remembered, NEW t \in Threads
  PROVE  /\ Lifecycle!Snapshot(t) \in Seq(Lifecycle!Events)
         /\ start[t] >= offset =>
              /\ Len(Lifecycle!Snapshot(t)) = Len(log) - start[t]
              /\ \A i \in 1..(Len(log) - start[t]) :
                   Lifecycle!Snapshot(t)[i] = log[start[t] + i]
<1> DEFINE E == Lifecycle!Events
<1>1. /\ items \in Seq(E) /\ offset \in Nat /\ start[t] \in Nat /\ Len(items) \in Nat
      /\ Len(log) = offset + Len(items) /\ start[t] <= Len(log)
      /\ \A i \in 1..Len(items) : items[i] = log[offset + i]
  BY DEF ThreadTypes, HistoryIsEnd, Remembered
<1>2. \A i \in 1..Len(items) : items[i] \in E
  BY <1>1, ElementOfSeq
<1> HIDE DEF E
<1>3. ASSUME NEW m \in Nat \ {0}
      PROVE  /\ SubSeq(items, m, Len(items)) \in Seq(E)
             /\ Len(SubSeq(items, m, Len(items)))
                  = IF m <= Len(items) THEN Len(items) - m + 1 ELSE 0
             /\ \A i \in 1..(Len(items) - m + 1) :
                  SubSeq(items, m, Len(items))[i] = items[m + i - 1]
  <2>1. \A i \in m..Len(items) : items[i] \in E
    BY <1>1, <1>2
  <2> QED
    BY <1>1, <2>1, SubSeqProperties
<1>4. CASE start[t] >= offset
  <2>1. start[t] - offset + 1 \in Nat \ {0}
    BY <1>1, <1>4
  <2> DEFINE m == start[t] - offset + 1
  <2>2. Lifecycle!Snapshot(t) = SubSeq(items, m, Len(items))
    BY <1>4 DEF Lifecycle!Snapshot
  <2>3. Len(items) - m + 1 = Len(log) - start[t]
    BY <1>1
  <2>4. \A i \in 1..(Len(log) - start[t]) : items[m + i - 1] = log[start[t] + i]
    <3> TAKE i \in 1..(Len(log) - start[t])
    <3>1. m + i - 1 \in 1..Len(items) /\ offset + (m + i - 1) = start[t] + i
      BY <1>1, <1>4, SMTT(30)
    <3> QED
      BY <1>1, <3>1
  <2>5. m <= Len(items) \/ Len(log) - start[t] = 0
    BY <1>1, <1>4
  <2>6. m \in Nat \ {0}
    BY <2>1
  <2> HIDE DEF m
  <2> QED
    BY <1>1, <1>3, <2>2, <2>3, <2>4, <2>5, <2>6 DEF E
<1>5. CASE ~(start[t] >= offset)
  <2>1. CASE offset - start[t] >= Len(items)
    BY <1>1, <1>5, <2>1 DEF Lifecycle!Snapshot, E
  <2>2. CASE ~(offset - start[t] >= Len(items))
    <3>1. Len(items) - (offset - start[t]) + 1 \in Nat \ {0}
      BY <1>1, <2>2
    <3> QED
      BY <1>3, <1>5, <2>2, <3>1 DEF Lifecycle!Snapshot, E
  <2> QED
    BY <1>5, <2>1, <2>2
<1> QED
  BY <1>4, <1>5

(* Appending an event keeps the history the end of the log.                *)
LEMMA AppendKeepsEnd ==
  ASSUME HistoryIsEnd, NEW e \in Lifecycle!Events, Lifecycle!Append1(e)
  PROVE  /\ HistoryIsEnd' /\ log' \in Seq(Lifecycle!Events) /\ Len(log') = Len(log) + 1
         /\ \A i \in 1..Len(log) : log'[i] = log[i]
         /\ log'[Len(log) + 1] = e
<1> DEFINE E == Lifecycle!Events
<1>1. /\ items \in Seq(E) /\ log \in Seq(E) /\ offset \in Nat /\ e \in E
      /\ Len(items) \in Nat /\ Len(items) <= HistoryLimit /\ Len(log) = offset + Len(items)
      /\ \A i \in 1..Len(items) : items[i] = log[offset + i]
      /\ HistoryLimit \in Nat \ {0}
  BY Limits DEF HistoryIsEnd
<1> HIDE DEF E
<1>2. /\ log' = Append(log, e) /\ log' \in Seq(E) /\ Len(log') = Len(log) + 1
      /\ \A i \in 1..Len(log) : log'[i] = log[i]
      /\ log'[Len(log) + 1] = e
  <2> DEFINE more == Append(log, e)
  <2>1. log' = more
    BY DEF Lifecycle!Append1
  <2>2. /\ more \in Seq(E) /\ Len(more) = Len(log) + 1
        /\ \A i \in 1..Len(log) : more[i] = log[i]
        /\ more[Len(log) + 1] = e
    BY <1>1, AppendProperties
  <2> HIDE DEF more
  <2> QED
    BY <2>1, <2>2
<1>3. CASE Len(items) = HistoryLimit
  <2> DEFINE rest == Tail(items)
  <2>1. items' = Append(rest, e) /\ offset' = offset + 1
    BY <1>3 DEF Lifecycle!Append1
  <2>2. items # <<>>
    BY <1>1, <1>3
  <2>3. /\ rest \in Seq(E) /\ Len(rest) = Len(items) - 1
        /\ \A i \in 1..Len(rest) : rest[i] = items[i + 1]
    BY <1>1, <2>2, HeadTailProperties
  <2> HIDE DEF rest
  <2>4. /\ items' \in Seq(E) /\ Len(items') = Len(rest) + 1
        /\ \A i \in 1..Len(rest) : items'[i] = rest[i]
        /\ items'[Len(rest) + 1] = e
    BY <1>1, <2>1, <2>3, AppendProperties
  <2>5. ASSUME NEW i \in 1..Len(items') PROVE items'[i] = log'[offset' + i]
    <3>1. CASE i \in 1..Len(rest)
      <4>1. i + 1 \in 1..Len(items) /\ offset + (i + 1) \in 1..Len(log)
        BY <1>1, <2>3, <3>1
      <4> QED
        BY <1>1, <1>2, <2>1, <2>3, <2>4, <3>1, <4>1
    <3>2. CASE i = Len(rest) + 1
      <4>1. offset' + i = Len(log) + 1
        BY <1>1, <2>1, <2>3, <3>2
      <4> QED
        BY <1>2, <2>4, <3>2, <4>1
    <3> QED
      BY <1>1, <2>3, <2>4, <3>1, <3>2
  <2>6. offset' \in Nat /\ Len(items') <= HistoryLimit /\ Len(log') = offset' + Len(items')
    BY <1>1, <1>2, <1>3, <2>1, <2>3, <2>4
  <2> QED
    BY <1>2, <2>4, <2>5, <2>6 DEF HistoryIsEnd, E
<1>4. CASE Len(items) # HistoryLimit
  <2>1. items' = Append(items, e) /\ offset' = offset
    BY <1>4 DEF Lifecycle!Append1
  <2>2. /\ items' \in Seq(E) /\ Len(items') = Len(items) + 1
        /\ \A i \in 1..Len(items) : items'[i] = items[i]
        /\ items'[Len(items) + 1] = e
    BY <1>1, <2>1, AppendProperties
  <2>3. ASSUME NEW i \in 1..Len(items') PROVE items'[i] = log'[offset' + i]
    <3>1. CASE i \in 1..Len(items)
      <4>1. offset + i \in 1..Len(log)
        BY <1>1, <3>1
      <4> QED
        BY <1>1, <1>2, <2>1, <2>2, <3>1, <4>1
    <3>2. CASE i = Len(items) + 1
      BY <1>1, <1>2, <2>1, <2>2, <3>2
    <3> QED
      BY <1>1, <2>2, <3>1, <3>2
  <2>4. offset' \in Nat /\ Len(items') <= HistoryLimit /\ Len(log') = offset' + Len(items')
    BY <1>1, <1>2, <1>4, <2>1, <2>2
  <2> QED
    BY <1>2, <2>2, <2>3, <2>4 DEF HistoryIsEnd, E
<1> QED
  BY <1>3, <1>4

(* The reader thread stores an event of the run in progress, or no event;  *)
(* whenever it does anything but mark the client closed it wakes the       *)
(* waiters.                                                                *)
ReaderStep ==
  \/ Lifecycle!ReadEvent \/ Lifecycle!ReadEnd \/ Lifecycle!ReadAsyncError
  \/ Lifecycle!Count \/ Lifecycle!Close \/ Lifecycle!NotifyClosed

ThreadStep(t) ==
  \/ \E o \in Lifecycle!Collecting \cup {"prompt"} : Lifecycle!Begin(t, o)
  \/ Lifecycle!Look(t) \/ Lifecycle!Index(t) \/ Lifecycle!ErrorIndex(t) \/ Lifecycle!Answer(t)
  \/ Lifecycle!RequestFails(t) \/ Lifecycle!Mark(t) \/ Lifecycle!Check(t)
  \/ Lifecycle!WaitTimesOut(t)

\* The reader changes nothing that a waiting thread keeps for itself, and
\* appends at most one item to the log.
LEMMA ReaderSteps ==
  ASSUME Counted, ReaderStep
  PROVE  /\ UNCHANGED <<at, op, active, start, errorStart, result, returned, own, alone, lost,
                        scheduled, lastScheduleErrors, marked, runs>>
         /\ \/ UNCHANGED <<items, offset, log>>
            \/ \E kind \in {"event", "end"} :
                 /\ run \in 1..MaxRuns
                 /\ Lifecycle!Append1([run |-> run, kind |-> kind])
         /\ \/ Lifecycle!WakeAll
            \/ UNCHANGED <<awake, items, offset, log>> /\ closed' = "set"
         /\ \/ errors' = errors
            \/ errors' = errors + 1 /\ UNCHANGED <<items, offset, log>>
         /\ run' = run \/ run' = 0
         /\ closed' = "no" \/ UNCHANGED <<items, offset, log>>
<1> USE DEF Lifecycle!readerVars, Lifecycle!countVars, Lifecycle!historyVars,
            Lifecycle!serverVars
<1>1. CASE Lifecycle!ReadEvent
  <2>1. run \in 1..MaxRuns
    BY <1>1, Limits DEF Lifecycle!ReadEvent, Counted
  <2>2. Lifecycle!Append1([run |-> run, kind |-> "event"])
    BY <1>1 DEF Lifecycle!ReadEvent
  <2> QED
    BY <1>1, <2>1, <2>2 DEF Lifecycle!ReadEvent
<1>2. CASE Lifecycle!ReadEnd
  <2>1. run \in 1..MaxRuns
    BY <1>2, Limits DEF Lifecycle!ReadEnd, Counted
  <2>2. Lifecycle!Append1([run |-> run, kind |-> "end"])
    BY <1>2 DEF Lifecycle!ReadEnd
  <2> QED
    BY <1>2, <2>1, <2>2 DEF Lifecycle!ReadEnd
<1>3. CASE Lifecycle!ReadAsyncError \/ Lifecycle!Count \/ Lifecycle!Close
           \/ Lifecycle!NotifyClosed
  BY <1>3 DEF Lifecycle!ReadAsyncError, Lifecycle!Count, Lifecycle!Close,
              Lifecycle!NotifyClosed
<1> QED
  BY <1>1, <1>2, <1>3 DEF ReaderStep

(* A step of a thread leaves the log, and the other threads but for their  *)
(* being alone.                                                            *)
LEMMA OtherThreads ==
  ASSUME ThreadTypes, NEW t \in Threads, ThreadStep(t)
  PROVE  /\ UNCHANGED <<items, offset, log, errors, completed, counting, closed>>
         /\ \A s \in Threads : s # t =>
              /\ at'[s] = at[s] /\ op'[s] = op[s] /\ start'[s] = start[s]
              /\ errorStart'[s] = errorStart[s] /\ awake'[s] = awake[s]
              /\ result'[s] = result[s] /\ returned'[s] = returned[s] /\ own'[s] = own[s]
              /\ alone'[s] => alone[s]
<1> USE DEF Lifecycle!Begin, Lifecycle!Look, Lifecycle!Index, Lifecycle!ErrorIndex,
            Lifecycle!Answer, Lifecycle!RequestFails, Lifecycle!Mark, Lifecycle!Check,
            Lifecycle!WaitTimesOut, Lifecycle!End, Lifecycle!Move, Lifecycle!serverVars,
            Lifecycle!countVars, Lifecycle!historyVars
<1>1. UNCHANGED <<items, offset, log, errors, completed, counting, closed>>
  BY DEF ThreadStep
<1>2. \A s \in Threads : s # t => at'[s] = at[s] /\ op'[s] = op[s]
  BY ZenonT(60) DEF ThreadStep, ThreadTypes
<1>3. \A s \in Threads : s # t => start'[s] = start[s] /\ errorStart'[s] = errorStart[s]
  BY DEF ThreadStep, ThreadTypes
<1>4. \A s \in Threads : s # t => awake'[s] = awake[s] /\ own'[s] = own[s]
  BY DEF ThreadStep, ThreadTypes
<1>5. \A s \in Threads : s # t => result'[s] = result[s] /\ returned'[s] = returned[s]
  BY ZenonT(60) DEF ThreadStep, ThreadTypes
<1>6. \A s \in Threads : s # t => (alone'[s] => alone[s])
  BY DEF ThreadStep, ThreadTypes
<1> QED
  BY <1>1, <1>2, <1>3, <1>4, <1>5, <1>6

(* Types, under the steps of the threads.                                  *)
LEMMA ThreadTypesStep ==
  ASSUME LifecycleInv, NEW t \in Threads, ThreadStep(t)
  PROVE  ThreadTypes'
<1> USE DEF Lifecycle!Begin, Lifecycle!Look, Lifecycle!Index, Lifecycle!ErrorIndex,
            Lifecycle!Answer, Lifecycle!RequestFails, Lifecycle!Mark, Lifecycle!Check,
            Lifecycle!WaitTimesOut, Lifecycle!End, Lifecycle!Move, Lifecycle!serverVars,
            Lifecycle!countVars, Lifecycle!historyVars
<1>1. at' \in [Threads -> {"out", "look", "index", "errorIndex", "request", "answered",
                           "waiting"}]
  BY ZenonT(60) DEF ThreadStep, LifecycleInv, ThreadTypes
<1>2. op' \in [Threads -> Lifecycle!Collecting \cup {"prompt"}] /\ active' \in Threads \cup {"none"}
  <2>1. \/ op' = op
        \/ \E o \in Lifecycle!Collecting \cup {"prompt"} : op' = [op EXCEPT ![t] = o]
    BY DEF ThreadStep
  <2>2. active' \in {active, "none", t}
    BY DEF ThreadStep
  <2> QED
    BY <2>1, <2>2 DEF LifecycleInv, ThreadTypes
<1>3. awake' \in [Threads -> BOOLEAN]
  BY DEF ThreadStep, LifecycleInv, ThreadTypes
<1>4. alone' \in [Threads -> BOOLEAN] /\ lost' \in BOOLEAN
  <2>1. \/ alone' = alone \/ alone' = [alone EXCEPT ![t] = FALSE]
        \/ alone' = [alone EXCEPT ![t] = TRUE]
        \/ alone' = [s \in Threads |-> IF s = t THEN alone[s] ELSE FALSE]
        \/ alone' = [s \in Threads |-> FALSE]
    <3>1. CASE Lifecycle!Index(t)
      <4>1. CASE run = 0 /\ \A s \in Threads : at[s] # "request"
        <5>1. (run = 0 /\ \A s \in Threads : at[s] # "request") = TRUE
          BY <4>1
        <5> QED
          BY <3>1, <5>1
      <4>2. CASE ~(run = 0 /\ \A s \in Threads : at[s] # "request")
        <5>1. (run = 0 /\ \A s \in Threads : at[s] # "request") = FALSE
          BY <4>2
        <5> QED
          BY <3>1, <5>1
      <4> QED
        BY <4>1, <4>2
    <3>2. CASE ~Lifecycle!Index(t)
      BY <3>2 DEF ThreadStep
    <3> QED
      BY <3>1, <3>2
  <2>2. lost' \in {lost, TRUE}
    BY DEF ThreadStep
  <2> QED
    BY <2>1, <2>2 DEF LifecycleInv, ThreadTypes
<1>5. result' \in [Threads -> Lifecycle!Results]
  <2>1. \/ result' = result
        \/ \E r \in Lifecycle!Results : result' = [result EXCEPT ![t] = r]
    BY DEF ThreadStep, Lifecycle!Results
  <2> QED
    BY <2>1 DEF LifecycleInv, ThreadTypes
<1>6. start' \in [Threads -> Nat] /\ errorStart' \in [Threads -> Nat]
  <2>1. offset + Len(items) \in Nat /\ errors \in Nat
    BY DEF LifecycleInv, HistoryIsEnd, Remembered
  <2>2. \/ start' = start \/ start' = [start EXCEPT ![t] = 0]
        \/ start' = [start EXCEPT ![t] = offset + Len(items)]
    BY DEF ThreadStep
  <2>3. \/ errorStart' = errorStart \/ errorStart' = [errorStart EXCEPT ![t] = 0]
        \/ errorStart' = [errorStart EXCEPT ![t] = errors]
    BY DEF ThreadStep
  <2>4. /\ start' = start \/ \E n \in Nat : start' = [start EXCEPT ![t] = n]
        /\ errorStart' = errorStart \/ \E n \in Nat : errorStart' = [errorStart EXCEPT ![t] = n]
    BY <2>1, <2>2, <2>3
  <2>5. start \in [Threads -> Nat] /\ errorStart \in [Threads -> Nat]
    BY DEF LifecycleInv, ThreadTypes
  <2> QED
    BY <2>4, <2>5
<1>7. own' \in [Threads -> 0..MaxRuns]
  <2>1. runs < MaxRuns => runs + 1 \in 0..MaxRuns
    BY Limits DEF LifecycleInv, Counted
  <2>2. 0 \in 0..MaxRuns
    BY Limits
  <2>3. \/ own' = own
        \/ \E r : (r = 0 \/ (runs < MaxRuns /\ r = runs + 1)) /\ own' = [own EXCEPT ![t] = r]
    BY DEF ThreadStep
  <2>4. own' = own \/ \E r \in 0..MaxRuns : own' = [own EXCEPT ![t] = r]
    BY <2>1, <2>2, <2>3
  <2>5. own \in [Threads -> 0..MaxRuns]
    BY DEF LifecycleInv, ThreadTypes
  <2> QED
    BY <2>4, <2>5
<1>8. returned' \in [Threads -> Seq(Lifecycle!Events)]
  <2>1. Lifecycle!Snapshot(t) \in Seq(Lifecycle!Events)
    BY SnapshotIsLog DEF LifecycleInv
  <2>2. <<>> \in Seq(Lifecycle!Events)
    OBVIOUS
  <2> QED
    BY <2>1, <2>2, ZenonT(60) DEF ThreadStep, LifecycleInv, ThreadTypes
<1>9. at'[t] # "out" => result'[t] = "none"
  BY ZenonT(60) DEF ThreadStep, LifecycleInv, ThreadTypes
<1>10. \A s \in Threads : at'[s] # "out" => result'[s] = "none"
  BY <1>9, OtherThreads, ZenonT(60) DEF LifecycleInv, ThreadTypes
<1> QED
  BY <1>1, <1>2, <1>3, <1>4, <1>5, <1>6, <1>7, <1>8, <1>10 DEF ThreadTypes

(* Types, under the steps of the reader.                                   *)
LEMMA ReaderTypesStep ==
  ASSUME LifecycleInv, ReaderStep
  PROVE  ThreadTypes'
<1>1. UNCHANGED <<at, op, active, start, errorStart, result, returned, own, alone, lost>>
  BY ReaderSteps DEF LifecycleInv
<1>2. awake' \in [Threads -> BOOLEAN]
  <2>1. CASE UNCHANGED awake
    BY <2>1 DEF LifecycleInv, ThreadTypes
  <2>2. CASE Lifecycle!WakeAll
    <3>1. awake' = [t \in Threads |-> awake[t] \/ at[t] = "waiting"]
      BY <2>2 DEF Lifecycle!WakeAll
    <3>2. \A t \in Threads : (awake[t] \/ at[t] = "waiting") \in BOOLEAN
      OBVIOUS
    <3> QED
      BY <3>1, <3>2
  <2> QED
    BY <2>1, <2>2, ReaderSteps DEF LifecycleInv
<1> QED
  BY <1>1, <1>2 DEF LifecycleInv, ThreadTypes

(* The history, under a step of the reader.                                *)
LEMMA ReaderLogs ==
  ASSUME LifecycleInv, ReaderStep
  PROVE  /\ HistoryIsEnd'
         /\ \/ UNCHANGED <<items, offset, log>>
            \/ /\ run # 0 /\ Len(log') = Len(log) + 1 /\ log'[Len(log) + 1].run = run
               /\ \A i \in 1..Len(log) : log'[i] = log[i]
<1>1. CASE UNCHANGED <<items, offset, log>>
  BY <1>1 DEF LifecycleInv, HistoryIsEnd
<1>2. ASSUME NEW kind \in {"event", "end"}, run \in 1..MaxRuns,
             Lifecycle!Append1([run |-> run, kind |-> kind])
      PROVE  /\ HistoryIsEnd' /\ run # 0
             /\ Len(log') = Len(log) + 1 /\ log'[Len(log) + 1].run = run
             /\ \A i \in 1..Len(log) : log'[i] = log[i]
  <2> DEFINE e == [run |-> run, kind |-> kind]
  <2>1. e \in Lifecycle!Events
    BY <1>2 DEF Lifecycle!Events
  <2>2. /\ HistoryIsEnd' /\ Len(log') = Len(log) + 1 /\ log'[Len(log) + 1] = e
        /\ \A i \in 1..Len(log) : log'[i] = log[i]
    BY <1>2, <2>1, AppendKeepsEnd DEF LifecycleInv
  <2> QED
    BY <1>2, <2>2
<1> QED
  BY <1>1, <1>2, ReaderSteps DEF LifecycleInv

(* What the threads remember stays behind them.                            *)
LEMMA RememberedStep ==
  ASSUME LifecycleInv, ReaderStep \/ \E t \in Threads : ThreadStep(t)
  PROVE  Remembered'
<1>1. /\ errors \in Nat /\ lastScheduleErrors \in 0..errors /\ Len(log) \in Nat
      /\ offset + Len(items) = Len(log)
      /\ \A t \in Threads : /\ start[t] \in Nat /\ start[t] <= Len(log)
                            /\ errorStart[t] \in Nat /\ errorStart[t] <= errors
  BY DEF LifecycleInv, Remembered, ThreadTypes, HistoryIsEnd
<1>2. CASE ReaderStep
  <2>1. UNCHANGED <<start, errorStart, lastScheduleErrors>>
    BY <1>2, ReaderSteps DEF LifecycleInv
  <2>2. errors' \in Nat /\ errors' >= errors
    BY <1>1, <1>2, ReaderSteps DEF LifecycleInv
  <2>3. Len(log') \in Nat /\ Len(log') >= Len(log)
    BY <1>1, <1>2, ReaderLogs
  <2> QED
    BY <1>1, <2>1, <2>2, <2>3 DEF Remembered
<1>3. ASSUME NEW t \in Threads, ThreadStep(t) PROVE Remembered'
  <2> USE DEF Lifecycle!Begin, Lifecycle!Look, Lifecycle!Index, Lifecycle!ErrorIndex,
              Lifecycle!Answer, Lifecycle!RequestFails, Lifecycle!Mark, Lifecycle!Check,
              Lifecycle!WaitTimesOut, Lifecycle!serverVars,
              Lifecycle!countVars, Lifecycle!historyVars
  <2>1. UNCHANGED <<log, errors>>
    BY <1>3, OtherThreads DEF LifecycleInv
  <2>2. lastScheduleErrors' \in {lastScheduleErrors, errors}
    BY <1>3 DEF ThreadStep
  <2>3. \/ start' = start \/ start' = [start EXCEPT ![t] = 0]
        \/ start' = [start EXCEPT ![t] = offset + Len(items)]
    BY <1>3 DEF ThreadStep
  <2>4. \/ errorStart' = errorStart \/ errorStart' = [errorStart EXCEPT ![t] = 0]
        \/ errorStart' = [errorStart EXCEPT ![t] = errors]
    BY <1>3 DEF ThreadStep
  <2>5. \A s \in Threads : start'[s] \in {start[s], 0, Len(log)}
    BY <1>1, <2>3 DEF LifecycleInv, ThreadTypes
  <2>6. \A s \in Threads : errorStart'[s] \in {errorStart[s], 0, errors}
    BY <2>4 DEF LifecycleInv, ThreadTypes
  <2> QED
    BY <1>1, <2>1, <2>2, <2>5, <2>6 DEF Remembered
<1> QED
  BY <1>2, <1>3

(* An operation begins with its request, its look or its index.            *)
LEMMA BeginMoves ==
  ASSUME ThreadTypes, NEW t \in Threads, NEW o \in Lifecycle!Collecting \cup {"prompt"},
         Lifecycle!Begin(t, o)
  PROVE  at[t] = "out" /\ at'[t] \in {"out", "request", "look", "index"}
<1>1. at[t] = "out" /\ at \in [Threads -> {"out", "look", "index", "errorIndex", "request",
                                           "answered", "waiting"}]
  BY DEF Lifecycle!Begin, ThreadTypes
<1>2. CASE o \in Lifecycle!Collecting /\ active # "none"
  BY <1>1, <1>2 DEF Lifecycle!Begin, Lifecycle!End, Lifecycle!Move
<1>3. CASE ~(o \in Lifecycle!Collecting /\ active # "none")
  <2>1. at' = [at EXCEPT ![t] = CASE o = "prompt" -> "request"
                                  [] o = "wait_for_idle" -> "look"
                                  [] OTHER -> "index"]
    BY <1>3 DEF Lifecycle!Begin, Lifecycle!Move
  <2> QED
    BY <1>1, <2>1
<1> QED
  BY <1>2, <1>3

(* A prompt is counted once, and so is the end of a run.                   *)
LEMMA CountedStep ==
  ASSUME LifecycleInv, ReaderStep \/ \E t \in Threads : ThreadStep(t)
  PROVE  Counted'
<1> USE DEF Lifecycle!serverVars, Lifecycle!countVars, Lifecycle!historyVars
<1>1. CASE ReaderStep
  <2>1. UNCHANGED <<at, own, lost, scheduled, marked, runs>>
    BY <1>1, ReaderSteps DEF LifecycleInv
  <2>2. /\ counting' \in {"read", "count"} /\ closed' \in {"no", "set", "told"}
        /\ run' \in 0..runs /\ completed' \in Nat
        /\ counting' = "count" => run' = 0
        /\ runs = completed' + (IF run' = 0 THEN 0 ELSE 1)
                    + (IF counting' = "count" THEN 1 ELSE 0)
    <3> USE DEF LifecycleInv, Counted
    <3>1. CASE Lifecycle!ReadEvent
      BY <3>1 DEF Lifecycle!ReadEvent
    <3>2. CASE Lifecycle!ReadEnd
      BY <3>2 DEF Lifecycle!ReadEnd
    <3>3. CASE Lifecycle!ReadAsyncError
      BY <3>3 DEF Lifecycle!ReadAsyncError
    <3>4. CASE Lifecycle!Count
      BY <3>4 DEF Lifecycle!Count
    <3>5. CASE Lifecycle!Close \/ Lifecycle!NotifyClosed
      BY <3>5 DEF Lifecycle!Close, Lifecycle!NotifyClosed
    <3> QED
      BY <1>1, <3>1, <3>2, <3>3, <3>4, <3>5 DEF ReaderStep
  <2> QED
    BY <2>1, <2>2 DEF LifecycleInv, Counted
<1>2. ASSUME NEW t \in Threads, ThreadStep(t) PROVE Counted'
  <2> USE DEF Lifecycle!End, Lifecycle!Move
  <2>1. /\ UNCHANGED <<completed, counting, closed>>
        /\ \A s \in Threads : s # t => at'[s] = at[s] /\ own'[s] = own[s]
    BY <1>2, OtherThreads DEF LifecycleInv
  <2>2. CASE Lifecycle!Answer(t) \/ (Lifecycle!RequestFails(t) /\ run' # run)
    <3>1. /\ run = 0 /\ run' = runs + 1 /\ runs' = runs + 1 /\ runs < MaxRuns
          /\ counting = "read" /\ UNCHANGED <<marked, scheduled>>
      BY <2>2 DEF Lifecycle!Answer, Lifecycle!RequestFails
    <3>2. \/ lost' = TRUE /\ at'[t] # "answered"
          \/ lost' = lost /\ at'[t] = "answered" /\ own'[t] = runs + 1
      BY <2>2 DEF Lifecycle!Answer, Lifecycle!RequestFails, LifecycleInv, ThreadTypes
    <3>3. at[t] # "answered"
      BY <2>2 DEF Lifecycle!Answer, Lifecycle!RequestFails
    <3>4. /\ run' \in 0..runs' /\ runs' \in 0..MaxRuns /\ run' # 0
          /\ \A r : r \in 1..runs' <=> (r \in 1..runs \/ r = runs + 1)
          /\ runs + 1 \notin 1..runs
      BY <3>1, Limits DEF LifecycleInv, Counted
    <3>5. \A s \in Threads : at'[s] = "answered" =>
            /\ own'[s] \in 1..runs' /\ own'[s] \notin marked
            /\ \A u \in Threads : u # s /\ at'[u] = "answered" => own'[u] # own'[s]
      BY <2>1, <3>2, <3>4 DEF LifecycleInv, Counted
    <3>6. ~lost' => \A r \in 1..runs' :
            r \in marked \/ \E s \in Threads : at'[s] = "answered" /\ own'[s] = r
      BY <2>1, <3>2, <3>3, <3>4 DEF LifecycleInv, Counted
    <3>7. marked \subseteq 1..runs'
      BY <3>4 DEF LifecycleInv, Counted
    <3>8. runs' = completed' + (IF run' = 0 THEN 0 ELSE 1)
                    + (IF counting' = "count" THEN 1 ELSE 0)
      BY <2>1, <3>1, <3>4 DEF LifecycleInv, Counted
    <3> QED
      BY <2>1, <3>1, <3>4, <3>5, <3>6, <3>7, <3>8 DEF LifecycleInv, Counted
  <2>3. CASE Lifecycle!Mark(t)
    <3>1. /\ UNCHANGED <<run, runs, own, lost>> /\ at[t] = "answered" /\ at'[t] # "answered"
          /\ scheduled' = scheduled + 1 /\ marked' = marked \cup {own[t]}
      BY <2>3 DEF Lifecycle!Mark, LifecycleInv, ThreadTypes
    <3>2. IsFiniteSet(marked)
      <4>1. IsFiniteSet(1..runs) /\ marked \subseteq 1..runs
        BY FS_Interval DEF LifecycleInv, Counted
      <4> QED
        BY <4>1, FS_Subset
    <3>3. own[t] \in 1..runs /\ own[t] \notin marked
      BY <3>1 DEF LifecycleInv, Counted
    <3>4. scheduled' = Cardinality(marked')
      BY <3>1, <3>2, <3>3, FS_AddElement DEF LifecycleInv, Counted
    <3>5. \A s \in Threads : at'[s] = "answered" =>
            /\ own'[s] \in 1..runs /\ own'[s] \notin marked'
            /\ \A u \in Threads : u # s /\ at'[u] = "answered" => own'[u] # own'[s]
      BY <2>1, <3>1 DEF LifecycleInv, Counted
    <3>6. ~lost' => \A r \in 1..runs :
            r \in marked' \/ \E s \in Threads : at'[s] = "answered" /\ own'[s] = r
      BY <2>1, <3>1 DEF LifecycleInv, Counted
    <3> QED
      BY <2>1, <3>1, <3>3, <3>4, <3>5, <3>6, ZenonT(60) DEF LifecycleInv, Counted
  <2>4. CASE ~(Lifecycle!Answer(t) \/ (Lifecycle!RequestFails(t) /\ run' # run)
               \/ Lifecycle!Mark(t))
    <3>1. UNCHANGED <<run, scheduled, marked>>
      BY <1>2, <2>4 DEF ThreadStep, Lifecycle!Begin, Lifecycle!Look, Lifecycle!Index,
           Lifecycle!ErrorIndex, Lifecycle!RequestFails, Lifecycle!Check,
           Lifecycle!WaitTimesOut
    <3>2. UNCHANGED <<runs, lost>>
      <4>1. Lifecycle!RequestFails(t) => UNCHANGED <<runs, lost>>
        BY <2>4 DEF Lifecycle!RequestFails, LifecycleInv, Counted
      <4> QED
        BY <1>2, <2>4, <4>1 DEF ThreadStep, Lifecycle!Begin, Lifecycle!Look, Lifecycle!Index,
             Lifecycle!ErrorIndex, Lifecycle!Check, Lifecycle!WaitTimesOut
    <3>3. at[t] # "answered" /\ at'[t] # "answered"
      <4>1. at \in [Threads -> {"out", "look", "index", "errorIndex", "request",
                                "answered", "waiting"}]
        BY DEF LifecycleInv, ThreadTypes
      <4>2. CASE \E o \in Lifecycle!Collecting \cup {"prompt"} : Lifecycle!Begin(t, o)
        BY <4>2, BeginMoves DEF LifecycleInv
      <4>3. CASE ~\E o \in Lifecycle!Collecting \cup {"prompt"} : Lifecycle!Begin(t, o)
        BY <1>2, <2>4, <4>1, <4>3 DEF ThreadStep, Lifecycle!Look, Lifecycle!Index,
             Lifecycle!ErrorIndex, Lifecycle!RequestFails, Lifecycle!Check,
             Lifecycle!WaitTimesOut
      <4> QED
        BY <4>2, <4>3
    <3> QED
      BY <2>1, <3>1, <3>2, <3>3 DEF LifecycleInv, Counted
  <2> QED
    BY <2>2, <2>3, <2>4
<1> QED
  BY <1>1, <1>2

(* Nobody waits for what is there already.                                 *)
LEMMA WakeupStep ==
  ASSUME LifecycleInv, ReaderStep \/ \E t \in Threads : ThreadStep(t)
  PROVE  Lifecycle!NoLostWakeup'
<1> USE DEF Lifecycle!serverVars, Lifecycle!countVars, Lifecycle!historyVars
<1>1. CASE ReaderStep
  <2>1. UNCHANGED <<at, start>>
    BY <1>1, ReaderSteps DEF LifecycleInv
  <2>2. CASE Lifecycle!WakeAll
    <3>1. \A t \in Threads : at[t] = "waiting" => awake'[t] = TRUE
      BY <2>2 DEF Lifecycle!WakeAll
    <3> QED
      BY <2>1, <3>1 DEF Lifecycle!NoLostWakeup
  <2>3. CASE UNCHANGED <<awake, items, offset, log>> /\ closed' = "set"
    BY <2>3 DEF Lifecycle!NoLostWakeup
  <2> QED
    BY <1>1, <2>2, <2>3, ReaderSteps DEF LifecycleInv
<1>2. ASSUME NEW t \in Threads, ThreadStep(t) PROVE Lifecycle!NoLostWakeup'
  <2>1. /\ UNCHANGED <<items, offset, closed>>
        /\ \A s \in Threads : s # t => at'[s] = at[s] /\ start'[s] = start[s]
                                       /\ awake'[s] = awake[s]
    BY <1>2, OtherThreads DEF LifecycleInv
  <2>2. \A s \in Threads : start'[s] = start[s] => Lifecycle!Snapshot(s)' = Lifecycle!Snapshot(s)
    BY <2>1 DEF Lifecycle!Snapshot
  <2>3. \A s \in Threads : start'[s] = start[s]
           => (Lifecycle!MayReturn(s)' <=> Lifecycle!MayReturn(s))
    BY <2>1, <2>2 DEF Lifecycle!MayReturn, Lifecycle!HasEnd
  <2>4. at'[t] = "waiting" =>
          awake'[t] \/ (~Lifecycle!MayReturn(t) /\ start' = start)
    <3>1. CASE Lifecycle!Check(t)
      BY <3>1 DEF Lifecycle!Check, Lifecycle!End, Lifecycle!Move, Lifecycle!MayReturn,
                  LifecycleInv, ThreadTypes
    <3>2. CASE ~Lifecycle!Check(t)
      <4>1. /\ at \in [Threads -> {"out", "look", "index", "errorIndex", "request",
                                   "answered", "waiting"}]
            /\ awake \in [Threads -> BOOLEAN] /\ op \in [Threads -> Lifecycle!Collecting \cup {"prompt"}]
        BY DEF LifecycleInv, ThreadTypes
      <4>2. CASE \E o \in Lifecycle!Collecting \cup {"prompt"} : Lifecycle!Begin(t, o)
        BY <4>2, BeginMoves DEF LifecycleInv
      <4>3. CASE Lifecycle!ErrorIndex(t)
        BY <4>1, <4>3 DEF Lifecycle!ErrorIndex, Lifecycle!Move
      <4>4. CASE Lifecycle!Mark(t)
        BY <4>1, <4>4 DEF Lifecycle!Mark, Lifecycle!Move, Lifecycle!End
      <4>5. CASE \/ Lifecycle!Look(t) \/ Lifecycle!Index(t) \/ Lifecycle!Answer(t)
                 \/ Lifecycle!RequestFails(t) \/ Lifecycle!WaitTimesOut(t)
        BY <4>1, <4>5 DEF Lifecycle!Look, Lifecycle!Index, Lifecycle!Answer,
             Lifecycle!RequestFails, Lifecycle!WaitTimesOut, Lifecycle!End, Lifecycle!Move
      <4> QED
        BY <1>2, <3>2, <4>2, <4>3, <4>4, <4>5 DEF ThreadStep
    <3> QED
      BY <3>1, <3>2
  <2> QED
    BY <2>1, <2>3, <2>4 DEF Lifecycle!NoLostWakeup, LifecycleInv
<1> QED
  BY <1>1, <1>2

(* Who is alone stays undisturbed.                                         *)
LEMMA UndisturbedStep ==
  ASSUME LifecycleInv, ReaderStep \/ \E t \in Threads : ThreadStep(t)
  PROVE  Undisturbed'
<1> USE DEF Lifecycle!serverVars, Lifecycle!countVars, Lifecycle!historyVars
<1>0. /\ Len(log) \in Nat /\ \A t \in Threads : start[t] \in Nat
      /\ \A t \in Threads : start[t] <= Len(log)
  BY DEF LifecycleInv, HistoryIsEnd, ThreadTypes, Remembered
<1>1. CASE ReaderStep
  <2>1. UNCHANGED <<at, op, own, alone, start>> /\ run' \in {run, 0}
    BY <1>1, ReaderSteps DEF LifecycleInv
  <2>2. CASE UNCHANGED log
    BY <2>1, <2>2 DEF LifecycleInv, Undisturbed
  <2>3. CASE /\ run # 0 /\ Len(log') = Len(log) + 1 /\ log'[Len(log) + 1].run = run
             /\ \A i \in 1..Len(log) : log'[i] = log[i]
    <3> SUFFICES ASSUME NEW t \in Threads, alone[t]
                 PROVE  /\ at[t] \notin {"errorIndex", "request"}
                        /\ at[t] \in {"answered", "waiting"} /\ op[t] = "prompt_and_wait" =>
                             /\ run' \in {0, own[t]}
                             /\ \A i \in (start[t] + 1)..Len(log') : log'[i].run = own[t]
      BY <2>1 DEF Undisturbed
    <3>1. at[t] \notin {"errorIndex", "request"}
      BY <2>3 DEF LifecycleInv, Undisturbed
    <3>2. ASSUME at[t] \in {"answered", "waiting"}, op[t] = "prompt_and_wait"
          PROVE  /\ run' \in {0, own[t]}
                 /\ \A i \in (start[t] + 1)..Len(log') : log'[i].run = own[t]
      <4>1. run = own[t] /\ \A i \in (start[t] + 1)..Len(log) : log[i].run = own[t]
        BY <2>3, <3>2 DEF LifecycleInv, Undisturbed
      <4>2. ASSUME NEW i \in (start[t] + 1)..Len(log') PROVE log'[i].run = own[t]
        <5>1. i = Len(log) + 1 \/ (i \in (start[t] + 1)..Len(log) /\ i \in 1..Len(log))
          BY <1>0, <2>3
        <5> QED
          BY <2>3, <4>1, <5>1
      <4> QED
        BY <2>1, <4>1, <4>2
    <3> QED
      BY <3>1, <3>2
  <2> QED
    BY <1>1, <2>2, <2>3, ReaderLogs
<1>2. ASSUME NEW t \in Threads, ThreadStep(t) PROVE Undisturbed'
  <2> USE DEF Lifecycle!End, Lifecycle!Move
  <2>1. /\ UNCHANGED log
        /\ \A s \in Threads : s # t => /\ at'[s] = at[s] /\ op'[s] = op[s]
                                       /\ start'[s] = start[s] /\ own'[s] = own[s]
                                       /\ alone'[s] => alone[s]
    BY <1>2, OtherThreads DEF LifecycleInv
  <2>2. run' # run => \A s \in Threads : s # t => ~alone'[s]
    BY <1>2 DEF ThreadStep, Lifecycle!Begin, Lifecycle!Look, Lifecycle!Index,
         Lifecycle!ErrorIndex, Lifecycle!Answer, Lifecycle!RequestFails, Lifecycle!Mark,
         Lifecycle!Check, Lifecycle!WaitTimesOut
  <2>3. ASSUME NEW s \in Threads, s # t, alone'[s]
        PROVE  /\ at'[s] \in {"errorIndex", "request"} => run' = 0 /\ Len(log') = start'[s]
               /\ at'[s] \in {"answered", "waiting"} /\ op'[s] = "prompt_and_wait" =>
                    /\ run' \in {0, own'[s]}
                    /\ \A i \in (start'[s] + 1)..Len(log') : log'[i].run = own'[s]
    <3>1. run' = run /\ alone[s]
      BY <2>1, <2>2, <2>3
    <3> QED
      BY <2>1, <2>3, <3>1 DEF LifecycleInv, Undisturbed
  <2>4. ASSUME alone'[t]
        PROVE  /\ at'[t] \in {"errorIndex", "request"} => run' = 0 /\ Len(log') = start'[t]
               /\ at'[t] \in {"answered", "waiting"} /\ op'[t] = "prompt_and_wait" =>
                    /\ run' \in {0, own'[t]}
                    /\ \A i \in (start'[t] + 1)..Len(log') : log'[i].run = own'[t]
    <3>0. /\ at \in [Threads -> {"out", "look", "index", "errorIndex", "request",
                                 "answered", "waiting"}]
          /\ alone \in [Threads -> BOOLEAN] /\ start \in [Threads -> Nat]
          /\ own \in [Threads -> 0..MaxRuns]
          /\ offset + Len(items) = Len(log)
      BY DEF LifecycleInv, ThreadTypes, HistoryIsEnd
    <3>1. CASE \E o \in Lifecycle!Collecting \cup {"prompt"} : Lifecycle!Begin(t, o)
      <4>1. PICK o \in Lifecycle!Collecting \cup {"prompt"} : Lifecycle!Begin(t, o)
        BY <3>1
      <4>2. at'[t] = "out"
        BY <2>4, <3>0, <4>1 DEF Lifecycle!Begin
      <4> QED
        BY <4>2
    <3>2. CASE Lifecycle!Look(t) \/ Lifecycle!RequestFails(t) \/ Lifecycle!WaitTimesOut(t)
      <4>1. at'[t] \in {"out", "index"}
        BY <3>0, <3>2 DEF Lifecycle!Look, Lifecycle!RequestFails, Lifecycle!WaitTimesOut
      <4> QED
        BY <4>1
    <3>3. CASE Lifecycle!Index(t)
      BY <2>1, <2>4, <3>0, <3>3 DEF Lifecycle!Index
    <3>4. CASE Lifecycle!ErrorIndex(t)
      <4>1. /\ at[t] = "errorIndex" /\ UNCHANGED <<alone, op, own, start, run>>
            /\ at'[t] = IF op[t] = "prompt_and_wait" THEN "request" ELSE "waiting"
        BY <3>0, <3>4 DEF Lifecycle!ErrorIndex
      <4> QED
        BY <2>1, <2>4, <4>1 DEF LifecycleInv, Undisturbed
    <3>5. CASE Lifecycle!Answer(t)
      <4>1. /\ at[t] = "request" /\ alone[t] /\ at'[t] = "answered" /\ start' = start
            /\ run' = own'[t]
        BY <2>4, <3>0, <3>5 DEF Lifecycle!Answer
      <4>2. Len(log) = start[t]
        BY <4>1 DEF LifecycleInv, Undisturbed
      <4>3. (start[t] + 1)..Len(log) = {}
        BY <1>0, <4>2
      <4> QED
        BY <2>1, <4>1, <4>3
    <3>6. CASE Lifecycle!Mark(t) \/ Lifecycle!Check(t)
      <4>1. /\ at[t] \in {"answered", "waiting"} /\ at'[t] \in {"waiting", "out"}
            /\ UNCHANGED <<alone, op, own, start, run>>
        BY <3>0, <3>6 DEF Lifecycle!Mark, Lifecycle!Check
      <4> QED
        BY <2>1, <2>4, <4>1 DEF LifecycleInv, Undisturbed
    <3> QED
      BY <1>2, <3>1, <3>2, <3>3, <3>4, <3>5, <3>6 DEF ThreadStep
  <2> QED
    BY <2>3, <2>4 DEF Undisturbed
<1> QED
  BY <1>1, <1>2

(* A turn is returned by a look of its thread, and by nothing else.        *)
LEMMA TurnOfCheck ==
  ASSUME LifecycleInv, NEW t \in Threads, ThreadStep(t), result'[t] = "turn"
  PROVE  /\ at[t] = "waiting" /\ start[t] >= offset
         /\ Lifecycle!HasEnd(Lifecycle!Snapshot(t))
         /\ returned'[t] = Lifecycle!Snapshot(t)
         /\ UNCHANGED <<start, op, own, alone>>
<1>1. /\ result \in [Threads -> Lifecycle!Results] /\ start[t] \in Nat /\ offset \in Nat
      /\ returned \in [Threads -> Seq(Lifecycle!Events)]
      /\ at[t] # "out" => result[t] # "turn"
  BY DEF LifecycleInv, ThreadTypes, HistoryIsEnd
<1>2. CASE Lifecycle!Check(t)
  BY <1>1, <1>2 DEF Lifecycle!Check, Lifecycle!End, Lifecycle!historyVars
<1>3. CASE ~Lifecycle!Check(t)
  <2>1. result'[t] # "turn"
    BY <1>1, <1>3 DEF ThreadStep, Lifecycle!Begin, Lifecycle!Look, Lifecycle!Index,
         Lifecycle!ErrorIndex, Lifecycle!Answer, Lifecycle!RequestFails, Lifecycle!Mark,
         Lifecycle!WaitTimesOut, Lifecycle!End
  <2> QED
    BY <2>1
<1> QED
  BY <1>2, <1>3

(* Turns stay as they were returned, and are returned as they were logged. *)
LEMMA TurnStep ==
  ASSUME LifecycleInv, ReaderStep \/ \E t \in Threads : ThreadStep(t)
  PROVE  TurnsAreLogged' /\ Lifecycle!TurnIsOwn'
<1>0. /\ Len(log) \in Nat
      /\ \A t \in Threads : start[t] \in Nat /\ Len(returned[t]) \in Nat
  BY DEF LifecycleInv, HistoryIsEnd, ThreadTypes
<1>1. CASE ReaderStep
  <2>1. UNCHANGED <<op, own, alone, start, result, returned>>
    BY <1>1, ReaderSteps DEF LifecycleInv
  <2>2. Len(log') \in Nat /\ Len(log') >= Len(log) /\ \A i \in 1..Len(log) : log'[i] = log[i]
    BY <1>0, <1>1, ReaderLogs
  <2>3. ASSUME NEW t \in Threads, result[t] = "turn"
        PROVE  /\ start[t] + Len(returned[t]) <= Len(log')
               /\ \A i \in 1..Len(returned[t]) : returned[t][i] = log'[start[t] + i]
    <3>1. /\ start[t] + Len(returned[t]) <= Len(log)
          /\ \A i \in 1..Len(returned[t]) : returned[t][i] = log[start[t] + i]
      BY <2>3 DEF LifecycleInv, TurnsAreLogged
    <3>2. \A i \in 1..Len(returned[t]) : start[t] + i \in 1..Len(log)
      BY <1>0, <3>1
    <3>3. \A i \in 1..Len(returned[t]) : returned[t][i] = log'[start[t] + i]
      <4> TAKE i \in 1..Len(returned[t])
      <4>1. log'[start[t] + i] = log[start[t] + i]
        BY <2>2, <3>2
      <4> QED
        BY <3>1, <4>1
    <3>4. start[t] + Len(returned[t]) <= Len(log')
      BY <1>0, <2>2, <3>1
    <3> QED
      BY <3>3, <3>4
  <2>4. TurnsAreLogged'
    BY <2>1, <2>3 DEF LifecycleInv, TurnsAreLogged, Lifecycle!HasEnd
  <2>5. Lifecycle!TurnIsOwn'
    BY <2>1 DEF LifecycleInv, Lifecycle!TurnIsOwn, Lifecycle!Range
  <2> QED
    BY <2>4, <2>5
<1>2. ASSUME NEW t \in Threads, ThreadStep(t) PROVE TurnsAreLogged' /\ Lifecycle!TurnIsOwn'
  <2>1. /\ UNCHANGED log
        /\ \A s \in Threads : s # t => /\ op'[s] = op[s] /\ start'[s] = start[s]
                                       /\ own'[s] = own[s] /\ result'[s] = result[s]
                                       /\ returned'[s] = returned[s]
                                       /\ alone'[s] => alone[s]
    BY <1>2, OtherThreads DEF LifecycleInv
  <2> DEFINE turn1 == Lifecycle!Snapshot(t)
  <2>2. /\ turn1 \in Seq(Lifecycle!Events)
        /\ start[t] >= offset =>
             /\ Len(turn1) = Len(log) - start[t]
             /\ \A i \in 1..(Len(log) - start[t]) : turn1[i] = log[start[t] + i]
    BY SnapshotIsLog DEF LifecycleInv
  <2>3. result'[t] = "turn" =>
          /\ at[t] = "waiting" /\ start[t] >= offset /\ Lifecycle!HasEnd(turn1)
          /\ returned'[t] = turn1 /\ UNCHANGED <<start, op, own, alone>>
    BY <1>2, TurnOfCheck
  <2> HIDE DEF turn1
  <2>4. ASSUME result'[t] = "turn"
        PROVE  /\ Lifecycle!HasEnd(returned[t])'
               /\ start'[t] + Len(returned'[t]) <= Len(log')
               /\ \A i \in 1..Len(returned'[t]) : returned'[t][i] = log'[start'[t] + i]
    BY <1>0, <2>1, <2>2, <2>3, <2>4 DEF Lifecycle!HasEnd
  <2>5. TurnsAreLogged'
    BY <2>1, <2>4 DEF LifecycleInv, TurnsAreLogged, Lifecycle!HasEnd
  <2>6. ASSUME result'[t] = "turn", op'[t] = "prompt_and_wait", alone'[t]
        PROVE  [run |-> own'[t], kind |-> "end"] \in Lifecycle!Range(returned'[t])
    <3>1. PICK i \in DOMAIN turn1 : turn1[i].kind = "end"
      BY <2>3, <2>6 DEF Lifecycle!HasEnd
    <3>2. DOMAIN turn1 = 1..(Len(log) - start[t])
      BY <2>2, <2>3, <2>6, LenProperties
    <3>3. turn1[i] \in Lifecycle!Events /\ turn1[i] = log[start[t] + i]
      BY <2>2, <2>3, <2>6, <3>2, ElementOfSeq
    <3>4. start[t] + i \in (start[t] + 1)..Len(log)
      BY <1>0, <3>2
    <3>5. turn1[i].run = own[t]
      BY <2>3, <2>6, <3>3, <3>4 DEF LifecycleInv, Undisturbed
    <3>6. turn1[i] = [run |-> own[t], kind |-> "end"]
      BY <3>1, <3>3, <3>5 DEF Lifecycle!Events
    <3> QED
      BY <2>3, <2>6, <3>6 DEF Lifecycle!Range
  <2>7. Lifecycle!TurnIsOwn'
    BY <2>1, <2>6 DEF LifecycleInv, Lifecycle!TurnIsOwn, Lifecycle!Range
  <2> QED
    BY <2>5, <2>7
<1> QED
  BY <1>1, <1>2

(* What was logged from the start on is a prefix of the log from there.    *)
LEMMA LoggedIsPrefix ==
  ASSUME ThreadTypes, HistoryIsEnd, Remembered, NEW t \in Threads,
         start[t] + Len(returned[t]) <= Len(log),
         \A i \in 1..Len(returned[t]) : returned[t][i] = log[start[t] + i]
  PROVE  Lifecycle!IsPrefix(returned[t], SubSeq(log, start[t] + 1, Len(log)))
<1> DEFINE E == Lifecycle!Events
           turn1 == returned[t]
           rest == SubSeq(log, start[t] + 1, Len(log))
<1>1. /\ turn1 \in Seq(E) /\ log \in Seq(E) /\ start[t] \in Nat /\ start[t] <= Len(log)
      /\ Len(log) \in Nat /\ Len(turn1) \in Nat
  BY DEF ThreadTypes, HistoryIsEnd, Remembered
<1>2. \A i \in (start[t] + 1)..Len(log) : log[i] \in E
  BY <1>1, ElementOfSeq
<1> HIDE DEF E
<1>3. /\ rest \in Seq(E) /\ Len(rest) = Len(log) - start[t]
      /\ \A i \in 1..(Len(log) - start[t]) : rest[i] = log[start[t] + i]
  <2>1. start[t] + 1 \in Int /\ Len(log) \in Int
    BY <1>1
  <2>2. /\ rest \in Seq(E)
        /\ Len(rest) = IF start[t] + 1 <= Len(log) THEN Len(log) - (start[t] + 1) + 1 ELSE 0
        /\ \A i \in 1..(Len(log) - (start[t] + 1) + 1) : rest[i] = log[(start[t] + 1) + i - 1]
    BY <1>2, <2>1, SubSeqProperties
  <2>3. /\ Len(log) - (start[t] + 1) + 1 = Len(log) - start[t]
        /\ \A i \in 1..(Len(log) - start[t]) : (start[t] + 1) + i - 1 = start[t] + i
    BY <1>1
  <2> HIDE DEF rest
  <2>4. Len(rest) = Len(log) - start[t]
    <3>1. CASE start[t] + 1 <= Len(log)
      BY <2>2, <2>3, <3>1
    <3>2. CASE start[t] = Len(log)
      BY <1>1, <2>2, <3>2
    <3> QED BY <1>1, <3>1, <3>2
  <2>5. ASSUME NEW i \in 1..(Len(log) - start[t]) PROVE rest[i] = log[start[t] + i]
    BY <2>2, <2>3
  <2> QED
    BY <2>2, <2>4, <2>5
<1>4. /\ Len(turn1) <= Len(log) - start[t]
      /\ \A i \in 1..Len(turn1) : turn1[i] = log[start[t] + i]
  BY <1>1
<1> HIDE DEF turn1, rest
<1>5. Len(turn1) <= Len(rest) /\ \A i \in 1..Len(turn1) : turn1[i] = rest[i]
  BY <1>1, <1>3, <1>4
<1>6. /\ SubSeq(turn1, 1, Len(turn1)) \in Seq(E) /\ SubSeq(rest, 1, Len(turn1)) \in Seq(E)
      /\ Len(SubSeq(turn1, 1, Len(turn1))) = Len(turn1)
      /\ Len(SubSeq(rest, 1, Len(turn1))) = Len(turn1)
      /\ \A i \in 1..Len(turn1) : SubSeq(turn1, 1, Len(turn1))[i] = turn1[i]
      /\ \A i \in 1..Len(turn1) : SubSeq(rest, 1, Len(turn1))[i] = rest[i]
  <2>1. \A i \in 1..Len(turn1) : turn1[i] \in E /\ rest[i] \in E
    BY <1>1, <1>5, ElementOfSeq
  <2>2. /\ 1 \in Int /\ Len(turn1) \in Int /\ Len(turn1) - 1 + 1 = Len(turn1)
        /\ \A i \in 1..Len(turn1) : 1 + i - 1 = i
        /\ (IF 1 <= Len(turn1) THEN Len(turn1) - 1 + 1 ELSE 0) = Len(turn1)
    BY <1>1
  <2>3. /\ SubSeq(turn1, 1, Len(turn1)) \in Seq(E)
        /\ Len(SubSeq(turn1, 1, Len(turn1)))
             = IF 1 <= Len(turn1) THEN Len(turn1) - 1 + 1 ELSE 0
        /\ \A i \in 1..(Len(turn1) - 1 + 1) :
             SubSeq(turn1, 1, Len(turn1))[i] = turn1[1 + i - 1]
    BY <2>1, <2>2, SubSeqProperties
  <2>4. /\ SubSeq(rest, 1, Len(turn1)) \in Seq(E)
        /\ Len(SubSeq(rest, 1, Len(turn1)))
             = IF 1 <= Len(turn1) THEN Len(turn1) - 1 + 1 ELSE 0
        /\ \A i \in 1..(Len(turn1) - 1 + 1) :
             SubSeq(rest, 1, Len(turn1))[i] = rest[1 + i - 1]
    BY <2>1, <2>2, SubSeqProperties
  <2> QED
    BY <2>2, <2>3, <2>4
<1>7. SubSeq(turn1, 1, Len(turn1)) = SubSeq(rest, 1, Len(turn1))
  <2> DEFINE a == SubSeq(turn1, 1, Len(turn1))
             b == SubSeq(rest, 1, Len(turn1))
  <2>1. /\ a \in Seq(E) /\ b \in Seq(E) /\ Len(a) = Len(b)
        /\ \A i \in 1..Len(a) : a[i] = b[i]
    BY <1>5, <1>6
  <2> HIDE DEF a, b
  <2>2. a = b
    BY <2>1, SeqEqual
  <2> QED
    BY <2>2 DEF a, b
<1> QED
  BY <1>5, <1>7 DEF Lifecycle!IsPrefix, turn1, rest

(* The lifecycle's invariant: what threads remember lies behind them, runs *)
(* and prompts are counted once, whoever may return is awake and turns are *)
(* whole and their own.                                                    *)
THEOREM LifecycleInvariant == Spec => [](part = "lifecycle" => LifecycleInv)
<1>1. Init => (part = "lifecycle" => LifecycleInv)
  <2> SUFFICES ASSUME Lifecycle!Init PROVE LifecycleInv
    BY DEF Init
  <2> USE DEF Lifecycle!Init
  <2>0. <<>> \in Seq(Lifecycle!Events) /\ Len(<<>>) = 0
    OBVIOUS
  <2>1. ThreadTypes
    <3>1. /\ own \in [Threads -> 0..MaxRuns] /\ start \in [Threads -> Nat]
          /\ errorStart \in [Threads -> Nat]
      BY Limits
    <3>2. returned \in [Threads -> Seq(Lifecycle!Events)]
      BY <2>0
    <3>3. /\ result \in [Threads -> Lifecycle!Results] /\ alone \in [Threads -> BOOLEAN]
          /\ awake \in [Threads -> BOOLEAN] /\ lost \in BOOLEAN
      BY DEF Lifecycle!Results
    <3> QED
      BY <3>1, <3>2, <3>3 DEF ThreadTypes
  <2>2. HistoryIsEnd
    BY <2>0, Limits DEF HistoryIsEnd
  <2>3. Remembered
    BY <2>0 DEF Remembered
  <2>4. Counted
    <3>1. Cardinality({}) = 0 /\ 1..0 = {}
      BY FS_EmptySet
    <3> QED
      BY <3>1, Limits DEF Counted
  <2>5. Undisturbed /\ Lifecycle!NoLostWakeup
    BY DEF Undisturbed, Lifecycle!NoLostWakeup
  <2>6. TurnsAreLogged /\ Lifecycle!TurnIsOwn
    BY DEF TurnsAreLogged, Lifecycle!TurnIsOwn
  <2> QED
    BY <2>1, <2>2, <2>3, <2>4, <2>5, <2>6 DEF LifecycleInv
<1>2. (part = "lifecycle" => LifecycleInv) /\ [Next]_vars => (part = "lifecycle" => LifecycleInv)'
  <2> SUFFICES ASSUME part = "lifecycle" => LifecycleInv, [Next]_vars, part' = "lifecycle"
               PROVE  LifecycleInv'
    OBVIOUS
  <2>1. part = "lifecycle" /\ LifecycleInv /\ (Lifecycle!Next \/ UNCHANGED lifecycleVars)
    BY DEF Next, vars
  <2>2. CASE UNCHANGED lifecycleVars
    <3> USE <2>1, <2>2 DEF lifecycleVars, LifecycleInv
    <3>1. ThreadTypes' /\ HistoryIsEnd' /\ Remembered'
      BY DEF ThreadTypes, HistoryIsEnd, Remembered
    <3>2. Counted' /\ Undisturbed'
      BY DEF Counted, Undisturbed
    <3>3. Lifecycle!NoLostWakeup'
      BY DEF Lifecycle!NoLostWakeup, Lifecycle!MayReturn, Lifecycle!HasEnd, Lifecycle!Snapshot
    <3>4. TurnsAreLogged' /\ Lifecycle!TurnIsOwn'
      BY DEF TurnsAreLogged, Lifecycle!TurnIsOwn, Lifecycle!HasEnd, Lifecycle!Range
    <3> QED
      BY <3>1, <3>2, <3>3, <3>4
  <2>3. CASE Lifecycle!Next
    <3>1. ReaderStep \/ \E t \in Threads : ThreadStep(t)
      BY <2>3 DEF Lifecycle!Next, ReaderStep, ThreadStep
    <3>2. ThreadTypes'
      BY <2>1, <3>1, ThreadTypesStep, ReaderTypesStep
    <3>3. HistoryIsEnd'
      <4>1. ASSUME NEW t \in Threads, ThreadStep(t) PROVE HistoryIsEnd'
        BY <2>1, <4>1, OtherThreads DEF LifecycleInv, HistoryIsEnd
      <4> QED
        BY <2>1, <3>1, <4>1, ReaderLogs
    <3> QED
      BY <2>1, <3>1, <3>2, <3>3, RememberedStep, CountedStep, UndisturbedStep, WakeupStep,
         TurnStep DEF LifecycleInv
  <2> QED
    BY <2>1, <2>2, <2>3
<1> QED
  BY <1>1, <1>2, PTL DEF Spec

(* Whoever may return from _wait_for_agent_end is awake, or the notify of  *)
(* _mark_closed is still to come.                                          *)
THEOREM NoWakeupIsLost == Spec => []NoLostWakeup
<1>1. (part = "lifecycle" => LifecycleInv) => NoLostWakeup
  BY DEF NoLostWakeup, LifecycleInv
<1> QED
  BY <1>1, LifecycleInvariant, PTL

(* prompt_and_wait and collect_events return all that was received since   *)
(* they began, although the history forgets events, with an end, and with  *)
(* the end of their own prompt when no other run was around.               *)
THEOREM TurnsAreRight == Spec => []TurnIsRight
<1>1. ASSUME LifecycleInv PROVE Lifecycle!TurnIsWhole
  <2> SUFFICES ASSUME NEW t \in Threads, result[t] = "turn"
               PROVE  /\ Lifecycle!HasEnd(returned[t])
                      /\ Lifecycle!IsPrefix(returned[t], SubSeq(log, start[t] + 1, Len(log)))
    BY DEF Lifecycle!TurnIsWhole
  <2> QED
    BY <1>1, LoggedIsPrefix DEF LifecycleInv, TurnsAreLogged
<1>2. (part = "lifecycle" => LifecycleInv) => TurnIsRight
  BY <1>1 DEF TurnIsRight, LifecycleInv
<1> QED
  BY <1>2, LifecycleInvariant, PTL

(* wait_for_idle says idle only when no run goes on whose prompt was       *)
(* counted, unless the counters are apart: with each prompt counted and    *)
(* each end too, equal counters leave no run.                              *)
THEOREM IdleIsIdle == Spec => IdleIsTrue
<1>1. ASSUME part = "lifecycle" => LifecycleInv, Next, part = "lifecycle",
             NEW t \in Threads, result'[t] = "idle", at[t] = "look", ~lost,
             \A s \in Threads : at[s] # "answered"
      PROVE  run \notin marked
  <2>1. LifecycleInv /\ Lifecycle!Next
    BY <1>1 DEF Next
  <2>2. result[t] = "none"
    BY <1>1, <2>1 DEF LifecycleInv, ThreadTypes
  <2>3. Lifecycle!Look(t)
    <3>1. ASSUME ReaderStep PROVE FALSE
      BY <1>1, <2>1, <2>2, <3>1, ReaderSteps DEF LifecycleInv
    <3>2. ASSUME NEW s \in Threads, ThreadStep(s), s # t PROVE FALSE
      BY <1>1, <2>1, <2>2, <3>2, OtherThreads DEF LifecycleInv
    <3>3. ThreadStep(t)
      BY <2>1, <3>1, <3>2 DEF Lifecycle!Next, ReaderStep, ThreadStep
    <3> QED
      BY <1>1, <3>3 DEF ThreadStep, Lifecycle!Begin, Lifecycle!Index, Lifecycle!ErrorIndex,
           Lifecycle!Answer, Lifecycle!RequestFails, Lifecycle!Mark, Lifecycle!Check,
           Lifecycle!WaitTimesOut
  <2>4. scheduled = completed
    BY <1>1, <2>2, <2>3 DEF Lifecycle!Look
  <2>5. marked = 1..runs
    BY <1>1, <2>1 DEF LifecycleInv, Counted
  <2>6. Cardinality(marked) = runs
    <3>1. runs \in Nat
      BY Limits, <2>1 DEF LifecycleInv, Counted
    <3> QED
      BY <2>5, <3>1, FS_Interval
  <2>7. run = 0
    <3>1. scheduled = Cardinality(marked)
      BY <2>1 DEF LifecycleInv, Counted
    <3>2. completed = runs
      BY <2>4, <2>6, <3>1
    <3>3. /\ completed \in Nat
          /\ runs = completed + (IF run = 0 THEN 0 ELSE 1)
                      + (IF counting = "count" THEN 1 ELSE 0)
      BY <2>1 DEF LifecycleInv, Counted
    <3> QED
      BY <3>2, <3>3
  <2> QED
    BY <2>5, <2>7
<1> DEFINE Idle == \A t \in Threads :
             result'[t] = "idle" /\ at[t] = "look" /\ ~lost
               /\ (\A s \in Threads : at[s] # "answered") => run \notin marked
<1>2. (part = "lifecycle" => LifecycleInv) /\ [Next]_vars
        => [part = "lifecycle" => Idle]_vars
  BY <1>1
<1> QED
  BY <1>2, LifecycleInvariant, PTL DEF Spec, IdleIsTrue

(* The types of the lifecycle follow from its invariant: no more prompts   *)
(* are counted, and no more ends, than runs began.                         *)
LEMMA LifecycleTypes ==
  ASSUME LifecycleInv
  PROVE  Lifecycle!TypeOK
<1>1. /\ runs \in Nat /\ runs <= MaxRuns /\ run \in 0..runs /\ completed \in Nat
      /\ marked \subseteq 1..runs /\ scheduled = Cardinality(marked)
  BY Limits DEF LifecycleInv, Counted
<1>2. completed <= runs
  <2>1. runs = completed + (IF run = 0 THEN 0 ELSE 1) + (IF counting = "count" THEN 1 ELSE 0)
    BY DEF LifecycleInv, Counted
  <2> QED
    BY <1>1, <2>1
<1>3. scheduled \in Nat /\ scheduled <= runs
  <2>1. IsFiniteSet(1..runs) /\ Cardinality(1..runs) = runs
    BY <1>1, FS_Interval
  <2>2. IsFiniteSet(marked) /\ Cardinality(marked) <= runs
    BY <1>1, <2>1, FS_Subset
  <2> QED
    BY <1>1, <2>2, FS_CardinalityType
<1>4. /\ scheduled \in 0..MaxRuns /\ completed \in 0..MaxRuns
      /\ run \in 0..MaxRuns /\ runs \in 0..MaxRuns /\ marked \subseteq 1..MaxRuns
  BY <1>1, <1>2, <1>3, Limits
<1>5. start \in [Threads -> 0..Len(log)] /\ errorStart \in [Threads -> 0..errors]
  <2>1. /\ start \in [Threads -> Nat] /\ errorStart \in [Threads -> Nat]
        /\ Len(log) \in Nat /\ errors \in Nat
        /\ \A t \in Threads : start[t] <= Len(log) /\ errorStart[t] <= errors
    BY DEF LifecycleInv, ThreadTypes, Remembered, HistoryIsEnd
  <2>2. \A t \in Threads : start[t] \in 0..Len(log) /\ errorStart[t] \in 0..errors
    BY <2>1
  <2> QED
    BY <2>1, <2>2
<1>6. \A t \in Threads : \A i \in DOMAIN returned[t] : returned[t][i] \in Lifecycle!Events
  <2> TAKE t \in Threads
  <2>1. returned[t] \in Seq(Lifecycle!Events)
    BY DEF LifecycleInv, ThreadTypes
  <2> QED
    BY <2>1, ElementOfSeq, LenProperties
<1>7. Len(items) <= HistoryLimit /\ offset + Len(items) = Len(log)
  BY DEF LifecycleInv, HistoryIsEnd
<1> QED
  BY <1>4, <1>5, <1>6, <1>7
     DEF Lifecycle!TypeOK, LifecycleInv, ThreadTypes, Counted, Remembered

(* Types, of whichever part the behaviour is about.                        *)
THEOREM TypeCorrect == Spec => []TypeOK
<1>1. ASSUME FramesInv PROVE Frames!TypeOK
  <2>1. partial \in Seq(Frames!Chunks) /\ frame \in Seq(Frames!Chunks)
    BY <1>1 DEF FramesInv
  <2>2. /\ \A i \in DOMAIN partial : partial[i] \in Frames!Chunks
        /\ \A i \in DOMAIN frame : frame[i] \in Frames!Chunks
    BY <2>1, ElementOfSeq, LenProperties
  <2> QED
    BY <1>1, <2>2 DEF FramesInv, Frames!TypeOK
<1>2. (/\ part = "requests" => RequestsInv
       /\ part = "lifecycle" => LifecycleInv
       /\ part = "frames" => FramesInv
       /\ part = "harness" => HarnessInv) => TypeOK
  BY <1>1, LifecycleTypes DEF TypeOK, RequestsInv, HarnessInv
<1> QED
  BY <1>2, RequestsInvariant, LifecycleInvariant, FramesInvariant, HarnessInvariant, PTL
=============================================================================
