--------------------------- MODULE HarnessSession ---------------------------
(***************************************************************************)
(* The harness program (_runtime_harness.py) around one RpcClient: the     *)
(* main thread starts omp, registers the tools, prompts, and stops omp at  *)
(* the end; the reader thread takes what omp sends; each host tool call    *)
(* runs in a thread of its own.  omp may do anything at any time.          *)
(***************************************************************************)
EXTENDS Naturals, FiniteSets

CONSTANTS
  ToolCalls,    \* the host tool calls omp may make
  Native    \* does omp use its own tools, so that none is registered

SessionAssumption ==
  /\ IsFiniteSet(ToolCalls) /\ Native \in BOOLEAN
  /\ ToolCalls \cap {"none", "main", "reader"} = {}

VARIABLES
  main,       \* where the main thread is
  outcome,    \* the exit status of the program
  again,      \* is stop() called from start(), so that main() calls it again
  ready,      \* what start() waits for: "no", "v1" or "v2" by what omp offers
  request,    \* of the main thread: "none", "unsent", "sent", "answered", "failed"
  turn,       \* is the end of the run in the history
  over,     \* is the client marked closed, or the reader over as stop() runs
  omp,        \* its process group: "unborn", "running", "exited", "terminated"
  input,      \* is its stdin open
  held,       \* is a write into its stdin stuck, or the closing of its output
  writer,     \* who holds _write_lock
  call,       \* where the thread of each call is
  table,      \* _pending_host_tool_calls
  cancelled,  \* the calls whose cancel_event is set
  results,    \* how many results were sent for each call
  sizeSeen,   \* the size of the table when stop() began to walk it
  toldOff,    \* calls cancelled before their tool returned (history)
  disturbed,  \* did the table change while stop() walked it (history)
  dialog,     \* a dialog of omp: "none", "early", "asked", "open" or "answered"
  headless    \* install_headless_ui

vars == <<main, outcome, again, ready, request, turn, over, omp, input, held, writer, call,
          table, cancelled, results, sizeSeen, toldOff, disturbed, dialog, headless>>
callVars == <<call, table, cancelled, results, toldOff>>
readerVars == <<ready, request, turn, over>>
stopVars == <<again, sizeSeen, disturbed>>
uiVars == <<dialog, headless>>
ompVars == <<omp, input, held, writer>>

RequestStages == {"negotiate", "tools", "prompt"}
Stopping == {"walk", "close", "terminate", "clear"}

TypeOK ==
  /\ main \in {"new", "ready", "headless", "turn", "ended"} \cup RequestStages \cup Stopping
  /\ outcome \in {"none", "ok", "error"} /\ again \in BOOLEAN /\ ready \in {"no", "v1", "v2"}
  /\ request \in {"none", "unsent", "sent", "answered", "failed"} /\ turn \in BOOLEAN
  /\ over \in BOOLEAN /\ omp \in {"unborn", "running", "exited", "terminated"}
  /\ input \in BOOLEAN /\ held \in BOOLEAN
  /\ writer \in {"none", "main", "reader"} \cup ToolCalls
  /\ call \in [ToolCalls -> {"none", "running", "checked", "refused", "returned", "silent"}]
  /\ table \subseteq ToolCalls /\ cancelled \subseteq ToolCalls /\ toldOff \subseteq cancelled
  /\ results \in [ToolCalls -> 0..2] /\ sizeSeen \in 0..Cardinality(ToolCalls)
  /\ disturbed \in BOOLEAN /\ dialog \in {"none", "early", "asked", "open", "answered"}
  /\ headless \in BOOLEAN

Init ==
  /\ main = "new" /\ outcome = "none" /\ again = FALSE /\ ready = "no" /\ request = "none" /\ turn = FALSE
  /\ over = FALSE /\ omp = "unborn" /\ input = FALSE
  /\ held = FALSE /\ writer = "none"
  /\ call = [c \in ToolCalls |-> "none"] /\ table = {} /\ cancelled = {}
  /\ results = [c \in ToolCalls |-> 0] /\ sizeSeen = 0 /\ toldOff = {} /\ disturbed = FALSE
  /\ dialog = "none" /\ headless = FALSE
-----------------------------------------------------------------------------
(* The main thread.                                                        *)

\* stop() begins to walk the table; an error is remembered.
Stop(status) ==
  /\ main' = "walk" /\ outcome' = status /\ sizeSeen' = Cardinality(table)
  /\ again' = (main \in {"ready", "negotiate"})

\* No configuration, no tool endpoint, or no executable.
StartFails ==
  /\ main = "new"
  /\ main' = "ended" /\ outcome' = "error"
  /\ UNCHANGED <<ompVars, readerVars, callVars, stopVars, uiVars>>

Start ==
  /\ main = "new"
  /\ main' = "ready" /\ omp' = "running" /\ input' = TRUE
  /\ UNCHANGED <<outcome, held, writer, readerVars, callVars, stopVars, uiVars>>

\* The ready event, the closing of the client or the startup timeout.
WaitReady ==
  /\ main = "ready"
  /\ IF ready = "no" THEN Stop("error") /\ UNCHANGED request
     ELSE /\ main' = IF ready = "v2" THEN "negotiate" ELSE IF Native THEN "headless" ELSE "tools"
          /\ request' = IF ready = "v1" /\ Native THEN "none" ELSE "unsent"
          /\ UNCHANGED <<outcome, again, sizeSeen>>
  /\ UNCHANGED <<ready, turn, over, ompVars, callVars, disturbed, uiVars>>

\* A request comes back with its answer, or fails: not written, refused, a
\* closed client, a time limit, which begins when it is written.
EndRequest ==
  /\ main \in RequestStages /\ request # "unsent"
  /\ \/ /\ request = "answered"
        /\ main' = CASE main = "negotiate" -> (IF Native THEN "headless" ELSE "tools")
                     [] main = "tools" -> "headless"
                     [] OTHER -> "turn"
        /\ request' = IF main = "negotiate" /\ ~Native THEN "unsent" ELSE "none"
        /\ UNCHANGED <<outcome, again, sizeSeen>>
     \/ Stop("error") /\ request' = "none"
  /\ UNCHANGED <<ready, turn, over, ompVars, callVars, disturbed, uiVars>>

InstallHeadless ==
  /\ main = "headless"
  /\ headless' = TRUE /\ main' = "prompt" /\ request' = "unsent"
  /\ UNCHANGED <<outcome, ready, turn, over, ompVars, callVars, stopVars, dialog>>

\* Mutant: no time limit.
EndTurnUnlimited ==
  /\ main = "turn"
  /\ \/ turn /\ ~over /\ Stop("ok")
     \/ over /\ Stop("error")
  /\ UNCHANGED <<readerVars, ompVars, callVars, disturbed, uiVars>>

\* prompt_and_wait: the end of the run, or a closed client or the timeout.
EndTurn ==
  /\ main = "turn"
  /\ \/ turn /\ ~over /\ Stop("ok")
     \/ Stop("error")
  /\ UNCHANGED <<readerVars, ompVars, callVars, disturbed, uiVars>>

\* A table of another size makes the walk raise; main() calls stop() once
\* more when that was the stop() of start().
WalkRaises ==
  /\ main = "walk" /\ Cardinality(table) # sizeSeen
  /\ outcome' = "error" /\ main' = IF again THEN "walk" ELSE "ended"
  /\ again' = FALSE /\ sizeSeen' = Cardinality(table)
  /\ UNCHANGED <<readerVars, ompVars, callVars, disturbed, uiVars>>

\* One step of the walk, or its end.
Walk ==
  /\ main = "walk" /\ Cardinality(table) = sizeSeen
  /\ \/ /\ table \subseteq cancelled
        /\ main' = "close" /\ UNCHANGED <<cancelled, toldOff>>
     \/ \E c \in table \ cancelled :
          /\ cancelled' = cancelled \cup {c}
          /\ toldOff' = toldOff \cup (IF call[c] = "running" THEN {c} ELSE {})
          /\ UNCHANGED main
  /\ UNCHANGED <<outcome, readerVars, ompVars, call, table, results, stopVars, uiVars>>

\* Closing the stream waits for a write that is stuck in it.
CloseInput ==
  /\ main = "close" /\ ~held
  /\ input' = FALSE /\ main' = "terminate"
  /\ UNCHANGED <<outcome, omp, held, writer, readerVars, callVars, stopVars, uiVars>>

\* Mutant: a process that has exited on its own is left alone.
TerminateLeader ==
  /\ main = "terminate"
  /\ omp' = IF omp = "exited" THEN omp ELSE "terminated"
  /\ main' = "clear"
  /\ UNCHANGED <<outcome, readerVars, input, held, writer, callVars, stopVars, uiVars>>

\* SIGTERM, a second, SIGKILL for the group.
Terminate ==
  /\ main = "terminate"
  /\ omp' = "terminated" /\ main' = "clear"
  /\ UNCHANGED <<outcome, readerVars, input, held, writer, callVars, stopVars, uiVars>>

\* Its output is closed, which waits for a thread that still reads it; then the
\* client is marked closed.
Clear ==
  /\ main = "clear" /\ ~held
  /\ over' = TRUE /\ table' = {} /\ main' = "ended"
  /\ UNCHANGED <<outcome, ready, request, turn, ompVars, call, cancelled, results, toldOff, stopVars, uiVars>>

-----------------------------------------------------------------------------
(* Messages to omp (_write_json): one writer at a time, and no time limit.  *)

mainVars == <<main, outcome>>

\* The main thread has a request to write, a call its result; the reader takes
\* the lock with the message it has to answer.
WriteRequest ==
  /\ main \in RequestStages /\ request = "unsent" /\ writer = "none"
  /\ writer' = "main"
  /\ UNCHANGED <<mainVars, readerVars, omp, input, held, callVars, stopVars, uiVars>>

WriteResult(c) ==
  /\ writer = "none" /\ call[c] = "checked"
  /\ writer' = c
  /\ UNCHANGED <<mainVars, readerVars, omp, input, held, callVars, stopVars, uiVars>>

\* Does a write reach omp; else it raises.
Reaches == omp = "running" /\ input

WrittenByMain ==
  /\ writer = "main" /\ ~held
  /\ request' = IF Reaches THEN "sent" ELSE "failed"
  /\ writer' = "none"
  /\ UNCHANGED <<mainVars, ready, turn, over, omp, input, held, callVars, stopVars, uiVars>>

\* The reader answers a dialog or refuses a call; it ends when it cannot.
WrittenByReader ==
  /\ writer = "reader" /\ ~held
  /\ call' = [c \in ToolCalls |-> IF call[c] = "refused" THEN "returned" ELSE call[c]]
  /\ results' = [c \in ToolCalls |->
                  results[c] + IF call[c] = "refused" /\ Reaches THEN 1 ELSE 0]
  /\ dialog' = IF dialog # "asked" THEN dialog ELSE IF Reaches THEN "answered" ELSE "open"
  /\ over' = (over \/ ~Reaches)
  /\ writer' = "none"
  /\ UNCHANGED <<mainVars, ready, request, turn, omp, input, held, table, cancelled, toldOff,
                 stopVars, headless>>

\* A send that fails is tried once more as an error, which fails as well.
SendResult(c) ==
  /\ writer = c /\ ~held
  /\ call' = [call EXCEPT ![c] = "silent"]
  /\ results' = [results EXCEPT ![c] = IF Reaches THEN @ + 1 ELSE @]
  /\ writer' = "none"
  /\ UNCHANGED <<mainVars, readerVars, omp, input, held, table, cancelled, toldOff, stopVars,
                 uiVars>>

Written == WrittenByMain \/ WrittenByReader \/ \E c \in ToolCalls : SendResult(c)

MainStep ==
  \/ StartFails \/ Start \/ WaitReady \/ WriteRequest \/ EndRequest \/ InstallHeadless
  \/ EndTurn \/ WalkRaises \/ Walk \/ CloseInput \/ Terminate \/ Clear
-----------------------------------------------------------------------------
(* omp, and the reader thread that takes what it sends.                    *)

\* The reader takes nothing while it writes.
Sends == omp = "running" /\ ~over /\ writer # "reader"

Ready ==
  /\ Sends /\ ready = "no"
  /\ ready' \in {"v1", "v2"}
  /\ UNCHANGED <<mainVars, request, turn, over, ompVars, callVars, stopVars, uiVars>>

Response ==
  /\ Sends /\ request = "sent"
  /\ request' \in {"answered", "failed"}
  /\ UNCHANGED <<mainVars, ready, turn, over, ompVars, callVars, stopVars, uiVars>>

AgentEnd ==
  /\ Sends /\ main \in {"prompt", "turn"} /\ request # "sent"
  /\ turn' = TRUE
  /\ UNCHANGED <<mainVars, ready, request, over, ompVars, callVars, stopVars, uiVars>>

\* The thread of a call begins, also before the tools are announced.
ToolCall(c) ==
  /\ Sends /\ call[c] = "none" /\ ~Native
  /\ call' = [call EXCEPT ![c] = "running"] /\ table' = table \cup {c}
  /\ disturbed' = (disturbed \/ main = "walk")
  /\ UNCHANGED <<mainVars, readerVars, ompVars, cancelled, results, toldOff, again, sizeSeen, uiVars>>

\* A call of no registered tool, or with no arguments, is answered by the
\* reader itself.
RefuseCall(c) ==
  /\ Sends /\ call[c] = "none" /\ writer = "none"
  /\ call' = [call EXCEPT ![c] = "refused"] /\ writer' = "reader"
  /\ UNCHANGED <<mainVars, readerVars, omp, input, held, table, cancelled, results, toldOff,
                 stopVars, uiVars>>

CancelCall(c) ==
  /\ Sends /\ c \in table
  /\ cancelled' = cancelled \cup {c}
  /\ toldOff' = toldOff \cup (IF call[c] = "running" THEN {c} ELSE {})
  /\ UNCHANGED <<mainVars, readerVars, ompVars, call, table, results, stopVars, uiVars>>

\* A dialog; without the headless listener it stays in a queue.
Dialog ==
  /\ Sends /\ dialog = "none"
  /\ IF headless THEN writer = "none" /\ writer' = "reader" /\ dialog' = "asked"
     ELSE dialog' = "early" /\ UNCHANGED writer
  /\ UNCHANGED <<mainVars, readerVars, omp, input, held, callVars, stopVars, headless>>

\* omp exits, closes its output or sends what is no frame.
StreamEnds ==
  /\ Sends
  /\ over' = TRUE /\ omp' \in {"running", "exited"}
  /\ UNCHANGED <<mainVars, ready, request, turn, input, held, writer, callVars, stopVars, uiVars>>

\* Whoever has the other ends of the pipes, omp or a process it left behind,
\* does not read what is written or keeps the output open, or no longer.
Hold ==
  /\ writer # "none" \/ main = "clear"
  /\ held' = ~held
  /\ UNCHANGED <<mainVars, readerVars, omp, input, writer, callVars, stopVars, uiVars>>
-----------------------------------------------------------------------------
(* The thread of one host tool call (run_tool).                            *)

\* Mutant: a cancelled call answers.
LookUncancelled(c) ==
  /\ call[c] = "running"
  /\ call' = [call EXCEPT ![c] = "checked"]
  /\ UNCHANGED <<mainVars, readerVars, ompVars, table, cancelled, results, toldOff, stopVars, uiVars>>

\* The tool returned or raised.
LookCancelled(c) ==
  /\ call[c] = "running"
  /\ call' = [call EXCEPT ![c] = IF c \in cancelled THEN "silent" ELSE "checked"]
  /\ UNCHANGED <<mainVars, readerVars, ompVars, table, cancelled, results, toldOff, stopVars, uiVars>>

Leave(c) ==
  /\ call[c] = "silent"
  /\ call' = [call EXCEPT ![c] = "returned"]
  /\ table' = table \ {c}
  /\ disturbed' = (disturbed \/ (main = "walk" /\ c \in table))
  /\ UNCHANGED <<mainVars, readerVars, ompVars, cancelled, results, toldOff, again, sizeSeen, uiVars>>

Next ==
  \/ MainStep \/ Written
  \/ Ready \/ Response \/ AgentEnd \/ Dialog \/ StreamEnds \/ Hold
  \/ \E c \in ToolCalls :
       ToolCall(c) \/ RefuseCall(c) \/ CancelCall(c) \/ LookCancelled(c) \/ WriteResult(c) \/ Leave(c)

Spec == Init /\ [][Next]_vars

\* The main thread runs, and so does a thread in a write; their waits have time
\* limits but for a write into a full pipe and the closing of a pipe, which
\* have no fairness while it is held.
Fairness == WF_vars(MainStep) /\ WF_vars(Written)
FairSpec == Spec /\ Fairness
-----------------------------------------------------------------------------
\* A host tool call is answered once at most, and not at all when it was
\* cancelled, by omp or by stop(), while its tool ran (run_tool).
AnsweredOnce ==
  \A c \in ToolCalls :
    /\ results[c] <= 1
    /\ c \in toldOff => results[c] = 0
    /\ call[c] = "running" => c \in table \/ main = "ended"

\* The harness leaves nothing of omp behind, its descendants included, however
\* it ends (_terminate_process_group).
StoppedIsTerminated == main = "ended" => omp \in {"unborn", "terminated"}

\* The same as long as no tool call begins or ends while stop() walks the table.
StopsUnlessDisturbed == ~disturbed => StoppedIsTerminated

\* The program ends whatever omp does, provided that its pipes do not stay held.
HarnessEnds == <>[]~held => <>(main = "ended")
=============================================================================
