---------------------------- MODULE RpcLifecycle -----------------------------
(***************************************************************************)
(* Prompts and what waits for their end in RpcClient: prompt,              *)
(* prompt_and_wait, wait_for_idle and collect_events of several threads,   *)
(* the reader thread that stores events in a history of bounded length and *)
(* counts the runs that ended, and the closing of the client.  The server  *)
(* runs one prompt at a time.                                              *)
(***************************************************************************)
EXTENDS Naturals, Sequences, SequencesExt

CONSTANTS
  Threads,       \* the threads that call the client
  HistoryLimit,  \* max_event_history
  MaxRuns,       \* bound: the runs the server begins
  MaxEvents      \* bound: the events of all runs but their ends

LifecycleAssumption == {HistoryLimit, MaxRuns, MaxEvents} \subseteq Nat \ {0}

VARIABLES
  at, op,        \* where each thread is, in which operation
  active,        \* active_operation of the coordinator, by its thread
  start,         \* start_index of each thread
  errorStart,    \* start_async_error_index of each thread
  awake,         \* is the thread to look again, or in the condition's wait
  result,        \* how the last operation of each thread ended
  returned,      \* the events it returned
  items, offset, \* the history of events
  errors, lastScheduleErrors,  \* how many async errors; at the last prompt
  scheduled, completed,        \* _scheduled_agent_runs, _completed_agent_runs
  counting,        \* "read", or "count" between an end and its count
  closed,        \* "no", "set" before, "told" after notify_all
  run, runs,     \* the run in progress, 0 for none; how many began
  log,           \* all events so far (history)
  marked,        \* the runs whose prompt was counted (history)
  own,           \* the run each thread prompted, 0 for none (history)
  alone,         \* has only that run been active since start (history)
  lost           \* has a prompt timed out in its request (history)

threadVars == <<at, op, active, start, errorStart, awake, result, returned>>
serverVars == <<counting, run, runs, log, items, offset, errors, completed>>
countVars == <<scheduled, lastScheduleErrors, marked>>
historyVars == <<own, alone, lost>>
vars == <<threadVars, serverVars, countVars, historyVars, closed>>

Collecting == {"prompt_and_wait", "wait_for_idle", "collect_events"}
Results == {"none", "turn", "idle", "busy", "closed", "history", "async", "timeout", "sent"}
Events == [run : 1..MaxRuns, kind : {"event", "end"}]

TypeOK ==
  /\ at \in [Threads -> {"out", "look", "index", "errorIndex", "request", "answered", "waiting"}]
  /\ op \in [Threads -> Collecting \cup {"prompt"}] /\ active \in Threads \cup {"none"}
  /\ start \in [Threads -> 0..Len(log)] /\ errorStart \in [Threads -> 0..errors]
  /\ awake \in [Threads -> BOOLEAN] /\ result \in [Threads -> Results]
  /\ \A t \in Threads : \A i \in DOMAIN returned[t] : returned[t][i] \in Events
  /\ Len(items) <= HistoryLimit /\ offset + Len(items) = Len(log)
  /\ scheduled \in 0..MaxRuns /\ completed \in 0..MaxRuns /\ lastScheduleErrors \in 0..errors
  /\ counting \in {"read", "count"} /\ closed \in {"no", "set", "told"}
  /\ run \in 0..MaxRuns /\ runs \in 0..MaxRuns /\ marked \subseteq 1..MaxRuns

Init ==
  /\ at = [t \in Threads |-> "out"] /\ op = [t \in Threads |-> "prompt"] /\ active = "none"
  /\ start = [t \in Threads |-> 0] /\ errorStart = start
  /\ awake = [t \in Threads |-> FALSE] /\ result = [t \in Threads |-> "none"]
  /\ returned = [t \in Threads |-> <<>>]
  /\ items = <<>> /\ offset = 0 /\ errors = 0 /\ lastScheduleErrors = 0
  /\ scheduled = 0 /\ completed = 0 /\ counting = "read" /\ closed = "no"
  /\ run = 0 /\ runs = 0 /\ log = <<>> /\ marked = {}
  /\ own = start /\ alone = awake /\ lost = FALSE

Move(t, stage) == at' = [at EXCEPT ![t] = stage]
\* An operation ends; the finally block releases the coordinator.
End(t, r, events) ==
  /\ Move(t, "out") /\ result' = [result EXCEPT ![t] = r]
  /\ returned' = [returned EXCEPT ![t] = events]
  /\ active' = IF active = t THEN "none" ELSE active
-----------------------------------------------------------------------------
(* The calling threads.                                                    *)

Begin(t, o) ==
  /\ at[t] = "out" /\ result[t] \in {"none", "sent", "turn", "idle"}
  /\ own' = [own EXCEPT ![t] = 0]
  /\ IF o \in Collecting /\ active # "none"
     THEN End(t, "busy", <<>>) /\ UNCHANGED <<op, start, errorStart, alone>>
     ELSE /\ op' = [op EXCEPT ![t] = o]
          /\ active' = IF o \in Collecting THEN t ELSE active
          /\ Move(t, CASE o = "prompt" -> "request"
                       [] o = "wait_for_idle" -> "look"
                       [] OTHER -> "index")
          /\ result' = [result EXCEPT ![t] = "none"] /\ returned' = [returned EXCEPT ![t] = <<>>]
          /\ start' = [start EXCEPT ![t] = 0] /\ errorStart' = [errorStart EXCEPT ![t] = 0]
          /\ alone' = [alone EXCEPT ![t] = FALSE]
  /\ UNCHANGED <<awake, serverVars, countVars, lost, closed>>

\* Mutant: a run is taken to be over once it has been prompted.
LookMarked(t) ==
  /\ at[t] = "look"
  /\ IF scheduled > 0
     THEN End(t, IF errors > lastScheduleErrors THEN "async" ELSE "idle", <<>>)
     ELSE Move(t, "index") /\ UNCHANGED <<result, returned, active>>
  /\ UNCHANGED <<op, start, errorStart, awake, serverVars, countVars, historyVars, closed>>

\* _is_agent_idle and _check_async_errors
Look(t) ==
  /\ at[t] = "look"
  /\ IF scheduled = completed
     THEN End(t, IF errors > lastScheduleErrors THEN "async" ELSE "idle", <<>>)
     ELSE Move(t, "index") /\ UNCHANGED <<result, returned, active>>
  /\ UNCHANGED <<op, start, errorStart, awake, serverVars, countVars, historyVars, closed>>

\* Mutant: the index of the last operation is taken again.
IndexKept(t) ==
  /\ at[t] = "index"
  /\ start' = start /\ Move(t, "errorIndex")
  /\ alone' = [alone EXCEPT ![t] = run = 0 /\ \A s \in Threads : at[s] # "request"]
  /\ UNCHANGED <<op, active, errorStart, awake, result, returned, serverVars, countVars, own, lost,
                 closed>>

\* _current_event_index
Index(t) ==
  /\ at[t] = "index"
  /\ start' = [start EXCEPT ![t] = offset + Len(items)] /\ Move(t, "errorIndex")
  /\ alone' = [alone EXCEPT ![t] = run = 0 /\ \A s \in Threads : at[s] # "request"]
  /\ UNCHANGED <<op, active, errorStart, awake, result, returned, serverVars, countVars, own, lost,
                 closed>>

\* _current_async_error_index, under a lock of its own
ErrorIndex(t) ==
  /\ at[t] = "errorIndex"
  /\ errorStart' = [errorStart EXCEPT ![t] = errors]
  /\ Move(t, IF op[t] = "prompt_and_wait" THEN "request" ELSE "waiting")
  /\ awake' = [awake EXCEPT ![t] = op[t] # "prompt_and_wait"]
  /\ UNCHANGED <<op, active, start, result, returned, serverVars, countVars, historyVars, closed>>

\* The server takes the prompt; the response comes before events of the run.
Answer(t) ==
  /\ at[t] = "request" /\ run = 0 /\ runs < MaxRuns /\ counting = "read" /\ closed = "no"
  /\ run' = runs + 1 /\ runs' = runs + 1
  /\ own' = [own EXCEPT ![t] = runs + 1]
  /\ alone' = [s \in Threads |-> IF s = t THEN alone[s] ELSE FALSE]
  /\ Move(t, "answered")
  /\ UNCHANGED <<op, active, start, errorStart, awake, result, returned, counting, log, items,
                 offset, errors, completed, countVars, lost, closed>>

\* The request times out, is refused or fails; the server may still run it.
RequestFails(t) ==
  /\ at[t] = "request"
  /\ End(t, "timeout", <<>>)
  /\ \/ UNCHANGED <<run, runs, lost, alone>>
     \/ /\ run = 0 /\ runs < MaxRuns /\ counting = "read" /\ closed = "no"
        /\ run' = runs + 1 /\ runs' = runs + 1 /\ lost' = TRUE
        /\ alone' = [s \in Threads |-> FALSE]
  /\ UNCHANGED <<op, start, errorStart, awake, counting, log, items, offset, errors, completed,
                 countVars, own, closed>>

\* _mark_agent_run_scheduled
Mark(t) ==
  /\ at[t] = "answered"
  /\ scheduled' = scheduled + 1 /\ lastScheduleErrors' = errors
  /\ marked' = marked \cup {own[t]}
  /\ IF op[t] = "prompt" THEN End(t, "sent", <<>>) /\ UNCHANGED awake
     ELSE /\ Move(t, "waiting") /\ awake' = [awake EXCEPT ![t] = TRUE]
          /\ UNCHANGED <<result, returned, active>>
  /\ UNCHANGED <<op, start, errorStart, serverVars, historyVars, closed>>

\* snapshot_from: a negative slice of Python counts from the end.
Snapshot(t) ==
  IF start[t] >= offset THEN SubSeq(items, start[t] - offset + 1, Len(items))
  ELSE IF offset - start[t] >= Len(items) THEN items
  ELSE SubSeq(items, Len(items) - (offset - start[t]) + 1, Len(items))

HasEnd(events) == \E i \in DOMAIN events : events[i].kind = "end"

\* Mutant: nobody looks whether the history still goes back that far.
CheckUntrimmed(t) ==
  /\ at[t] = "waiting" /\ awake[t]
  /\ awake' = [awake EXCEPT ![t] = FALSE]
  /\ IF closed # "no" THEN End(t, "closed", <<>>)
     ELSE IF errors > errorStart[t] THEN End(t, "async", <<>>)
     ELSE IF HasEnd(Snapshot(t)) THEN End(t, "turn", Snapshot(t))
     ELSE UNCHANGED <<at, result, returned, active>>
  /\ UNCHANGED <<op, start, errorStart, serverVars, countVars, historyVars, closed>>

\* One look of _wait_for_agent_end, under the lock of the condition.
Check(t) ==
  /\ at[t] = "waiting" /\ awake[t]
  /\ awake' = [awake EXCEPT ![t] = FALSE]
  /\ IF closed # "no" THEN End(t, "closed", <<>>)
     ELSE IF start[t] < offset THEN End(t, "history", <<>>)
     ELSE IF errors > errorStart[t] THEN End(t, "async", <<>>)
     ELSE IF HasEnd(Snapshot(t)) THEN End(t, "turn", Snapshot(t))
     ELSE UNCHANGED <<at, result, returned, active>>
  /\ UNCHANGED <<op, start, errorStart, serverVars, countVars, historyVars, closed>>

WaitTimesOut(t) ==
  /\ at[t] = "waiting" /\ ~awake[t]
  /\ End(t, "timeout", <<>>)
  /\ UNCHANGED <<op, start, errorStart, awake, serverVars, countVars, historyVars, closed>>
-----------------------------------------------------------------------------
(* The reader thread.                                                      *)

WakeAll == awake' = [t \in Threads |-> awake[t] \/ at[t] = "waiting"]

\* Mutant: the history grows without bound.
AppendUnbounded(event) ==
  log' = Append(log, event) /\ items' = Append(items, event) /\ UNCHANGED offset

Append1(event) ==
  /\ log' = Append(log, event)
  /\ items' = IF Len(items) = HistoryLimit THEN Append(Tail(items), event)
              ELSE Append(items, event)
  /\ offset' = IF Len(items) = HistoryLimit THEN offset + 1 ELSE offset

readerVars == <<at, op, active, start, errorStart, result, returned, countVars, historyVars>>

ReadEvent ==
  /\ counting = "read" /\ run # 0 /\ closed = "no"
  /\ Len(SelectSeq(log, LAMBDA e : e.kind = "event")) < MaxEvents
  /\ Append1([run |-> run, kind |-> "event"]) /\ WakeAll
  /\ UNCHANGED <<counting, run, runs, errors, completed, closed, readerVars>>

\* Mutant: the end is stored without a notify.
ReadEndQuietly ==
  /\ counting = "read" /\ run # 0 /\ closed = "no"
  /\ Append1([run |-> run, kind |-> "end"]) /\ UNCHANGED awake
  /\ run' = 0 /\ counting' = "read" /\ completed' = completed + 1
  /\ UNCHANGED <<runs, errors, closed, readerVars>>

\* A terminal agent_end: _append_event, and later its count.
ReadEnd ==
  /\ counting = "read" /\ run # 0 /\ closed = "no"
  /\ Append1([run |-> run, kind |-> "end"]) /\ WakeAll
  /\ run' = 0 /\ counting' = "count"
  /\ UNCHANGED <<runs, errors, completed, closed, readerVars>>

\* The run fails with an error response for its prompt, which is answered, or
\* with an agent_end that cannot be parsed.
ReadAsyncError ==
  /\ counting = "read" /\ run # 0 /\ closed = "no"
  /\ errors' = errors + 1 /\ WakeAll
  /\ run' = 0 /\ counting' = "count"
  /\ UNCHANGED <<runs, log, items, offset, completed, closed, readerVars>>

\* _mark_agent_run_completed
Count ==
  /\ counting = "count"
  /\ completed' = completed + 1 /\ counting' = "read" /\ WakeAll
  /\ UNCHANGED <<run, runs, log, items, offset, errors, closed, readerVars>>

\* _mark_closed, by the reader, the stderr reader or stop()
Close ==
  /\ closed = "no" /\ counting = "read"
  /\ closed' = "set"
  /\ UNCHANGED <<awake, serverVars, readerVars>>

NotifyClosed ==
  /\ closed = "set"
  /\ closed' = "told" /\ WakeAll
  /\ UNCHANGED <<serverVars, readerVars>>

Next ==
  \/ \E t \in Threads :
       \/ \E o \in Collecting \cup {"prompt"} : Begin(t, o)
       \/ Look(t) \/ Index(t) \/ ErrorIndex(t) \/ Answer(t) \/ RequestFails(t) \/ Mark(t)
       \/ Check(t) \/ WaitTimesOut(t)
  \/ ReadEvent \/ ReadEnd \/ ReadAsyncError \/ Count \/ Close \/ NotifyClosed

Spec == Init /\ [][Next]_vars

-----------------------------------------------------------------------------
\* What prompt_and_wait and collect_events return is all that was received
\* since they began, although the history forgets events, and holds an end.
TurnIsWhole ==
  \A t \in Threads : result[t] = "turn" =>
    /\ HasEnd(returned[t])
    /\ IsPrefix(returned[t], SubSeq(log, start[t] + 1, Len(log)))

\* With no other run around, the end prompt_and_wait returns is of its prompt.
TurnIsOwn ==
  \A t \in Threads :
    result[t] = "turn" /\ op[t] = "prompt_and_wait" /\ alone[t]
      => [run |-> own[t], kind |-> "end"] \in Range(returned[t])

\* wait_for_idle does not say idle while a run goes on whose prompt was
\* counted, unless the counters are apart: a prompt timed out although the
\* server runs it, or a prompt is between its response and its count.
IdleIsTrue ==
  [][\A t \in Threads :
       result'[t] = "idle" /\ at[t] = "look" /\ ~lost /\ (\A s \in Threads : at[s] # "answered")
         => run \notin marked]_vars

MayReturn(t) == closed # "no" \/ HasEnd(Snapshot(t))

\* Whoever may return is awake, or will be with the notify of _mark_closed: no
\* wakeup is lost between the look and the wait of _wait_for_agent_end.
NoLostWakeup ==
  \A t \in Threads : at[t] = "waiting" /\ MayReturn(t) => awake[t] \/ closed = "set"
=============================================================================
