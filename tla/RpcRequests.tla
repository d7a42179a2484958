----------------------------- MODULE RpcRequests -----------------------------
(***************************************************************************)
(* The requests of RpcClient (_vendor/omp_rpc/client.py).  Threads enter   *)
(* requests into a table and wait, each for its own queue of one place;    *)
(* the reader thread hands out the responses; the reader, at the end of    *)
(* the stream, and stop() fail what is in the table.  The server answers   *)
(* a request once or never, in any order, an error also without its id.    *)
(***************************************************************************)
EXTENDS FiniteSets, Naturals

CONSTANTS
  Calls,      \* the calls of _request; a call stands for its request id
  Commands    \* what they may ask for; "parse" is the server's own word

RequestsAssumption == IsFiniteSet(Calls) /\ "parse" \notin Commands

VARIABLES
  stage,      \* where each call is
  command,    \* what each call asks for
  pending,    \* the table _pending
  queue,      \* the response_queue of each call, Nothing if empty
  unanswered, \* requests the server may still answer
  process,    \* "alive", "dead", or "none" after stop()
  stdin,      \* may the client write
  full,       \* is a write stuck, as its pipe is full and nobody reads it
  reader,     \* the reader thread: what it puts where, or Reading
  closedError,
  closer,     \* where _mark_closed is, of the reader and of stop()
  batch       \* the calls each of the two takes from the table

vars == <<stage, command, pending, queue, unanswered, process, stdin, full, reader,
          closedError, closer, batch>>
callVars == <<stage, command, unanswered>>
processVars == <<process, stdin, full>>
closeVars == <<closedError, closer, batch>>

Closers == {"reader", "stop"}
Nothing == [kind |-> "nothing", of |-> "none"]
Reading == [target |-> "none", item |-> Nothing]
Items == [kind : {"ok", "error", "parse", "closed"}, of : Calls \cup {"none"}]
Ended == {"ok", "error", "closed", "timeout", "rejected"}
CloserStages == {"idle", "check", "set", "fail", "put", "done"}

TypeOK ==
  /\ stage \in [Calls -> {"idle", "enter", "write", "writing", "drop", "wait", "expired"}
                      \cup Ended]
  /\ command \in [Calls -> Commands]
  /\ pending \subseteq Calls /\ unanswered \subseteq Calls
  /\ queue \in [Calls -> Items \cup {Nothing}]
  /\ process \in {"alive", "dead", "none"} /\ stdin \in BOOLEAN /\ full \in BOOLEAN
  /\ reader \in [target : Calls \cup {"none"}, item : Items \cup {Nothing}]
  /\ closedError \in BOOLEAN
  /\ closer \in [Closers -> CloserStages]
  /\ batch \in [Closers -> SUBSET Calls]

Init ==
  /\ stage = [c \in Calls |-> "idle"] /\ command \in [Calls -> Commands]
  /\ pending = {} /\ queue = [c \in Calls |-> Nothing]
  /\ unanswered = {}
  /\ process = "alive" /\ stdin = TRUE /\ full = FALSE /\ reader = Reading
  /\ closedError = FALSE /\ closer = [k \in Closers |-> "idle"] /\ batch = [k \in Closers |-> {}]

Goto(c, s) == stage' = [stage EXCEPT ![c] = s]
-----------------------------------------------------------------------------
(* One call of _request.                                                   *)

Request(c) ==
  /\ stage[c] = "idle"
  /\ Goto(c, IF process = "none" THEN "rejected" ELSE "enter")
  /\ UNCHANGED <<command, pending, queue, unanswered, processVars, reader, closeVars>>

Enter(c) ==
  /\ stage[c] = "enter"
  /\ pending' = pending \cup {c}
  /\ Goto(c, "write")
  /\ UNCHANGED <<command, queue, unanswered, processVars, reader, closeVars>>

\* _write_json holds _write_lock while it writes, without a time limit.
Write(c) ==
  /\ stage[c] = "write" /\ \A d \in Calls : stage[d] # "writing"
  /\ Goto(c, "writing")
  /\ UNCHANGED <<command, pending, queue, unanswered, processVars, reader, closeVars>>

\* A closed stdin and a dead process make it raise, maybe when the request is
\* out already.
Written(c) ==
  /\ stage[c] = "writing" /\ ~full
  /\ IF process = "alive" /\ stdin
     THEN Goto(c, "wait") /\ unanswered' = unanswered \cup {c}
     ELSE Goto(c, "drop") /\ unanswered' \in {unanswered, unanswered \cup {c}}
  /\ UNCHANGED <<command, pending, queue, processVars, reader, closeVars>>

Get(c) ==
  /\ stage[c] = "wait" /\ queue[c] # Nothing
  /\ Goto(c, IF queue[c].kind = "parse" THEN "error" ELSE queue[c].kind)
  /\ UNCHANGED <<command, pending, queue, unanswered, processVars, reader, closeVars>>

\* Mutant: no time limit once the client is closed.
TimeoutWhileOpen(c) ==
  /\ stage[c] = "wait" /\ queue[c] = Nothing /\ ~closedError
  /\ Goto(c, "expired")
  /\ UNCHANGED <<command, pending, queue, unanswered, processVars, reader, closeVars>>

\* queue.Empty; the entry is dropped later, under the lock.
Timeout(c) ==
  /\ stage[c] = "wait" /\ queue[c] = Nothing
  /\ Goto(c, "expired")
  /\ UNCHANGED <<command, pending, queue, unanswered, processVars, reader, closeVars>>

\* Mutant: a request that timed out stays in the table.
DropRejected(c) ==
  /\ stage[c] \in {"expired", "drop"}
  /\ pending' = IF stage[c] = "drop" THEN pending \ {c} ELSE pending
  /\ Goto(c, IF stage[c] = "drop" THEN "rejected" ELSE "timeout")
  /\ UNCHANGED <<command, queue, unanswered, processVars, reader, closeVars>>

Drop(c) ==
  /\ stage[c] \in {"expired", "drop"}
  /\ pending' = pending \ {c}
  /\ Goto(c, IF stage[c] = "drop" THEN "rejected" ELSE "timeout")
  /\ UNCHANGED <<command, queue, unanswered, processVars, reader, closeVars>>
-----------------------------------------------------------------------------
(* The reader thread.                                                      *)

\* Mutant: the one request of the table is meant.
TargetOfSingle(c, kind, named) ==
  IF named /\ c \in pending THEN {c}
  ELSE IF kind # "ok" /\ Cardinality(pending) = 1 THEN pending
  ELSE {}

\* The request a response goes to: by its id; an error else by its command,
\* when one request of that command is pending, or, when the server could not
\* parse it, when one request is.
Target(c, kind, named) ==
  IF named /\ c \in pending THEN {c}
  ELSE LET same == {d \in pending : kind = "error" /\ command[d] = command[c]} IN
       IF Cardinality(same) = 1 THEN same
       ELSE IF kind = "parse" /\ Cardinality(pending) = 1 THEN pending
       ELSE {}

\* Mutant: the request stays in the table until the waiter drops it.
RespondKeeping(c, kind, named) ==
  /\ reader = Reading /\ closer["reader"] = "idle" /\ process = "alive"
  /\ c \in unanswered
  /\ kind = "ok" => named
  /\ unanswered' = unanswered \ {c}
  /\ LET target == Target(c, kind, named) IN
     /\ reader' = IF target = {} THEN Reading
                  ELSE [target |-> CHOOSE d \in target : TRUE,
                        item |-> [kind |-> kind, of |-> c]]
     /\ pending' = pending
  /\ UNCHANGED <<stage, command, queue, processVars, closeVars>>

\* _handle_response and _deliver_correlated_error_response up to the put.
Respond(c, kind, named) ==
  /\ reader = Reading /\ closer["reader"] = "idle" /\ process = "alive"
  /\ c \in unanswered
  /\ kind = "ok" => named
  /\ unanswered' = unanswered \ {c}
  /\ LET target == Target(c, kind, named) IN
     /\ reader' = IF target = {} THEN Reading
                  ELSE [target |-> CHOOSE d \in target : TRUE,
                        item |-> [kind |-> kind, of |-> c]]
     /\ pending' = pending \ target
  /\ UNCHANGED <<stage, command, queue, processVars, closeVars>>

\* A queue of one place blocks the reader while it is full.
Put ==
  /\ reader # Reading /\ queue[reader.target] = Nothing
  /\ queue' = [queue EXCEPT ![reader.target] = reader.item]
  /\ reader' = Reading
  /\ UNCHANGED <<callVars, pending, processVars, closeVars>>

\* The process exits, closes its output or sends what the client cannot read.
StreamEnds ==
  /\ reader = Reading /\ closer["reader"] = "idle"
  /\ process' \in IF process = "alive" THEN {"alive", "dead"} ELSE {process}
  /\ closer' = [closer EXCEPT !["reader"] = "check"]
  /\ UNCHANGED <<callVars, pending, queue, stdin, full, reader, closedError, batch>>

\* Whoever has the other end of stdin, the server or a process it left behind,
\* does not read what is written, reads on, or is gone.
Fill ==
  /\ \E c \in Calls : stage[c] = "writing"
  /\ full' = ~full
  /\ UNCHANGED <<callVars, pending, queue, process, stdin, reader, closeVars>>
-----------------------------------------------------------------------------
(* stop() and _mark_closed, which looks at _closed_error without a lock.   *)

\* Closing the stream waits for a write that is stuck in it.
CloseStdin ==
  /\ closer["stop"] = "idle" /\ stdin /\ ~full
  /\ stdin' = FALSE
  /\ UNCHANGED <<callVars, pending, queue, process, full, reader, closeVars>>

Terminate ==
  /\ closer["stop"] = "idle" /\ ~stdin
  /\ process' = "dead" /\ closer' = [closer EXCEPT !["stop"] = "check"]
  /\ UNCHANGED <<callVars, pending, queue, stdin, full, reader, closedError, batch>>

After(k) == closer' = [closer EXCEPT ![k] = "done"]
            /\ process' = IF k = "stop" THEN "none" ELSE process

CheckClosed(k) ==
  /\ closer[k] = "check"
  /\ IF closedError THEN After(k)
     ELSE closer' = [closer EXCEPT ![k] = "set"] /\ UNCHANGED process
  /\ UNCHANGED <<callVars, pending, queue, stdin, full, reader, closedError, batch>>

SetClosed(k) ==
  /\ closer[k] = "set"
  /\ closedError' = TRUE /\ closer' = [closer EXCEPT ![k] = "fail"]
  /\ UNCHANGED <<callVars, pending, queue, processVars, reader, batch>>

\* Mutant: the table is not cleared.
TakeAllKeeping(k) ==
  /\ closer[k] = "fail"
  /\ batch' = [batch EXCEPT ![k] = pending] /\ pending' = pending
  /\ closer' = [closer EXCEPT ![k] = "put"]
  /\ UNCHANGED <<callVars, queue, processVars, reader, closedError>>

TakeAll(k) ==
  /\ closer[k] = "fail"
  /\ batch' = [batch EXCEPT ![k] = pending] /\ pending' = {}
  /\ closer' = [closer EXCEPT ![k] = "put"]
  /\ UNCHANGED <<callVars, queue, processVars, reader, closedError>>

FailOne(k) ==
  /\ closer[k] = "put"
  /\ IF batch[k] = {} THEN After(k) /\ UNCHANGED <<queue, batch>>
     ELSE \E c \in batch[k] :
            /\ queue[c] = Nothing
            /\ queue' = [queue EXCEPT ![c] = [kind |-> "closed", of |-> "none"]]
            /\ batch' = [batch EXCEPT ![k] = @ \ {c}]
            /\ UNCHANGED <<closer, process>>
  /\ UNCHANGED <<callVars, pending, stdin, full, reader, closedError>>

CallStep(c) ==
  Request(c) \/ Enter(c) \/ Write(c) \/ Written(c) \/ Get(c) \/ Timeout(c) \/ Drop(c)
CloserStep(k) == CheckClosed(k) \/ SetClosed(k) \/ TakeAll(k) \/ FailOne(k)

Next ==
  \/ \E c \in Calls :
       \/ CallStep(c)
       \/ \E kind \in {"ok", "error", "parse"}, named \in BOOLEAN : Respond(c, kind, named)
  \/ Put \/ StreamEnds \/ Fill \/ CloseStdin \/ Terminate
  \/ \E k \in Closers : CloserStep(k)

Spec == Init /\ [][Next]_vars

\* The threads of the callers run and the time limit of a queue passes; a write
\* has no limit and no fairness while its pipe is full.  The server, the reader
\* and whoever calls stop() owe nothing.
FairSpec == Spec /\ \A c \in Calls : WF_vars(CallStep(c))
-----------------------------------------------------------------------------
\* A call returns the answer to its own request.  Another error reaches it
\* only when the request it is about has left the table, and only for the same
\* command or an unparsable request (_deliver_correlated_error_response).
RightAnswer ==
  \A c \in Calls : queue[c].of \notin {c, "none"} =>
    /\ queue[c].kind \in {"error", "parse"}
    /\ queue[c].of \notin pending
    /\ queue[c].kind = "error" => command[queue[c].of] = command[c]

\* Neither the reader nor whoever closes the client ever blocks on a queue:
\* an entry leaves the table with the one who will answer it.
NobodyBlocks ==
  /\ reader # Reading => queue[reader.target] = Nothing
  /\ \A k \in Closers : \A c \in batch[k] : queue[c] = Nothing

\* A request that gave up is not in the table, where it would make the error
\* of a later request of its command ambiguous or take it.
TableIsWaiting ==
  \A c \in pending : stage[c] \in {"write", "writing", "drop", "wait", "expired"}

\* Each call of _request comes back, also when it was entered after the table
\* had been failed and nobody is left to answer it, provided that no write stays
\* stuck: a call runs once, so in the end, and in between again and again, none
\* is under way.
NobodyWaits == \A c \in Calls : stage[c] \in {"idle"} \cup Ended
EveryRequestEnds == <>[]~full => []<>NobodyWaits
=============================================================================
