-------------------------- MODULE CandidateProcess --------------------------
(***************************************************************************)
(* The command that a rollout or a grader runs inside a container, as      *)
(* _capture_process (environment.py) sees it through runtime.open_process: *)
(* a child process with two output pipes, whose write ends a descendant    *)
(* may inherit and keep open after the child has exited.  Output is        *)
(* counted in units; what the bytes say does not matter here.              *)
(***************************************************************************)
EXTENDS Integers

CONSTANT MaxWritten   \* bound: no write is begun on a stream that carried this much

ASSUME MaxWrittenAssumption == MaxWritten \in Nat

VARIABLES
  child,      \* the process that process.wait() reports on; the value of a
              \* stream says that it is inside a write to that stream
  holders,    \* holders[s]: who still holds the write end of stream s
  written,    \* written[s]: units written to stream s so far
  killed      \* process.kill() has been delivered

procVars == <<child, holders, written, killed>>

Streams == {"stdout", "stderr"}
Writers == {"child", "descendant"}

ProcTypeOK ==
  /\ child \in {"unborn", "running", "exited"} \cup Streams
  /\ holders \in [Streams -> SUBSET Writers]
  /\ written \in [Streams -> Nat]
  /\ killed \in BOOLEAN

ProcInit ==
  /\ child = "unborn"
  /\ holders = [s \in Streams |-> {}]
  /\ written = [s \in Streams |-> 0]
  /\ killed = FALSE

Spawn ==
  /\ child = "unborn"
  /\ child' = "running"
  /\ holders' = [s \in Streams |-> {"child"}]
  /\ UNCHANGED <<written, killed>>

\* The child enters a write: until it completes the child does nothing else.
BeginWrite(s) ==
  /\ child = "running"
  /\ "child" \in holders[s]
  /\ written[s] < MaxWritten
  /\ child' = s
  /\ UNCHANGED <<holders, written, killed>>

\* One more unit reaches stream s, from the child or from its descendant.
Write(p, s) ==
  /\ p \in holders[s]
  /\ \/ p = "child" /\ child = s /\ child' = "running"
     \/ p = "descendant" /\ written[s] < MaxWritten /\ UNCHANGED child
  /\ written' = [written EXCEPT ![s] = @ + 1]
  /\ UNCHANGED <<holders, killed>>

\* The child forks a descendant that inherits the streams it still holds.
Fork ==
  /\ child = "running"
  /\ \E s \in Streams : "child" \in holders[s] /\ "descendant" \notin holders[s]
  /\ holders' = [s \in Streams |->
                   IF "child" \in holders[s] THEN Writers ELSE holders[s]]
  /\ UNCHANGED <<child, written, killed>>

\* A process closes one of its streams (a daemonising descendant does).
Close(p, s) ==
  /\ p \in holders[s]
  /\ p = "child" => child = "running"
  /\ holders' = [holders EXCEPT ![s] = @ \ {p}]
  /\ UNCHANGED <<child, written, killed>>

\* The child is gone; a descendant is another process and keeps the write
\* ends it inherited.
Vanish ==
  /\ child' = "exited"
  /\ holders' = [s \in Streams |-> holders[s] \ {"child"}]
  /\ UNCHANGED <<written, killed>>

Exit == child = "running" /\ Vanish

Die == killed /\ child \in Streams \cup {"running"} /\ Vanish

Kill ==
  /\ killed' = TRUE
  /\ UNCHANGED <<child, holders, written>>
=============================================================================
