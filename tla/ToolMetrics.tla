----------------------------- MODULE ToolMetrics -----------------------------
(***************************************************************************)
(* The tool behaviour of a model (metrics.py): measure_traces goes through *)
(* the sampled turns of every trace with counters, and divides them into   *)
(* the rates by which checkpoints are compared.  A call is named after its *)
(* signature, the tool and its arguments.                                  *)
(***************************************************************************)
EXTENDS Integers, FiniteSets, Sequences
SE == INSTANCE SequencesExt

CONSTANTS
  TurnLimit,    \* bound: turns of all traces
  TurnCalls     \* bound: calls of a turn

ToolMetricsAssumption == TurnLimit \in Nat /\ TurnCalls \in Nat

VARIABLES
  measuring,    \* "turns", "ended", or "failed"
  said,         \* the turns of the traces so far, trace by trace (history)
  previous,     \* previous_signatures; <<>> for none
  counts        \* the counters

vars == <<measuring, said, previous, counts>>

\* "right" is a valid call, "wrong" one against its schema, "unknown" one of a
\* tool that is not there, "broken" one without a name or an object of arguments.
CallNames == {"right", "wrong", "unknown", "broken"}
\* A turn whose tool_calls is no list is <<"none">>.
TurnsOf == SE!BoundedSeq(CallNames, TurnCalls) \cup {<<"none">>}

TurnTotal == SE!FoldSeq(LAMBDA t, n : n + Len(t), 0, said)

Zeros ==
  [sampled |-> 0, parsedTurns |-> 0, parsed |-> 0, attempts |-> 0, invalid |-> 0,
   unavailable |-> 0, repeated |-> 0]

TypeOK ==
  /\ measuring \in {"turns", "ended", "failed"}
  /\ said \in Seq(Seq(TurnsOf)) /\ previous \in Seq(CallNames \ {"broken"})
  /\ counts \in [DOMAIN Zeros -> Nat]

Init == measuring = "turns" /\ said = <<<<>>>> /\ previous = <<>> /\ counts = Zeros

IsSigned(call) == call \notin {"broken", "none"}
Signatures(turn) ==
  LET parsed[k \in 0..Len(turn)] ==
        IF k = 0 THEN <<>>
        ELSE IF IsSigned(turn[k]) THEN Append(parsed[k - 1], turn[k]) ELSE parsed[k - 1]
  IN parsed[Len(turn)]
Number(turn, names) == Cardinality({k \in DOMAIN turn : turn[k] \in names})

Repeats(s, before) ==
  Cardinality(SE!ToSet(s)) # Len(s) \/ (s # <<>> /\ s = before)

\* Mutant: a turn without a parsed call forgets the calls before it.
RememberedLast(turn) == Signatures(turn)

\* The calls that were parsed are kept until a turn has others.
Remembered(turn) == IF Signatures(turn) = <<>> THEN previous ELSE Signatures(turn)

Counted(turn) ==
  [counts EXCEPT
     !.sampled = @ + 1, !.parsedTurns = IF turn \in {<<>>, <<"none">>} THEN @ ELSE @ + 1,
     !.attempts = @ + Len(turn), !.parsed = @ + Len(Signatures(turn)),
     !.invalid = @ + Number(turn, {"wrong", "unknown", "broken", "none"}),
     !.unavailable = @ + Number(turn, {"unknown"}),
     !.repeated = IF Repeats(Signatures(turn), previous) THEN @ + 1 ELSE @]

Turn ==
  /\ measuring = "turns" /\ TurnTotal < TurnLimit
  /\ \E t \in TurnsOf :
       /\ said' = [said EXCEPT ![Len(said)] = Append(@, t)]
       /\ counts' = Counted(t) /\ previous' = Remembered(t)
  /\ UNCHANGED measuring

\* Mutant: the last calls of a trace count against the next trace.
NextTraceKeeps ==
  /\ measuring = "turns" /\ said[Len(said)] # <<>> /\ TurnTotal < TurnLimit
  /\ said' = Append(said, <<>>) /\ UNCHANGED <<measuring, previous, counts>>

NextTrace ==
  /\ measuring = "turns" /\ said[Len(said)] # <<>> /\ TurnTotal < TurnLimit
  /\ said' = Append(said, <<>>) /\ previous' = <<>> /\ UNCHANGED <<measuring, counts>>

\* The end of the traces, a trace without a valid form, or another comparison
\* digest than the baseline's.
Finish ==
  /\ measuring = "turns" /\ measuring' \in {"ended", "failed"}
  /\ UNCHANGED <<said, previous, counts>>

Next == Turn \/ NextTrace \/ Finish

Spec == Init /\ [][Next]_vars
-----------------------------------------------------------------------------
\* The turns before turn i of a trace that have a parsed call; the last of them
\* is what turn i must not repeat.
Spoke(trace, i) == {j \in 1..(i - 1) : Signatures(trace[j]) # <<>>}
Loops(trace) ==
  {i \in DOMAIN trace :
     \/ \E k, l \in DOMAIN Signatures(trace[i]) :
          k # l /\ Signatures(trace[i])[k] = Signatures(trace[i])[l]
     \/ \E j \in Spoke(trace, i) :
          /\ \A k \in Spoke(trace, i) : k <= j
          /\ Signatures(trace[i]) = Signatures(trace[j])}

AllLoops == UNION {{<<t, i>> : i \in Loops(said[t])} : t \in DOMAIN said}

\* The loop rate counts the turns that say again what the turn before them in
\* their own trace said, whatever silent or malformed turns are in between, and
\* is a share of the turns with calls, as the other rates are shares of the
\* calls that were tried (measure_traces).
RatesAreShares ==
  /\ counts.repeated = Cardinality(AllLoops)
  /\ counts.repeated <= counts.parsedTurns /\ counts.parsedTurns <= counts.sampled
  /\ counts.parsed <= counts.attempts /\ counts.invalid <= counts.attempts
  /\ counts.unavailable <= counts.invalid
  /\ counts.parsed + counts.invalid >= counts.attempts
=============================================================================
