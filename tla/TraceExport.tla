----------------------------- MODULE TraceExport -----------------------------
(***************************************************************************)
(* Which traces become training rows (training.py): export_traces reads    *)
(* the traces of one export one by one and keeps the successful ones, each *)
(* as the one path of messages that ends at its last useful turn;          *)
(* _prepare_training_data then drops the rows that are too long for a      *)
(* model.  How the rows are written is DatasetExport's subject.            *)
(***************************************************************************)
EXTENDS Integers, FiniteSets, Sequences
Sets == INSTANCE FiniteSetsExt

CONSTANTS
  TraceIds,       \* identities of traces
  NodeLimit,      \* bound: nodes of a train trace while none is kept
  LaterNodes,     \* bound: nodes of the other traces
  MinimumTrain, MinimumValid    \* trajectories that a dataset needs

TraceExportAssumption ==
  /\ NodeLimit \in Nat /\ LaterNodes \in Nat
  /\ MinimumTrain \in Nat \ {0} /\ MinimumValid \in Nat \ {0}

VARIABLES
  reading,     \* where the export is
  contract,    \* the tool contract of the dataset; "none" before the first trace
  current,     \* the trace at hand
  rows,        \* what is kept, by split
  kept,        \* the traces that were kept (history)
  prepared     \* the rows that fit the model

vars == <<reading, contract, current, rows, kept, prepared>>

\* A turn is a sampled message of the assistant; "tool" stands for the tools
\* that read, write, edit and execute.  "mixed" calls a tool and the tests
\* in one turn, "unknown" a tool that has no kind, "final" is text only and "blank" has
\* neither.  "failed" is the result of a tool that failed, "broken" a message
\* without a valid form, and "context" everything else.
Turns == {"tool", "mixed", "unknown", "final", "blank"}
NodeTypes == Turns \cup {"failed", "broken", "context"}

\* A trace of n nodes: their types and parents; 0 is no parent.
Graphs(n) == [1..n -> [type : NodeTypes, parent : 0..n]]

\* The kinds that a contract requires: native tools have no test runner and
\* report failures as text.
Required(c) == IF c = "rpc" THEN {"tool", "test", "recovery", "final"} ELSE {"tool", "final"}

NoTrace == [id |-> "none", split |-> "none", nodes |-> <<>>]
Splits == {"train", "validation"}

TypeOK ==
  /\ reading \in {"traces", "convert", "ended", "failed", "ready"}
  /\ contract \in {"none", "rpc", "native"}
  /\ DOMAIN current = DOMAIN NoTrace
  /\ DOMAIN rows = Splits
  /\ \A s \in Splits : \A r \in rows[s] : r.id \in TraceIds /\ r.kinds # {}
  /\ kept \subseteq TraceIds \X Splits
  /\ DOMAIN prepared = Splits /\ \A s \in Splits : prepared[s] \subseteq rows[s]

Init ==
  /\ reading = "traces" /\ contract = "none" /\ current = NoTrace
  /\ rows = [s \in Splits |-> {}] /\ kept = {} /\ prepared = [s \in Splits |-> {}]

Fail == reading' = "failed" /\ current' = NoTrace /\ UNCHANGED <<rows, kept, prepared>>
-----------------------------------------------------------------------------
(* From the nodes of a trace to one row.                                   *)

\* The parents of a node, one after the other; 0 from the root on.
Parents(g, i) ==
  LET up[k \in 0..Len(g)] ==
        IF k = 0 THEN i ELSE IF up[k - 1] = 0 THEN 0 ELSE g[up[k - 1]].parent
  IN up

\* _parent_chain: the ancestors of a node, oldest first; a path that does not
\* end is invalid.
HasRoot(g, i) == Parents(g, i)[Len(g)] = 0
Ancestors(g, i) ==
  LET up == Parents(g, i)
      length == Cardinality({k \in 0..Len(g) : up[k] # 0})
  IN [k \in 1..length |-> up[length - k]]

\* _target_kinds
Kinds(g, path) ==
  LET last == g[path[Len(path)]].type IN
  (CASE last = "tool" -> {"tool"} [] last = "mixed" -> {"tool", "test"}
     [] last = "final" -> {"final"} [] OTHER -> {})
  \cup (IF Len(path) > 1 /\ g[path[Len(path) - 1]].type = "failed" THEN {"recovery"} ELSE {})

Sampled(g) == {i \in DOMAIN g : g[i].type \in Turns}
Targets(g) == {i \in Sampled(g) : Kinds(g, Ancestors(g, i)) # {}}

\* A message without a valid form on the path of a turn, a graph that is not a
\* forest there, or a tool without a kind.
Rejected(g) ==
  \E i \in Sampled(g) :
    \/ ~HasRoot(g, i) \/ g[i].type = "unknown"
    \/ \E k \in DOMAIN Ancestors(g, i) : g[Ancestors(g, i)[k]].type = "broken"

\* Mutant: the last turn is exported, whether or not it is useful.
LastTurn(g) == Sets!Max(Sampled(g))

Last(g) == Sets!Max(Targets(g))

\* Mutant: turns of an abandoned branch are not noticed.
NoBranch(g) == FALSE

Branched(g) == ~(Targets(g) \subseteq {Ancestors(g, Last(g))[k] :
                                         k \in DOMAIN Ancestors(g, Last(g))})

\* _trace_samples
Sample(g) ==
  [path |-> Ancestors(g, Last(g)),
   kinds |-> UNION {Kinds(g, Ancestors(g, i)) : i \in Targets(g)}]
-----------------------------------------------------------------------------
(* One export.                                                             *)

\* The next trace of the inputs.  Traces of the holdout and of another tool
\* contract end the export, also when they were not successful.
Read ==
  /\ reading = "traces"
  /\ \E c \in {"rpc", "native"}, s \in Splits \cup {"holdout"}, good \in BOOLEAN :
       IF s = "holdout" THEN Fail /\ UNCHANGED contract
       ELSE /\ contract' = IF contract = "none" THEN c ELSE contract
            /\ IF contract' # c THEN Fail
               ELSE /\ (IF ~good THEN UNCHANGED <<reading, current>>
                        ELSE /\ reading' = "convert"
                             /\ \E id \in TraceIds,
                                   g \in Graphs(IF kept = {} /\ s = "train" THEN NodeLimit ELSE LaterNodes) :
                                  current' = [id |-> id, split |-> s, nodes |-> g])
                    /\ UNCHANGED <<rows, kept, prepared>>

\* Mutant: a trace is new when its split does not have it.
KeptInSplit(id, s) == \E r \in rows[s] : r.id = id

\* seen_trace_ids
IsKept(id, s) == \E t \in Splits : \E r \in rows[t] : r.id = id

\* A trace that succeeded is converted, and kept unless it is already there.
Convert ==
  /\ reading = "convert"
  /\ LET g == current.nodes id == current.id s == current.split IN
     IF Rejected(g) \/ (Targets(g) # {} /\ Branched(g)) THEN Fail
     ELSE IF IsKept(id, s) THEN reading' = "traces" /\ current' = NoTrace /\ UNCHANGED <<rows, kept>>
     ELSE IF Targets(g) = {} THEN Fail
     ELSE /\ rows' = [rows EXCEPT ![s] = @ \cup {[id |-> id, kinds |-> Sample(g).kinds]}]
          /\ kept' = kept \cup {<<id, s>>}
          /\ reading' = "traces" /\ current' = NoTrace
  /\ UNCHANGED <<contract, prepared>>

KindsOf(set) == UNION {r.kinds : r \in set}

\* Mutant: the kinds are counted over both splits.
EnoughInAll(r, c) ==
  /\ Cardinality(r["train"]) >= MinimumTrain /\ Cardinality(r["validation"]) >= MinimumValid
  /\ Required(c) \subseteq KindsOf(r["train"] \cup r["validation"])

\* The minimums and the kinds that the train rows must have.
Enough(r, c) ==
  /\ Cardinality(r["train"]) >= MinimumTrain /\ Cardinality(r["validation"]) >= MinimumValid
  /\ Required(c) \subseteq KindsOf(r["train"])

EndOfTraces ==
  /\ reading = "traces" /\ UNCHANGED <<contract, rows, kept, prepared, current>>
  /\ reading' = IF contract # "none" /\ Enough(rows, contract) THEN "ended" ELSE "failed"

\* _prepare_training_data: each row fits the model or is dropped.
Prepare ==
  /\ reading = "ended"
  /\ \E t \in SUBSET rows["train"], v \in SUBSET rows["validation"] :
       LET fit == [s \in Splits |-> IF s = "train" THEN t ELSE v] IN
       IF Enough(fit, contract) THEN reading' = "ready" /\ prepared' = fit
       ELSE reading' = "failed" /\ UNCHANGED prepared
  /\ UNCHANGED <<contract, rows, kept, current>>

Next == Read \/ Convert \/ EndOfTraces \/ Prepare

Spec == Init /\ [][Next]_vars
-----------------------------------------------------------------------------
\* The row of a trace is one unbroken path from a root to a useful turn, and
\* every useful turn of the trace is on it, in the order of its nodes' links:
\* what is trained is what the model said after exactly these messages
\* (_trace_samples).
RowIsOnePath ==
  LET g == current.nodes IN
  reading = "convert" /\ ~Rejected(g) /\ Targets(g) # {} /\ ~Branched(g) =>
    LET p == Sample(g).path IN
    /\ p # <<>> /\ g[p[1]].parent = 0 /\ \A k \in 2..Len(p) : g[p[k]].parent = p[k - 1]
    /\ \A i \in DOMAIN g : g[i].type \in {"tool", "mixed", "final"} => \E k \in DOMAIN p : p[k] = i
    /\ g[p[Len(p)]].type \in {"tool", "mixed", "final"}
         \/ (Len(p) > 1 /\ g[p[Len(p) - 1]].type = "failed")

\* A trace is kept once and in one split only, whatever its copies say
\* (export_traces).
SplitsAreApart ==
  /\ \A r \in rows["train"], v \in rows["validation"] : r.id # v.id
  /\ \A k, l \in kept : k[1] = l[1] => k = l

\* What is trained on has every kind of turn that the contract promises and as
\* many trajectories as required, before and after the rows that do not fit are
\* dropped (export_traces, _prepare_training_data).
TrainingIsComplete ==
  /\ reading = "ended" => Required(contract) \subseteq KindsOf(rows["train"])
  /\ reading = "ready" =>
       /\ Required(contract) \subseteq KindsOf(prepared["train"])
       /\ Cardinality({r.id : r \in prepared["train"]}) >= MinimumTrain
       /\ Cardinality({r.id : r \in prepared["validation"]}) >= MinimumValid
=============================================================================
