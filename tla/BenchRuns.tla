------------------------------ MODULE BenchRuns ------------------------------
(***************************************************************************)
(* omp-coding-bench (bench.py): run evaluates models one after the other,  *)
(* each into a run directory of its own, and aggregates those directories  *)
(* into one report; aggregate does the second half for directories that a  *)
(* user names.  The disk survives a call that fails or is killed, so the   *)
(* next call meets what the last one left.  Models are numbered in the     *)
(* order of their names; tasks are the members of a task set.              *)
(***************************************************************************)
EXTENDS Integers, FiniteSets, Sequences
FS == INSTANCE FiniteSetsExt
SE == INSTANCE SequencesExt
Comb == INSTANCE Combinatorics

CONSTANTS
  ModelCount,    \* models of a benchmark
  Alike,         \* models whose names give the same directory name
  Requests,      \* the sets of models that run may be called with
  TaskSets,      \* the sets of tasks that an evaluation may select
  RolloutLimit,  \* bound: rollouts of a task in one evaluation
  CallLimit      \* bound: calls of the program

BenchAssumption ==
  /\ ModelCount \in Nat \ {0} /\ RolloutLimit \in Nat \ {0} /\ CallLimit \in Nat
  /\ Requests \subseteq SUBSET (1..ModelCount) /\ {} \notin Requests
  /\ Alike \subseteq 1..ModelCount /\ IsFiniteSet(UNION TaskSets) /\ {} \notin TaskSets

VARIABLES
  benchStep,   \* where the call is
  settings,    \* the tasks and the rollouts of each that the call evaluates
  queue,       \* models to evaluate
  runDirs,     \* directories this call will aggregate, in order
  dirs,        \* what each run directory holds
  evaluated,   \* what the evaluations of this call produced (history)
  table,       \* the report
  calls,       \* calls so far
  json,        \* the call that wrote bench.json, and
  markdown,    \* bench.md; 0: there is none
  done         \* calls that returned a report

vars == <<benchStep, settings, queue, runDirs, dirs, evaluated, table, calls, json,
          markdown, done>>
files == <<json, markdown>>

Names == 1..ModelCount
Tasks == UNION TaskSets

\* _model_run_dir: characters that are not safe become "_"; 0 is a directory
\* that the user filled with eval.
DirOf(m) == IF m \in Alike THEN FS!Min(Alike) ELSE m
Dirs == 0..ModelCount

\* The rollouts of one task: how many, with the full reward and with a part
\* of it (bound: a part only where there is one rollout).
Counts(n) == {c \in [n : {n}, full : 0..n, part : 0..1] : c.part = 1 => n = 1 /\ c.full = 0}
Zero == [n |-> 0, full |-> 0, part |-> 0]
Plus(a, b) == [n |-> a.n + b.n, full |-> a.full + b.full, part |-> a.part + b.part]

Nothing == [by |-> 0, rolls |-> <<>>]   \* no directory
Broken == [by |-> -1, rolls |-> <<>>]   \* not one readable trace file

NoTable == [same |-> FALSE, rows |-> <<>>, cells |-> <<>>, order |-> <<>>, shown |-> 0]

TypeOK ==
  /\ benchStep \in {"idle", "eval", "aggregate", "json", "markdown"}
  /\ settings \in [tasks : SUBSET Tasks, n : 0..RolloutLimit]
  /\ queue \in Seq(Names) /\ runDirs \in Seq(Dirs)
  /\ DOMAIN dirs = Dirs /\ DOMAIN evaluated = Names
  /\ DOMAIN table = DOMAIN NoTable
  /\ calls \in 0..CallLimit /\ json \in 0..CallLimit /\ markdown \in 0..CallLimit
  /\ done \subseteq 1..CallLimit

Init ==
  /\ benchStep = "idle" /\ settings = [tasks |-> {}, n |-> 0] /\ queue = <<>> /\ runDirs = <<>>
  /\ dirs = [d \in Dirs |-> Nothing] /\ evaluated = [m \in Names |-> Nothing]
  /\ table = NoTable /\ calls = 0 /\ json = 0 /\ markdown = 0 /\ done = {}

\* A call that ends, by a failure or because it is killed, keeps the disk.
Leave(d) ==
  /\ benchStep' = "idle" /\ queue' = <<>> /\ runDirs' = <<>> /\ done' = d
  /\ settings' = [tasks |-> {}, n |-> 0] /\ table' = NoTable
  /\ evaluated' = [m \in Names |-> Nothing] /\ UNCHANGED calls

Results(T, n) == [T -> Counts(n)]
-----------------------------------------------------------------------------
(* The calls.                                                              *)

\* eval run by hand, into a directory that an aggregate call may name
\* (bound: before the first call,
\* by the first model, with one rollout of each task).
HandRun ==
  /\ benchStep = "idle" /\ calls = 0 /\ dirs[0] = Nothing
  /\ \E T \in TaskSets : \E r \in Results(T, 1) :
       dirs' = [dirs EXCEPT ![0] = [by |-> 1, rolls |-> r]]
  /\ UNCHANGED <<benchStep, settings, queue, runDirs, evaluated, table, calls, files, done>>

\* The members of a set of numbers, in order.
InOrder(S) ==
  CHOOSE s \in [1..Cardinality(S) -> S] : \A i, j \in DOMAIN s : i < j => s[i] < s[j]

\* run_models: at least one model, and no model twice (bound: in order).
Run ==
  /\ benchStep = "idle" /\ calls < CallLimit
  /\ \E R \in Requests : queue' = InOrder(R)
  /\ settings' \in [tasks : TaskSets, n : 1..RolloutLimit]
  /\ calls' = calls + 1 /\ benchStep' = "eval" /\ runDirs' = <<>> /\ table' = NoTable
  /\ evaluated' = [m \in Names |-> Nothing]
  /\ UNCHANGED <<dirs, files, done>>

\* aggregate, over directories that the user names once each (bound: in order).
Named ==
  /\ benchStep = "idle" /\ calls < CallLimit
  /\ \E D \in SUBSET Dirs \ {{}} :
       /\ \A d \in D : dirs[d] # Nothing
       /\ runDirs' = InOrder(D)
       /\ evaluated' = [m \in Names |-> Nothing]
  /\ calls' = calls + 1 /\ benchStep' = "aggregate" /\ table' = NoTable
  /\ UNCHANGED <<settings, queue, dirs, files, done>>

\* What eval leaves: all rollouts with status 0, or whatever it got to without.
\* External: an eval into a directory with results replaces or breaks them.
Evaluated(m) == {[by |-> m, rolls |-> r] : r \in Results(settings.tasks, settings.n)}

\* Mutant: the directory of an earlier model is used again.
EvaluateAnyway ==
  /\ benchStep = "eval" /\ queue # <<>>
  /\ LET m == Head(queue) d == DirOf(m) IN
       \E c \in Evaluated(m) :
         /\ dirs' = [dirs EXCEPT ![d] = c] /\ evaluated' = [evaluated EXCEPT ![m] = c]
         /\ queue' = Tail(queue) /\ runDirs' = Append(runDirs, d)
         /\ UNCHANGED <<benchStep, settings, calls, done, table>>
  /\ UNCHANGED files

\* One turn of the loop of run_models.
Evaluate ==
  /\ benchStep = "eval" /\ queue # <<>>
  /\ LET m == Head(queue) d == DirOf(m) IN
       \/ dirs[d] # Nothing /\ Leave(done) /\ UNCHANGED dirs
       \/ /\ dirs[d] = Nothing
          /\ \E c \in Evaluated(m) :
               /\ dirs' = [dirs EXCEPT ![d] = c] /\ evaluated' = [evaluated EXCEPT ![m] = c]
               /\ queue' = Tail(queue) /\ runDirs' = Append(runDirs, d)
               /\ UNCHANGED <<benchStep, settings, calls, done, table>>
       \/ /\ dirs[d] = Nothing
          /\ dirs' \in {dirs, [dirs EXCEPT ![d] = Broken]} /\ Leave(done)
  /\ UNCHANGED files

AllEvaluated ==
  /\ benchStep = "eval" /\ queue = <<>> /\ benchStep' = "aggregate"
  /\ UNCHANGED <<settings, queue, runDirs, dirs, evaluated, table, calls, files, done>>
-----------------------------------------------------------------------------
(* The report.                                                             *)

\* Mutant: a subset of failures as large as k also counts as a sure pass.
PassAtKEager(total, passed, k) ==
  IF total - passed <= k THEN <<1, 1>>
  ELSE <<Comb!choose(total, k) - Comb!choose(total - passed, k), Comb!choose(total, k)>>

\* pass_at_k, as a fraction.
PassAtK(total, passed, k) ==
  IF total - passed < k THEN <<1, 1>>
  ELSE <<Comb!choose(total, k) - Comb!choose(total - passed, k), Comb!choose(total, k)>>

Of(m) == {i \in DOMAIN runDirs : dirs[runDirs[i]].by = m}
TasksOf(I) == UNION {DOMAIN dirs[runDirs[i]].rolls : i \in I}
Sum(I, t) ==
  LET upto[i \in 0..Len(runDirs)] ==
        IF i = 0 THEN Zero
        ELSE IF i \in I /\ t \in TasksOf({i})
             THEN Plus(upto[i - 1], dirs[runDirs[i]].rolls[t]) ELSE upto[i - 1]
  IN upto[Len(runDirs)]

\* Mutant: only the last run of a model is in its row.
RowOfLast(m) ==
  LET I == {FS!Max(Of(m))}
      by == [t \in TasksOf(I) |-> Sum(I, t)]
      k == FS!Min({by[t].n : t \in DOMAIN by})
  IN [by |-> by, k |-> k,
      passAtK |-> IF k > 1 THEN [t \in DOMAIN by |-> PassAtK(by[t].n, by[t].full, k)] ELSE <<>>]

\* _model_metrics over the rollouts of all runs of a model.
Row(m) ==
  LET by == [t \in TasksOf(Of(m)) |-> Sum(Of(m), t)]
      k == FS!Min({by[t].n : t \in DOMAIN by})
  IN [by |-> by, k |-> k,
      passAtK |-> IF k > 1 THEN [t \in DOMAIN by |-> PassAtK(by[t].n, by[t].full, k)] ELSE <<>>]

Present == {dirs[runDirs[i]].by : i \in DOMAIN runDirs}

\* The key of _leaderboard: mean reward, then pass rate, then name.
Total(row) ==
  LET tasks == SE!SetToSeq(DOMAIN row.by)
      upto[k \in 0..Len(tasks)] ==
        IF k = 0 THEN Zero ELSE Plus(upto[k - 1], row.by[tasks[k]])
  IN upto[Len(tasks)]
Gained(c) == 2 * c.full + c.part
Better(a, b, m, k) ==
  \/ Gained(a) * b.n > Gained(b) * a.n
  \/ Gained(a) * b.n = Gained(b) * a.n
       /\ (a.full * b.n > b.full * a.n \/ (a.full * b.n = b.full * a.n /\ m < k))

Ranked(rows) ==
  CHOOSE s \in [1..Cardinality(DOMAIN rows) -> DOMAIN rows] :
    \A i, j \in DOMAIN s : i < j => Better(Total(rows[s[i]]), Total(rows[s[j]]), s[i], s[j])

\* Mutant: a run over some of the tasks of the first counts as the same.
SameTasksWithin == \A i \in DOMAIN runDirs : TasksOf({i}) \subseteq TasksOf({1})

\* benchmark_digest of every run: the set of task identities, whatever the
\* rollouts of each.
SameTasks == \A i, j \in DOMAIN runDirs : TasksOf({i}) = TasksOf({j})

\* _matrix: the mean reward of a task's rollouts by a model, as <<halves, n>>.
Matrix ==
  [t \in TasksOf(DOMAIN runDirs) |->
     [m \in {m \in Present : t \in TasksOf(Of(m))} |->
        <<Gained(Sum(Of(m), t)), Sum(Of(m), t).n>>]]

\* aggregate_runs: a directory without one readable trace file fails it.
Aggregate ==
  /\ benchStep = "aggregate"
  /\ IF \E i \in DOMAIN runDirs : dirs[runDirs[i]] = Broken
     THEN Leave(done)
     ELSE LET rows == [m \in Present |-> Row(m)] IN
          /\ table' = [same |-> SameTasks, rows |-> rows, cells |-> Matrix,
                       order |-> Ranked(rows), shown |-> calls]
          /\ benchStep' = "json"
          /\ UNCHANGED <<settings, queue, runDirs, evaluated, calls, done>>
  /\ UNCHANGED <<dirs, files>>

\* Mutant: bench.md is written first.
WriteMarkdownFirst ==
  /\ benchStep \in {"json", "markdown"}
  /\ IF benchStep = "json"
     THEN /\ markdown' = calls /\ benchStep' = "markdown"
          /\ UNCHANGED <<settings, queue, runDirs, evaluated, table, calls, done, json>>
     ELSE json' = calls /\ Leave(done \cup {calls}) /\ UNCHANGED markdown
  /\ UNCHANGED dirs

\* write_report: each file is replaced as a whole, bench.json first.
WriteReport ==
  /\ benchStep \in {"json", "markdown"}
  /\ IF benchStep = "json"
     THEN /\ json' = calls /\ benchStep' = "markdown"
          /\ UNCHANGED <<settings, queue, runDirs, evaluated, table, calls, done, markdown>>
     ELSE markdown' = calls /\ Leave(done \cup {calls}) /\ UNCHANGED json
  /\ UNCHANGED dirs

\* The program is killed, or a file cannot be written; an eval that runs may
\* leave a directory that holds no complete trace file.
Killed ==
  /\ benchStep # "idle" /\ Leave(done)
  /\ \/ UNCHANGED dirs
     \/ /\ benchStep = "eval" /\ queue # <<>> /\ dirs[DirOf(Head(queue))] = Nothing
        /\ dirs' = [dirs EXCEPT ![DirOf(Head(queue))] = Broken]
  /\ UNCHANGED files

Next ==
  \/ HandRun \/ Run \/ Named \/ Evaluate \/ AllEvaluated \/ Aggregate \/ WriteReport \/ Killed

Spec == Init /\ [][Next]_vars
-----------------------------------------------------------------------------
Reported == benchStep \in {"json", "markdown"}
Fraction(a, b) == a[1] * b[2] = b[1] * a[2]

\* The rows of a run are exactly what its own evaluations produced: no model
\* takes another one's directory and no result of an earlier call is counted
\* (run_models).
RowsAreOwn ==
  Reported /\ settings.n > 0 =>
    /\ DOMAIN table.rows = {m \in Names : evaluated[m] # Nothing}
    /\ \A m \in DOMAIN table.rows : table.rows[m].by = evaluated[m].rolls

\* The rollouts of a task that the runs of a model hold.
Rolled(m, t) ==
  LET upto[i \in 0..Len(runDirs)] ==
        IF i = 0 THEN 0
        ELSE IF dirs[runDirs[i]].by = m /\ t \in DOMAIN dirs[runDirs[i]].rolls
             THEN upto[i - 1] + dirs[runDirs[i]].rolls[t].n ELSE upto[i - 1]
  IN upto[Len(runDirs)]

\* Every rollout of every named directory is in exactly one row, and each
\* pass@k is the share of the k-subsets of a task's rollouts with a full pass
\* (_leaderboard, pass_at_k).
RowsAreWhole ==
  Reported =>
    /\ \A m \in DOMAIN table.rows : \A t \in Tasks :
         Rolled(m, t) > 0 => table.rows[m].by[t].n = Rolled(m, t)
    /\ \A m \in DOMAIN table.rows : \A t \in DOMAIN table.rows[m].passAtK :
         LET c == table.rows[m].by[t]
             draws == FS!kSubset(table.rows[m].k, 1..c.n)
             hits == {s \in draws : \E i \in s : i <= c.full}
         IN Fraction(table.rows[m].passAtK[t], <<Cardinality(hits), Cardinality(draws)>>)

\* Without a warning every model has a cell for every task of the matrix, and
\* no row of the leaderboard is followed by one with a larger mean
\* (aggregate_runs).
ComparedOverSameTasks ==
  Reported =>
    /\ table.same => \A t \in DOMAIN table.cells : DOMAIN table.cells[t] = DOMAIN table.rows
    /\ \A i, j \in DOMAIN table.order :
         LET a == Total(table.rows[table.order[i]]) b == Total(table.rows[table.order[j]])
         IN i < j => Gained(a) * b.n >= Gained(b) * a.n

\* bench.md never tells of a call that bench.json does not tell of or that is
\* newer, and a call that succeeded left both (write_report).
JsonComesFirst == markdown <= json /\ \A c \in done : c <= markdown
=============================================================================
