---------------------------- MODULE SealedCommand ----------------------------
(***************************************************************************)
(* The sealed test command in the grading container: what it may end with, *)
(* how parse_test_output reads it (testcommand.py), and what               *)
(* _finalize_repository pays for it (environment.py).                      *)
(***************************************************************************)
EXTENDS Integers, Sequences, GradeOutcome

SE == INSTANCE SequencesExt

CONSTANTS
  Runners,    \* the runners the sealed command may use
  Expected    \* expected_cases, of the sealed reference run

CommandAssumption == Expected \in Nat \ {0}

VARIABLES
  output,   \* what the command ended with
  paid      \* the reward for it

vars == <<output, paid>>

\* The summaries of one output.
MaxRuns == 2   \* bound
Summaries == [runner : Runners, passed : 0..2, failed : 0..1]

\* chained: the runners are joined by && alone, and a failing case makes its
\* runner fail.  failure: the capture failed, by its limit or a leaked process.
Outputs ==
  [exit : ExitCodes, timedOut : BOOLEAN, failure : BOOLEAN, chained : BOOLEAN,
   text : SE!BoundedSeq(Summaries, MaxRuns)]

(* A summary of each runner that ran, or several.  In a chain one that      *)
(* fails is the last and makes the command fail; is_test_command accepts    *)
(* any other shell text around a runner as well.                            *)
CommandOutputs ==
  {o \in Outputs :
     /\ o.chained =>
          \A i \in DOMAIN o.text : o.text[i].failed > 0 =>
            /\ o.exit # "zero"
            /\ \A j \in i..Len(o.text) : o.text[j].runner = o.text[i].runner
     /\ o.failure => o.text = <<>>}

TypeOK == output \in CommandOutputs /\ paid \in {"none", "zero", "part", "full"}

Init == output \in CommandOutputs /\ paid = "none"
-----------------------------------------------------------------------------
Parsers == <<"pytest", "cargo", "bun", "go">>
Summed == {"cargo", "go"}

\* A count over the summaries of some runners.
SumOf(text, runners, field) ==
  LET sum[k \in 0..Len(text)] ==
        IF k = 0 THEN 0
        ELSE sum[k - 1] + (IF text[k].runner \in runners THEN text[k][field] ELSE 0)
  IN sum[Len(text)]

\* What one parser finds: the sum of its summaries, or the last one; pytest
\* does not count a summary without a case.
CountsOf(runner, text) ==
  LET mine == {i \in DOMAIN text : text[i].runner = runner}
      of(f) == IF runner \in Summed THEN SumOf(text, {runner}, f) ELSE text[SE!Max(mine)][f]
      found == mine # {} /\ ~(runner \in {"pytest", "go"} /\ of("passed") + of("failed") = 0)
  IN [found |-> found, passed |-> IF found THEN of("passed") ELSE 0,
      failed |-> IF found THEN of("failed") ELSE 0]

\* parse_test_output: the first parser that finds something.
Parsed(text) ==
  LET finders == {i \in DOMAIN Parsers : CountsOf(Parsers[i], text).found}
  IN IF finders = {} THEN [found |-> FALSE, passed |-> 0, failed |-> 0]
     ELSE CountsOf(Parsers[CHOOSE i \in finders : \A j \in finders : i <= j], text)

\* Mutant: the exit code is not looked at beside a summary.
GradeOfSummary(o) ==
  LET n == Parsed(o.text)
  IN Grade([exit |-> "zero", timedOut |-> o.timedOut, recognized |-> n.found,
            passed |-> n.passed, failed |-> n.failed, errors |-> 0], Expected)

\* _command_outcome and grade_outcome.
GradeOf(o) ==
  LET n == Parsed(o.text)
  IN Grade([exit |-> o.exit, timedOut |-> o.timedOut, recognized |-> n.found,
            passed |-> n.passed, failed |-> n.failed, errors |-> 0], Expected)

RewardOf(o) ==
  IF o.failure THEN "zero"
  ELSE LET g == GradeOf(o) IN IF g.num = 0 THEN "zero" ELSE IF FullReward(g) THEN "full" ELSE "part"

\* _finalize_repository
Pay ==
  /\ paid = "none"
  /\ paid' = RewardOf(output)
  /\ UNCHANGED output

Next == Pay

Spec == Init /\ [][Next]_vars
-----------------------------------------------------------------------------
\* A full reward is a run that ended by itself with exit code zero, in which no
\* counted case failed and no case of the reference run is missing, although only
\* the summaries of one runner are counted; and no runner at all had a failure
\* when they were chained (parse_test_output, grade_outcome).
FullRewardIsFullRun ==
  paid = "full" =>
    /\ output.exit = "zero" /\ ~output.timedOut
    /\ Parsed(output.text).failed = 0
    /\ output.chained => \A i \in DOMAIN output.text : output.text[i].failed = 0
    /\ Expected = 1 \/ SumOf(output.text, Runners, "passed") >= Expected
=============================================================================
