---------------------------- MODULE GradeOutcome ----------------------------
(***************************************************************************)
(* The reward rule of testcommand.py: what grade_outcome makes of one run  *)
(* of the sealed test command.  The same rule grades rollouts and decides, *)
(* in the gate of the minter, whether a task is one at all.  The text of   *)
(* the output is reduced to what parse_test_output returns for it.         *)
(***************************************************************************)
EXTENDS Integers

\* PATCH_EXIT_CODE and OVERLAY_EXIT_CODE are set aside for the grading script.
ExitCodes == {"zero", "patch", "overlay", "other"}

\* CommandOutcome: recognized says that a runner summary was found, with the
\* TestCounts of that summary; skipped cases count nowhere.
Outcomes ==
  [exit : ExitCodes, timedOut : BOOLEAN, recognized : BOOLEAN,
   passed : Nat, failed : Nat, errors : Nat]

Total(o) == o.passed + o.failed + o.errors
Bad(o) == o.failed + o.errors

\* TestCommandResult; the reward is the fraction num / den.
Grades ==
  [status : {"passed", "failed", "error", "timeout"},
   passed : Nat, total : Nat, num : Nat, den : Nat \ {0}]

Zero(status, passed, total) ==
  [status |-> status, passed |-> passed, total |-> total, num |-> 0, den |-> 1]

\* No summary: the exit code decides, but only where the sealed reference run
\* was graded on it too.
GradeByExitCode(o, expected) ==
  IF expected # 1 THEN Zero("error", 0, expected)
  ELSE IF o.exit = "zero"
  THEN [status |-> "passed", passed |-> 1, total |-> 1, num |-> 1, den |-> 1]
  ELSE Zero("failed", 0, 1)

\* A summary: every expected case must be in it, and an exit code that the
\* counts do not explain makes it worthless.
GradeByCounts(o, expected) ==
  IF Total(o) < expected THEN Zero("error", o.passed, expected)
  ELSE IF Total(o) = 0 THEN Zero("error", 0, expected)
  ELSE IF o.exit # "zero" /\ Bad(o) = 0 THEN Zero("error", o.passed, Total(o))
  ELSE [status |-> IF o.exit = "zero" /\ Bad(o) = 0 THEN "passed" ELSE "failed",
        passed |-> o.passed, total |-> Total(o),
        num |-> o.passed, den |-> Total(o)]

Grade(o, expected) ==
  IF o.timedOut THEN Zero("timeout", 0, expected)
  ELSE IF o.exit \in {"patch", "overlay"} THEN Zero("error", 0, expected)
  ELSE IF ~o.recognized THEN GradeByExitCode(o, expected)
  ELSE GradeByCounts(o, expected)

FullReward(g) == g.num = g.den
=============================================================================
