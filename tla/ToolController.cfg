SPECIFICATION Spec
CONSTANTS
  c1 = c1
  c2 = c2
  c3 = c3
  f1 = f1
  f2 = f2
  v0 = v0
  Torn = Torn
  None = None
  Calls = {c1, c2, c3}
  Files = {f1, f2}
  Contents = {v0, Torn}
  Results = {"passed", "failed"}
  MaxTestInvocations = 2
SYMMETRY CallsAndFiles
INVARIANT TypeOK
INVARIANT RequestIntact
INVARIANT QuietUnlessReported
INVARIANT VerdictsAgree
INVARIANT TestsBudget
INVARIANT SnapshotsAreCurrent
