SPECIFICATION FairSpec
CONSTANTS
  c1 = c1
  c2 = c2
  f1 = f1
  v0 = v0
  Torn = Torn
  None = None
  Calls = {c1, c2}
  Files = {f1}
  Contents = {v0, Torn}
  Results = {"passed", "failed"}
  MaxTestInvocations = 1
PROPERTY EveryCallEnds
