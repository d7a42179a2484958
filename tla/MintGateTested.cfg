SPECIFICATION Spec
CONSTANTS
  MaxCases = 3
  MaxExpected = 2
  MaxEdits = 1
INVARIANT StartStateWasTested
