SPECIFICATION Spec
CONSTANTS
  MaxCases = 3
  MaxExpected = 2
  MaxEdits = 1
INVARIANT TypeOK
INVARIANT RecordedFlips
INVARIANT MintedIsProven
INVARIANT ProvenanceComesLast
