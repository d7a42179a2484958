SPECIFICATION FairSpec
CONSTANTS
  NumCases = 4
  TimeLimit = 2
  Horizon = 4
INVARIANT TypeOK
INVARIANT EveryCaseAccounted
INVARIANT CasesAreIsolated
INVARIANT ScoringLimitComesFirst
PROPERTY EveryVerificationEnds
