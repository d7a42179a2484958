SPECIFICATION FairSpec
CONSTANTS
  Calls = {c1, c2}
  ToolCalls = {h1, h2}
  Commands = {prompt, state}
  Threads = {t1, t2}
  HistoryLimit = 2
  MaxRuns = 2
  MaxEvents = 1
  Ids = {i1, i2}
  MaxCount = 3
  MaxPayload = 2
  Lengths = {3, 4}
  Native = FALSE
INVARIANTS
  TypeOK
  RightAnswer
  ReaderIsSound
  TurnIsRight
  NoLostWakeup
  AnsweredOnce
  StopsUnlessDisturbed
PROPERTIES
  IdleIsTrue
  EveryWaitEnds
CHECK_DEADLOCK FALSE
