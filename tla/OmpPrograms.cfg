SPECIFICATION FairSpec
CONSTANTS
  Rollouts = {r1, r2, r3}
  Arches = {x64, arm64}
  Runners = {"cargo", "pytest"}
  Expected = 2
  MaxOdd = 1
  Emptied = {"key"}
  Contents = {a, b}
  MaxItems = 6
  Owners = {account, team}
  Builds = 3
  Exports = {e1, e2, e3}
  Runs = {run1}
  Separators = {e3}
  TraceIds = {i1, i2}
  NodeLimit = 3
  LaterNodes = 1
  MinimumTrain = 1
  MinimumValid = 1
  TurnLimit = 3
  TurnCalls = 2
  Count = 3
  Probes = 2
  ModelCount = 2
  Alike = {1, 2}
  Requests = {{1, 2}, {2}}
  TaskSets = {{"t1"}, {"t1", "t2"}}
  RolloutLimit = 2
  CallLimit = 2
INVARIANTS
  TypeOK
  LaunchIsSound
  PublicationIsSound
  DatasetIsSound
  RolloutIsSound
  MiningIsSound
  ModelsAreSound
PROPERTY EveryPublicationEnds
CHECK_DEADLOCK FALSE
