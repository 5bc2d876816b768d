SPECIFICATION FairSpec
CONSTANTS
  Env = {e1, e2, e3}
  NoEnv = NoEnv
  MaxLevels = 3
  LevelCounts = {2, 3}
  Methods = {"RR", "MLFQ"}
INVARIANTS
  StatusSaysWhere
  TrapAssertionHolds
  StoppedMeansIdle
PROPERTIES
  LifeInOrder
  DemotedByOneLevel
  RoundRobinRunsAll
