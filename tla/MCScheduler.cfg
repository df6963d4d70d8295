SPECIFICATION Spec
CONSTANTS
  MaxTasks = 4
  MainPriority = 5
  MusicPriority = 3
  UserPriority = 2
  Sleepers <- MCSleepers
  SleepTicks <- MCSleepTicks
INVARIANTS
  TypeOK
  RunsOnlyBuiltTasks
  SleepsLastUnlessCut
PROPERTIES
  MainAlwaysReturns
  SleepEnds
