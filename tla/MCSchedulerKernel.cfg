SPECIFICATION Spec
CONSTANTS
  MaxTasks = 4
  MainPriority = 5
  MusicPriority = 3
  UserPriority = 2
  Sleepers <- NoSleepers
  SleepTicks <- NoSleepTicks
PROPERTY
  EveryReadyTaskRuns
