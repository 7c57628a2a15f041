CONSTANTS
  MaxLog = 3
  MaxDrops = 2
  MaxFails = 1
SPECIFICATION FairFollowSpec
INVARIANTS LogFollowsHost RunningIsShown
PROPERTY CatchesUp
CHECK_DEADLOCK FALSE
