CONSTANTS
  q = q  s = s  d = d
  Messages = {q, s, d}
  Mode <- QueueSteerDefer
  MaxCrashes = 1
  MaxAborts = 1
  MaxInputs = 1
  MaxEvents = 2
  MaxSent = 2
SPECIFICATION FairSpec
INVARIANTS AddedOnce ConsumedIsDurable RecalledNeverEnters
PROPERTIES KeepsPromise Arrives
CHECK_DEADLOCK FALSE
