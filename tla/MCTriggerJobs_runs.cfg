CONSTANTS
  a = a  b = b  c = c  nightly = nightly  poll = poll  cron = cron
  here = here  there = there
  w1 = w1  w2 = w2
  Jobs = {a, b}
  Trigger <- OneTrigger
  Polls = {nightly}
  Events = {a}
  Fired = {a}
  Workers = {w1, w2}
  NoJob = NoJob
  MaxActive = 1
  MaxQueued = 1
  MaxRunsPerDay = 1
  MinInterval = 1
  Day = 2
  Retry = 1
  LockTimeout = 0
  MaxNow = 1
  MaxStarts = 2
  MaxCrashes = 1
  Sources = {poll, cron}
  Workspaces = {here, there}
  Calendars = {cron}
  Period <- Periods
  Occurs <- Instants
  Skips = {cron}
  Grace = 1
  None = None
  MaxTime = 4
SPECIFICATION BothSpec
INVARIANTS SingleFlight RunOnce LogAndTableAgree RecordedLimitsHeld NeverSwallowed
PROPERTIES RunningSettles
CHECK_DEADLOCK FALSE
