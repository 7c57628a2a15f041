CONSTANTS
  shell = shell  desk = desk  old = old  new = new  talk = talk
  Processes = {shell, desk}
  Sessions = {old}
  Nobody = Nobody  Gone = Gone  None = None
  MaxChanges = 2
  MaxFaults = 1
  Carded = {old, talk}
  MinMessages = 2
  MaxRequests = 3
  MaxBorn = 2
  Null = Null
SPECIFICATION BothSpec
INVARIANTS ForgottenStaysForgotten SomeonePumps
PROPERTIES LastRevisionLearned FilesRepaired
CHECK_DEADLOCK FALSE
