CONSTANTS
  a = a  b = b  c = c  x = x  k1 = k1  k2 = k2  k3 = k3
  Sessions = {a, b, c}
  Externals = {x}
  Keys = {k1, k2}
  Modes = {"defer"}
  Parent <- SubagentOfA
  MaxDepth = 2
  MaxSends = 2
  MaxPending = 2
  MaxContexts = 2
  DeferBatch = 1
  Ttl = 1
  Retention = 1
  RetainedMessages = 1
  RetainedChains = 0
  MaxMessages = 2
  MaxChains = 2
  MaxNow = 0
  MaxRows = 4
SPECIFICATION Spec
SYMMETRY KeySymmetry
INVARIANTS PathsSound BudgetAccounts
CHECK_DEADLOCK FALSE
