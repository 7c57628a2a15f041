CONSTANTS
  a = a  b = b  c = c  x = x  k1 = k1  k2 = k2  k3 = k3
  Sessions = {a, b}
  Externals = {}
  Keys = {k1, k2}
  Modes = {"defer"}
  Parent <- NoSubagent
  MaxDepth = 2
  MaxSends = 2
  MaxPending = 2
  MaxContexts = 2
  DeferBatch = 1
  Ttl = 2
  Retention = 1
  RetainedMessages = 1
  RetainedChains = 0
  MaxMessages = 3
  MaxChains = 2
  MaxNow = 4
  MaxRows = 4
SPECIFICATION Spec
SYMMETRY FullSymmetry
INVARIANTS FinalReplies LiveChainsKept
PROPERTIES SettledIsFinal
CHECK_DEADLOCK FALSE
