CONSTANTS
  x = x  y = y  z = z  k1 = k1  k2 = k2  k3 = k3  l1 = l1  l2 = l2
  MaxTasks = 2
  MaxBatch = 2
  Names = {x, y, z}
  Children = {k1, k2, k3}
  NoChild = NoChild  NoName = NoName
  Calls = {l1, l2}
  Limit = 2
  MaxPlans = 2
  MaxDirect = 1
SPECIFICATION Spec
INVARIANTS PlanGoesOn OwnChild OnlyDirectExceeds
SYMMETRY Alike
CHECK_DEADLOCK FALSE
