CONSTANTS
  u1 = u1  u2 = u2  u3 = u3
  Updaters = {u1, u2, u3}
  Versions = {1, 2, 3}
  Nothing = Nothing
SPECIFICATION Spec
INVARIANTS PathServed DependenciesMatch HomeOutlivesUpdates
SYMMETRY Alike
CHECK_DEADLOCK FALSE
