CONSTANTS
  u1 = u1  u2 = u2  u3 = u3
  Updaters = {u1}
  Versions = {1, 2}
  Nothing = Nothing
SPECIFICATION Spec
INVARIANT RefusalChangesNothing
CHECK_DEADLOCK FALSE
