CONSTANTS
  app = app  other = other  data = data  data2 = data2  v1 = v1  v2 = v2  p1 = p1  p2 = p2  p3 = p3
  Roots = {app, other}
  Brewed = {other}
  Homes = {data, data2}
  Versions = {v1, v2}
  Launchers = {p1, p2}
  Absent = Absent
SPECIFICATION Spec
INVARIANTS NeverSwappedUnderRun OnePackagePerHome Restores NothingLost
SYMMETRY Alike
CHECK_DEADLOCK FALSE
