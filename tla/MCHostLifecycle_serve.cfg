CONSTANTS
  first = first  second = second
  Terminals = {first, second}
  MaxLaunches = 3
  MaxDeaths = 1
  Nobody = Nobody
  near = near  far = far  one = one
  plain = plain  quoting = quoting
  Requests = {one}
  Bodies = {plain, quoting}
  Referring = {quoting}
  Steering = {plain}
  Calls = {near, far}
  MaxIds = 3
  None = None
SPECIFICATION BothSpec
INVARIANTS SocketIsHolders AdmittedOnce
PROPERTIES AttachedIsServed StaleLaunchesEnd
CHECK_DEADLOCK FALSE
