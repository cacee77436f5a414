CONSTANTS
  CIDs = {k1, k2, k3}
  Clients = {x1}
  NoClient = NoClient
  DrainTimes = {1, 2}
  MaxTime = 4
CHECK_DEADLOCK FALSE
SPECIFICATION Spec
INVARIANT OneConnPerClient
