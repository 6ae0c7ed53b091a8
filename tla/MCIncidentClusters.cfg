\* Four cases of two hosts and one address, over a window of one tick.
CONSTANTS
  h1 = h1
  h2 = h2
  ip = ip
  Entity = {h1, h2, ip}
  Weight <- MCWeight
  Tactics <- MCTactics
  MaxCases = 4
  MaxClusters = 3
  MaxTime = 2
  MaxEntities = 5
  Window = 1
  Threshold = 500
  MinShared = 1
  Limit = 4
SPECIFICATION Spec
INVARIANTS
  TypeOK
  MergedIntoOlder
  GroupsTogether
PROPERTIES
  NeverSplit
SYMMETRY Hosts
CHECK_DEADLOCK FALSE
