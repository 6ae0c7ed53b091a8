\* A host that comes back after the window its cluster was made in.
CONSTANTS
  h1 = h1
  h2 = h2
  ip = ip
  Entity = {h1, h2, ip}
  Weight <- MCWeight
  Tactics <- MCTactics
  MaxCases = 4
  MaxClusters = 3
  MaxTime = 2
  MaxEntities = 4
  Window = 1
  Threshold = 500
  MinShared = 1
  Limit = 4
SPECIFICATION Spec
INVARIANTS
  PassesComplete
SYMMETRY Hosts
CHECK_DEADLOCK FALSE
