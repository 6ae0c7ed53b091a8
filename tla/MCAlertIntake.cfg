\* Two module workers that share two artifacts and a correlation key.
CONSTANTS
  m1 = m1
  m2 = m2
  m3 = m3
  k1 = k1
  k2 = k2
  x = x
  y = y
  Y = Y
  hostBlankDot = hostBlankDot
  hostBlank = hostBlank
  host = host
  Message = {m1, m2, m3}
  Key = {k1, k2}
  KeyOf <- MCKeyOf
  Value = {x, y, Y, host, hostBlank, hostBlankDot}
  Norm <- MCNorm
  ArtifactsOf <- MCArtifactsOf
  Worker = {w1, w2}
  MaxLen = 1
  MaxCases = 3
  Posted = {Y}
SPECIFICATION Spec
INVARIANTS
  TypeOK
  OneCasePerBehaviour
  OneRowPerArtifact
  DeadlockNeedsCrossing
PROPERTIES
  EveryMessageSettles
CHECK_DEADLOCK FALSE
