\* Four cases and parent relationships only.
CONSTANTS
  NumCases = 4
  Type = {"Parent"}
  Request = {p1, p2}
  None = None
  MaxRows = 4
SPECIFICATION Spec
INVARIANTS
  NoParentCycle
CHECK_DEADLOCK FALSE
