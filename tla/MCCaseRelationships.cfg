\* Two requests and deletions among three cases.
CONSTANTS
  NumCases = 3
  Type = {"Parent", "Duplicate", "Related"}
  Request = {p1, p2}
  None = None
  MaxRows = 3
SPECIFICATION Spec
INVARIANTS
  TypeOK
  DuplicatesFormStars
  NoShortCycle
PROPERTIES
  WritesAreAtomic
SYMMETRY Symmetry
CHECK_DEADLOCK FALSE
