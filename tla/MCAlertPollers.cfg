\* Three entries, batches of two, a span of one tick, and one fault.
CONSTANTS
  Event = {e1, e2, e3}
  Undated = {e3}
  MaxTime = 3
  Limit = 2
  Span = 1
  MaxFaults = 1
SPECIFICATION Spec
INVARIANTS
  TypeOK
  MissedIsExplained
  NoRepeats
PROPERTIES
  EveryEntryIsSent
CHECK_DEADLOCK FALSE
