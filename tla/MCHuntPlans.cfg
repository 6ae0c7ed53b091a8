\* A plan in auto mode and an analyst compete for the one search slot.
CONSTANTS
  Plan = {p1}
  Analyst = {u1}
  MaxHyps = 2
  MaxProposed = 1
  MaxQueries = 2
  MaxIterations = 2
  MaxTokens = 1
  MaxPerHour = 1
  Slot = {0}
  MaxLapses = 1
  MaxDeaths = 1
SPECIFICATION Spec
INVARIANTS
  TypeOK
  SearchesAccounted
  QueriesWithinCeiling
  VerdictsAreBacked
  CompletedLeavesNothing
PROPERTIES
  EveryHuntEnds
CHECK_DEADLOCK FALSE
