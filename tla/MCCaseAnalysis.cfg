\* Two workers on the queue of two cases; one of them may die once.
CONSTANTS
  a1 = a1
  a2 = a2
  a3 = a3
  c1 = c1
  c2 = c2
  None = None
  CaseOf <- MCCaseOf
  Alert = {a1, a2, a3}
  Case = {c1, c2}
  MaxJobs = 3
  Worker = {w1, w2}
  Caller = {}
  MaxCrashes = 1
SPECIFICATION Spec
INVARIANTS
  TypeOK
  OnePendingPerCase
  SingleRunner
  NoAlertLeftBehind
PROPERTIES
  FinishedStays
  QueueKeepsPromise
CHECK_DEADLOCK FALSE
