\* The supported deployment, one worker, which dies once.
CONSTANTS
  a1 = a1
  a2 = a2
  a3 = a3
  c1 = c1
  c2 = c2
  None = None
  CaseOf <- MCCaseOf
  Alert = {a1, a2}
  Case = {c1}
  MaxJobs = 2
  Worker = {w1}
  Caller = {}
  MaxCrashes = 1
SPECIFICATION Spec
PROPERTIES
  EveryAlertReachesTerminalState
CHECK_DEADLOCK FALSE
