\* Two workers and two synchronous analyses of the same case.
CONSTANTS
  a1 = a1
  a2 = a2
  a3 = a3
  c1 = c1
  c2 = c2
  None = None
  CaseOf <- MCCaseOf
  Alert = {a1, a2}
  Case = {c1}
  MaxJobs = 2
  Worker = {w1, w2}
  Caller = {u1, u2}
  MaxCrashes = 1
SPECIFICATION SafeSpec
INVARIANTS
  SuccessIsBacked
CHECK_DEADLOCK FALSE
