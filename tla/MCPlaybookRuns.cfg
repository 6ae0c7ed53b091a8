\* Two workers, two alerts and a user competing for one automatic run.
CONSTANTS
  c1 = c1
  contain = contain
  triage = triage
  None = None
  Rules <- MCRules
  CaseOf <- MCCaseOf
  Case = {c1}
  Name = {contain, triage}
  MaxAutoRuns = 1
  Alert = {a1, a2}
  Worker = {w1, w2}
  MaxRuns = 2
  MaxMessages = 1
  MaxCrashes = 1
SPECIFICATION Spec
INVARIANTS
  TypeOK
  ExecutedAtMostOnce
  AutomationWithinCeiling
PROPERTIES
  OutcomeIsFinal
  EveryRunEnds
CHECK_DEADLOCK FALSE
