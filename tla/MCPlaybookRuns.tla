----------------------------- MODULE MCPlaybookRuns ----------------------------
(* One case, a keyword rule and a fallback rule: two alerts of the case may  *)
(* arrive at once, and both rules may want the same budget.                  *)
EXTENDS PlaybookRuns

CONSTANTS c1, contain, triage

MCRules == <<[playbook |-> contain, fallback |-> FALSE],
             [playbook |-> triage, fallback |-> TRUE]>>
MCCaseOf == [a \in Alert |-> c1]
================================================================================
