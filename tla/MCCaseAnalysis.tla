---------------------------- MODULE MCCaseAnalysis -----------------------------
(* Up to three alerts of two cases: two of them share a case, so that a      *)
(* request meets a pending job, a running one and none.                      *)
EXTENDS CaseAnalysis

CONSTANTS a1, a2, a3, c1, c2

MCCaseOf == [a \in Alert |-> IF a = a3 THEN c2 ELSE c1]
================================================================================
