--------------------------- MODULE MCIncidentClusters --------------------------
(* Two hosts, either of which links two cases, and an address that links      *)
(* them only when their tactics agree, as it does for the first two cases.    *)
EXTENDS IncidentClusters, TLC

CONSTANTS h1, h2, ip

MCWeight == [e \in Entity |-> IF e = ip THEN 400 ELSE 1000]
MCTactics == [c \in CaseId |-> IF c <= 2 THEN {"execution"} ELSE {}]
Hosts == Permutations({h1, h2})
================================================================================
