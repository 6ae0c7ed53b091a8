--------------------------- MODULE MCCaseRelationships -------------------------
(* Three cases reach every star and every short cycle; four, with two edges  *)
(* drawn at the same time, the shortest cycle the locks do not prevent.      *)
EXTENDS CaseRelationships, TLC

\* The requests are alike.
Symmetry == Permutations(Request)
====
