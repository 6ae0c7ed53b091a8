------------------------------ MODULE MCHuntPlans ------------------------------
(* One search at a time, as the default configuration has it. *)
EXTENDS HuntPlans
================================================================================
