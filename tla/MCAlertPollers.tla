---------------------------- MODULE MCAlertPollers -----------------------------
(* Each of the three pollers, one at a time, over the same small source. *)
EXTENDS AlertPollers
================================================================================
