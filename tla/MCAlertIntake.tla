----------------------------- MODULE MCAlertIntake -----------------------------
(* Three messages: two of one key, and one that lists the artifacts of the   *)
(* first in the opposite order, one of them in another spelling.  The second *)
(* lists a host name that takes two rounds to normalise.                     *)
EXTENDS AlertIntake

CONSTANTS m1, m2, m3, k1, k2, x, y, Y, host, hostBlank, hostBlankDot

MCKeyOf == [m \in Message |-> IF m = m3 THEN k2 ELSE k1]
MCNorm == [v \in Value |-> IF v = Y THEN y ELSE
                           IF v = hostBlankDot THEN hostBlank ELSE
                           IF v = hostBlank THEN host ELSE v]
MCArtifactsOf == [m \in Message |-> IF m = m1 THEN <<x, y>> ELSE
                                    IF m = m2 THEN <<hostBlankDot, x>> ELSE <<Y, x>>]
================================================================================
