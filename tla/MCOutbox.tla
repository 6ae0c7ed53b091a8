-------------------------------- MODULE MCOutbox -------------------------------
(* One destination and event type with two subjects, one of them critical    *)
(* where a run wants quiet hours to matter.                                  *)
EXTENDS Outbox

CONSTANTS k1, k2, ch

MCChannelOf == [k \in Key |-> ch]
================================================================================
