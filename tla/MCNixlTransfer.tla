--------------------------- MODULE MCNixlTransfer ---------------------------
(* NixlTransfer for TLC: the constants have their values in MCHandoff.cfg.   *)
EXTENDS NixlTransfer

\* An exception in get_finished has ended D
Stopped == unknownEngine /\ UNCHANGED vars

MCNext == HandoffNext \/ Stopped
MCSpec == HandoffInit /\ [][MCNext]_vars /\ HandoffFairness
=============================================================================
