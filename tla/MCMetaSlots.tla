---------------------------- MODULE MCMetaSlots ----------------------------
(* One behaviour in two has aborts, failing READs and lost RPCs; what does   *)
(* not survive a fault is stated of the others.                              *)
EXTENDS MetaSlots, TLC

VARIABLE faults   \* faults may happen in this behaviour

Fault ==
    \/ \E r \in Request :
        \/ PAbort(r)
        \/ StartLoad(r) /\ params[r] # None /\ read' = read
        \/ ReadEnds(r) /\ dBuf' = dBuf /\ read'[r] = "error"
        \/ DFinish(r) /\ dReq[r] # "decoding"
    \/ \E s \in Slot : SlotFree(s) /\ s \notin pFree'

\* Every request has ended: both engines wait for new ones
Idle == (\A r \in Request : pReq[r] = "gone" \/ dReq[r] = "gone") /\ UNCHANGED slotVars

MCInit == SlotsInit /\ faults \in BOOLEAN
MCNext == (SlotsNext \/ Idle) /\ (Fault => faults) /\ faults' = faults
MCSpec == MCInit /\ [][MCNext]_<<slotVars, faults>> /\ SlotsFairness

\* Without faults a request decodes with its own metadata in D's dictionary,
\* if with any: a slot number is reused only after D has copied the slot.
CopyIsOwnWithoutFaults == ~faults => CopyIsOwn

\* Without faults slots come back to P (_free_nelssa_meta_slot).
SlotsComeBackWithoutFaults == ~faults => SlotsComeBack
=============================================================================
