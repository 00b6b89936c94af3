SPECIFICATION MCSpec
CONSTANTS
    Request = {r1, r2, r3}
    Slot = {s1}
    None = None
    Garbage = Garbage
    MayAbort = TRUE
    ReadMayFail = TRUE
    SlotFreeMayFail = TRUE
INVARIANTS SlotOwners ReadsOwnMetadata CopyIsOwnWithoutFaults
PROPERTIES SlotsComeBackWithoutFaults
