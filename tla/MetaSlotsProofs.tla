-------------------------- MODULE MetaSlotsProofs --------------------------
(***************************************************************************)
(* Proofs about MetaSlots for any number of requests and slots, whatever   *)
(* is aborted, fails or is lost.                                           *)
(*                                                                         *)
(* P learns of the end of a READ only from slot_free, so the invariant has *)
(* to carry a slot from hand to hand: from the registry to the parameters, *)
(* from there to the READ, and from the READ to the slot_free call.  The   *)
(* argument needs nothing of slot_by_req, which two threads change.        *)
(***************************************************************************)
EXTENDS MetaSlots, TLAPS

\* What has not happened yet for a request on P has left no trace on D
NotYet ==
    /\ \A r \in Request : pReq[r] \in {"new", "prefilled"} =>
            dReq[r] = "none" /\ params[r] = None /\ read[r] = "none"
    /\ \A r \in Request : pReq[r] = "new" => registry[r] = None
    /\ \A r \in Request : dReq[r] \in {"none", "waiting"} => read[r] = "none"

\* The number of a slot is with P or with D, and a READ has one
OneHand ==
    /\ \A r \in Request : registry[r] # None => dReq[r] = "none"
    /\ \A r \in Request : read[r] # "none" => params[r] # None

SlotsInv == SlotsTypeOK /\ SlotOwners /\ NotYet /\ OneHand

\* SlotOwners speaks of what waits for a slot, what is staged and what is free.
LEMMA SameOwners ==
    ASSUME SlotOwners,
           \A s \in Slot : KeptFor(s)' \subseteq KeptFor(s),
           UNCHANGED <<pFree, pBuf, slotFree>>
    PROVE  SlotOwners'
  BY Zenon DEF SlotOwners

\* SlotsInv holds before any request arrives.
LEMMA SlotsInvInit == SlotsInit => SlotsInv
  <1> SUFFICES ASSUME SlotsInit PROVE SlotsInv
    BY Zenon
  <1>1. SlotsTypeOK
    BY Zenon DEF SlotsInit, SlotsTypeOK, MaybeSlot, Metadata
  <1>2. \A s \in Slot : KeptFor(s) = {}
    BY Zenon, SlotsAssumption DEF SlotsInit, KeptFor
  <1>3. SlotOwners
    BY Zenon, <1>2 DEF SlotsInit, SlotOwners
  <1>4. NotYet /\ OneHand
    BY Zenon DEF SlotsInit, NotYet, OneHand
  <1> QED
    BY Zenon, <1>1, <1>3, <1>4 DEF SlotsInv

\* A step of P that stages metadata keeps SlotsInv.
LEMMA StageKeeps == ASSUME SlotsInv, NEW r \in Request, Stage(r) PROVE SlotsInv'
  <1>0. SlotsTypeOK
    BY Zenon DEF SlotsInv
  <1>1. /\ UNCHANGED <<evicting, dVars>>
        /\ pReq[r] = "new"
        /\ pReq' = [pReq EXCEPT ![r] = "prefilled"]
    BY Zenon DEF Stage
  <1>2. registry[r] = None /\ params[r] = None /\ read[r] = "none" /\ dReq[r] = "none"
    BY Zenon, <1>1 DEF SlotsInv, NotYet
  <1>3. CASE pFree = {} /\ UNCHANGED <<pFree, pSlotOf, pBuf, registry, entered>>
    <2>1. SlotsTypeOK'
      BY Zenon, <1>0, <1>1, <1>3 DEF SlotsTypeOK, dVars
    <2>2. NotYet'
      BY ZenonT(60), <1>0, <1>1, <1>3 DEF SlotsInv, NotYet, SlotsTypeOK, dVars
    <2>3. OneHand'
      BY Zenon, <1>1, <1>3 DEF SlotsInv, OneHand, dVars
    <2>4. \A s \in Slot : KeptFor(s)' = KeptFor(s)
      BY Zenon, <1>1, <1>3 DEF KeptFor, dVars
    <2>5. SlotOwners'
      BY Zenon, <1>1, <1>3, <2>4 DEF SlotsInv, SlotOwners, dVars
    <2> QED
      BY Zenon, <2>1, <2>2, <2>3, <2>5 DEF SlotsInv
  <1>4. ASSUME NEW s \in pFree,
               pFree' = pFree \ {s},
               pSlotOf' = [pSlotOf EXCEPT ![r] = s],
               pBuf' = [pBuf EXCEPT ![s] = r],
               registry' = [registry EXCEPT ![r] = s],
               entered' = (evicting # None)
        PROVE  SlotsInv'
    <2>1. s \in Slot /\ s # None
      BY ZenonT(60), <1>0, SlotsAssumption DEF SlotsTypeOK
    <2>2. SlotsTypeOK'
      <3>1. entered' \in BOOLEAN
        BY Zenon, <1>4
      <3> QED
        BY Zenon, <1>0, <1>1, <1>4, <2>1, <3>1 DEF SlotsTypeOK, MaybeSlot, Metadata, dVars
    <2>3. SlotOwners'
      <3>1. KeptFor(s) = {} /\ s \notin slotFree
        BY Zenon, <1>4, <2>1 DEF SlotsInv, SlotOwners
      <3>2. \A q \in Request : registry'[q] = IF q = r THEN s ELSE registry[q]
        BY Zenon, <1>0, <1>4 DEF SlotsTypeOK
      <3>3. \A t \in Slot : pBuf'[t] = IF t = s THEN r ELSE pBuf[t]
        BY Zenon, <1>0, <1>4 DEF SlotsTypeOK
      <3>4. \A q \in KeptFor(s)' : q = r
        BY Zenon, <1>1, <3>1, <3>2 DEF KeptFor, dVars
      <3>5. \A t \in Slot : t # s => KeptFor(t)' \subseteq KeptFor(t)
        BY Zenon, <1>1, <1>2, <3>2 DEF KeptFor, dVars
      <3> SUFFICES ASSUME NEW t \in Slot
                   PROVE  /\ \A q \in KeptFor(t)' : pBuf'[t] = q /\ t \notin pFree' \cup slotFree'
                          /\ t \in slotFree' => t \notin pFree'
        BY Zenon DEF SlotOwners
      <3>6. slotFree' = slotFree
        BY Zenon, <1>1 DEF dVars
      <3>7. CASE t = s
        BY Zenon, <1>4, <3>1, <3>3, <3>4, <3>6, <3>7
      <3>8. CASE t # s
        BY Zenon, <1>4, <3>3, <3>5, <3>6, <3>8 DEF SlotsInv, SlotOwners
      <3> QED
        BY Zenon, <3>7, <3>8
    <2>4. NotYet'
      BY ZenonT(60), <1>0, <1>1, <1>2, <1>4 DEF SlotsInv, NotYet, SlotsTypeOK, dVars
    <2>5. OneHand'
      BY ZenonT(60), <1>0, <1>1, <1>2, <1>4 DEF SlotsInv, OneHand, SlotsTypeOK, dVars
    <2> QED
      BY Zenon, <2>2, <2>3, <2>4, <2>5 DEF SlotsInv
  <1> QED
    BY Zenon, <1>3, <1>4 DEF Stage

\* A slot_free that reaches P, or fails, keeps SlotsInv: nobody waits for the slot.
LEMMA SlotFreeKeeps == ASSUME SlotsInv, NEW s \in Slot, SlotFree(s) PROVE SlotsInv'
  <1>0. SlotsTypeOK
    BY Zenon DEF SlotsInv
  <1>1. /\ s \in slotFree
        /\ slotFree' = slotFree \ {s}
        /\ pFree' = pFree \/ pFree' = pFree \cup {s}
        /\ evicting' = evicting \/ evicting' = s
        /\ UNCHANGED <<pReq, pSlotOf, pBuf, registry, entered, params, dReq, read, dBuf, dMeta,
                       dSlotOf>>
    BY Zenon DEF SlotFree, SlotFreeOver
  <1>2. SlotsTypeOK'
    BY ZenonT(60), <1>0, <1>1 DEF SlotsTypeOK, MaybeSlot
  <1>3. NotYet' /\ OneHand'
    BY ZenonT(60), <1>1 DEF SlotsInv, NotYet, OneHand
  <1>4. \A t \in Slot : KeptFor(t)' = KeptFor(t)
    BY Zenon, <1>1 DEF KeptFor
  <1>5. KeptFor(s) = {}
    BY Zenon, <1>1 DEF SlotsInv, SlotOwners
  <1>6. SlotOwners'
    BY ZenonT(60), <1>1, <1>4, <1>5 DEF SlotsInv, SlotOwners
  <1> QED
    BY Zenon, <1>2, <1>3, <1>6 DEF SlotsInv

\* What the RPC thread removes from slot_by_req, or leaves there, decides nothing.
LEMMA EvictEntriesKeeps == ASSUME SlotsInv, EvictEntries PROVE SlotsInv'
  <1>0. SlotsTypeOK
    BY Zenon DEF SlotsInv
  <1>1. /\ evicting' = None
        /\ entered' = FALSE
        /\ pSlotOf' = pSlotOf \/ pSlotOf' = Evict(evicting)
        /\ UNCHANGED <<pReq, pFree, pBuf, registry, params, dReq, read, dBuf, dMeta, dSlotOf,
                       slotFree>>
    BY Zenon DEF EvictEntries, dVars
  <1>2. SlotsTypeOK'
    <2>1. pSlotOf' \in [Request -> MaybeSlot]
      BY Zenon, <1>0, <1>1 DEF SlotsTypeOK, Evict, MaybeSlot
    <2> QED
      BY Zenon, <1>0, <1>1, <2>1 DEF SlotsTypeOK, MaybeSlot
  <1>3. NotYet' /\ OneHand'
    BY ZenonT(60), <1>1 DEF SlotsInv, NotYet, OneHand
  <1>4. \A t \in Slot : KeptFor(t)' = KeptFor(t)
    BY Zenon, <1>1 DEF KeptFor
  <1>5. SlotOwners'
    BY Zenon, <1>1, <1>4, SameOwners DEF SlotsInv
  <1> QED
    BY Zenon, <1>2, <1>3, <1>5 DEF SlotsInv

\* The hand-over moves the slot from the registry into the parameters.
LEMMA HandOverKeeps == ASSUME SlotsInv, NEW r \in Request, HandOver(r) PROVE SlotsInv'
  <1>0. SlotsTypeOK
    BY Zenon DEF SlotsInv
  <1>1. /\ pReq[r] = "prefilled"
        /\ pReq' = [pReq EXCEPT ![r] = "handed over"]
        /\ dReq' = [dReq EXCEPT ![r] = "waiting"]
        /\ params' = [params EXCEPT ![r] = registry[r]]
        /\ registry' = [registry EXCEPT ![r] = None]
        /\ UNCHANGED <<pFree, pSlotOf, pBuf, evicting, entered, read, dBuf, dMeta, dSlotOf,
                       slotFree>>
    BY Zenon DEF HandOver, PCleanup, rpcVars
  <1>2. SlotsTypeOK'
    BY Zenon, <1>0, <1>1 DEF SlotsTypeOK, MaybeSlot
  <1>3. \A s \in Slot : KeptFor(s)' \subseteq KeptFor(s)
    <2> SUFFICES ASSUME NEW s \in Slot, NEW q \in KeptFor(s)'
                 PROVE  q \in KeptFor(s)
      BY Zenon
    <2>1. q \in Request /\ s # None /\ (registry'[q] = s \/ (params'[q] = s /\ read[q] # "over"))
      BY Zenon, <1>1, SlotsAssumption DEF KeptFor
    <2>2. registry'[q] = (IF q = r THEN None ELSE registry[q])
      BY Zenon, <1>0, <1>1, <2>1 DEF SlotsTypeOK
    <2>3. params'[q] = (IF q = r THEN registry[q] ELSE params[q])
      BY Zenon, <1>0, <1>1, <2>1 DEF SlotsTypeOK
    <2> QED
      BY Zenon, <2>1, <2>2, <2>3 DEF KeptFor
  <1>4. SlotOwners'
    BY Zenon, <1>1, <1>3, SameOwners DEF SlotsInv
  <1>5. NotYet'
    BY ZenonT(60), <1>0, <1>1 DEF SlotsInv, NotYet, SlotsTypeOK
  <1>6. OneHand'
    BY ZenonT(120), <1>0, <1>1 DEF SlotsInv, NotYet, OneHand, SlotsTypeOK
  <1> QED
    BY Zenon, <1>2, <1>4, <1>5, <1>6 DEF SlotsInv

\* The end of a READ is where the slot passes to a slot_free call.
LEMMA MetaReceivedKeeps == ASSUME SlotsInv, NEW r \in Request, MetaReceived(r) PROVE SlotsInv'
  <1>0. SlotsTypeOK
    BY Zenon DEF SlotsInv
  <1>1. /\ read[r] \in {"done", "error"}
        /\ read' = [read EXCEPT ![r] = "over"]
        /\ dMeta' = [dMeta EXCEPT ![r] = dBuf[params[r]]]
        /\ dSlotOf' = [dSlotOf EXCEPT ![r] = IF @ = None THEN params[r] ELSE @]
        /\ slotFree' = slotFree \cup {params[r]}
        /\ dReq' = [dReq EXCEPT ![r] = IF read[r] = "error" /\ @ = "loading"
                                        THEN "finished" ELSE @]
        /\ UNCHANGED <<pReq, pFree, pSlotOf, pBuf, registry, evicting, entered, params, dBuf>>
    BY Zenon DEF MetaReceived, ReadIsOver, SlotFreeSent, pVars, rpcVars
  <1>2. params[r] \in Slot /\ params[r] # None
    BY ZenonT(60), <1>0, <1>1 DEF SlotsInv, OneHand, SlotsTypeOK, MaybeSlot
  <1>3. SlotsTypeOK'
    <2>1. /\ dMeta' \in [Request -> Metadata \cup {None}]
          /\ dSlotOf' \in [Request -> MaybeSlot]
      BY Zenon, <1>0, <1>1, <1>2 DEF SlotsTypeOK, MaybeSlot
    <2>2. /\ dReq' \in [Request -> {"none", "waiting", "loading", "decoding", "finished",
                                      "gone"}]
          /\ read' \in [Request -> {"none", "posted", "done", "error", "over"}]
          /\ slotFree' \subseteq Slot
      BY Zenon, <1>0, <1>1, <1>2 DEF SlotsTypeOK
    <2> QED
      BY Zenon, <1>0, <1>1, <2>1, <2>2 DEF SlotsTypeOK
  <1>4. read'[r] = "over" /\ \A q \in Request : q # r => read'[q] = read[q]
    BY Zenon, <1>0, <1>1 DEF SlotsTypeOK
  <1>5. dReq[r] \notin {"none", "waiting"} /\ registry[r] = None
    BY Zenon, <1>1 DEF SlotsInv, NotYet, OneHand
  <1>6. SlotOwners'
    <2>1. r \in KeptFor(params[r])
      BY Zenon, <1>1 DEF KeptFor
    <2>2. pBuf[params[r]] = r /\ params[r] \notin pFree
      BY Zenon, <1>2, <2>1 DEF SlotsInv, SlotOwners
    <2>3. \A s \in Slot : KeptFor(s)' \subseteq KeptFor(s) \ {r}
      <3> SUFFICES ASSUME NEW s \in Slot, NEW q \in KeptFor(s)'
                   PROVE  q \in KeptFor(s) /\ q # r
        BY Zenon
      <3>1. q \in Request /\ s # None /\ (registry[q] = s \/ (params[q] = s /\ read'[q] # "over"))
        BY Zenon, <1>1, SlotsAssumption DEF KeptFor
      <3>2. q # r
        BY Zenon, <1>4, <1>5, <3>1
      <3> QED
        BY Zenon, <1>4, <3>1, <3>2 DEF KeptFor
    <2>4. \A s \in Slot : s = params[r] => KeptFor(s)' = {}
      BY Zenon, <1>2, <2>2, <2>3 DEF SlotsInv, SlotOwners
    <2> SUFFICES ASSUME NEW s \in Slot
                 PROVE  /\ \A q \in KeptFor(s)' : pBuf'[s] = q /\ s \notin pFree' \cup slotFree'
                        /\ s \in slotFree' => s \notin pFree'
      BY Zenon DEF SlotOwners
    <2>5. CASE s = params[r]
      BY Zenon, <1>1, <2>2, <2>4, <2>5
    <2>6. CASE s # params[r]
      BY Zenon, <1>1, <2>3, <2>6 DEF SlotsInv, SlotOwners
    <2> QED
      BY Zenon, <2>5, <2>6
  <1>7. dReq'[r] \notin {"none", "waiting"} /\ \A q \in Request : q # r => dReq'[q] = dReq[q]
    BY Zenon, <1>0, <1>1, <1>5 DEF SlotsTypeOK
  <1>8. NotYet'
    <2>1. pReq[r] \notin {"new", "prefilled"}
      BY Zenon, <1>1 DEF SlotsInv, NotYet
    <2> QED
      BY ZenonT(120), <1>1, <1>4, <1>7, <2>1 DEF SlotsInv, NotYet
  <1>9. OneHand'
    BY ZenonT(120), <1>1, <1>2, <1>4, <1>5, <1>7 DEF SlotsInv, OneHand
  <1> QED
    BY Zenon, <1>3, <1>6, <1>8, <1>9 DEF SlotsInv

\* The other steps do not touch P's slots, nor slot_free calls.
LEMMA OthersKeep ==
    ASSUME SlotsInv,
           NEW r \in Request,
           \/ PAbort(r) \/ StartLoad(r) \/ ReadEnds(r) \/ KVLoaded(r)
           \/ DFinish(r) \/ Cleanup(r)
    PROVE  SlotsInv'
  <1>0. SlotsTypeOK
    BY Zenon DEF SlotsInv
  <1>1. UNCHANGED <<pFree, pSlotOf, pBuf, registry, evicting, entered, params, slotFree>>
    BY Zenon DEF PAbort, PCleanup, StartLoad, ReadEnds, KVLoaded, DFinish, Cleanup, pVars, dVars,
       rpcVars
  <1>2. ASSUME \A q \in Request : read[q] = "over" => read'[q] = "over"
        PROVE  SlotOwners'
    <2>1. \A s \in Slot : KeptFor(s)' \subseteq KeptFor(s)
      BY Zenon, <1>1, <1>2 DEF KeptFor
    <2> QED
      BY Zenon, <1>1, <2>1, SameOwners DEF SlotsInv
  <1>3. CASE PAbort(r)
    <2>1. /\ pReq' = [pReq EXCEPT ![r] = "gone"]
          /\ UNCHANGED <<dReq, read, dBuf, dMeta, dSlotOf>>
      BY Zenon, <1>3 DEF PAbort, dVars
    <2>2. SlotsTypeOK'
      BY Zenon, <1>0, <1>1, <2>1 DEF SlotsTypeOK
    <2>3. NotYet'
      BY ZenonT(60), <1>0, <1>1, <2>1 DEF SlotsInv, NotYet, SlotsTypeOK
    <2>4. OneHand'
      BY ZenonT(60), <1>1, <2>1 DEF SlotsInv, OneHand
    <2>5. SlotOwners'
      BY Zenon, <1>2, <2>1
    <2> QED
      BY Zenon, <2>2, <2>3, <2>4, <2>5 DEF SlotsInv
  <1>4. CASE StartLoad(r)
    <2>1. /\ dReq[r] = "waiting"
          /\ dReq' = [dReq EXCEPT ![r] = "loading"]
          /\ UNCHANGED <<pReq, dBuf, dMeta, dSlotOf>>
          /\ read' = read \/ (params[r] # None /\ read' = [read EXCEPT ![r] = "posted"])
      BY Zenon, <1>4 DEF StartLoad, pVars
    <2>2. SlotsTypeOK'
      BY ZenonT(60), <1>0, <1>1, <2>1 DEF SlotsTypeOK
    <2>3. read[r] = "none" /\ pReq[r] \notin {"new", "prefilled"} /\ registry[r] = None
      BY Zenon, <2>1 DEF SlotsInv, NotYet, OneHand
    <2>4. NotYet'
      BY ZenonT(120), <1>0, <1>1, <2>1, <2>3 DEF SlotsInv, NotYet, SlotsTypeOK
    <2>5. OneHand'
      BY ZenonT(120), <1>0, <1>1, <2>1, <2>3 DEF SlotsInv, OneHand, SlotsTypeOK
    <2>6. \A q \in Request : read[q] = "over" => read'[q] = "over"
      BY ZenonT(60), <1>0, <1>1, <2>1, <2>3 DEF SlotsTypeOK
    <2>7. SlotOwners'
      BY Zenon, <1>2, <2>6
    <2> QED
      BY Zenon, <2>2, <2>4, <2>5, <2>7 DEF SlotsInv
  <1>5. CASE ReadEnds(r)
    <2>1. /\ read[r] = "posted"
          /\ read' = [read EXCEPT ![r] = "done"] \/ read' = [read EXCEPT ![r] = "error"]
          /\ dBuf' = [dBuf EXCEPT ![params[r]] = pBuf[params[r]]] \/ dBuf' = dBuf
          /\ UNCHANGED <<pReq, dReq, dMeta, dSlotOf>>
      BY Zenon, <1>5 DEF ReadEnds, pVars
    <2>2. params[r] \in Slot
      BY ZenonT(120), <1>0, <2>1 DEF SlotsInv, OneHand, SlotsTypeOK, MaybeSlot
    <2>3. SlotsTypeOK'
      <3>1. dBuf' \in [Slot -> Metadata]
        BY ZenonT(120), <1>0, <2>1, <2>2 DEF SlotsTypeOK
      <3>2. read' \in [Request -> {"none", "posted", "done", "error", "over"}]
        BY ZenonT(120), <1>0, <2>1 DEF SlotsTypeOK
      <3> QED
        BY Zenon, <1>0, <1>1, <2>1, <3>1, <3>2 DEF SlotsTypeOK
    <2>4. NotYet'
      BY ZenonT(60), <1>0, <1>1, <2>1 DEF SlotsInv, NotYet, SlotsTypeOK
    <2>5. OneHand'
      BY ZenonT(120), <1>0, <1>1, <2>1 DEF SlotsInv, OneHand, SlotsTypeOK
    <2>6. \A q \in Request : read[q] = "over" => read'[q] = "over"
      BY ZenonT(60), <1>0, <1>1, <2>1 DEF SlotsTypeOK
    <2>7. SlotOwners'
      BY Zenon, <1>2, <2>6
    <2> QED
      BY Zenon, <2>3, <2>4, <2>5, <2>7 DEF SlotsInv
  <1>6. CASE KVLoaded(r) \/ DFinish(r) \/ Cleanup(r)
    <2>1. PICK st \in {"decoding", "finished", "gone"} : dReq' = [dReq EXCEPT ![r] = st]
      BY Zenon, <1>6 DEF KVLoaded, DFinish, Cleanup
    <2>2. dReq[r] # "none" /\ UNCHANGED <<pReq, read, dBuf>>
      BY Zenon, <1>6 DEF KVLoaded, DFinish, Cleanup, pVars
    <2>3. /\ dMeta' = dMeta \/ dMeta' = [dMeta EXCEPT ![r] = None]
          /\ dSlotOf' = dSlotOf \/ dSlotOf' = [dSlotOf EXCEPT ![r] = None]
      BY Zenon, <1>6 DEF KVLoaded, DFinish, Cleanup, CleanupSparseKV
    <2>4. SlotsTypeOK'
      <3>1. /\ dReq' \in [Request -> {"none", "waiting", "loading", "decoding", "finished", "gone"}]
            /\ dMeta' \in [Request -> Metadata \cup {None}]
            /\ dSlotOf' \in [Request -> MaybeSlot]
        BY ZenonT(60), <1>0, <2>1, <2>3 DEF SlotsTypeOK, MaybeSlot
      <3> QED
        BY Zenon, <1>0, <1>1, <2>2, <3>1 DEF SlotsTypeOK
    <2>5. NotYet'
      BY ZenonT(60), <1>0, <1>1, <2>1, <2>2 DEF SlotsInv, NotYet, SlotsTypeOK
    <2>6. OneHand'
      BY ZenonT(60), <1>0, <1>1, <2>1, <2>2 DEF SlotsInv, OneHand, SlotsTypeOK
    <2>7. SlotOwners'
      BY Zenon, <1>2, <2>2
    <2> QED
      BY Zenon, <2>4, <2>5, <2>6, <2>7 DEF SlotsInv
  <1> QED
    BY Zenon, <1>3, <1>4, <1>5, <1>6

\* SlotsInv holds at all times.
THEOREM SlotsInvariant == SlotsSpec => []SlotsInv
  <1>1. SlotsInv /\ [SlotsNext]_slotVars => SlotsInv'
    <2> SUFFICES ASSUME SlotsInv, [SlotsNext]_slotVars PROVE SlotsInv'
      BY Zenon
    <2>1. CASE SlotsNext
      BY Zenon, <2>1, StageKeeps, HandOverKeeps, MetaReceivedKeeps, OthersKeep, SlotFreeKeeps,
         EvictEntriesKeeps DEF SlotsNext
    <2>2. CASE UNCHANGED slotVars
      <3>1. SlotsTypeOK'
        BY Zenon, <2>2 DEF SlotsInv, SlotsTypeOK, slotVars
      <3>2. NotYet' /\ OneHand'
        BY ZenonT(60), <2>2 DEF SlotsInv, NotYet, OneHand, slotVars
      <3>3. \A s \in Slot : KeptFor(s)' = KeptFor(s)
        BY Zenon, <2>2 DEF KeptFor, slotVars
      <3>4. SlotOwners'
        BY Zenon, <2>2, <3>3, SameOwners DEF SlotsInv, slotVars
      <3> QED
        BY Zenon, <3>1, <3>2, <3>4 DEF SlotsInv
    <2> QED
      BY Zenon, <2>1, <2>2
  <1> QED
    BY SlotsInvInit, <1>1, PTL DEF SlotsSpec

\* Slots go from owner to owner in order, whatever is aborted, fails or is lost
\* and however P's two threads interleave: as long as a request waits for a slot,
\* the slot holds what it staged, is not free and has no slot_free under way
\* (_stage_nelssa_metadata_for_transfer, _free_nelssa_meta_slot).
THEOREM SlotsHaveOneOwner == SlotsSpec => []SlotOwners
  <1>1. SlotsInv => SlotOwners
    BY Zenon DEF SlotsInv
  <1> QED
    BY SlotsInvariant, <1>1, PTL

\* D never reads the metadata of another request: P reuses a slot only after
\* the READ of its owner has ended (start_cluster_metadata_read).
THEOREM ReadsAreOwn == SlotsSpec => []ReadsOwnMetadata
  <1>1. SlotsInv => ReadsOwnMetadata
    <2> SUFFICES ASSUME SlotsInv, NEW r \in Request, read[r] = "posted"
                 PROVE  pBuf[params[r]] = r
      BY Zenon DEF ReadsOwnMetadata
    <2>1. params[r] \in Slot
      BY ZenonT(60) DEF SlotsInv, OneHand, SlotsTypeOK, MaybeSlot
    <2>2. r \in KeptFor(params[r])
      BY Zenon DEF KeptFor
    <2> QED
      BY Zenon, <2>1, <2>2 DEF SlotsInv, SlotOwners
  <1> QED
    BY SlotsInvariant, <1>1, PTL
=============================================================================
