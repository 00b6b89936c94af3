----------------------------- MODULE MetaSlots -----------------------------
(***************************************************************************)
(* The staging slots through which the prefiller P hands the clustering    *)
(* metadata of a long request to the decoder D:                            *)
(* vllm/v1/worker/gpu_model_runner.py, the metadata READ of the NIXL       *)
(* worker, and vllm/v1/nelssa/similarity_search.py.                        *)
(*                                                                         *)
(* Both sides have a buffer with the same slots.  P stages the metadata in *)
(* a free slot, D reads it into its own slot of the same number, copies it *)
(* into a dictionary and sends slot_free to P.  The similarity search of a *)
(* decode step uses the slots if all long requests of the batch have one,  *)
(* and the copies otherwise.  A slot holds the metadata of one request,    *)
(* named by the request.  Requests are long, P's scheduler and worker are  *)
(* one process (the slot registry is a global of the module).  P's main    *)
(* thread stages metadata while the thread of its RPC server frees slots,  *)
(* without a lock.                                                         *)
(***************************************************************************)
EXTENDS Integers, FiniteSets

CONSTANTS Request,          \* long requests
          Slot,             \* staging slots: 0 .. max_num_long_requests - 1
          None,             \* no request, no slot, no metadata
          Garbage,          \* what a buffer holds before it is written
          MayAbort,         \* clients may give up
          ReadMayFail,      \* the READ of the metadata may fail
          SlotFreeMayFail   \* the slot_free RPC may fail

ASSUME SlotsAssumption == None \notin Request \cup Slot /\ Garbage \notin Request \cup {None}

VARIABLES \* Prefiller
          pReq,       \* "new", "prefilled", "handed over", "gone"
          pFree,      \* _nelssa_meta_free_slots
          pSlotOf,    \* _nelssa_meta_slot_by_req
          pBuf,       \* whose metadata each slot of the staging buffer holds
          registry,   \* _NELSSA_META_SLOT_REGISTRY
          evicting,   \* the slot whose entries the RPC thread has still to remove, or None
          entered,    \* the main thread has added an entry since that slot was freed
          \* Decoder
          params,     \* remote_slot_idx of the request's kv_transfer_params
          dReq,       \* "none", "waiting", "loading", "decoding", "finished", "gone"
          read,       \* the metadata READ: "none", "posted", "done", "error", "over"
          dBuf,       \* whose metadata each slot of D's staging buffer holds
          dMeta,      \* nelssa_cluster_metadata: whose metadata a request has
          dSlotOf,    \* _nelssa_meta_slot_by_req
          slotFree    \* slot_free RPCs under way

slotVars == <<pReq, pFree, pSlotOf, pBuf, registry, evicting, entered, params, dReq, read,
              dBuf, dMeta, dSlotOf, slotFree>>

MaybeSlot == Slot \cup {None}
Metadata == Request \cup {Garbage}

SlotsInit ==
    /\ pReq = [r \in Request |-> "new"]
    /\ pFree = Slot
    /\ pSlotOf = [r \in Request |-> None]
    /\ pBuf = [s \in Slot |-> Garbage]
    /\ registry = [r \in Request |-> None]
    /\ evicting = None
    /\ entered = FALSE
    /\ params = [r \in Request |-> None]
    /\ dReq = [r \in Request |-> "none"]
    /\ read = [r \in Request |-> "none"]
    /\ dBuf = [s \in Slot |-> Garbage]
    /\ dMeta = [r \in Request |-> None]
    /\ dSlotOf = [r \in Request |-> None]
    /\ slotFree = {}

dVars == <<params, dReq, read, dBuf, dMeta, dSlotOf, slotFree>>
rpcVars == <<evicting, entered>>
pVars == <<pReq, pFree, pSlotOf, pBuf, registry, rpcVars>>

-----------------------------------------------------------------------------
(* Prefiller *)

\* _stage_nelssa_metadata_for_transfer, at the end of the prefill: without a
\* free slot the request goes on without one.  The scheduler runs no more long
\* requests at a time than there are slots (max_num_long_requests).
Stage(r) ==
    /\ pReq[r] = "new"
    /\ Cardinality({q \in Request : pReq[q] = "prefilled"}) < Cardinality(Slot)
    /\ pReq' = [pReq EXCEPT ![r] = "prefilled"]
    /\ \/ /\ pFree = {}
          /\ UNCHANGED <<pFree, pSlotOf, pBuf, registry, entered>>
       \/ \E s \in pFree :
            /\ pFree' = pFree \ {s}
            /\ pSlotOf' = [pSlotOf EXCEPT ![r] = s]
            /\ pBuf' = [pBuf EXCEPT ![s] = r]
            /\ registry' = [registry EXCEPT ![r] = s]
            /\ entered' = (evicting # None)
    /\ UNCHANGED <<evicting, dVars>>

\* Mutant: a finished request gives its slot back at once
PCleanupFrees(r) ==
    /\ pFree' = pFree \cup ({pSlotOf[r]} \ {None})
    /\ pSlotOf' = [pSlotOf EXCEPT ![r] = None]

\* execute_model of a producer: no _cleanup_sparse_kv_cache for finished requests
PCleanup(r) == UNCHANGED <<pFree, pSlotOf>>

\* request_finished of the connector: the slot goes to D with the parameters
HandOver(r) ==
    /\ pReq[r] = "prefilled"
    /\ pReq' = [pReq EXCEPT ![r] = "handed over"]
    /\ dReq' = [dReq EXCEPT ![r] = "waiting"]
    /\ params' = [params EXCEPT ![r] = registry[r]]
    /\ registry' = [registry EXCEPT ![r] = None]
    /\ PCleanup(r)
    /\ UNCHANGED <<pBuf, rpcVars, read, dBuf, dMeta, dSlotOf, slotFree>>

\* The request is aborted between its prefill and request_finished, which then
\* returns no parameters
PAbort(r) ==
    /\ MayAbort /\ pReq[r] = "prefilled"
    /\ pReq' = [pReq EXCEPT ![r] = "gone"]
    /\ PCleanup(r)
    /\ UNCHANGED <<pBuf, registry, rpcVars, dVars>>

\* Mutant: a call whose answer is late is sent again
SlotFreeRetried(s) == slotFree

\* The calls under way once a slot_free was handled or has failed: it is sent once
SlotFreeOver(s) == slotFree \ {s}

\* _handle_slot_free and the first statement of _free_nelssa_meta_slot, or the
\* RPC fails.  The server's event loop handles one call at a time.
SlotFree(s) ==
    /\ evicting = None
    /\ s \in slotFree
    /\ slotFree' = SlotFreeOver(s)
    /\ \/ /\ pFree' = pFree \cup {s}
          /\ evicting' = s
       \/ SlotFreeMayFail /\ UNCHANGED <<pFree, evicting>>
    /\ UNCHANGED <<pReq, pSlotOf, pBuf, registry, entered, params, dReq, read, dBuf, dMeta,
                   dSlotOf>>

\* The entries of slot_by_req without those that point at slot s
Evict(s) == [r \in Request |-> IF pSlotOf[r] = s THEN None ELSE pSlotOf[r]]

\* The rest of _free_nelssa_meta_slot.  An entry that the main thread adds while
\* the loop goes over the dictionary makes it raise, and nothing is removed.
EvictEntries ==
    /\ evicting # None
    /\ evicting' = None
    /\ entered' = FALSE
    /\ \/ pSlotOf' = Evict(evicting)
       \/ entered /\ UNCHANGED pSlotOf
    /\ UNCHANGED <<pReq, pFree, pBuf, registry, dVars>>

-----------------------------------------------------------------------------
(* Decoder *)

\* start_load_kv for a request: its KV READ (not modelled) and, if P gave a
\* slot, start_cluster_metadata_read.  D's scheduler counts the long requests
\* that run, not the ones that load.
StartLoad(r) ==
    /\ dReq[r] = "waiting"
    /\ Cardinality({q \in Request : dReq[q] = "decoding"}) < Cardinality(Slot)
    /\ dReq' = [dReq EXCEPT ![r] = "loading"]
    /\ \/ /\ params[r] # None
          /\ read' = [read EXCEPT ![r] = "posted"]
       \/ /\ params[r] = None \/ ReadMayFail     \* skipped, or posting fails
          /\ read' = read
    /\ UNCHANGED <<pVars, params, dBuf, dMeta, dSlotOf, slotFree>>

\* NIXL: the READ copies P's slot into the slot of D with the same number
ReadEnds(r) ==
    /\ read[r] = "posted"
    /\ \/ /\ read' = [read EXCEPT ![r] = "done"]
          /\ dBuf' = [dBuf EXCEPT ![params[r]] = pBuf[params[r]]]
       \/ /\ ReadMayFail
          /\ read' = [read EXCEPT ![r] = "error"]
          /\ dBuf' = dBuf
    /\ UNCHANGED <<pVars, params, dReq, dMeta, dSlotOf, slotFree>>

\* Mutant: no slot_free for a request that has not started to decode
SlotFreeOfDecoding(r) == IF dReq[r] = "decoding" THEN {params[r]} ELSE {}

\* _on_nelssa_meta_slot_free: the slot_free RPC that is sent for a request
SlotFreeSent(r) == {params[r]}

\* Mutant: a READ in progress counts as over
ReadIsOverEarly(r) == read[r] \in {"posted", "done", "error"}

\* The state of the handles of the READ: PROC is waited for
ReadIsOver(r) == read[r] \in {"done", "error"}

\* get_finished for the metadata READ, which may end before or after the KV
\* READ: _on_nelssa_metadata_received and _store_received_nelssa_metadata.  A
\* READ that failed is stored as well; _handle_failed_transfer makes the
\* request fail only if its KV READ has not been reported yet.
MetaReceived(r) ==
    /\ ReadIsOver(r)
    /\ read' = [read EXCEPT ![r] = "over"]
    /\ dMeta' = [dMeta EXCEPT ![r] = dBuf[params[r]]]
    /\ dSlotOf' = [dSlotOf EXCEPT ![r] = IF @ = None THEN params[r] ELSE @]
    /\ slotFree' = slotFree \cup SlotFreeSent(r)
    /\ dReq' = [dReq EXCEPT ![r] = IF read[r] = "error" /\ @ = "loading"
                                   THEN "finished" ELSE @]
    /\ UNCHANGED <<pVars, params, dBuf>>

\* The KV blocks have come and the request joins the batch
KVLoaded(r) ==
    /\ dReq[r] = "loading"
    /\ dReq' = [dReq EXCEPT ![r] = "decoding"]
    /\ UNCHANGED <<pVars, params, read, dBuf, dMeta, dSlotOf, slotFree>>

\* perform_batched: whose centroids the search uses for a request of the
\* batch.  None stands for the dummy result of a request without metadata.
Centroids(r, batch) ==
    LET found == {q \in batch : dMeta[q] # None}
        useStaging == \A q \in found : dSlotOf[q] # None
    IN  IF r \notin found THEN None
        ELSE IF useStaging THEN dBuf[dSlotOf[r]] ELSE dMeta[r]

\* The long requests of a decode step, which only reads
DecodeBatches == SUBSET {r \in Request : dReq[r] = "decoding"}

\* The request ends, or is aborted before it does
DFinish(r) ==
    /\ dReq[r] = "decoding" \/ (MayAbort /\ dReq[r] \in {"waiting", "loading"})
    /\ dReq' = [dReq EXCEPT ![r] = "finished"]
    /\ UNCHANGED <<pVars, params, read, dBuf, dMeta, dSlotOf, slotFree>>

\* _cleanup_sparse_kv_cache, what it does to metadata and slots
CleanupSparseKV(r) ==
    /\ dMeta' = [dMeta EXCEPT ![r] = None]
    /\ dSlotOf' = [dSlotOf EXCEPT ![r] = None]

\* execute_model of the next step: _cleanup_sparse_kv_cache
Cleanup(r) ==
    /\ dReq[r] = "finished"
    /\ dReq' = [dReq EXCEPT ![r] = "gone"]
    /\ CleanupSparseKV(r)
    /\ UNCHANGED <<pVars, params, read, dBuf, slotFree>>

-----------------------------------------------------------------------------

SlotsNext ==
    \/ EvictEntries
    \/ \E s \in Slot : SlotFree(s)
    \/ \E r \in Request :
        \/ Stage(r) \/ HandOver(r) \/ PAbort(r)
        \/ StartLoad(r) \/ ReadEnds(r) \/ MetaReceived(r) \/ KVLoaded(r)
        \/ DFinish(r) \/ Cleanup(r)

SlotsSpec == SlotsInit /\ [][SlotsNext]_slotVars

\* A request that was prefilled is handed over, a waiting one is loaded, since
\* both count as unfinished; READs and RPCs end, and D's worker collects them.
SlotsFairness ==
    /\ WF_slotVars(EvictEntries)
    /\ \A s \in Slot : WF_slotVars(SlotFree(s))
    /\ \A r \in Request : /\ WF_slotVars(HandOver(r)) /\ WF_slotVars(StartLoad(r))
                          /\ WF_slotVars(ReadEnds(r)) /\ WF_slotVars(MetaReceived(r))
                          /\ WF_slotVars(Cleanup(r)) /\ WF_slotVars(DFinish(r))
                          /\ WF_slotVars(KVLoaded(r))

FairSlotsSpec == SlotsSpec /\ SlotsFairness

-----------------------------------------------------------------------------
(* Properties *)

SlotsTypeOK ==
    /\ pReq \in [Request -> {"new", "prefilled", "handed over", "gone"}]
    /\ pFree \subseteq Slot
    /\ pSlotOf \in [Request -> MaybeSlot]
    /\ pBuf \in [Slot -> Metadata]
    /\ registry \in [Request -> MaybeSlot]
    /\ evicting \in MaybeSlot
    /\ entered \in BOOLEAN
    /\ params \in [Request -> MaybeSlot]
    /\ dReq \in [Request -> {"none", "waiting", "loading", "decoding", "finished", "gone"}]
    /\ read \in [Request -> {"none", "posted", "done", "error", "over"}]
    /\ dBuf \in [Slot -> Metadata]
    /\ dMeta \in [Request -> Metadata \cup {None}]
    /\ dSlotOf \in [Request -> MaybeSlot]
    /\ slotFree \subseteq Slot

\* The requests that wait for the metadata in slot s: P has staged it and the
\* READ of D is not over
KeptFor(s) ==
    {r \in Request : registry[r] = s \/ (params[r] = s /\ read[r] # "over")}

\* A slot goes from owner to owner in order, whatever is lost, late or aborted.
\* As long as a request waits for a slot, the slot holds what this request
\* staged, is not free, and no slot_free is under way for it; and a slot_free
\* under way is never for a slot that is free already.
SlotOwners ==
    \A s \in Slot :
        /\ \A r \in KeptFor(s) : pBuf[s] = r /\ s \notin pFree \cup slotFree
        /\ s \in slotFree => s \notin pFree

\* P's slot map names the slots in use: the entry of a request points at a slot
\* that is not free and holds what it staged, and a request that waits for its
\* slot has its entry ("so the mapping doesn't outlive the slot it tracks").
SlotMapRight ==
    /\ \A r \in Request : pSlotOf[r] # None =>
            evicting = pSlotOf[r] \/ (pSlotOf[r] \notin pFree /\ pBuf[pSlotOf[r]] = r)
    /\ \A s \in Slot : \A r \in KeptFor(s) : pSlotOf[r] = s

\* D reads its own metadata: while the READ of a request is posted, the slot it
\* names on P holds the metadata of that request, although P reuses slots as
\* soon as slot_free comes and knows nothing of D's READs.
ReadsOwnMetadata ==
    \A r \in Request : read[r] = "posted" => pBuf[params[r]] = r

\* A request decodes with its own metadata in D's dictionary, if with any.
CopyIsOwn == \A r \in Request : dReq[r] = "decoding" => dMeta[r] \in {r, None}

\* A decode step uses the metadata of each request itself, or the dummy result
\* if D has none yet.
DecodeUsesOwnMetadata ==
    \A batch \in DecodeBatches : \A r \in batch : Centroids(r, batch) \in {r, None}

\* A long request whose KV is being loaded has a metadata READ: only short
\* requests are handed over without a slot.
LongIsStaged ==
    \A r \in Request : dReq[r] = "loading" => params[r] # None

\* Slots come back: a slot that is taken is free again later.
SlotsComeBack == \A s \in Slot : s \notin pFree ~> s \in pFree

\* D forgets the metadata of a request that has ended.
MetadataForgotten == \A r \in Request : dReq[r] = "gone" ~> dMeta[r] = None
=============================================================================
