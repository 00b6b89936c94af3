---------------------------- MODULE OffloadCache ----------------------------
(***************************************************************************)
(* What the CPU offloading manager promises its callers (the interface of  *)
(* vllm/v1/kv_offload/abstract.py), whatever the replacement policy: a key *)
(* becomes readable when its store completes, readers pin it, and only a   *)
(* readable key without readers may go, to make room for others.           *)
(***************************************************************************)
EXTENDS Naturals, FiniteSets

CONSTANTS Key, NumBlocks

VARIABLES pending,   \* keys that are being stored
          readers    \* readable keys, with the number of loads that use them

Readable == DOMAIN readers

CacheInit == pending = {} /\ readers = [k \in {} |-> 0]

\* prepare_store: new keys, in the place of readable ones that nobody reads
PrepareStore ==
    \E new \in SUBSET (Key \ (pending \cup Readable)),
       gone \in SUBSET {k \in Readable : readers[k] = 0} :
        /\ new # {}
        /\ pending' = pending \cup new
        /\ readers' = [k \in Readable \ gone |-> readers[k]]
        /\ Cardinality(pending') + Cardinality(DOMAIN readers') <= NumBlocks

\* complete_store
CompleteStore ==
    \E done \in SUBSET pending :
        /\ pending' = pending \ done
        /\ readers' = [k \in Readable \cup done |-> IF k \in done THEN 0 ELSE readers[k]]

\* prepare_load
PrepareLoad ==
    \E keys \in SUBSET Readable :
        /\ readers' = [k \in Readable |-> IF k \in keys THEN readers[k] + 1 ELSE readers[k]]
        /\ UNCHANGED pending

\* complete_load
CompleteLoad ==
    \E keys \in SUBSET {k \in Readable : readers[k] > 0} :
        /\ readers' = [k \in Readable |-> IF k \in keys THEN readers[k] - 1 ELSE readers[k]]
        /\ UNCHANGED pending

CacheNext == PrepareStore \/ CompleteStore \/ PrepareLoad \/ CompleteLoad

CacheSpec == CacheInit /\ [][CacheNext]_<<pending, readers>>
=============================================================================
