---------------------------- MODULE MCOffloading ----------------------------
(* Two requests that share a key; two CPU blocks, so that a store evicts.     *)
EXTENDS OffloadingConnector
CONSTANTS r1, r2, a, b, c

VARIABLES reset,      \* reset_prefix_cache has preempted requests
          hasStored   \* the requests that have had an entry in _store_jobs

TwoRequests == r1 :> <<a, b>> @@ r2 :> <<a, c>>

MCInit == OffInit /\ reset = FALSE /\ hasStored = {}
MCNext ==
    /\ OffNext
    /\ reset' = (reset \/ ResetPrefixCache)
    /\ hasStored' = hasStored \cup storeJobs'
MCSpec == MCInit /\ [][MCNext]_<<offVars, reset, hasStored>>

\* Unless reset_prefix_cache has preempted requests, the GPU blocks of a pending
\* store are still those of its request when a forward pass can write them.
SourceHeldWithoutReset == reset \/ StoreSourceHeld

\* The GPU blocks that a pending load writes are still those of its request,
\* unless the request stored blocks earlier in its life and is gone: then
\* get_finished reports it as sent although its load has not ended.
TargetHeldWithoutStores ==
    \A j \in jobs \cup meta.load :
        ~j.store => \/ j.gen = generation[j.req]
                    \/ j.req \in hasStored /\ status[j.req] = "gone"

\* As long as a transfer is pending, its CPU blocks are its own, and so are its
\* GPU blocks outside the two cases above.
TransfersSafe ==
    /\ LoadsReadTheirData /\ StoresDisjoint
    /\ SourceHeldWithoutReset /\ TargetHeldWithoutStores
=============================================================================
