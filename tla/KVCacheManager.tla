--------------------------- MODULE KVCacheManager ---------------------------
(***************************************************************************)
(* The KV-cache blocks of one engine: vllm/v1/core/block_pool.py,          *)
(* single_type_kv_cache_manager.py (NELSSACacheManager, one cache group)   *)
(* and kv_cache_manager.py, with prefix caching disabled, which is how     *)
(* run_pd_with_nelssa.sh starts both workers.                              *)
(*                                                                         *)
(* Token counts are natural numbers, blocks are model values.  The free    *)
(* queue is the set of blocks it holds: with prefix caching off no         *)
(* behaviour depends on which free block is handed out first.              *)
(***************************************************************************)
EXTENDS Integers, Sequences, FiniteSets

CONSTANTS Request,      \* request ids
          Block,        \* BlockPool.blocks without the placeholder
          NullBlock,    \* BlockPool.null_block
          BlockSize,    \* tokens per block
          MaxModelLen,  \* max_model_len
          HeadSize,     \* NELSSAConfig.first_n
          TailSize      \* NELSSAConfig.last_m

ASSUME KVAssumption ==
    /\ IsFiniteSet(Block)
    /\ NullBlock \notin Block
    /\ BlockSize \in Nat \ {0}
    /\ MaxModelLen \in Nat
    /\ HeadSize \in Nat
    /\ TailSize \in Nat

VARIABLES freeBlocks,    \* free_block_queue
          refCnt,        \* KVCacheBlock.ref_cnt
          reqToBlocks,   \* req_to_blocks; <<>> stands for an absent key
          longRequests,  \* NELSSACacheManager.long_requests
          tailBlocks     \* NELSSACacheManager.nelssa_tail_blocks

kvVars == <<freeBlocks, refCnt, reqToBlocks, longRequests, tailBlocks>>

KVTypeOK ==
    /\ freeBlocks \subseteq Block
    /\ refCnt \in [Block -> Nat]
    /\ reqToBlocks \in [Request -> Seq(Block \cup {NullBlock})]
    /\ longRequests \subseteq Request
    /\ tailBlocks \in [Request -> Nat]

KVInit ==
    /\ freeBlocks = Block
    /\ refCnt = [b \in Block |-> 0]
    /\ reqToBlocks = [r \in Request |-> << >>]
    /\ longRequests = {}
    /\ tailBlocks = [r \in Request |-> 0]

-----------------------------------------------------------------------------
(* Sizes *)

AtLeast0(n) == IF n > 0 THEN n ELSE 0
AtMost(n, bound) == IF n < bound THEN n ELSE bound
Cdiv(n) == (n + BlockSize - 1) \div BlockSize

HeadBlocks == Cdiv(HeadSize)

\* Mutant: the tail is not aligned to blocks
UnalignedTailBlocks(promptLen) == Cdiv(AtMost(promptLen, TailSize))

\* _compute_tail_layout: the tail starts at a block boundary
TailStart(promptLen) == (AtLeast0(promptLen - TailSize) \div BlockSize) * BlockSize
ComputeTailBlocks(promptLen) == Cdiv(promptLen - TailStart(promptLen))

\* Mutant: rounds down for a short request
NumFullBlocks(r, isLong, tail, numTokens, totalComputed) ==
    AtLeast0(numTokens \div BlockSize - Len(reqToBlocks[r]))

\* get_num_blocks_to_allocate, of NELSSACacheManager for a long request and of
\* the base class for any other one
NumBlocksToAllocate(r, isLong, tail, numTokens, totalComputed) ==
    IF isLong
    THEN AtLeast0(HeadBlocks + tail + Cdiv(AtLeast0(numTokens - totalComputed))
                    - Len(reqToBlocks[r]))
    ELSE AtLeast0(Cdiv(numTokens) - Len(reqToBlocks[r]))

\* can_fit_full_sequence: the admission gate of the waiting loop
CanFitFullSequence(r, numTokens, computed, external) ==
    NumBlocksToAllocate(r, r \in longRequests, tailBlocks[r],
                        AtMost(numTokens, MaxModelLen),
                        AtMost(computed + external, MaxModelLen))
        <= Cardinality(freeBlocks)

-----------------------------------------------------------------------------
(* allocate_slots                                                          *)
(*                                                                         *)
(* mask is request.nelssa_long_mask, numTokens request.num_tokens, and     *)
(* computed, external and new the computed tokens, the tokens a connector  *)
(* will load and the tokens to compute.                                    *)

NumTokensNeedSlot(computed, external, new) ==
    AtMost(AtMost(computed + external, MaxModelLen) + new, MaxModelLen)

\* The number of blocks allocate_slots checks for before it takes any
BlocksChecked(r, mask, numTokens, computed, external, new) ==
    NumBlocksToAllocate(r, mask \/ r \in longRequests,
                        IF mask THEN ComputeTailBlocks(numTokens) ELSE tailBlocks[r],
                        NumTokensNeedSlot(computed, external, new),
                        computed + external)

\* Mutant: rounds down
BlocksTakenFloor(r, computed, external, new) ==
    AtLeast0(NumTokensNeedSlot(computed, external, new) \div BlockSize - Len(reqToBlocks[r]))

\* The number of blocks that allocate_new_computed_blocks and
\* allocate_new_blocks then take from the pool
BlocksTaken(r, computed, external, new) ==
    AtLeast0(Cdiv(NumTokensNeedSlot(computed, external, new)) - Len(reqToBlocks[r]))

\* "none": allocate_slots returns None; "raise": get_new_blocks raises ValueError
AllocationResult(r, mask, numTokens, computed, external, new) ==
    CASE BlocksChecked(r, mask, numTokens, computed, external, new)
            > Cardinality(freeBlocks) -> "none"
      [] BlocksTaken(r, computed, external, new) > Cardinality(freeBlocks) -> "raise"
      [] OTHER -> "ok"

\* mark_long_request
MarkLongRequest(r, mask, numTokens) ==
    /\ longRequests' = IF mask THEN longRequests \cup {r} ELSE longRequests
    /\ tailBlocks' = IF mask
                     THEN [tailBlocks EXCEPT ![r] = ComputeTailBlocks(numTokens)]
                     ELSE tailBlocks

\* popleft_n: n different blocks of the free queue
PopLeftN(n) ==
    CHOOSE new \in [1 .. n -> freeBlocks] :
        \A i, j \in 1 .. n : new[i] = new[j] => i = j

\* get_new_blocks, its result appended to the table of the request
GetNewBlocks(r, n) ==
    LET new == PopLeftN(n)
        taken == {new[i] : i \in 1 .. n}
    IN  /\ freeBlocks' = freeBlocks \ taken
        /\ refCnt' = [b \in Block |-> IF b \in taken THEN refCnt[b] + 1 ELSE refCnt[b]]
        /\ reqToBlocks' = [reqToBlocks EXCEPT ![r] = @ \o new]

AllocateSlots(r, mask, numTokens, computed, external, new) ==
    /\ MarkLongRequest(r, mask, numTokens)
    /\ IF AllocationResult(r, mask, numTokens, computed, external, new) = "ok"
       THEN GetNewBlocks(r, BlocksTaken(r, computed, external, new))
       ELSE UNCHANGED <<freeBlocks, refCnt, reqToBlocks>>

-----------------------------------------------------------------------------
(* free and free_sparse_kv                                                 *)

\* The blocks a table refers to, its placeholders left out
BlocksOf(table) == {table[i] : i \in DOMAIN table} \ {NullBlock}

\* free_middle_blocks: the indices of the blocks between head and tail that it
\* gives back (indices start at 1)
MiddleIndices(r) ==
    IF r \in longRequests
    THEN {i \in HeadBlocks + 1 .. Len(reqToBlocks[r]) - tailBlocks[r] :
            reqToBlocks[r][i] # NullBlock /\ refCnt[reqToBlocks[r][i]] > 0}
    ELSE {}

\* Mutant: free_middle_blocks gives the blocks back and keeps them in the table
TableKeepsMiddle(r, gone, sparse) ==
    IF r \in gone THEN << >> ELSE reqToBlocks[r]

\* The new table of r when the requests in gone are freed and free_sparse_kv is
\* called for the requests in sparse
TableAfter(r, gone, sparse) ==
    CASE r \in gone -> << >>
      [] r \in sparse \ gone ->
            [i \in DOMAIN reqToBlocks[r] |->
                IF i \in MiddleIndices(r) THEN NullBlock ELSE reqToBlocks[r][i]]
      [] OTHER -> reqToBlocks[r]

Released(gone, sparse) ==
    (UNION {BlocksOf(reqToBlocks[r]) : r \in gone})
        \cup (UNION {{reqToBlocks[r][i] : i \in MiddleIndices(r)} : r \in sparse})

\* free_blocks on every block given back: each table names a block once, so a
\* call takes one from its count; a count that reaches 0 frees the block
FreeBlocks(gone, sparse) ==
    /\ refCnt' = [b \in Block |->
                    IF b \in Released(gone, sparse) THEN refCnt[b] - 1 ELSE refCnt[b]]
    /\ freeBlocks' = freeBlocks \cup {b \in Released(gone, sparse) : refCnt'[b] = 0}
    /\ reqToBlocks' = [r \in Request |-> TableAfter(r, gone, sparse)]
    /\ UNCHANGED <<longRequests, tailBlocks>>   \* free_request_resources is never called

-----------------------------------------------------------------------------
(* The manager driven by any caller: tokens are either loaded or computed  *)

KVAllocate(r) ==
    \E mask \in BOOLEAN, numTokens, computed, external, new \in 0 .. MaxModelLen :
        /\ external = 0 <=> new > 0
        /\ AllocateSlots(r, mask, numTokens, computed, external, new)

KVFree == \E gone, sparse \in SUBSET Request : FreeBlocks(gone, sparse)

KVNext == KVFree \/ \E r \in Request : KVAllocate(r)

KVSpec == KVInit /\ [][KVNext]_kvVars

-----------------------------------------------------------------------------
(* Invariants *)

\* No block is in two places: two entries of the block tables, of the same or
\* of two requests, never name the same block (nobody shares a block when
\* prefix caching is off).
NoSharedBlock ==
    \A r, s \in Request :
        \A i \in DOMAIN reqToBlocks[r], j \in DOMAIN reqToBlocks[s] :
            reqToBlocks[r][i] = reqToBlocks[s][j] =>
                (r = s /\ i = j) \/ reqToBlocks[r][i] = NullBlock

\* The reference counts are right: a block is counted once when a table names
\* it and is in the free queue, with count 0, when none does.  So no block is
\* leaked, and no block that a request still names is handed out again.
RefCntMatches ==
    \A b \in Block :
        LET named == \E r \in Request : b \in BlocksOf(reqToBlocks[r])
        IN  /\ refCnt[b] = (IF named THEN 1 ELSE 0)
            /\ b \in freeBlocks <=> ~named

\* The pool and the tables stay consistent under any sequence of allocate_slots,
\* free and free_sparse_kv.
KVInv == KVTypeOK /\ NoSharedBlock /\ RefCntMatches
=============================================================================
