--------------------------- MODULE OffloadManager ---------------------------
(***************************************************************************)
(* CPUOffloadingManager (vllm/v1/kv_offload/cpu/manager.py) with its two   *)
(* replacement policies (cpu/policies/lru.py and arc.py), as functions of  *)
(* its state, a record m:                                                  *)
(*    policy           cache_policy                                        *)
(*    t1, t2, b1, b2   the ordered dictionaries of ARC, oldest first;      *)
(*                     LRU has one dictionary, t1                          *)
(*    target           target_t1_size, in units of 1/Scale                 *)
(*    ref, block       BlockStatus of each key; -1 and NoBlock when absent *)
(*    free, allocated  _free_list and _num_allocated_blocks                *)
(***************************************************************************)
EXTENDS Integers, Sequences, SequencesExt, FiniteSets

CONSTANTS Key,          \* offload keys
          NumBlocks,    \* num_blocks, the cache_capacity of the policy
          CachePolicies,  \* the values of cache_policy
          Scale         \* unit of the target; see OffloadAssumption

NoBlock == -1

\* The target is a float.  Its changes are at least 1 and otherwise fractions
\* of two ghost list lengths, so with this Scale integers represent it exactly.
ASSUME OffloadAssumption ==
    /\ NumBlocks \in Nat \ {0}
    /\ CachePolicies \subseteq {"lru", "arc"}
    /\ Scale \in Nat \ {0}
    /\ \A n \in 1 .. NumBlocks : Scale % n = 0

NewManager(policy) ==
    [policy |-> policy, t1 |-> <<>>, t2 |-> <<>>, b1 |-> <<>>, b2 |-> <<>>,
     target |-> 0, ref |-> [k \in Key |-> -1], block |-> [k \in Key |-> NoBlock],
     free |-> <<>>, allocated |-> 0]

Stored(m) == ToSet(m.t1) \cup ToSet(m.t2)

MoveToEnd(s, k) == Append(Remove(s, k), k)

-----------------------------------------------------------------------------
(* touch *)

LRUTouch(m, k) ==
    IF k \in ToSet(m.t1) THEN [m EXCEPT !.t1 = MoveToEnd(@, k)] ELSE m

\* max(1, len(other) / len(hit))
Delta(hit, other) == Max({Scale, (Len(other) * Scale) \div Len(hit)})

ARCTouch(m, k) ==
    CASE k \in ToSet(m.t1) /\ m.ref[k] < 0 -> [m EXCEPT !.t1 = MoveToEnd(@, k)]
      [] k \in ToSet(m.t1) /\ m.ref[k] >= 0 ->
            [m EXCEPT !.t1 = Remove(@, k), !.t2 = Append(@, k)]
      [] k \in ToSet(m.t2) -> [m EXCEPT !.t2 = MoveToEnd(@, k)]
      [] k \in ToSet(m.b1) ->
            [m EXCEPT !.target = Min({@ + Delta(m.b1, m.b2), NumBlocks * Scale}),
                      !.b1 = MoveToEnd(@, k)]
      [] k \in ToSet(m.b2) ->
            [m EXCEPT !.target = Max({@ - Delta(m.b2, m.b1), 0}),
                      !.b2 = MoveToEnd(@, k)]
      [] OTHER -> m

Touch(m, keys) ==
    FoldLeft(LAMBDA n, k : IF m.policy = "lru" THEN LRUTouch(n, k) ELSE ARCTouch(n, k),
             m, Reverse(keys))

-----------------------------------------------------------------------------
(* evict: the sequence of the keys to evict; shorter than n when the       *)
(* policy finds too few                                                    *)

\* Mutant: a block that is being read may be evicted
EvictableReady(m, protected) ==
    {k \in Stored(m) : m.ref[k] >= 0} \ protected

Evictable(m, protected) == {k \in Stored(m) : m.ref[k] = 0} \ protected

LRUCandidates(m, n, protected) ==
    LET all == SelectSeq(m.t1, LAMBDA k : k \in Evictable(m, protected))
    IN  SubSeq(all, 1, Min({n, Len(all)}))

\* One round of the loop: T1 gives a block when it has its target size and a
\* block to give, T2 otherwise
ARCRound(m, protected, chosen) ==
    LET Left(list) == SelectSeq(list, LAMBDA k :
                        k \in Evictable(m, protected) /\ k \notin ToSet(chosen))
        size == Len(m.t1) - Cardinality(ToSet(chosen) \cap ToSet(m.t1))
    IN  IF size >= m.target \div Scale /\ Left(m.t1) # <<>> THEN Append(chosen, Left(m.t1)[1])
        ELSE IF Left(m.t2) # <<>> THEN Append(chosen, Left(m.t2)[1])
        ELSE chosen

ARCCandidates(m, n, protected) ==
    FoldLeft(LAMBDA chosen, i : ARCRound(m, protected, chosen), <<>>, [i \in 1 .. n |-> i])

Candidates(m, n, protected) ==
    IF m.policy = "lru" THEN LRUCandidates(m, n, protected)
                        ELSE ARCCandidates(m, n, protected)

Trim(ghost) == SubSeq(ghost, Max({1, Len(ghost) - NumBlocks + 1}), Len(ghost))

\* Evicted keys leave T1 and T2, ARC remembers them in B1 and B2, and the
\* manager puts their blocks on the free list
Evict(m, keys) ==
    LET In(s) == SelectSeq(keys, LAMBDA k : k \in ToSet(s))
        Without(s) == SelectSeq(s, LAMBDA k : k \notin ToSet(keys))
        Ghosts(ghost, s) == IF m.policy = "lru" \/ keys = <<>>
                            THEN ghost ELSE Trim(ghost \o In(s))
    IN  [m EXCEPT !.t1 = Without(@),
                  !.t2 = Without(@),
                  !.b1 = Ghosts(@, m.t1),
                  !.b2 = Ghosts(@, m.t2),
                  !.ref = [k \in Key |-> IF k \in ToSet(keys) THEN -1 ELSE @[k]],
                  !.block = [k \in Key |-> IF k \in ToSet(keys) THEN NoBlock ELSE @[k]],
                  !.free = @ \o [i \in DOMAIN keys |-> m.block[keys[i]]]]

-----------------------------------------------------------------------------
(* prepare_store and complete_store *)

NumFreeBlocks(m) == Len(m.free) + NumBlocks - m.allocated

\* Mutant: the block is not taken off the free list
InsertKeepsFree(m, k) ==
    [m EXCEPT !.t1 = Append(@, k),
              !.block[k] = IF m.free = <<>> THEN m.allocated ELSE Last(m.free),
              !.allocated = IF m.free = <<>> THEN @ + 1 ELSE @]

\* Mutant: a block is not initialised as "not ready"
InsertReady(m, k) ==
    LET fresh == m.allocated < NumBlocks
    IN  [m EXCEPT !.t1 = Append(@, k),
                  !.ref[k] = 0,
                  !.block[k] = IF fresh THEN m.allocated ELSE Last(m.free),
                  !.allocated = IF fresh THEN @ + 1 ELSE @,
                  !.free = IF fresh THEN @ ELSE Front(@)]

\* _allocate_blocks for one key, and insert: a fresh block as long as there is
\* one, else the block that was freed last
Insert(m, k) ==
    LET fresh == m.allocated < NumBlocks
    IN  [m EXCEPT !.t1 = Append(@, k),
                  !.b1 = Remove(@, k),
                  !.b2 = Remove(@, k),
                  !.block[k] = IF fresh THEN m.allocated ELSE Last(m.free),
                  !.allocated = IF fresh THEN @ + 1 ELSE @,
                  !.free = IF fresh THEN @ ELSE Front(@)]

KeysToStore(m, keys) == SelectSeq(keys, LAMBDA k : k \notin Stored(m))

NumToEvict(m, keys) == Max({0, Len(KeysToStore(m, keys)) - NumFreeBlocks(m)})

ToEvict(m, keys) == Candidates(m, NumToEvict(m, keys), ToSet(keys))

\* prepare_store does not return None
CanStore(m, keys) == Len(ToEvict(m, keys)) = NumToEvict(m, keys)

PrepareStore(m, keys) ==
    FoldLeft(Insert, Evict(m, ToEvict(m, keys)), KeysToStore(m, keys))

CompleteStore(m, keys) ==
    [m EXCEPT !.ref = [k \in Key |->
        IF k \in keys /\ k \in Stored(m) /\ @[k] < 0 THEN 0 ELSE @[k]]]

-----------------------------------------------------------------------------
(* lookup, prepare_load and complete_load *)

Lookup(m, k) == k \in Stored(m) /\ m.ref[k] >= 0

PrepareLoad(m, keys) ==
    [m EXCEPT !.ref = [k \in Key |-> IF k \in keys THEN @[k] + 1 ELSE @[k]]]

CompleteLoad(m, keys) ==
    [m EXCEPT !.ref = [k \in Key |-> IF k \in keys THEN @[k] - 1 ELSE @[k]]]
=============================================================================
