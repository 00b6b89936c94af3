----------------------------- MODULE PrefixCache -----------------------------
(***************************************************************************)
(* Prefix caching: the block pool with its cache (block_pool.py), the      *)
(* manager of one full-attention group (single_type_kv_cache_manager.py),  *)
(* kv_cache_manager.py above them, and the two loops of schedule() that    *)
(* drive them, without a connector and without speculative tokens.         *)
(*                                                                         *)
(* The hash of a block is the prefix of tokens it ends: equal hashes mean  *)
(* equal prefixes.  The KV of a token depends on all tokens before it, so  *)
(* a slot of a block holds a prefix too.  What a request will sample is    *)
(* fixed beforehand: Tokens[r] has its prompt and its outputs.             *)
(***************************************************************************)
EXTENDS Integers, Sequences, FiniteSets, SequencesExt, FiniteSetsExt

CONSTANTS Request,      \* numbers of requests
          Tokens,       \* [Request -> Seq(token)]: prompt and outputs
          PromptLen,    \* [Request -> length of the prompt]
          NumBlocks,    \* blocks of the pool, the null block left out
          BlockSize,
          Budget,       \* max_num_scheduled_tokens
          LongPrefill,  \* long_prefill_token_threshold, 0 for none
          Policy,       \* "fcfs" or "priority"
          Priority,     \* [Request -> priority], different for different requests
          Aborted,      \* bound: requests that their clients may abort
          MaxResets,    \* bound: calls of reset_prefix_cache that succeed
          None

ASSUME PrefixAssumption ==
    /\ NumBlocks \in Nat \ {0} /\ BlockSize \in Nat \ {0} /\ Budget \in Nat \ {0}
    /\ \A r \in Request : PromptLen[r] \in 1 .. Len(Tokens[r])
    /\ Policy \in {"fcfs", "priority"}
    /\ None \notin Seq(Nat)

VARIABLES pool,       \* BlockPool
          kv,         \* what the slots of each block hold: a prefix, and when it was computed
          epoch,      \* resets of the cache so far
          table,      \* req_to_blocks
          numCached,  \* num_cached_block, 0 when absent
          computed,   \* request.num_computed_tokens
          numTokens,  \* request.num_tokens, 0 when the request is not in the scheduler
          running, waiting,
          pc,
          step        \* locals of schedule(): position, budget, tokens given, victims

vars == <<pool, kv, epoch, table, numCached, computed, numTokens, running, waiting, pc, step>>
reqVars == <<table, numCached, computed, numTokens>>

Block == 1 .. NumBlocks
Prefix(r, n) == SubSeq(Tokens[r], 1, n)
AtLeastZero(n) == Max({n, 0})
Cdiv(n) == (n + BlockSize - 1) \div BlockSize
Slot(n) == ((n - 1) % BlockSize) + 1       \* of the n-th token in its block
Hash == UNION {{Prefix(r, k * BlockSize) : k \in 1 .. Len(Tokens[r]) \div BlockSize} : r \in Request}
NoStep == [index |-> 1, budget |-> Budget, toks |-> [r \in Request |-> 0], preempted |-> {}]

PrefixTypeOK ==
    /\ pool.queue \in Seq(Block) /\ pool.ref \in [Block -> Nat]
    /\ pool.hash \in [Block -> Hash \cup {None}] /\ DOMAIN pool.cache = Hash
    /\ table \in [Request -> Seq(Block)]
    /\ \A r \in Request :
          /\ numTokens[r] \in 0 .. Len(Tokens[r])
          /\ computed[r] \in 0 .. numTokens[r]
          /\ numCached[r] \in 0 .. Len(table[r])
    /\ pc \in {"input", "running", "waiting", "execute", "output"}
    /\ epoch \in 0 .. MaxResets

PrefixInit ==
    /\ pool = [queue |-> [b \in Block |-> b], ref |-> [b \in Block |-> 0],
               hash |-> [b \in Block |-> None], cache |-> [h \in Hash |-> << >>],
               failed |-> FALSE]
    /\ kv = [b \in Block |-> [i \in 1 .. BlockSize |-> << >>]]
    /\ epoch = 0
    /\ table = [r \in Request |-> << >>]
    /\ numCached = [r \in Request |-> 0]
    /\ computed = [r \in Request |-> 0] /\ numTokens = [r \in Request |-> 0]
    /\ running = << >> /\ waiting = << >>
    /\ pc = "input" /\ step = NoStep

-----------------------------------------------------------------------------
(* BlockPool; failed is set where an assert or a ValueError is raised *)

\* _maybe_evict_cached_block, with BlockHashToBlockMap.pop
MaybeEvict(p, b) ==
    IF p.hash[b] # None /\ Contains(p.cache[p.hash[b]], b)
    THEN [p EXCEPT !.cache[p.hash[b]] = SelectSeq(@, LAMBDA c : c # b), !.hash[b] = None]
    ELSE p

\* get_new_blocks for the first n blocks of the queue
GetNewBlocks(p, n) ==
    IF n > Len(p.queue) THEN [p EXCEPT !.failed = TRUE]
    ELSE FoldLeft(LAMBDA q, b :
                      LET e == MaybeEvict(q, b)
                      IN  [e EXCEPT !.ref[b] = @ + 1, !.failed = @ \/ e.ref[b] # 0],
                  [p EXCEPT !.queue = SubSeq(@, n + 1, Len(@))],
                  SubSeq(p.queue, 1, n))

\* Mutant: the block stays in the free queue
TouchInQueue(p, blocks) ==
    FoldLeft(LAMBDA q, b : [q EXCEPT !.ref[b] = @ + 1], p, blocks)

Touch(p, blocks) ==
    FoldLeft(LAMBDA q, b : [q EXCEPT !.queue = SelectSeq(@, LAMBDA c : c # b),
                                     !.ref[b] = @ + 1],
             p, blocks)

\* cache_full_blocks: the blocks of r's table from the first not cached to the
\* last full one, with BlockHashToBlockMap.insert
CacheFullBlocks(p, r, blocks, cached, full) ==
    FoldLeft(LAMBDA q, i :
                LET b == blocks[i]
                    h == Prefix(r, i * BlockSize)
                IN  [q EXCEPT !.hash[b] = h, !.cache[h] = Append(@, b),
                              !.failed = @ \/ q.hash[b] # None],
             p, [i \in 1 .. AtLeastZero(full - cached) |-> cached + i])

\* free_blocks: a block of the list is in the queue once its count is 0
FreeBlocks(p, blocks) ==
    LET ref == [b \in Block |-> IF Contains(blocks, b) THEN p.ref[b] - 1 ELSE p.ref[b]]
    IN  [p EXCEPT !.ref = ref, !.queue = @ \o SelectSeq(blocks, LAMBDA b : ref[b] = 0)]

-----------------------------------------------------------------------------
(* KVCacheManager *)

\* get_computed_blocks, find_longest_cache_hit, get_one_block
ComputedBlocks(r) ==
    LET hits == {k \in 0 .. (numTokens[r] - 1) \div BlockSize :
                    \A i \in 1 .. k : pool.cache[Prefix(r, i * BlockSize)] # << >>}
    IN  [i \in 1 .. Max(hits) |-> Head(pool.cache[Prefix(r, i * BlockSize)])]

NewBlocks(r, hit, n) == AtLeastZero(Cdiv(n) - Len(hit) - Len(table[r]))

\* get_num_blocks_to_allocate for n tokens, hit the blocks found in the cache
NumBlocksToAllocate(r, hit, n) ==
    NewBlocks(r, hit, n) + Cardinality({i \in DOMAIN hit : pool.ref[hit[i]] = 0})

Fits(r, hit, n) == NumBlocksToAllocate(r, hit, n) <= Len(pool.queue)

\* Mutant: the last block need not be full
NumBegunBlocks(n) == Cdiv(n)

\* The blocks that cache_blocks caches for n tokens
NumFullBlocks(n) == n \div BlockSize

\* allocate_slots when the blocks fit: the blocks up to token n, the full ones
\* put in the cache before anything is computed
AllocateSlots(r, hit, n) ==
    LET new == NewBlocks(r, hit, n)
        touched == Touch(pool, hit)
        got == GetNewBlocks(touched, new)
        blocks == table[r] \o hit \o SubSeq(touched.queue, 1, new)
        cached == numCached[r] + Len(hit)
        full == NumFullBlocks(n)
    IN  IF got.failed
        THEN pool' = [pool EXCEPT !.failed = TRUE] /\ UNCHANGED <<table, numCached>>
        ELSE /\ pool' = CacheFullBlocks(got, r, blocks, cached, full)
             /\ table' = [table EXCEPT ![r] = blocks]
             /\ numCached' = [numCached EXCEPT ![r] = Max({cached, full})]

\* Mutants: num_cached_block keeps its entry; the first block of the request is
\* the first to be evicted
FreeKeepsCount(r) ==
    /\ pool' = FreeBlocks(pool, Reverse(table[r]))
    /\ table' = [table EXCEPT ![r] = << >>]
    /\ UNCHANGED numCached
FreeInOrder(r) ==
    /\ pool' = FreeBlocks(pool, table[r])
    /\ table' = [table EXCEPT ![r] = << >>]
    /\ numCached' = [numCached EXCEPT ![r] = 0]

\* free: the last block first
Free(r) ==
    /\ pool' = FreeBlocks(pool, Reverse(table[r]))
    /\ table' = [table EXCEPT ![r] = << >>]
    /\ numCached' = [numCached EXCEPT ![r] = 0]

-----------------------------------------------------------------------------
(* Requests and the cache between two steps *)

Before(r, s) == Priority[r] < Priority[s]
Ordered(q) == IF Policy = "fcfs" THEN q ELSE SortSeq(q, Before)

AddRequest(r) ==
    /\ pc = "input"
    /\ numTokens[r] = 0
    /\ numTokens' = [numTokens EXCEPT ![r] = PromptLen[r]]
    /\ waiting' = Ordered(Append(waiting, r))
    /\ UNCHANGED <<pool, kv, epoch, table, numCached, computed, running, pc, step>>

\* finish_requests for a request that is aborted; it may come again
Abort(r) ==
    /\ pc = "input"
    /\ r \in Aborted /\ numTokens[r] > 0
    /\ Free(r)
    /\ numTokens' = [numTokens EXCEPT ![r] = 0]
    /\ computed' = [computed EXCEPT ![r] = 0]
    /\ running' = SelectSeq(running, LAMBDA s : s # r)
    /\ waiting' = SelectSeq(waiting, LAMBDA s : s # r)
    /\ UNCHANGED <<kv, epoch, pc, step>>

\* BlockPool.reset_prefix_cache
ResetCache(p) == [p EXCEPT !.cache = [h \in Hash |-> << >>], !.hash = [b \in Block |-> None]]

\* Scheduler.reset_prefix_cache, which may preempt what runs; without that it
\* does nothing while a block is in use
ResetPrefixCache(resetRunning) ==
    LET freed == FoldLeft(LAMBDA p, r : FreeBlocks(p, Reverse(table[r])), pool, Reverse(running))
    IN  /\ pc = "input"
        /\ epoch < MaxResets
        /\ resetRunning \/ Len(pool.queue) = NumBlocks
        /\ pool' = ResetCache(freed)
        /\ table' = [r \in Request |-> << >>]
        /\ numCached' = [r \in Request |-> 0]
        /\ computed' = [r \in Request |-> 0]
        /\ waiting' = Ordered(running \o waiting)
        /\ running' = << >>
        /\ epoch' = epoch + 1
        /\ UNCHANGED <<kv, numTokens, pc, step>>

-----------------------------------------------------------------------------
(* schedule() *)

BeginStep ==
    /\ pc = "input"
    /\ running # << >> \/ waiting # << >>
    /\ pc' = "running"
    /\ step' = NoStep
    /\ UNCHANGED <<pool, kv, epoch, reqVars, running, waiting>>

InRunningLoop == pc = "running" /\ step.index <= Len(running) /\ step.budget > 0

\* The tokens the step gives to r when the first n are computed
NumNewTokens(r, n) ==
    Min({numTokens[r] - n, step.budget} \cup (IF LongPrefill > 0 THEN {LongPrefill} ELSE {}))

ScheduleRunning ==
    LET r == running[step.index]
        new == NumNewTokens(r, computed[r])
    IN  /\ InRunningLoop
        /\ Fits(r, << >>, computed[r] + new)
        /\ AllocateSlots(r, << >>, computed[r] + new)
        /\ step' = [step EXCEPT !.index = @ + 1, !.budget = @ - new, !.toks[r] = new]
        /\ UNCHANGED <<kv, epoch, computed, numTokens, running, waiting, pc>>

Victim ==
    IF Policy = "fcfs" THEN Last(running)
    ELSE CHOOSE v \in ToSet(running) : \A s \in ToSet(running) : s = v \/ Before(s, v)

\* No block for the next request: the victim gives its blocks back, and what
\* this step gave to it is taken back (only the priority victim has any)
Preempt ==
    LET r == running[step.index]
        v == Victim
    IN  /\ InRunningLoop
        /\ ~Fits(r, << >>, computed[r] + NumNewTokens(r, computed[r]))
        /\ Free(v)
        /\ computed' = [computed EXCEPT ![v] = 0]
        /\ running' = SelectSeq(running, LAMBDA s : s # v)
        /\ waiting' = Ordered(<<v>> \o waiting)
        /\ step' = [step EXCEPT !.preempted = @ \cup {v},
                                !.index = IF step.toks[v] > 0 THEN @ - 1 ELSE @,
                                !.budget = @ + step.toks[v], !.toks[v] = 0]
        /\ pc' = IF v = r THEN "execute" ELSE "running"
        /\ UNCHANGED <<kv, epoch, numTokens>>

RunningDone ==
    /\ pc = "running"
    /\ ~InRunningLoop
    /\ pc' = IF step.preempted = {} THEN "waiting" ELSE "execute"
    /\ UNCHANGED <<pool, kv, epoch, reqVars, running, waiting, step>>

Admissible ==
    /\ waiting # << >> /\ step.budget > 0
    /\ LET r == Head(waiting) IN Fits(r, ComputedBlocks(r), numTokens[r])

ScheduleWaiting ==
    LET r == Head(waiting)
        hit == ComputedBlocks(r)
        local == Len(hit) * BlockSize
        new == NumNewTokens(r, local)
    IN  /\ pc = "waiting"
        /\ Admissible
        /\ AllocateSlots(r, hit, local + new)
        /\ computed' = [computed EXCEPT ![r] = local]
        /\ running' = Append(running, r)
        /\ waiting' = Tail(waiting)
        /\ step' = [step EXCEPT !.budget = @ - new, !.toks[r] = new]
        /\ UNCHANGED <<kv, epoch, numTokens, pc>>

\* The batch is executed: its tokens are written, each into its own slot
Execute ==
    /\ \/ pc = "waiting" /\ ~Admissible
       \/ pc = "execute"
    /\ LET Written(b, i) ==
               {n \in Request \X (1 .. Max({Len(Tokens[r]) : r \in Request})) :
                    /\ n[2] \in computed[n[1]] + 1 .. computed[n[1]] + step.toks[n[1]]
                    /\ table[n[1]][Cdiv(n[2])] = b
                    /\ Slot(n[2]) = i}
       IN  kv' = [b \in Block |-> [i \in 1 .. BlockSize |->
                    IF Written(b, i) = {} THEN kv[b][i]
                    ELSE LET n == CHOOSE n \in Written(b, i) : TRUE
                         IN  <<epoch, Prefix(n[1], n[2])>>]]
    /\ computed' = [r \in Request |-> computed[r] + step.toks[r]]
    /\ pc' = "output"
    /\ UNCHANGED <<pool, epoch, table, numCached, numTokens, running, waiting, step>>

\* update_from_output: a request whose tokens are all computed has a new one,
\* or is at its end and gives back its blocks
Output ==
    LET Sampled(r) == step.toks[r] > 0 /\ computed[r] = numTokens[r]
        ended == SelectSeq(running, LAMBDA r : Sampled(r) /\ numTokens[r] = Len(Tokens[r]))
    IN  /\ pc = "output"
        /\ pool' = FoldLeft(LAMBDA p, r : FreeBlocks(p, Reverse(table[r])), pool, ended)
        /\ table' = [r \in Request |-> IF Contains(ended, r) THEN << >> ELSE table[r]]
        /\ numCached' = [r \in Request |-> IF Contains(ended, r) THEN 0 ELSE numCached[r]]
        /\ computed' = [r \in Request |-> IF Contains(ended, r) THEN 0 ELSE computed[r]]
        /\ numTokens' = [r \in Request |->
                CASE Contains(ended, r) -> 0
                  [] ~Contains(ended, r) /\ Sampled(r) -> numTokens[r] + 1
                  [] OTHER -> numTokens[r]]
        /\ running' = SelectSeq(running, LAMBDA r : ~Contains(ended, r))
        /\ pc' = "input"
        /\ step' = NoStep
        /\ UNCHANGED <<kv, epoch, waiting>>

-----------------------------------------------------------------------------
StepNext == BeginStep \/ ScheduleRunning \/ Preempt \/ RunningDone \/ ScheduleWaiting
            \/ Execute \/ Output

PrefixNext ==
    \/ \E r \in Request : AddRequest(r) \/ Abort(r)
    \/ \E resetRunning \in BOOLEAN : ResetPrefixCache(resetRunning)
    \/ StepNext

PrefixSpec == PrefixInit /\ [][PrefixNext]_vars

-----------------------------------------------------------------------------
(* Properties *)

\* A request attends to its own prefix: once a batch is executed, every token
\* counted as computed has its KV, from after the last reset, in the block that
\* the table names.  So a hit is never a block that was reused, never computed or
\* computed with the weights of before a reset.
OwnKV ==
    pc \in {"input", "output"} => \A r \in ToSet(running) : \A n \in 1 .. computed[r] :
        kv[table[r][Cdiv(n)]][Slot(n)] = <<epoch, Prefix(r, n)>>

\* The cache and the hashes of the blocks agree, also for blocks with the same
\* content: an eviction finds the entry of its block.
CacheMatchesHashes ==
    \A b \in Block, h \in Hash : Contains(pool.cache[h], b) <=> pool.hash[b] = h

\* A block is counted once for each table that names it and is in the free
\* queue, once, when none does.
RefCntCountsTables ==
    /\ \A b \in Block :
          /\ pool.ref[b] = Cardinality({r \in Request : Contains(table[r], b)})
          /\ pool.ref[b] = 0 <=> Contains(pool.queue, b)
    /\ IsInjective(pool.queue)

\* "If a block hash is not in the cached_block_hash_to_id, the following block
\* hashes are not computed yet for sure": eviction takes the end of a chain
\* first.
ParentCached ==
    \A h \in Hash : pool.cache[h] # << >> /\ Len(h) > BlockSize =>
        pool.cache[SubSeq(h, 1, Len(h) - BlockSize)] # << >>

\* No assert of the block pool fails and get_new_blocks never has too few
\* blocks: what allocate_slots checks covers what it takes.
PoolAssertionsHold == ~pool.failed

\* get_num_common_prefix_blocks of a running request
NumCommonPrefixBlocks(r) ==
    LET owners == Cardinality({s \in Request : table[s] # << >>})
    IN  Max({k \in 0 .. Len(table[r]) : \A i \in 1 .. k : pool.ref[table[r][i]] = owners})

\* The blocks that cascade attention reads once for all requests are the same
\* for all.
CommonPrefixShared ==
    \A r, s \in ToSet(running) : \A i \in 1 .. NumCommonPrefixBlocks(r) :
        i <= Len(table[s]) /\ table[s][i] = table[r][i]

\* The block pool is consistent: counts, free queue, hashes and cache agree, a
\* chain is cached from its beginning, no assertion fails, and the blocks that
\* count as common are.
PoolInv ==
    /\ PrefixTypeOK /\ CacheMatchesHashes /\ RefCntCountsTables
    /\ ParentCached /\ PoolAssertionsHold /\ CommonPrefixShared
=============================================================================
