----------------------------- MODULE WaveBuffer -----------------------------
(***************************************************************************)
(* The wave buffer of one attention group and one layer: the clusters of   *)
(* the retrieval zone in CPU memory, an LRU cache of their blocks on the   *)
(* GPU (retroinfer_kernels/src/wave_buffer_cpu.cpp, BufferManager) and the *)
(* kernels that fill the execution buffer from both and the cache from the *)
(* execution buffer (copy_kernel.cuh), in the order in which               *)
(* cache_hub/retroinfer_cache.py issues them.                              *)
(*                                                                         *)
(* A vector is the number of its token.  The GPU executes its stream       *)
(* concurrently with the host and the pool and reads the index arrays,     *)
(* which are in pinned memory, when a kernel runs.  A call that waits for  *)
(* the pool is one step here: it returns when the jobs are done.           *)
(***************************************************************************)
EXTENDS Integers, Sequences, FiniteSets, FiniteSetsExt, SequencesExt, Functions

CONSTANTS Size,         \* sequence: number of vectors of each cluster
          BuiltFirst,   \* clusters built in the prefill; update_kv adds the others
          BlockSize,    \* block_size
          Capacity,     \* blocks of the GPU cache
          BufferSize,   \* max_consider_block
          NProbe,       \* clusters that are retrieved
          UpdateNProbe, \* UPDATE_NPROBE
          StaticStart, StaticEnd,  \* tokens that stay in the steady zone
          Splits,       \* SPLIT_FACTOR - 1, CUDA blocks that copy chunks
          MaxContext    \* bound: tokens

Cluster == DOMAIN Size
Block == 0 .. Capacity - 1
Junk == 0

SumOf(f, S) == FoldFunctionOnSet(+, 0, f, S)

\* UPDATE_SEGMENT: what the clusters of an update hold
UpdateSegment == SumOf(Size, BuiltFirst + 1 .. Len(Size))

\* The buffers in vectors
ExecutionStride == StaticStart + StaticEnd + UpdateSegment + BufferSize * BlockSize

\* topk finds enough clusters that are not empty
ASSUME WaveAssumption ==
    /\ Size \in Seq(Nat) /\ BuiltFirst \in 1 .. Len(Size) - 1
    /\ {BlockSize, Capacity, BufferSize, NProbe, StaticStart, StaticEnd, UpdateSegment}
            \subseteq Nat \ {0}
    /\ Splits \in Nat \ {0, 1} /\ {UpdateNProbe, MaxContext} \subseteq Nat
    /\ NProbe <= Cardinality({c \in 1 .. BuiltFirst : Size[c] > 0})
    /\ NProbe + UpdateNProbe <= Cardinality({c \in Cluster : Size[c] > 0})

VARIABLES pc,          \* the host: "choose", "access", "launch", "sync"
          context,     \* tokens so far
          steady,      \* the steady zone
          list,        \* ivf_key_array: the vectors of the clusters
          numClusters, \* last_n_centroids
          start,       \* ClusterDescriptor.CPUStartIndex
          searched,    \* searched_clusters
          update,      \* the update of the cache by the pool
          inCache,     \* clusters with ClusterDescriptor.inBlockCache
          gpuBlocks,   \* ClusterDescriptor.GPUBlockIDs
          free,        \* free_block_ids
          lru,         \* lru_keys, most recent first
          missKeys, hitKeys,   \* _miss_keys, _hit_keys
          miss, hit, upd,      \* index arrays of [src, size, dst]
          stream,      \* kernels launched and not finished
          cacheMem,    \* cache_keys and cache_values
          execMem,     \* the execution buffer
          valid,       \* valid_lengths
          attended     \* the vectors of the last attention

zoneVars == <<context, steady, list, numClusters, start>>
lruVars == <<inCache, gpuBlocks, free, lru>>
indexVars == <<missKeys, hitKeys, miss, hit>>
memVars == <<cacheMem, execMem, valid, attended>>
waveVars == <<pc, zoneVars, searched, update, lruVars, indexVars, upd, stream, memVars>>

-----------------------------------------------------------------------------
(* Descriptors, as construct_func and update_kv_func fill them in *)

Cdiv(n, d) == (n + d - 1) \div d

BlockNum(c) == Cdiv(Size[c], BlockSize)
LastBlockSize(c) == IF Size[c] % BlockSize = 0 THEN BlockSize ELSE Size[c] % BlockSize

\* Where cluster c starts, when clusters from first on are appended at from
CPUStartIndex(c, first, from) == from + SumOf(Size, first .. c - 1)

\* The number of vectors in an array of chunks
Total(arr) == IF arr = << >> THEN 0 ELSE Last(arr).dst + Last(arr).size

\* A cluster's blocks, as batch_access and batch_update walk them: all but the
\* last one in a loop, and then the last one
AddChunks(arr, c) ==
    arr \o [j \in 1 .. Max({1, BlockNum(c)}) |->
               [key |-> c, nr |-> j,
                size |-> IF j < BlockNum(c) THEN BlockSize ELSE LastBlockSize(c),
                dst |-> Total(arr) + (j - 1) * BlockSize]]

Chunks(keys) == FoldLeft(AddChunks, << >>, keys)

NumBlocks(keys) == FoldLeft(LAMBDA n, c : n + BlockNum(c), 0, keys)

\* The longest prefix of keys whose blocks fit
FitPrefix(keys, bound) ==
    SubSeq(keys, 1, Max({n \in 0 .. Len(keys) : NumBlocks(SubSeq(keys, 1, n)) <= bound}))

Built == SumOf(Size, 1 .. BuiltFirst)

WaveTypeOK ==
    /\ pc \in {"choose", "access", "launch", "sync"}
    /\ steady \in Seq(1 .. context) /\ list \in Seq(1 .. context)
    /\ numClusters \in {BuiltFirst, Len(Size)} /\ start \in [Cluster -> 0 .. context]
    /\ update \in {"none", "submitted", "evict"}
    /\ inCache \subseteq Cluster /\ gpuBlocks \in [Cluster -> Seq(Block)] /\ free \subseteq Block
    /\ {lru, missKeys, hitKeys, searched} \subseteq Seq(Cluster)
    /\ Len(miss) + Len(hit) <= BufferSize /\ Len(upd) <= Min({BufferSize, Capacity})
    /\ stream \in Seq({"concat", "attend", "scatter"})
    /\ valid \in 0 .. ExecutionStride

\* After the prefill
WaveInit ==
    /\ pc = "choose"
    /\ context = Built + StaticStart + StaticEnd
    /\ list = [i \in 1 .. Built |-> i]
    /\ steady = [i \in 1 .. StaticStart + StaticEnd |-> Built + i]
    /\ numClusters = BuiltFirst
    /\ start = [c \in Cluster |-> IF c <= BuiltFirst THEN CPUStartIndex(c, 1, 0) ELSE 0]
    /\ searched = << >> /\ update = "none"
    /\ inCache = {} /\ gpuBlocks = [c \in Cluster |-> << >>]
    /\ free = Block /\ lru = << >>
    /\ missKeys = << >> /\ hitKeys = << >>
    /\ miss = << >> /\ hit = << >> /\ upd = << >>
    /\ stream = << >>
    /\ cacheMem = [b \in Block |-> [v \in 1 .. BlockSize |-> Junk]]
    /\ execMem = [p \in 0 .. ExecutionStride - 1 |-> Junk]
    /\ valid = 0 /\ attended = << >>

-----------------------------------------------------------------------------
(* Host *)

\* The mask of empty clusters: topk takes the others first
Unmasked(n) == {c \in 1 .. n : Size[c] > 0}

\* cluster_ids.copy_ returns when everything on the stream is done
StreamDone == stream = << >>

\* _update_kv_cache moves the local window to the start of the steady zone
MoveWindow == SubSeq(steady, 1, StaticStart)
                  \o SubSeq(steady, Len(steady) - StaticEnd + 1, Len(steady))

\* decode_update_kv_cache with _update_kv_cache: what was generated between the
\* first tokens and the local window becomes clusters; then the new token
\* is appended
UpdateKV ==
    IF Len(steady) = StaticStart + StaticEnd + UpdateSegment
    THEN /\ numClusters < Len(Size)
         /\ numClusters' = Len(Size)
         /\ list' = list \o SubSeq(steady, StaticStart + 1, Len(steady) - StaticEnd)
         /\ start' = [c \in Cluster |-> IF c > BuiltFirst
                                       THEN CPUStartIndex(c, BuiltFirst + 1, Len(list)) ELSE start[c]]
         /\ inCache' = inCache \ (BuiltFirst + 1 .. Len(Size))
         /\ steady' = Append(MoveWindow, context + 1)
    ELSE /\ steady' = Append(steady, context + 1)
         /\ UNCHANGED <<list, start, numClusters, inCache>>

\* The clusters to retrieve are chosen and copied to the host
Choose ==
    /\ pc = "choose" /\ StreamDone
    /\ context < MaxContext
    /\ pc' = "access"
    /\ context' = context + 1
    /\ UpdateKV
    /\ LET nprobe == IF numClusters' = BuiltFirst THEN NProbe ELSE NProbe + UpdateNProbe
       IN  searched' \in {keys \in [1 .. nprobe -> Unmasked(numClusters')] : IsInjective(keys)}
    /\ UNCHANGED <<update, gpuBlocks, free, lru, indexVars, upd, stream, memVars>>

\* batch_access, and the submission of the update of the cache
BatchAccess ==
    /\ pc = "access" /\ pc' = "launch"
    /\ LET considered == FitPrefix(searched, BufferSize)
           missed == SelectSeq(considered, LAMBDA c : c \notin inCache)
           found == SelectSeq(considered, LAMBDA c : c \in inCache)
           mch == Chunks(missed)
           hch == Chunks(found)
       IN  /\ missKeys' = missed /\ hitKeys' = found
           /\ miss' = [i \in DOMAIN mch |->
                         [src |-> start[mch[i].key] + (mch[i].nr - 1) * BlockSize,
                          size |-> mch[i].size, dst |-> mch[i].dst]]
           /\ hit' = [i \in DOMAIN hch |->
                         [src |-> gpuBlocks[hch[i].key][hch[i].nr],
                          size |-> hch[i].size, dst |-> hch[i].dst]]
    /\ update' = "submitted"
    /\ UNCHANGED <<zoneVars, searched, lruVars, upd, stream, memVars>>

\* gather_copy_and_concat and weighted_flash_decoding are launched
Launch ==
    /\ pc = "launch" /\ pc' = "sync"
    /\ stream' = stream \o <<"concat", "attend">>
    /\ UNCHANGED <<zoneVars, searched, update, lruVars, indexVars, upd, memVars>>

\* Mutant: sync is left out
NoPoolSync == TRUE

\* sync returns when the update of the cache has ended
PoolDone == update = "none"

\* gather_copy_and_scatter is launched
Sync ==
    /\ pc = "sync" /\ PoolDone
    /\ pc' = "choose"
    /\ stream' = Append(stream, "scatter")
    /\ UNCHANGED <<zoneVars, searched, update, lruVars, indexVars, upd, memVars>>

-----------------------------------------------------------------------------
(* BufferManager::batch_update, by the pool *)

\* The missing clusters that fit in the cache
Admitted == FitPrefix(missKeys, Capacity)

\* The hits move to the front of the LRU list
RefreshHits ==
    /\ update = "submitted"
    /\ lru' = hitKeys \o SelectSeq(lru, LAMBDA c : c \notin Range(hitKeys))
    /\ hitKeys' = << >>
    /\ IF Admitted = << >>
       THEN update' = "none" /\ missKeys' = << >> /\ upd' = << >>
       ELSE update' = "evict" /\ UNCHANGED <<missKeys, upd>>
    /\ UNCHANGED <<pc, zoneVars, searched, inCache, gpuBlocks, free, miss, hit, stream, memVars>>

SetToMiss(c) == inCache \ {c}

\* removeLeastRecentlyUsed, as long as there is no room
RemoveLeastRecentlyUsed ==
    /\ update = "evict" /\ Cardinality(free) < NumBlocks(Admitted)
    /\ IF lru = << >>
       THEN UNCHANGED lruVars
       ELSE /\ lru' = Front(lru)
            /\ free' = free \cup Range(gpuBlocks[Last(lru)])
            /\ inCache' = SetToMiss(Last(lru))
            /\ gpuBlocks' = [gpuBlocks EXCEPT ![Last(lru)] = << >>]
    /\ UNCHANGED <<pc, zoneVars, searched, update, indexVars, upd, stream, memVars>>

\* The admitted clusters take free blocks; which ones makes no difference
Insert ==
    LET chunks == Chunks(Admitted)
        given == FoldSet(LAMBDA b, seq : Append(seq, b), << >>, free)
    IN  /\ update = "evict" /\ Cardinality(free) >= NumBlocks(Admitted)
        /\ update' = "none" /\ missKeys' = << >>
        /\ inCache' = inCache \cup Range(Admitted)
        /\ lru' = Reverse(Admitted) \o lru
        /\ gpuBlocks' = [c \in Cluster |->
              IF c \in Range(Admitted)
              THEN [j \in 1 .. Max({1, BlockNum(c)}) |->
                       given[CHOOSE i \in DOMAIN chunks : chunks[i].key = c /\ chunks[i].nr = j]]
              ELSE gpuBlocks[c]]
        /\ free' = free \ {given[i] : i \in DOMAIN chunks}
        /\ upd' = [i \in DOMAIN chunks |->
              [src |-> chunks[i].dst, size |-> chunks[i].size, dst |-> given[i]]]
        /\ UNCHANGED <<pc, zoneVars, searched, hitKeys, miss, hit, stream, memVars>>

BatchUpdate == RefreshHits \/ RemoveLeastRecentlyUsed \/ Insert

-----------------------------------------------------------------------------
(* GPU *)

\* Mutant: the hits may be left without a CUDA block
Blocks2NoMin(num2, num3) == IF num3 = 0 THEN Splits ELSE Cdiv(Splits * num2, num2 + num3)

\* concat_gather_copy: how many CUDA blocks copy from the list
Blocks2(num2, num3) ==
    IF num3 = 0 THEN Splits ELSE Min({Cdiv(Splits * num2, num2 + num3), Splits - 1})

\* The chunks of num that n CUDA blocks copy
Copied(num, n) ==
    {i \in 1 .. num : \E id \in 0 .. n - 1 : id * Cdiv(num, n) < i /\ i <= (id + 1) * Cdiv(num, n)}

\* A vector of the list; past its end there is no defined value
ListVector(i) == IF i < Len(list) THEN list[i + 1] ELSE Junk

\* concat_gather_copy: the steady zone, the missing clusters, the hits
Concat ==
    LET blocks2 == Blocks2(Len(miss), Len(hit))
        fromList == Copied(Len(miss), blocks2)
        fromCache == Copied(Len(hit), Splits - blocks2)
        num1 == Len(steady)
        num2 == Total(miss)
        Holds(arr, i, p) == arr[i].dst <= p /\ p < arr[i].dst + arr[i].size
    IN  /\ execMem' = [p \in DOMAIN execMem |->
              CASE p < num1 -> steady[p + 1]
                [] \E i \in fromList : Holds(miss, i, p - num1) ->
                      LET i == CHOOSE i \in fromList : Holds(miss, i, p - num1)
                      IN  ListVector(miss[i].src + p - num1 - miss[i].dst)
                [] \E i \in fromCache : Holds(hit, i, p - num1 - num2) ->
                      LET i == CHOOSE i \in fromCache : Holds(hit, i, p - num1 - num2)
                      IN  cacheMem[hit[i].src][p - num1 - num2 - hit[i].dst + 1]
                [] OTHER -> execMem[p]]
        /\ valid' = num1 + num2 + Total(hit)
        /\ UNCHANGED <<cacheMem, attended>>

\* weighted_flash_decoding
Attend ==
    /\ attended' = [i \in 1 .. valid |-> execMem[i - 1]]
    /\ UNCHANGED <<cacheMem, execMem, valid>>

\* src_cpy_start_ptr, the length of the steady zone
ScatterStart == Len(steady)

\* gather_copy_scatter: the admitted clusters go from the buffer to the cache
Scatter ==
    /\ cacheMem' = [b \in Block |-> [v \in 1 .. BlockSize |->
          IF \E i \in DOMAIN upd : upd[i].dst = b /\ v <= upd[i].size
          THEN LET i == CHOOSE i \in DOMAIN upd : upd[i].dst = b
               IN  execMem[ScatterStart + upd[i].src + v - 1]
          ELSE cacheMem[b][v]]]
    /\ UNCHANGED <<execMem, valid, attended>>

Kernel ==
    /\ stream # << >>
    /\ stream' = Tail(stream)
    /\ \/ Head(stream) = "concat" /\ Concat
       \/ Head(stream) = "attend" /\ Attend
       \/ Head(stream) = "scatter" /\ Scatter
    /\ UNCHANGED <<pc, zoneVars, searched, update, lruVars, indexVars, upd>>

-----------------------------------------------------------------------------
Host == Choose \/ BatchAccess \/ Launch \/ Sync

\* The generation ends at the bound, or where a second update would follow
Ended ==
    /\ pc = "choose" /\ StreamDone
    /\ \/ context = MaxContext
       \/ numClusters = Len(Size) /\ Len(steady) = StaticStart + StaticEnd + UpdateSegment
    /\ UNCHANGED waveVars

WaveNext == Host \/ BatchUpdate \/ Kernel \/ Ended

WaveSpec == WaveInit /\ [][WaveNext]_waveVars

-----------------------------------------------------------------------------
(* Properties *)

\* The tokens of cluster c
Members(c) == LET before == SumOf(Size, 1 .. c - 1) IN {list[before + i] : i \in 1 .. Size[c]}

\* An attention (sparse_attention) sees the steady zone and every vector of the
\* retrieved clusters, as far as they fit in the buffer, each exactly once,
\* wherever they came from: nothing of another cluster, of an evicted block or
\* of an earlier step.
AttendsRetrieved ==
    (pc \in {"choose", "sync"} /\ attended # << >> /\ "attend" \notin Range(stream)) =>
        /\ IsInjective(attended)
        /\ Range(attended) = Range(steady)
               \cup UNION {Members(c) : c \in Range(FitPrefix(searched, BufferSize))}

\* Once the stream has caught up, the cache (batch_update, gather_copy_scatter)
\* holds the vectors of every cluster that the descriptors call cached.
CacheHoldsClusters ==
    (pc = "choose" /\ StreamDone) =>
        \A c \in inCache :
            Members(c) = {cacheMem[gpuBlocks[c][((i - 1) \div BlockSize) + 1]]
                                  [((i - 1) % BlockSize) + 1] : i \in 1 .. Size[c]}

\* Every block is free or belongs to exactly one cached cluster, and the LRU list
\* names each cached cluster once, so that evicting (removeLeastRecentlyUsed)
\* always makes room.
BlocksAccounted ==
    /\ IsInjective(lru) /\ Range(lru) = inCache
    /\ \A c, d \in inCache : c # d => Range(gpuBlocks[c]) \cap Range(gpuBlocks[d]) = {}
    /\ free = Block \ UNION {Range(gpuBlocks[c]) : c \in inCache}

\* Every token of the context is in the steady zone or in exactly one cluster,
\* also after _update_kv_cache moved some from one to the other.
ContextCovered ==
    /\ IsInjective(steady \o list)
    /\ Range(steady) \cup UNION {Members(c) : c \in 1 .. numClusters} = 1 .. context

\* The wave buffer and the index are consistent at every step of host, pool and
\* stream.
WaveInv == WaveTypeOK /\ CacheHoldsClusters /\ BlocksAccounted /\ ContextCovered

=============================================================================
