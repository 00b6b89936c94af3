# A TLA+ verification project for the NELSSA serving core

NELSSA is a fork of vLLM for long prompts. Prefill and decode run in two workers, a
prefiller P and a decoder D. A long prompt is prefilled as usual; then only the KV
blocks of its first `first_n` and last `last_m` tokens stay on a GPU. The middle is
kept in P's CPU memory, where P answers D's attention queries. P keeps the blocks of a
finished prompt until D has read them over NIXL.

This directory models the code in which the memory, the order and the progress of
requests are decided: block accounting, scheduling, the hand-over between the workers,
and the queues and buffers that concurrent threads, streams and processes share.
`PROJECT.json` names the source lines of every definition, the runs and the hazards.

## Parts and modules

| part of the system | source | modules |
|---|---|---|
| KV cache manager with NELSSA's accounting, block pool | `vllm/v1/core/kv_cache_manager.py`, `single_type_kv_cache_manager.py`, `block_pool.py` | `KVCacheManager` |
| scheduler, async scheduler, request queues, engine loop | `vllm/v1/core/sched/`, `vllm/v1/engine/core.py` | `Scheduler` (extends `KVCacheManager`), `RequestQueue` |
| free block queue (doubly linked list) | `vllm/v1/core/kv_cache_utils.py` | `FreeKVCacheBlockQueue`, abstract `FreeBlockQueue` |
| prefix cache | `block_pool.py`, `single_type_kv_cache_manager.py`, `scheduler.py` | `PrefixCache` |
| message queue between engine and workers | `vllm/distributed/device_communicators/shm_broadcast.py` | `ShmRingBuffer`, abstract `BroadcastQueue` |
| KV hand-off over NIXL | `.../kv_connector/v1/nixl/` | `NixlTransfer` |
| metadata staging slots | `vllm/v1/worker/gpu_model_runner.py`, `nixl/worker.py`, `similarity_search.py` | `MetaSlots` |
| persistent batch, worker block table | `vllm/v1/worker/gpu_input_batch.py`, `block_table.py`, `gpu_model_runner.py` | `InputBatch` |
| where the tokens of a prompt go | `gpu_model_runner.py`, `nixl/scheduler.py`, `nixl/worker.py` | `SparseLayout` |
| offload streams of the prefiller | `gpu_model_runner.py` | `KVOffload`; `LongPrefill` composes it with `SparseLayout` |
| remote attention (RPC) | `vllm/distributed/rpc_kv/`, `vllm/v1/nelssa/cpu_attention.py` | `RemoteAttention` |
| CPU offloading manager and connector | `vllm/v1/kv_offload/`, `.../kv_connector/v1/offloading/` | `OffloadManager`, abstract `OffloadCache`, `OffloadingConnector` |
| wave buffer of the GPU prototype | `nelssa_gpu/.../wave_buffer_cpu.cpp`, `copy_kernel.cuh`, `retroinfer_cache.py` | `WaveBuffer` |

An `MC...` module gives constants their values for TLC, a `...Proofs` module holds the
theorems about a component; `SchedulerSteps` holds the lemmas on the scheduler's actions, and
`KVCacheManagerProofs` also those on `RequestQueue`. Operators commented as mutants are plausible bugs; each is
rejected by a property.

How state and actions correspond to the code:

- **`KVCacheManager`**: `freeBlocks`, `refCnt` and `reqToBlocks` (`<<>>` is an absent
  key) are the pool and the tables, `longRequests` and `tailBlocks` NELSSA's marks.
  `AllocateSlots` is `allocate_slots` with its three outcomes: blocks, `None`, or the
  `ValueError` of `get_new_blocks`. `BlocksChecked` and `BlocksTaken` are two operators
  because the code computes them in two places. `FreeBlocks(gone, sparse)` is `free` on
  some requests and `free_sparse_kv` on others. `KVSpec` makes any calls in any order.
- **`Scheduler`**: the engine loop is one thread, so nothing interleaves with
  `schedule()` or `update_from_output()`. `schedule()` is cut at its loops: `pc` is
  `running`, `allocate`/`preempt` (the inner loop of one request, one victim per
  failure), `waiting`, `finish`; `input` and `output` are the two halves of
  `step_with_batch_queue`. Clients add and abort, batches return, and the connector
  reports loads and sends at any time between. An escaping exception ends in a `pc` that
  names it.
- **`FreeKVCacheBlockQueue`**: `next`, `prev` and `num_free_blocks` as the code has them.
  The loops of `popleft_n` and `append_n` are walked link by link.
- **`PrefixCache`**: a block hash is the prefix of tokens it stands for, and a slot holds
  such a prefix too, so that a wrong hit is visible. The scheduling loops are those of
  `Scheduler`, without a connector.
- **`ShmRingBuffer`**: each access to a flag of shared memory is a step. `log` and `out`
  are history variables.
- **`NixlTransfer`**: both schedulers and both workers, with several steps under way on
  each side. A READ is one-sided; P learns of it from a notification that may come before
  P's worker knows of the request. The handshake thread of D interleaves with its worker and
  registers P's engine before its later checks; the end of a request whose handshake failed
  earlier is looked up in vain, `get_finished` raises, and D stops (`unknownEngine`).
- **`MetaSlots`**: P stages a request's metadata in a slot, D reads it into its slot of
  the same number, copies it and sends `slot_free`. P's RPC thread frees the slot first and
  then drops the entry of the slot map; P's worker may run between the two.
- **`InputBatch`**: `_update_states` with its removals, additions, `condense` and
  reordering; `compact_row`, slot mapping and sequence lengths of a step. A slot of the
  cache holds the name of the token that was written there.
- **`LongPrefill`**: `SparseLayout` says which positions of a prompt are in which block or
  buffer; `KVOffload` has host, main stream and offload stream. A prefill chunk with a
  middle is a step of both.
- **`RemoteAttention`**: D's single worker thread, connections as pairs of queues, P's
  server loop and main thread.
- **`OffloadManager`** is functional (a record and operators on it), as the class is
  only called by the scheduler; **`OffloadingConnector`** drives it in the engine's loop
  with transfers that end at any time, with prefix caching on or off.
- **`WaveBuffer`**: host, pool and GPU stream; kernels read pinned index arrays when they
  run, not when they are launched.

### Abstractions

Tokens are counts or numbers, blocks have no bytes, tensors are the names of what they
were computed from. `KVCacheManager` and `Scheduler` have prefix caching off, as
`run_pd_with_nelssa.sh` starts both workers; no block is then shared and the order of the
free queue has no effect, so it is a set. Request ids double as arrival times and are not
reused. A connector load brings all prompt tokens, as NIXL does, and a failed one
invalidates the first block of the request. `free_request_resources` has no caller, so the
marks of a long request are never removed. A float (the target of ARC) is an integer in
units in which all its changes are whole.

## The runs

Every run is expected to pass, and every property has a mutant that breaks it.

| run | what it shows |
|---|---|
| `sched_async` | Async scheduling under the priority policy, a pool that forces preemption, aborts at any time: every computed or scheduled token has a slot (`TokensHaveBlocks`), placeholders equal the sampling batches under way (`PlaceholdersMatch`), a victim leaves the step with exactly its tokens (`StepExact`), nothing raises (`NoCrash`), every request finishes (`EventuallyFinished`). |
| `sched_nelssa` | Long and short requests, remote prefill and remote decode, failing loads that are recomputed: the pool is consistent (`KVInv`), every request is in the queue of its status and holds blocks only while known (`RequestsAccounted`), head and tail stay (`HeadAndTailResident`), at most `max_num_long_requests` long requests run and each one that was never preempted decodes with its head, tail and output only (`LongMemoryBounded`), blocks outlive every transfer (`TransferKeepsBlocks`), a decoding long request is preempted only by the fallback, when every running request is such a one (`ProtectedKeepsRunning`; the run reaches the fallback). |
| `prefix_cache` | Three requests with common prefixes, chunks, duplicates, preemption, an abort, eviction and a reset: pool, hash map and tables agree (`PoolInv`) and a hit is always the request's own KV (`OwnKV`). |
| `shm_ring` | Two readers and a ring that is lapped: no torn read (`NoTornRead`), the ring is a broadcast queue (`RingIsBroadcastQueue`), no wake-up is lost (`EveryMessageArrives`). |
| `free_queue` | The linked list stays consistent and its checks never fire (`LinksConsistent`); it implements a queue (`ImplementsQueue`). |
| `kv_handoff` | Aborts on both sides, time-outs, failing handshakes and READs: nothing raises except D's lookup of an engine that a failed handshake did not register, and then nothing was read (`NoTransferCrash`), no block is released under a READ except by P's timer (`ReadKeepsBlocks`), a request that D decodes was read well while P held its blocks, unless P's timer ran out first (`LoadedIsValid`), every load ends unless D stopped at that lookup (`EveryLoadEnds`), blocks come back while both engines keep scheduling (`BlocksReturn`; on D, not for a request whose handshake fails). No request is aborted before it has blocks (`MayAbortEarly` is `FALSE`). |
| `meta_slots` | Three long requests, one slot, aborts, failing READs, lost `slot_free` calls, the RPC thread between two statements: while a request waits for its slot, the slot holds what it staged, is not free and no `slot_free` for it is under way (`SlotOwners`), and a READ meets the metadata of its own request (`ReadsOwnMetadata`); in behaviours without a fault every copy is right and slots come back (`CopyIsOwnWithoutFaults`, `SlotsComeBackWithoutFaults`). |
| `input_batch` | On a decoder, either short requests that finish, pause, are preempted and return, or one long request that is scheduled in every step and stays in its row: the batch is dense and ordered (`BatchInv`) and attention reads each request's own KV (`ReadsOwnKV`). |
| `long_prefill` | A long prompt in chunks, batched with another one, two streams, one preemption, hand-over: D reads each block from P's block of the same tokens and, unless the prefill was preempted, no position is lost and nothing raises (`HandOverComplete`); events and buffers are in order (`OffloadInv`); a copy to the CPU takes what its own layer and chunk wrote to the temp buffer or something later, never what was there before (`CopiesNotStale`). That something later can be there is a departure (`CpuIsOwn`). |
| `remote_attention` | Time-outs, late answers, lost connections: D merges only answers to its own call (`OwnResult`) and never hangs (`CallEnds`). |
| `offload` | LRU or ARC, prefix caching on or off, preemptions, aborts, a reset, transfers that end at any time: the manager is consistent (`ManagerInv`), no transfer reads or writes the wrong CPU block, a store reads GPU blocks of its own request unless a reset preempted it, and a load writes such blocks unless the request had stored before and is gone (`TransfersSafe`), and the manager implements its interface (`ImplementsOffloadCache`). With caching off two requests load a common key at the same time. |
| `wave_buffer` | Up to five decoding steps with an update of the index: the cache's bookkeeping is right (`WaveInv`) and attention runs over exactly the steady zone and the retrieved clusters that fit the buffer (`AttendsRetrieved`). |

### Bounds

- `sched_*`: three requests, blocks of two tokens, pools of 4 and 6 blocks, budgets of 4 and
  3 tokens. In `sched_nelssa` the prompts have 8, 3 and 7 tokens, the head 2 and the tail 4, so
  that one long prompt has a middle block and the other a tail that begins inside a block. In
  this pool memory already keeps the two long requests apart; the bound on their number is
  proved for all constants (`LongRequestsStayBounded`). Prompts take several chunks, the
  pool is too small for all requests and a request is preempted again and again. Two batches
  are under way at most, as in the code. Outputs end at `max_tokens` or `max_model_len`, so no
  counter is capped.
- `prefix_cache`: three requests, four blocks, one abort (`Aborted`), one reset (`MaxResets`).
- `shm_ring`: two chunks and three messages (`MaxMessages`): the third laps the ring.
- `free_queue`: four blocks; `popleft_n` and `append_n` of every length.
- `kv_handoff`: one request, two steps under way per side. Requests share only the order of
  their notifications and of the steps; a step with another request in it is a step of the
  model without this one.
- `meta_slots`: three requests on one slot, so a slot is handed on twice.
- `input_batch`: three rows of up to 15 tokens (`MaxLen`), chunks of two (`Chunk`); three steps with
  short requests (`ShortSteps`), nine with the long one (`MaxSteps`), whose prompt has 7 to 11
  tokens, so that its tail meets both alignments to a block of two.
- `long_prefill`: prompts of 129, 130, 139 and 144 tokens around a threshold of 130, chunks of
  70, blocks of 16, the default `first_n` 16 and `last_m` 64, two layers, one preemption
  (`MaxPreemptions`).
- `remote_attention`: two requests, two calls (`MaxCalls`); a call connects at most twice, as in
  the code.
- `offload`: three keys in two CPU blocks, one preemption per request (`MaxPreemptions`).
- `wave_buffer`: five clusters, a cache of three blocks, an execution buffer of four; the
  context grows from 11 to at most 16 tokens (`MaxContext`).

`CHECK_DEADLOCK FALSE` is set in `input_batch`, `long_prefill` and `remote_attention`, which stop
when their steps, prompt or calls are over.

### Fairness

- `Scheduler`: weak fairness of the engine (`run_busy_loop` goes on while there is work and a
  batch returns) and strong fairness of the end of each load (a transfer that is polled again
  and again completes or fails). Clients are not fair.
- `ShmRingBuffer`: writer and readers run. No reader is assumed to find itself in the busy
  loop, and the caller may stop sending.
- `NixlTransfer`: both workers and the updates of both schedulers run, handshakes go on and end,
  callbacks, READs and the timer end, and D schedules while a request loads. Beyond that neither scheduler
  is assumed to schedule: `BlocksReturn` is conditional on it.
- `MetaSlots`: workers and RPC threads run; the property speaks of behaviours without faults.
- `RemoteAttention`: D's worker thread runs and decoding requests end; nothing is assumed of P.

## What is proved

TLAPS checks the theorems of the `...Proofs` modules and the lemmas of `SchedulerSteps` for every value of the constants that
satisfies the named `ASSUME` of the component's module. A theorem marked "also" is checked by a
run on a small instance, too.

| module | theorems | from |
|---|---|---|
| `KVCacheManagerProofs` | `PoolStaysConsistent` (`KVInv`, also), `BlocksAreExclusive`, `NoBlockIsLeaked`, all of `KVSpec` | `KVAssumption` |
| `FreeKVCacheBlockQueueProofs` | `ListIsConsistent` (`LinksConsistent`, also), `LinkedListIsQueue` (`ImplementsQueue`, also) | `QueueAssumption` |
| `ShmRingBufferProofs` | `RingTypeCorrect`, `ChunksAreExclusive` (`NoTornRead`, also), `RingImplementsQueue` (`RingIsBroadcastQueue`, also) | `RingAssumption` |
| `MetaSlotsProofs` | `SlotsHaveOneOwner` (`SlotOwners`, also), `ReadsAreOwn` (`ReadsOwnMetadata`, also), `SlotsInvariant` | `SlotsAssumption` |
| `RemoteAttentionProofs` | `ResultsAreOwn` (`OwnResult`, also), `OneMessagePerConnection` | `RemoteAssumption`; the first one also from `UuidsDiffer` |
| `NixlTransferProofs` | `HandoffCrashesOnlyUnregistered` (`NoTransferCrash`, also), `HandoffNeverCrashes` (nothing raises at all), `ReadsAreSafe` (`ReadKeepsBlocks`, also), `LoadsAreValid` (`LoadedIsValid`, also), `HandoffTypeCorrect` | `HandoffAssumption` and `~MayAbortEarly`; `HandoffNeverCrashes` also from `~HandshakeMayFail` |
| `SchedulerProofs` | `SchedulerKeepsPool` (`KVInv`, also), `RequestsStayAccounted` (`RequestsAccounted`, also), `TransfersKeepTheirBlocks` (`TransferKeepsBlocks`, also), `LongRequestsStayBounded`, `PlaceholdersStayExact` (`PlaceholdersMatch`, also), `RaisesOnlyInSchedule` | `KVAssumption`, `SchedulerAssumption` |

The arguments:

- **Pool.** `KVInv` is inductive: tables, counts and free blocks partition the pool. The work is
  in `allocate_slots`, whose check and whose taking of blocks are different computations.
- **Free queue.** The invariant describes the list inside the loops as well: which part of a
  segment `popleft_n` has cut off or `append_n` has linked. The abstract queue moves when a loop
  ends.
- **Ring.** `RingInv` says whose turn a chunk is and gives `NoTornRead`. The refinement needs
  `LogInv`: the last `MaxChunks` messages of the log lie in the chunks of their positions, a
  chunk's read flags are the readers that are past it, and a socket holds the payloads its reader
  has still to take, in order.
- **Slots.** `SlotsInv` adds to `SlotOwners` that the number of a slot is with P or with D and
  that nothing of a request is on D before P has handed it over. The argument uses nothing of the
  slot map, which two threads change and which does get out of step (`SlotMapRight`, below).
- **RPC.** `RpcInv`: at most one message is pending on a connection, because a client that gives
  up never uses the connection again; so an answer belongs to the call that waits. `UuidsDiffer`
  is a hypothesis on the ids, which the code does not enforce (see departures).
- **Hand-off.** `HandoffInv`: on each side a request is in at most one place of the pipeline, its
  blocks are held while it is in one, and a load that did not read P's blocks is known to have
  failed by the time it is reported. `EngineInv` adds that D goes beyond a handshake only with
  P's engine registered or with the handshake failed, so that the lookup in `get_finished` can
  fail only after a failed handshake.
- **Scheduler.** `SchedInv` says in which queue, table and transfer a request of each status is,
  at every place inside `schedule()` and `update_from_output()`. `SchedulerSteps` shows that each
  action keeps it, from lemmas on how queues are filtered, inserted into and removed from. The
  bound on long requests, the count of placeholders and the places that can raise are invariants
  on top of it.

Some leaves name a prover and allow it up to 120 seconds; nothing else is assumed.

### What is only model-checked

- Liveness (`EventuallyFinished`, `EveryMessageArrives`, `EveryLoadEnds`, `BlocksReturn`,
  `SlotsComeBackWithoutFaults`, `CallEnds`): fairness and `ENABLED` are out of the
  prover's reach.
- Of `Scheduler`: `TokensHaveBlocks`, `StepExact`, `NoCrash`, `HeadAndTailResident`, the second
  half of `LongMemoryBounded`, and `ProtectedKeepsRunning`. `AllocationChecked` and
  `ScheduleAssertsHold` fail for some constants (below), so that only the places that can raise
  are proved.
- `PrefixCache`, `InputBatch`, `SparseLayout`, `KVOffload`, `LongPrefill`, `OffloadManager`,
  `OffloadingConnector` and `WaveBuffer` have no theorems. `CopyIsOwnWithoutFaults` is not proved.

## Departures met while modelling

Here the code does not do what a comment, a docstring or an assertion of the repository says.
TLC finds a counterexample to the property with the constants given; the runs above use other
constants, or the property excludes the case. No run depends on these configurations.

| property | with | what happens |
|---|---|---|
| `AllocationChecked` | 2 requests, prompts 8 and 2, 6 blocks, FCFS, sync | For a long request `allocate_slots` checks for fewer blocks than it takes; `get_new_blocks` raises (`kv_cache_manager.py:393`). |
| `HeadAndTailResident` | the same, async | `free_middle_blocks` counts the tail from the end of a table that already has a block for the next token (`single_type_kv_cache_manager.py:1259`). |
| `ScheduleAssertsHold` | `LongThreshold` 3, `MaxNumLongRequests` 3 | FCFS preempts a request of the same step and leaves it in `scheduled_running_reqs` (`scheduler.py:526`). |
| `LoadedRequestRuns` | `FairSpec`, 3 remote prefills, 3 blocks | The waiting loop stops at a refused request; a loaded one behind it keeps the blocks it waits for (`scheduler.py:812`). |
| `PreemptedResumes` | `FairSpec`, prompts 7 and 2, 5 blocks | For a preempted long request the gate counts head and tail twice (`single_type_kv_cache_manager.py:1243`). |
| `NoTransferCrash` | `MayAbortEarly` | `local_block_ids[0]` of a request aborted before it was scheduled (`nixl/worker.py:2082`). |
| `AbortedBlocksReturn` without its hypothesis on `callbacks` | `HandshakeMayFail`, depths 1 | A failure added between `update` and `clear` is lost (`nixl/worker.py:1760`). |
| `~unknownEngine` | `HandshakeMayFail`, depths 1 | `get_finished` looks up the engine of a request whose handshake failed before it registered the engine (`nixl/worker.py:1788`). |
| `SlotMapRight` | 2 requests, 1 slot, no faults | `slot_free` frees the slot before it drops the entry; P stages the next request in between (`gpu_model_runner.py:5698`). |
| `DecodeUsesOwnMetadata` | 2 requests, 1 slot, no faults | The search reads a slot that was given back and staged again (`similarity_search.py:566`). |
| `LongIsStaged` | 2 requests, 1 slot, no faults | A long request without a slot passes for a short one (`nixl/worker.py:2004`). |
| `CopyIsOwn` | 2 requests, 1 slot, `ReadMayFail` | A failed metadata READ is stored like a good one (`nixl/worker.py:1985`). |
| `MetadataForgotten` | fair, 1 request | Metadata that arrives after the clean-up stays (`gpu_model_runner.py:5556`). |
| `ReadsOwnKV` | one long request, prefiller, one row | `nelssa_compacted` is not reset for the next request of the row (`block_table.py:135`). |
| `ReadsOwnKV` | one short and one long request, decoder | `move_row` leaves the compaction state behind (`block_table.py:174`). |
| `LongAlwaysDecodes` | decoder, `MayPreempt` | A preempted long request is prefilled locally (`gpu_model_runner.py:1976`). |
| `ReadsLastToken` | decoder, one long request | From its second step on the sequence length ends before the step's own key (`gpu_model_runner.py:1963`). |
| `LoadedInPlace` | `LastM` 96, `FilterLastM` 64 | The connector's filter has its own 16 and 64 (`nixl/scheduler.py:388`). |
| `NothingTwice` | default limits | Tokens between the block boundary and `prompt_len - last_m` are on GPU and CPU (`gpu_model_runner.py:6426`). |
| `NothingMissing`, `HandOverSucceeds` without `preempted` | `MaxPreemptions` 1 | A prefill that starts over appends behind its first attempt, or overruns the buffer (`gpu_model_runner.py:5597`). |
| `CpuIsOwn` | 2 requests, 2 layers | The main stream overwrites the one temp buffer during the copy (`gpu_model_runner.py:6408`). |
| `OwnResult` | `Uuid <- OneUuid` | Buffers are looked up by a part of the id only (`cpu_attention.py:789`). |
| `AlwaysMerged` | no network failure | The server iterates over a dict that the main thread extends (`cpu_attention.py:790`). |
| `BuffersReleased` | no network failure | `send_cleanup` has no caller (`gpu_model_runner.py:4261`). |
| `OwnKV` | `priority`, `LongPrefill` 2, 7 blocks of 1 | A chunk cached when scheduled and preempted in the same step was never computed (`scheduler.py:507`). |
| `EvictsWhenPossible` without `policy = "lru"` | ARC, 3 requests, 4 keys, 2 blocks | ARC refuses a store although T1 has blocks to give (`policies/arc.py:114`). |
| `KnowsWhatEnded` | LRU, aborts, 1 preemption | A request aborted during a load is forgotten before the load ends (`offloading/scheduler.py:567`). |
| `LoadTargetHeld` | LRU, no reset | A preempted request that resumes with a hit and is aborted during the load gives up its blocks when its older store is reported (`offloading/worker.py:376`). |
| `StoreSourceHeld` | `Resets` | `reset_prefix_cache` preempts outside `schedule`, so nobody waits for the stores (`scheduler.py:2026`). |

## Not modelled

The map covers about one per cent of the source lines. Most of the rest has no protocol state:
model definitions, layers and kernels, the front end with its parsers and tokenizers, the
configuration of features that NELSSA does not use, benchmarks. Left out although it has state:
the encoder cache (NELSSA serves text), data-parallel waves (one engine per role), the
multiprocess executor above the message queue, the mutexes of the prototype's thread pool.
Clustering, similarity search and CPU attention are floating-point code; how their inputs and
results travel is in `MetaSlots`, `KVOffload` and `RemoteAttention`. `PROJECT.json` lists what is
left out of each component.
