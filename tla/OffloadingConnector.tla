------------------------ MODULE OffloadingConnector ------------------------
(***************************************************************************)
(* The offloading connector of the engine                                  *)
(* (kv_connector/v1/offloading/scheduler.py and worker.py) over the CPU    *)
(* offloading manager, in the loop of the engine: one step is schedule,    *)
(* build_connector_meta, the worker's execute_model and                    *)
(* update_from_output; the transfers end at any time.                      *)
(*                                                                         *)
(* One cache group, an offloaded block is one GPU block, and a request     *)
(* ends before it has generated another full block, so that its keys are   *)
(* those of its prompt.  Nothing is found in the prefix cache of the GPU,  *)
(* whether it is enabled or not.  GPU memory is short at any time          *)
(* (Preempt, Match, Resume).  The GPU blocks of a request are one          *)
(* generation, which ends when they are freed.                             *)
(***************************************************************************)
EXTENDS OffloadManager

CONSTANTS Request,        \* requests
          OffloadKeys,    \* request -> the keys of its full blocks
          RemoteDecode,   \* requests with do_remote_decode
          Aborted,        \* requests that the client may abort
          Resets,         \* whether reset_prefix_cache preempts running requests
          PrefixCaching,  \* the values of enable_prefix_caching
          MaxPreemptions  \* bound on the preemptions of one request

VARIABLES mgr,            \* the manager
          caching,        \* enable_prefix_caching
          status,         \* of a request; "freeing": finished, its blocks are kept
          computed,       \* num_computed_tokens, in blocks
          nextStored,     \* next_stored_block_idx
          beingStored,    \* _reqs_being_stored
          beingLoaded,    \* _reqs_being_loaded
          generation,     \* how often the GPU blocks of a request were freed
          preemptions,    \* counter for MaxPreemptions
          phase,          \* where in the step the engine is; "failed": it has ended
          batch,          \* scheduled requests, with the tokens after the batch
          seen,           \* requests that the current loop has looked at
          meta,           \* OffloadingConnectorMetadata and finished_req_ids
          finishedIds,    \* Scheduler.finished_req_ids
          unsubmitted,    \* _unsubmitted_store_jobs
          jobs,           \* submitted transfers
          ended,          \* ended transfers that get_finished has not seen
          storeJobs,      \* requests with an entry in _store_jobs
          waitingStore,   \* _finished_reqs_waiting_for_store
          output,         \* KVConnectorOutput: finished_sending, finished_recving
          mem             \* whose data a CPU block holds

engine == <<status, computed, nextStored, beingStored, beingLoaded, generation, preemptions>>
worker == <<unsubmitted, jobs, ended, storeJobs, waitingStore, mem>>
offVars == <<mgr, caching, engine, phase, batch, seen, meta, finishedIds, worker, output>>

Empty == [r \in {} |-> 0]
NoMeta == [load |-> {}, store |-> {}, flush |-> {}, finished |-> {}]
NoOutput == [sending |-> {}, recving |-> {}]

OffInit ==
    /\ \E policy \in CachePolicies : mgr = NewManager(policy)
    /\ caching \in PrefixCaching
    /\ status = [r \in Request |-> "new"]
    /\ computed = [r \in Request |-> 0]
    /\ nextStored = [r \in Request |-> 0]
    /\ beingStored = Empty
    /\ beingLoaded = Empty
    /\ generation = [r \in Request |-> 0]
    /\ preemptions = [r \in Request |-> 0]
    /\ phase = "schedule"
    /\ batch = Empty
    /\ seen = {}
    /\ meta = NoMeta
    /\ finishedIds = {}
    /\ unsubmitted = {} /\ jobs = {} /\ ended = {}
    /\ storeJobs = {} /\ waitingStore = {}
    /\ output = NoOutput
    /\ mem = [b \in 0 .. NumBlocks - 1 |-> NoBlock]

With(f, r, v) == [x \in DOMAIN f \cup {r} |-> IF x = r THEN v ELSE f[x]]
Without(f, r) == [x \in DOMAIN f \ {r} |-> f[x]]
KeysOf(f, r) == IF r \in DOMAIN f THEN f[r] ELSE {}

\* A transfer between CPU blocks and the GPU blocks of a request
Job(r, store, m, keys) ==
    [req |-> r, store |-> store, blocks |-> [k \in keys |-> m.block[k]],
     gen |-> generation[r]]

-----------------------------------------------------------------------------
(* The requests *)

StepStart == phase = "schedule" /\ batch = Empty /\ seen = {} /\ meta.flush = {}

Arrive(r) ==
    /\ StepStart
    /\ status[r] = "new"
    /\ status' = [status EXCEPT ![r] = "waiting"]
    /\ UNCHANGED <<mgr, computed, nextStored, beingStored, beingLoaded, generation,
                   preemptions, phase, batch, seen, meta, finishedIds, worker, output>>

\* request_finished: the blocks are kept as long as the request has an entry
\* in _reqs_being_stored
RequestFinished(r) == r \in DOMAIN beingStored

\* _free_request; delay: a load into the blocks has not ended
FreeRequest(r, delay) ==
    /\ finishedIds' = finishedIds \cup {r}
    /\ IF delay \/ RequestFinished(r)
       THEN /\ status' = [status EXCEPT ![r] = "freeing"]
            /\ UNCHANGED generation
       ELSE /\ status' = [status EXCEPT ![r] = "gone"]
            /\ generation' = [generation EXCEPT ![r] = @ + 1]

\* finish_requests, between two steps or after the execution of the model
Abort(r) ==
    /\ StepStart \/ phase = "update"
    /\ r \in Aborted
    /\ status[r] \in {"waiting", "loading", "loaded", "running"}
    /\ FreeRequest(r, status[r] = "loading")
    /\ UNCHANGED <<mgr, computed, nextStored, beingStored, beingLoaded, preemptions, phase,
                   batch, seen, meta, worker, output>>

\* reset_prefix_cache with reset_running_requests: the running requests are
\* preempted, and preempted_req_ids does not name them
ResetPrefixCache ==
    LET running == {r \in Request : status[r] = "running"}
    IN  /\ StepStart
        /\ Resets
        /\ running # {} /\ \A r \in running : preemptions[r] < MaxPreemptions
        /\ status' = [r \in Request |-> IF r \in running THEN "waiting" ELSE status[r]]
        /\ computed' = [r \in Request |-> IF r \in running THEN 0 ELSE computed[r]]
        /\ generation' = [r \in Request |-> generation[r] + (IF r \in running THEN 1 ELSE 0)]
        /\ preemptions' = [r \in Request |-> preemptions[r] + (IF r \in running THEN 1 ELSE 0)]
        /\ UNCHANGED <<mgr, nextStored, beingStored, beingLoaded, phase, batch, seen, meta,
                       finishedIds, worker, output>>

-----------------------------------------------------------------------------
(* schedule: first the running requests, then the waiting ones *)

Running == {r \in Request : status[r] = "running"}
Waiting == {r \in Request : status[r] \in {"waiting", "loaded"}}
RunningDone == Running \subseteq DOMAIN batch

\* The batch takes a request to any number of full blocks
Schedule(r, from) ==
    LET all == Len(OffloadKeys[r])
    IN  \E n \in IF from < all THEN from + 1 .. all ELSE {all} : batch' = With(batch, r, n)

Run(r) ==
    /\ phase = "schedule" /\ seen = {}
    /\ r \in Running \ DOMAIN batch
    /\ Schedule(r, computed[r])
    /\ UNCHANGED <<mgr, engine, phase, seen, meta, finishedIds, worker, output>>

\* _preempt_request; the GPU blocks may be reused in this step
Preempt(r) ==
    /\ phase = "schedule" /\ seen = {}
    /\ r \in Running \ DOMAIN batch
    /\ preemptions[r] < MaxPreemptions
    /\ status' = [status EXCEPT ![r] = "waiting"]
    /\ computed' = [computed EXCEPT ![r] = 0]
    /\ generation' = [generation EXCEPT ![r] = @ + 1]
    /\ preemptions' = [preemptions EXCEPT ![r] = @ + 1]
    /\ meta' = [meta EXCEPT !.flush = @ \cup {r}]
    /\ UNCHANGED <<mgr, nextStored, beingStored, beingLoaded, phase, batch, seen, finishedIds,
                   worker, output>>

\* _maximal_prefix_lookup
Hits(m, keys) ==
    Max({n \in 0 .. Len(keys) : \A i \in 1 .. n : Lookup(m, keys[i])})

\* _blocks_being_loaded
BlocksBeingLoaded == UNION {beingLoaded[r] : r \in DOMAIN beingLoaded}

\* get_num_new_matched_tokens and, when blocks are to be loaded,
\* update_state_after_alloc.  With prefix caching a request whose blocks are being
\* loaded already is delayed (_blocks_being_loaded is None without it).  When
\* allocate_slots finds no room the loop ends.
Match(r) ==
    LET keys == OffloadKeys[r]
        m == Touch(mgr, keys)
        hits == Hits(m, keys)
        load == ToSet(SubSeq(keys, 1, hits))
        delayed == caching /\ load \cap BlocksBeingLoaded # {}
    IN  /\ phase = "schedule" /\ RunningDone /\ meta.flush = {}
        /\ status[r] = "waiting" /\ r \notin seen
        /\ \/ /\ ~delayed
              /\ mgr' = m
              /\ seen' = Request
              /\ UNCHANGED <<status, computed, nextStored, beingLoaded, batch, meta>>
           \/ /\ hits = 0
              /\ seen' = seen \cup {r}
              /\ status' = [status EXCEPT ![r] = "running"]
              /\ Schedule(r, 0)
              /\ mgr' = m
              /\ UNCHANGED <<computed, nextStored, beingLoaded, meta>>
           \/ /\ delayed
              /\ seen' = seen \cup {r}
              /\ mgr' = m
              /\ UNCHANGED <<status, computed, nextStored, beingLoaded, batch, meta>>
           \/ /\ hits > 0 /\ ~delayed
              /\ seen' = seen \cup {r}
              /\ status' = [status EXCEPT ![r] = "loading"]
              /\ computed' = [computed EXCEPT ![r] = hits]
              /\ nextStored' = [nextStored EXCEPT ![r] = IF r \in RemoteDecode THEN @ ELSE hits]
              /\ mgr' = PrepareLoad(m, load)
              /\ beingLoaded' = With(beingLoaded, r, load)
              /\ meta' = [meta EXCEPT !.load = @ \cup {Job(r, FALSE, m, load)}]
              /\ UNCHANGED batch
        /\ UNCHANGED <<beingStored, generation, preemptions, phase, finishedIds, worker,
                       output>>

\* A request whose load has ended is scheduled with what was loaded, or there is
\* no room for its next blocks
Resume(r) ==
    /\ phase = "schedule" /\ RunningDone /\ meta.flush = {}
    /\ status[r] = "loaded" /\ r \notin seen
    /\ \/ /\ status' = [status EXCEPT ![r] = "running"]
          /\ seen' = seen \cup {r}
          /\ Schedule(r, computed[r])
       \/ /\ seen' = Request
          /\ UNCHANGED <<status, batch>>
    /\ UNCHANGED <<mgr, computed, nextStored, beingStored, beingLoaded, generation, preemptions,
                   phase, meta, finishedIds, worker, output>>

\* has_requests
HasRequests ==
    \/ finishedIds # {}
    \/ \E r \in Request : status[r] \in {"waiting", "loading", "loaded", "running"}

\* After a preemption no waiting request is looked at
EndSchedule ==
    /\ phase = "schedule"
    /\ HasRequests
    /\ RunningDone
    /\ meta.flush = {} => Waiting \subseteq seen
    /\ phase' = "build"
    /\ seen' = {}
    /\ meta' = [meta EXCEPT !.finished = finishedIds]
    /\ finishedIds' = {}
    /\ UNCHANGED <<mgr, engine, batch, worker, output>>

-----------------------------------------------------------------------------
(* build_connector_meta *)

\* _get_reqs_to_store for one request: the keys of the blocks that the batch
\* completes and that were not handed to the manager yet.  When the manager has
\* no room they are offered again with the next batch.
Build(r) ==
    LET keys == OffloadKeys[r]
        new == SubSeq(keys, nextStored[r] + 1, batch[r])
        store == ToSet(KeysToStore(mgr, new))
        m == Touch(PrepareStore(mgr, new), keys)
    IN  /\ phase = "build"
        /\ r \in DOMAIN batch \ seen
        /\ seen' = seen \cup {r}
        /\ \/ /\ store = {}
              /\ nextStored' = [nextStored EXCEPT ![r] = batch[r]]
              /\ UNCHANGED <<mgr, beingStored, meta>>
           \/ /\ store # {} /\ ~CanStore(mgr, new)
              /\ UNCHANGED <<mgr, nextStored, beingStored, meta>>
           \/ /\ store # {} /\ CanStore(mgr, new)
              /\ mgr' = m
              /\ nextStored' = [nextStored EXCEPT ![r] = batch[r]]
              /\ beingStored' = With(beingStored, r, KeysOf(beingStored, r) \cup store)
              /\ meta' = [meta EXCEPT !.store = @ \cup {Job(r, TRUE, m, store)}]
        /\ UNCHANGED <<status, computed, beingLoaded, generation, preemptions, phase, batch,
                       finishedIds, worker, output>>

\* The stores of a preempted request count as completed: the worker ends them
\* before it does anything else in this step.  The entry stays.
CompletePreempted(r) ==
    /\ phase = "build"
    /\ DOMAIN batch \subseteq seen
    /\ r \in meta.flush \ seen
    /\ seen' = seen \cup {r}
    /\ mgr' = CompleteStore(mgr, KeysOf(beingStored, r))
    /\ beingStored' = [x \in DOMAIN beingStored |-> IF x = r THEN {} ELSE beingStored[x]]
    /\ UNCHANGED <<status, computed, nextStored, beingLoaded, generation, preemptions, phase,
                   batch, meta, finishedIds, worker, output>>

-----------------------------------------------------------------------------
(* execute_model *)

\* handle_preemptions submits the stores of the last step
Submit ==
    /\ phase = "build"
    /\ DOMAIN batch \cup meta.flush \subseteq seen
    /\ phase' = "flush"
    /\ jobs' = jobs \cup unsubmitted
    /\ unsubmitted' = {}
    /\ UNCHANGED <<mgr, engine, batch, seen, meta, finishedIds, ended, storeJobs, waitingStore,
                   mem, output>>

\* wait in handle_preemptions
Flushed == ~\E j \in jobs : j.store /\ j.req \in meta.flush

\* and start_kv_transfers then starts the loads
Start ==
    /\ phase = "flush"
    /\ Flushed
    /\ phase' = "forward"
    /\ jobs' = jobs \cup meta.load
    /\ UNCHANGED <<mgr, engine, batch, seen, meta, finishedIds, unsubmitted, ended, storeJobs,
                   waitingStore, mem, output>>

\* The forward pass, then prepare_store_kv: the stores wait for the next step
Forward ==
    /\ phase = "forward"
    /\ phase' = "collect"
    /\ computed' = [r \in Request |-> IF r \in DOMAIN batch THEN batch[r] ELSE computed[r]]
    /\ unsubmitted' = meta.store
    /\ storeJobs' = storeJobs \cup {j.req : j \in meta.store}
    /\ UNCHANGED <<mgr, status, nextStored, beingStored, beingLoaded, generation, preemptions,
                   batch, seen, meta, finishedIds, jobs, ended, waitingStore, mem, output>>

HasStores(r) == \E j \in jobs \cup unsubmitted : j.store /\ j.req = r

\* get_finished reports a request as sent when it is finished and the last of
\* its stores has ended
Sending(r) ==
    /\ ~HasStores(r)
    /\ \/ r \in waitingStore /\ \E j \in ended : j.store /\ j.req = r
       \/ r \in meta.finished \cap storeJobs

Collect ==
    LET sending == {r \in Request : Sending(r)}
    IN  /\ phase = "collect"
        /\ phase' = "update"
        /\ output' = [sending |-> sending, recving |-> {j.req : j \in {i \in ended : ~i.store}}]
        /\ ended' = {}
        /\ waitingStore' = (waitingStore \cup (meta.finished \cap storeJobs)) \ sending
        /\ storeJobs' = storeJobs \ sending
        /\ meta' = NoMeta
        /\ UNCHANGED <<mgr, engine, batch, seen, finishedIds, unsubmitted, jobs, mem>>

\* A transfer ends, at any time
JobEnds ==
    \E j \in jobs :
        /\ jobs' = jobs \ {j}
        /\ ended' = ended \cup {j}
        /\ mem' = IF j.store
                  THEN [b \in DOMAIN mem |->
                        IF \E k \in DOMAIN j.blocks : j.blocks[k] = b
                        THEN CHOOSE k \in DOMAIN j.blocks : j.blocks[k] = b
                        ELSE mem[b]]
                  ELSE mem
        /\ UNCHANGED <<mgr, engine, phase, batch, seen, meta, finishedIds, unsubmitted, storeJobs,
                       waitingStore, output>>

-----------------------------------------------------------------------------
(* update_from_output *)

\* A request whose prompt is computed stops in this step, or generates on
Finish(r) ==
    /\ phase = "update"
    /\ r \in DOMAIN batch /\ status[r] = "running"
    /\ computed[r] = Len(OffloadKeys[r])
    /\ FreeRequest(r, FALSE)
    /\ UNCHANGED <<mgr, computed, nextStored, beingStored, beingLoaded, preemptions, phase, batch,
                   seen, meta, worker, output>>

\* _update_from_kv_xfer_finished asserts that it knows the request
KnowsRequest(r) == status[r] # "gone"

FreeBlocks(r) ==
    /\ status' = [status EXCEPT ![r] = "gone"]
    /\ generation' = [generation EXCEPT ![r] = @ + 1]
    /\ phase' = IF KnowsRequest(r) THEN phase ELSE "failed"

\* update_connector_output and _update_from_kv_xfer_finished for a request of
\* finished_sending
Sent(r) ==
    /\ phase = "update"
    /\ r \in output.sending
    /\ output' = [output EXCEPT !.sending = @ \ {r}]
    /\ mgr' = CompleteStore(mgr, KeysOf(beingStored, r))
    /\ beingStored' = Without(beingStored, r)
    /\ FreeBlocks(r)
    /\ UNCHANGED <<computed, nextStored, beingLoaded, preemptions, batch, seen, meta,
                   finishedIds, worker>>

\* ... and of finished_recving
Received(r) ==
    /\ phase = "update"
    /\ r \in output.recving
    /\ output' = [output EXCEPT !.recving = @ \ {r}]
    /\ mgr' = CompleteLoad(mgr, KeysOf(beingLoaded, r))
    /\ beingLoaded' = Without(beingLoaded, r)
    /\ IF status[r] = "loading"
       THEN /\ status' = [status EXCEPT ![r] = "loaded"]
            /\ UNCHANGED <<generation, phase>>
       ELSE FreeBlocks(r)
    /\ UNCHANGED <<computed, nextStored, beingStored, preemptions, batch, seen, meta,
                   finishedIds, worker>>

EndStep ==
    /\ phase = "update"
    /\ output = NoOutput
    /\ phase' = "schedule"
    /\ batch' = Empty
    /\ seen' = {}
    /\ UNCHANGED <<mgr, engine, meta, finishedIds, worker, output>>

-----------------------------------------------------------------------------
\* A failed assertion ends the engine; without requests it waits for one
Idle ==
    /\ phase = "failed" \/ (StepStart /\ ~HasRequests)
    /\ jobs = {}
    /\ UNCHANGED offVars

Step ==
    \/ EndSchedule \/ Submit \/ Start \/ Forward \/ Collect \/ EndStep
    \/ \E r \in Request :
        Run(r) \/ Match(r) \/ Resume(r) \/ Build(r) \/ CompletePreempted(r) \/ Sent(r) \/ Received(r)

OffNext ==
    /\ UNCHANGED caching
    /\ \/ Step \/ JobEnds \/ Idle \/ ResetPrefixCache
       \/ \E r \in Request : Arrive(r) \/ Abort(r) \/ Preempt(r) \/ Finish(r)

OffSpec == OffInit /\ [][OffNext]_offVars

-----------------------------------------------------------------------------
(* Properties *)

CPUBlocks(j) == {j.blocks[k] : k \in DOMAIN j.blocks}
ToStore == {j \in jobs \cup unsubmitted \cup meta.store : j.store}

OffTypeOK ==
    /\ status \in [Request -> {"new", "waiting", "loading", "loaded", "running", "freeing", "gone"}]
    /\ \A k \in Key : mgr.ref[k] \in -1 .. Cardinality(Request)
    /\ mgr.target \in 0 .. NumBlocks * Scale
    /\ Len(mgr.b1) <= NumBlocks /\ Len(mgr.b2) <= NumBlocks
    /\ IsInjective(mgr.t1 \o mgr.t2 \o mgr.b1 \o mgr.b2)
    /\ phase \in {"schedule", "build", "flush", "forward", "collect", "update", "failed"}
    /\ DOMAIN batch \subseteq Request

\* No CPU block is lost or used twice: it is untouched, on the free list or the
\* block of exactly one stored key (_allocate_blocks and _free_block).
CPUBlocksAccounted ==
    \A b \in DOMAIN mem :
        Cardinality({k \in Stored(mgr) : mgr.block[k] = b})
            + Cardinality({i \in DOMAIN mgr.free : mgr.free[i] = b})
            = IF b < mgr.allocated THEN 1 ELSE 0

\* A load in flight reads the data of its own keys: no CPU block that it reads
\* has been given away, overwritten or is the target of a pending store
\* (prepare_load pins the blocks until complete_load).
LoadsReadTheirData ==
    /\ \A j \in jobs : ~j.store => \A k \in DOMAIN j.blocks : mem[j.blocks[k]] = k
    /\ \A j \in jobs \cup meta.load, i \in ToStore :
            ~j.store => CPUBlocks(i) \cap CPUBlocks(j) = {}

\* Two stores that have not ended never write the same CPU block.
StoresDisjoint ==
    \A i, j \in ToStore : i # j => CPUBlocks(i) \cap CPUBlocks(j) = {}

\* When the scheduler looks for a key, a key that counts as stored has its data
\* in its CPU block, although the stores of a preempted request are reported
\* complete before the worker has ended them (build_connector_meta,
\* handle_preemptions).
StoredHasData ==
    phase = "schedule" => \A k \in Key : Lookup(mgr, k) => mem[mgr.block[k]] = k

\* From the forward pass to the end of the step no store is pending whose GPU
\* blocks are no longer those of its request: handle_preemptions and the
\* delayed free let it end before a forward pass can write them.
StoreSourceHeld ==
    \A j \in ToStore :
        j.gen = generation[j.req] \/ phase \in {"schedule", "build", "flush", "failed"}

\* The GPU blocks that a pending load writes are still those of its request: the
\* delayed free in finish_requests keeps them for it.
LoadTargetHeld == \A j \in jobs \cup meta.load : ~j.store => j.gen = generation[j.req]

\* With LRU prepare_store gives up only when it has to: a store fails only if
\* fewer blocks than it needs are neither in use nor among its own keys.
EvictsWhenPossible ==
    \A r \in DOMAIN batch \ seen : phase = "build" /\ mgr.policy = "lru" =>
        LET new == SubSeq(OffloadKeys[r], nextStored[r] + 1, batch[r])
        IN  CanStore(mgr, new) \/ Cardinality(Evictable(mgr, ToSet(new))) < NumToEvict(mgr, new)

\* The manager's books are right: CPU blocks, policy lists and what counts as
\* stored.
ManagerInv == OffTypeOK /\ CPUBlocksAccounted /\ StoredHasData /\ EvictsWhenPossible

\* The scheduler is told that a transfer has ended only for requests it knows.
KnowsWhatEnded == phase # "failed"

\* A key that is read or being stored stays, for either policy: the manager is
\* an OffloadCache.
Cache == INSTANCE OffloadCache
    WITH pending <- {k \in Stored(mgr) : mgr.ref[k] < 0},
         readers <- [k \in {x \in Stored(mgr) : mgr.ref[x] >= 0} |-> mgr.ref[k]]
ImplementsOffloadCache == Cache!CacheSpec
=============================================================================
