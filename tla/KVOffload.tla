----------------------------- MODULE KVOffload ------------------------------
(***************************************************************************)
(* The offload of a prefill chunk on P: gpu_model_runner.py,               *)
(* _sparse_kv_offload_callback, _wait_for_offload and the end of           *)
(* execute_model.                                                          *)
(*                                                                         *)
(* In every layer the host queues, for each long request of the batch, a   *)
(* copy of the new keys and values to the temp buffer and to the buffer of *)
(* the request on the GPU (main stream) and a copy of the temp buffer to   *)
(* the CPU (offload stream, after the main stream's event).  The streams   *)
(* run by themselves; positions.cpu() and query_start_loc[..].item() make  *)
(* the host wait for the main stream and not for the offload stream.       *)
(*                                                                         *)
(* The KV of a chunk is the record of its request, layer and number.  A    *)
(* write to the temp buffer while it is copied leaves a torn copy.         *)
(***************************************************************************)
EXTENDS Integers, Sequences, FiniteSets

CONSTANTS Request,      \* long requests
          NumLayers,
          NumChunks,    \* NumChunks[r]: the prefill chunks of r that reach its middle
          Torn          \* a copy of two chunks

ASSUME OffloadAssumption ==
    /\ NumLayers \in Nat \ {0}
    /\ NumChunks \in [Request -> Nat \ {0}]

Layers == 1 .. NumLayers

VARIABLES pc,         \* the host: "idle", "forward", "wait", "cluster"
          batch,      \* the requests of chunk_info, in order
          layer, next,   \* the layer and the index in batch of the next callback
          chunk,      \* the chunks of a request that were scheduled
          mainQueue,  \* main stream: the writes not done
          temp,       \* _sparse_kv_temp_buffers
          gpu,        \* _nelssa_gpu_buffers
          offQueue,   \* offload stream: the copies not done
          reading,    \* what the first of them has read; << >> when not started
          cpuBuffers,        \* _sparse_kv_cpu_buffers
          issued, written, copied,   \* copies queued, writes done, copies done in this step
          events      \* _sparse_kv_offload_events: the copies an event covers, 0 for none

offloadVars == <<pc, batch, layer, next, chunk, mainQueue, temp, gpu, offQueue, reading,
                 cpuBuffers, issued, written, copied, events>>
hostVars == <<pc, batch, layer, next, chunk, issued, events>>

KV == [req : Request, layer : Layers, chunk : Nat]
Batches == {b \in UNION {[1 .. n -> Request] : n \in 1 .. Cardinality(Request)} :
              \A i, j \in DOMAIN b : b[i] = b[j] => i = j}

OffloadTypeOK ==
    /\ pc \in {"idle", "forward", "wait", "cluster"}
    /\ batch \in Batches \cup {<< >>}
    /\ layer \in Layers
    /\ next \in 1 .. Cardinality(Request)
    /\ \A r \in Request : chunk[r] \in 0 .. NumChunks[r]
    /\ mainQueue \in Seq(KV)
    /\ temp \in KV \cup {Torn}
    /\ gpu \in [Request -> [Layers -> Seq(KV)]]
    /\ offQueue \in Seq(KV)
    /\ reading \in [1 .. 1 -> KV \cup {Torn}] \cup {<< >>}
    /\ cpuBuffers \in [Request -> [Layers -> Seq(KV \cup {Torn})]]
    /\ copied \in 0 .. issued /\ written \in 0 .. issued
    /\ events \in [Request -> Nat]

OffloadInit ==
    /\ pc = "idle"
    /\ batch = << >>
    /\ layer = 1 /\ next = 1
    /\ chunk = [r \in Request |-> 0]
    /\ mainQueue = << >> /\ offQueue = << >>
    /\ temp = Torn               \* torch.empty
    /\ reading = << >>
    /\ gpu = [r \in Request |-> [l \in Layers |-> << >>]]
    /\ cpuBuffers = [r \in Request |-> [l \in Layers |-> << >>]]
    /\ issued = 0 /\ written = 0 /\ copied = 0
    /\ events = [r \in Request |-> 0]

-----------------------------------------------------------------------------
(* The host *)

\* execute_model of a step with prefill chunks of the requests in b
StartStep ==
    \E b \in Batches :
        /\ pc = "idle"
        /\ \A i \in DOMAIN b : chunk[b[i]] < NumChunks[b[i]]
        /\ batch' = b
        /\ chunk' = [r \in Request |-> IF \E i \in DOMAIN b : b[i] = r
                                       THEN chunk[r] + 1 ELSE chunk[r]]
        /\ pc' = "forward"
        /\ UNCHANGED <<layer, next, mainQueue, temp, gpu, offQueue, reading,
                       cpuBuffers, issued, written, copied, events>>

\* Mutant: the event is recorded before the copy is queued
EventBeforeCopy == issued

\* The copies that the event recorded after the new copy covers
EventAfterCopy == issued + 1

\* One round of the loop in _sparse_kv_offload_callback
Callback ==
    LET r == batch[next]
        kv == [req |-> r, layer |-> layer, chunk |-> chunk[r]]
        lastReq == next = Len(batch)
    IN  /\ pc = "forward"
        /\ mainQueue = << >>
        /\ mainQueue' = <<kv>>
        /\ offQueue' = Append(offQueue, kv)
        /\ issued' = issued + 1
        /\ events' = [events EXCEPT ![r] = EventAfterCopy]
        /\ next' = IF lastReq THEN 1 ELSE next + 1
        /\ layer' = IF ~lastReq THEN layer ELSE IF layer = NumLayers THEN 1 ELSE layer + 1
        /\ pc' = IF lastReq /\ layer = NumLayers THEN "wait" ELSE "forward"
        /\ UNCHANGED <<batch, chunk, temp, gpu, reading, cpuBuffers, written, copied>>

\* _wait_for_offload for one request
WaitForOffload(r) ==
    /\ pc = "wait"
    /\ events[r] > 0
    /\ copied >= events[r]
    /\ events' = [events EXCEPT ![r] = 0]
    /\ UNCHANGED <<pc, batch, layer, next, chunk, mainQueue, temp, gpu, offQueue, reading,
                   cpuBuffers, issued, written, copied>>

\* All events are gone: _cluster_sparse_kv reads the buffers, those of the GPU
\* on the main stream
Cluster ==
    /\ pc = "wait"
    /\ \A r \in Request : events[r] = 0
    /\ mainQueue = << >>
    /\ pc' = "cluster"
    /\ UNCHANGED <<batch, layer, next, chunk, mainQueue, temp, gpu, offQueue, reading,
                   cpuBuffers, issued, written, copied, events>>

EndStep ==
    /\ pc = "cluster"
    /\ pc' = "idle"
    /\ batch' = << >>
    /\ issued' = 0 /\ written' = 0 /\ copied' = 0
    /\ UNCHANGED <<layer, next, chunk, mainQueue, temp, gpu, offQueue, reading, cpuBuffers,
                   events>>

-----------------------------------------------------------------------------
(* The streams *)

WriteGpu(kv) == [gpu EXCEPT ![kv.req][kv.layer] = Append(@, kv)]

\* The writes of one callback; a copy of the temp buffer that has started is torn
MainWrites ==
    /\ mainQueue # << >>
    /\ LET kv == Head(mainQueue)
       IN  /\ temp' = kv
           /\ gpu' = WriteGpu(kv)
    /\ mainQueue' = Tail(mainQueue)
    /\ reading' = IF reading = << >> THEN << >> ELSE <<Torn>>
    /\ written' = written + 1
    /\ UNCHANGED <<pc, batch, layer, next, chunk, offQueue, cpuBuffers, issued, copied, events>>

\* Mutant: the event is recorded before the write of this callback is queued
EventBeforeWrite == written >= copied

\* qkv_event.wait(): the write of this callback is done
QkvEventDone == written > copied

CopyStarts ==
    /\ offQueue # << >>
    /\ reading = << >>
    /\ QkvEventDone
    /\ reading' = <<temp>>
    /\ UNCHANGED <<hostVars, mainQueue, temp, gpu, offQueue, cpuBuffers, written, copied>>

CopyEnds ==
    /\ reading # << >>
    /\ LET to == Head(offQueue)
       IN  cpuBuffers' = [cpuBuffers EXCEPT ![to.req][to.layer] = Append(@, reading[1])]
    /\ offQueue' = Tail(offQueue)
    /\ reading' = << >>
    /\ copied' = copied + 1
    /\ UNCHANGED <<hostVars, mainQueue, temp, gpu, written>>

-----------------------------------------------------------------------------
OffloadNext ==
    \/ StartStep \/ Callback \/ Cluster \/ EndStep
    \/ \E r \in Request : WaitForOffload(r)
    \/ MainWrites \/ CopyStarts \/ CopyEnds

OffloadSpec == OffloadInit /\ [][OffloadNext]_offloadVars

-----------------------------------------------------------------------------
(* Properties *)

ChunksOf(r, l) == [c \in 1 .. chunk[r] |-> [req |-> r, layer |-> l, chunk |-> c]]

\* Clustering on the GPU sees the chunks of a request in order and in the buffer
\* of their layer, whatever the offload stream is doing.
GpuIsOwn == pc = "cluster" => \A r \in Request, l \in Layers : gpu[r][l] = ChunksOf(r, l)

\* When the CPU buffers are reorganised no copy of any request is on its way,
\* although _wait_for_offload keeps one event per request and not one per layer.
OffloadComplete ==
    pc = "cluster" => /\ offQueue = << >>
                      /\ \A r \in Request, l \in Layers : Len(cpuBuffers[r][l]) = chunk[r]

\* What clustering reads is complete, on either side.
OffloadInv == OffloadTypeOK /\ GpuIsOwn /\ OffloadComplete

\* The KV that the callback of layer l writes for the i-th request of the batch
KVOf(l, i) == [req |-> batch[i], layer |-> l, chunk |-> chunk[batch[i]]]

\* The KV of that callback and of the later ones of the step
KVFrom(l, i) ==
    {KVOf(m, j) : <<m, j>> \in {c \in Layers \X DOMAIN batch : c[1] > l \/ (c[1] = l /\ c[2] >= i)}}

\* A copy to the CPU may be overrun by the writes that follow its own, since all
\* share one temp buffer, but it never takes what was there before: no KV of an
\* earlier layer, request or step, and nothing that was never written.  The last
\* copy of a step, which no write follows before _wait_for_offload, is right.
CopiesNotStale ==
    pc = "cluster" =>
        \A l \in Layers, i \in DOMAIN batch :
            LET copy == cpuBuffers[batch[i]][l][chunk[batch[i]]]
            IN  /\ copy \in KVFrom(l, i) \cup {Torn}
                /\ l = NumLayers /\ i = Len(batch) => copy = KVOf(l, i)

\* The CPU buffer of a request and a layer holds the chunks of that request and
\* layer: every request has its own temp buffer, as its comment says.
CpuIsOwn == pc = "cluster" => \A r \in Request, l \in Layers : cpuBuffers[r][l] = ChunksOf(r, l)
=============================================================================
