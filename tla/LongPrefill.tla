---------------------------- MODULE LongPrefill -----------------------------
(***************************************************************************)
(* The prefill of a long prompt with the offload of its middle: every      *)
(* chunk of SparseLayout's prompt that has a middle is a step of           *)
(* KVOffload, in a batch with chunks of other long requests (execute_model *)
(* of gpu_model_runner.py).  P's host takes one step at a time; D, and the *)
(* streams of the device, go on by themselves.                             *)
(***************************************************************************)
EXTENDS SparseLayout, KVOffload

CONSTANT Prompted   \* the request whose prompt SparseLayout follows

ASSUME PromptedAssumption == Prompted \in Request

longVars == <<layoutVars, offloadVars>>

LongInit == LayoutInit /\ OffloadInit

InBatch(r) == \E i \in DOMAIN batch' : batch'[i] = r

\* A chunk with a middle: chunk_info has the request, so the callback handles it
OffloadsChunk == StartStep /\ InBatch(Prompted)

\* execute_model with a chunk of the prompt, alone or with other requests
PromptStep ==
    /\ pc = "idle"
    /\ PrefillChunk
    /\ \/ /\ cpu' # cpu
          /\ OffloadsChunk
       \/ /\ cpu' = cpu
          /\ \/ StartStep /\ ~InBatch(Prompted)
             \/ UNCHANGED offloadVars

\* execute_model without a chunk of the prompt
OtherStep ==
    /\ StartStep /\ ~InBatch(Prompted)
    /\ UNCHANGED layoutVars

\* P's scheduler preempts or finishes the request between two steps
ScheduleStep ==
    /\ pc = "idle"
    /\ Preempt \/ PFinish
    /\ UNCHANGED offloadVars

DecoderStep ==
    /\ DSchedule \/ DStartLoad \/ ReadBlocks
    /\ UNCHANGED offloadVars

\* The rest of a step of the host, and the streams
OffloadStep ==
    /\ \/ Callback \/ Cluster \/ EndStep
       \/ \E r \in Request : WaitForOffload(r)
       \/ MainWrites \/ CopyStarts \/ CopyEnds
    /\ UNCHANGED layoutVars

LongNext == PromptStep \/ OtherStep \/ ScheduleStep \/ DecoderStep \/ OffloadStep

LongSpec == LongInit /\ [][LongNext]_longVars
=============================================================================
