---------------------------- MODULE SparseLayout ----------------------------
(***************************************************************************)
(* Where the KV of one prompt is kept after the hand-over from the         *)
(* prefiller P to the decoder D.  P offloads the middle of a long prompt   *)
(* to its CPU chunk by chunk (gpu_model_runner.py,                         *)
(* _sparse_kv_offload_callback), frees the blocks in the middle            *)
(* (free_middle_blocks) and names the rest to D.  D's connector picks the  *)
(* blocks to load with limits of its own (nixl/scheduler.py,               *)
(* _filter_middle_blocks), and its worker pairs them with P's              *)
(* (nixl/worker.py).                                                       *)
(*                                                                         *)
(* Blocks are named by their index in the table, from 1; 0 is the null     *)
(* block.  Tokens are counted from 0.                                      *)
(***************************************************************************)
EXTENDS Integers, Sequences, FiniteSets

CONSTANTS Prompts,        \* prompt lengths
          Threshold,      \* prompt_length_threshold
          Chunks,         \* sizes of a prefill chunk
          BlockSize, FirstN, LastM,    \* block_size and NELSSAConfig
          FilterFirstN, FilterLastM,   \* 16 and 64 in _filter_middle_blocks
          MaxTokens,      \* sampling_params.max_tokens on P
          MaxPreemptions  \* bound: how often P preempts the request

ASSUME LayoutAssumption ==
    /\ BlockSize > 0 /\ FirstN > 0 /\ LastM > 0
    /\ \A p \in Prompts : p > 0
    /\ Threshold > FirstN + LastM + 2 * BlockSize   \* a long prompt has a middle

AtLeast0(n) == IF n > 0 THEN n ELSE 0
Cdiv(n) == (n + BlockSize - 1) \div BlockSize
Upto(m, n) == [i \in 1 .. AtLeast0(n - m + 1) |-> m + i - 1]

VARIABLES stage,      \* "prefill", "prefilled", "scheduled", "loading", "loaded", "crashed"
          prompt,     \* num_prompt_tokens
          computed,   \* the tokens P has computed
          preempted,  \* how often P has preempted the request
          cpu,        \* the CPU buffer of P: the positions of its entries
          remote,     \* the blocks of P in kv_transfer_params
          local,      \* the blocks of D to load
          loaded      \* what each block of D holds: an index of P, or 0

layoutVars == <<stage, prompt, computed, preempted, cpu, remote, local, loaded>>

IsLong == prompt >= Threshold

LayoutTypeOK ==
    /\ stage \in {"prefill", "prefilled", "scheduled", "loading", "loaded", "crashed"}
    /\ prompt \in Prompts
    /\ computed \in 0 .. prompt
    /\ preempted \in 0 .. MaxPreemptions
    /\ \A i \in DOMAIN cpu : cpu[i] \in 0 .. prompt - 1
    /\ \A i \in DOMAIN remote : remote[i] \in 0 .. Cdiv(prompt)
    /\ \A i \in DOMAIN local : local[i] \in 1 .. Cdiv(prompt)
    /\ loaded \in [1 .. Cdiv(prompt) -> 0 .. Cdiv(prompt)]

LayoutInit ==
    /\ stage = "prefill"
    /\ prompt \in Prompts
    /\ computed = 0
    /\ preempted = 0
    /\ cpu = << >>
    /\ remote = << >>
    /\ local = << >>
    /\ loaded = [i \in 1 .. Cdiv(prompt) |-> 0]

-----------------------------------------------------------------------------
(* Prefiller *)

\* The positions of the chunk from .. to - 1 that are offloaded
MiddleOfChunk(from, to) ==
    IF IsLong
    THEN Upto(IF from > FirstN THEN from ELSE FirstN,
              (IF to < prompt - LastM THEN to ELSE prompt - LastM) - 1)
    ELSE << >>

\* chunk_end: a chunk ends with the prompt at the latest
ChunkEnd(chunk) == IF computed + chunk < prompt THEN computed + chunk ELSE prompt

\* One chunk: the callback appends at the offset of the buffer, which has room
\* for max_total_len tokens; a copy past its end raises
PrefillChunk ==
    \E chunk \in Chunks :
        LET middle == MiddleOfChunk(computed, ChunkEnd(chunk))
        IN  /\ stage = "prefill"
            /\ computed < prompt
            /\ IF Len(cpu) + Len(middle) > prompt + MaxTokens
               THEN stage' = "crashed" /\ UNCHANGED <<cpu, computed>>
               ELSE /\ cpu' = cpu \o middle
                    /\ computed' = ChunkEnd(chunk)
                    /\ UNCHANGED stage
            /\ UNCHANGED <<prompt, preempted, remote, local, loaded>>

\* P's scheduler preempts the request, which starts over; the runner keeps its
\* buffer and the offset (_setup_sparse_kv_offloading only makes missing ones)
Preempt ==
    /\ stage = "prefill"
    /\ computed \in 1 .. prompt - 1
    /\ preempted < MaxPreemptions
    /\ computed' = 0
    /\ preempted' = preempted + 1
    /\ UNCHANGED <<stage, prompt, cpu, remote, local, loaded>>

\* _compute_tail_layout
TailBlocks(lastM) == Cdiv(prompt - (AtLeast0(prompt - lastM) \div BlockSize) * BlockSize)

\* free_middle_blocks: the table with null blocks in the middle
FreeMiddle ==
    [i \in 1 .. Cdiv(prompt) |->
        IF IsLong /\ i > Cdiv(FirstN) /\ i <= Cdiv(prompt) - TailBlocks(LastM) THEN 0 ELSE i]

\* The request has its one token and is finished: request_finished
PFinish ==
    /\ stage = "prefill"
    /\ computed = prompt
    /\ remote' = FreeMiddle
    /\ stage' = "prefilled"
    /\ UNCHANGED <<prompt, computed, preempted, cpu, local, loaded>>

-----------------------------------------------------------------------------
(* Decoder *)

\* _filter_middle_blocks on the blocks of the prompt
FilterMiddleBlocks ==
    LET head == Cdiv(FilterFirstN)
        tail == IF prompt > FilterLastM THEN TailBlocks(FilterLastM) ELSE Cdiv(FilterLastM)
        all == Upto(1, Cdiv(prompt))
    IN  IF Len(all) <= head + tail THEN all
        ELSE SubSeq(all, 1, head) \o SubSeq(all, Len(all) - tail + 1, Len(all))

\* update_state_after_alloc
DSchedule ==
    /\ stage = "prefilled"
    /\ local' = IF IsLong THEN FilterMiddleBlocks ELSE Upto(1, Cdiv(prompt))
    /\ stage' = "scheduled"
    /\ UNCHANGED <<prompt, computed, preempted, cpu, remote, loaded>>

\* Mutant: null blocks stay
KeepNullBlocks(blocks) == blocks

\* start_load_kv leaves out the null blocks of P
DropNullBlocks(blocks) == SelectSeq(blocks, LAMBDA b : b # 0)

DStartLoad ==
    /\ stage = "scheduled"
    /\ remote' = IF Len(local) < Len(remote) THEN DropNullBlocks(remote) ELSE remote
    /\ stage' = "loading"
    /\ UNCHANGED <<prompt, computed, preempted, cpu, local, loaded>>

\* _read_blocks: the i-th block of D is read from the i-th of the last blocks
\* of P; more blocks than P has are an assertion failure
ReadBlocks ==
    LET from == Len(remote) - Len(local)
    IN  /\ stage = "loading"
        /\ IF from < 0
           THEN stage' = "crashed" /\ UNCHANGED loaded
           ELSE /\ stage' = "loaded"
                /\ loaded' = [b \in DOMAIN loaded |->
                                IF \E i \in DOMAIN local : local[i] = b
                                THEN remote[from + (CHOOSE i \in DOMAIN local : local[i] = b)]
                                ELSE 0]
        /\ UNCHANGED <<prompt, computed, preempted, cpu, remote, local>>

LayoutNext == PrefillChunk \/ Preempt \/ PFinish \/ DSchedule \/ DStartLoad \/ ReadBlocks

LayoutSpec == LayoutInit /\ [][LayoutNext]_layoutVars /\ WF_layoutVars(LayoutNext)

-----------------------------------------------------------------------------
(* Properties *)

\* The blocks whose entries attention on D's GPU reads: the head and the tail
\* that D's own block table keeps
Resident ==
    {b \in 1 .. Cdiv(prompt) : IsLong => \/ b <= Cdiv(FirstN)
                                         \/ b > Cdiv(prompt) - TailBlocks(LastM)}

\* A block that D reads on its GPU was loaded from the block of P with the same
\* tokens, although P's table has lost its middle and D's was filtered.
LoadedInPlace == stage = "loaded" => \A b \in Resident : loaded[b] = b

\* No hand-over of a prefill that was not preempted raises: P's CPU buffer has
\* room for the middle, and the blocks that D asks for never fail the assertion
\* on the number of P's blocks.
HandOverSucceeds == stage = "crashed" => preempted > 0

\* The CPU holds the middle of a long prompt in order and without holes, however
\* the prompt was cut into chunks, unless the prefill was preempted: every token
\* is on D's GPU or on P's CPU.
NothingMissing ==
    stage = "loaded" /\ preempted = 0 =>
        /\ \A i \in 1 .. Len(cpu) - 1 : cpu[i + 1] = cpu[i] + 1
        /\ \A pos \in 0 .. prompt - 1 :
              (pos \div BlockSize) + 1 \in Resident \/ \E i \in DOMAIN cpu : cpu[i] = pos

\* The KV of a long prompt reaches D and P's CPU completely and in place.
HandOverComplete == LayoutTypeOK /\ LoadedInPlace /\ HandOverSucceeds /\ NothingMissing

\* Attention on the GPU and attention on the CPU share no token, so that their
\* merged result counts every token once.
NothingTwice ==
    stage = "loaded" =>
        \A i \in DOMAIN cpu : (cpu[i] \div BlockSize) + 1 \notin Resident
=============================================================================
