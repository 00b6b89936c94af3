----------------------------- MODULE InputBatch -----------------------------
(***************************************************************************)
(* The persistent batch of a worker and its block table:                   *)
(* vllm/v1/worker/gpu_input_batch.py, block_table.py, and _update_states,  *)
(* _prepare_inputs and the compaction of gpu_model_runner.py.              *)
(*                                                                         *)
(* Every step brings the batch in line with the scheduler's output: rows   *)
(* are removed, extended, added, slid down over gaps and swapped.  The row *)
(* of a long request is compacted to [head | tail | generated], on the     *)
(* decoder before the forward pass, on the prefiller after it.  The        *)
(* forward pass writes the scheduled tokens into the slots of the slot     *)
(* mapping, and attention reads the row from its beginning.                *)
(*                                                                         *)
(* <<r, i>> is the i-th block the scheduler gave to r, None is block 0,    *)
(* and <<r, p>> in the cache is the KV of the p-th token of r.  Rows and   *)
(* blocks are counted from 1, tokens from 0.                               *)
(***************************************************************************)
EXTENDS Integers, Sequences, FiniteSets, FiniteSetsExt

CONSTANTS Short, Long,     \* requests
          None,            \* no request, block 0, a slot that holds nothing of use
          MaxReqs,         \* max_num_reqs: the number of rows
          MaxLen,          \* bound on the tokens of a request
          Chunk,           \* bound on the tokens of a request in a step
          MaxSteps,        \* bound on the steps of the engine
          ShortPrompts, LongPrompts,   \* prompt lengths
          BlockSize, FirstN, LastM,
          Consumer,        \* kv_role is kv_consumer (the decoder)
          Reorders,        \* the backend has a reorder_batch_threshold, of 1
          MayFinish,       \* the requests that may finish before the bounds are reached
          MayUnschedule, MayPreempt   \* what the scheduler does

Request == Short \cup Long

AtLeast0(n) == IF n > 0 THEN n ELSE 0
Cdiv(n) == (n + BlockSize - 1) \div BlockSize

HeadBlocks == Cdiv(FirstN)
TailStart(promptLen) == (AtLeast0(promptLen - LastM) \div BlockSize) * BlockSize
TailBlocks(promptLen) == Cdiv(promptLen - TailStart(promptLen))

\* Long requests have blocks between head and tail
ASSUME BatchAssumption ==
    /\ None \notin Request
    /\ \A p \in LongPrompts : HeadBlocks + TailBlocks(p) < Cdiv(p)

Row == 1 .. MaxReqs
BlockIndex == 1 .. Cdiv(MaxLen)
Block == Request \X BlockIndex
Offset == 0 .. BlockSize - 1
Token == Request \X (0 .. MaxLen - 1)

VARIABLES pc,          \* where _update_states and execute_model are
          steps,       \* counts the steps
          \* CachedRequestState, for the requests of known
          known,       \* requests
          prompt,      \* num_prompt_tokens
          numTokens,   \* num_tokens
          computed,    \* num_computed_tokens
          allocated,   \* the number of its blocks: block_ids is <<r, 1>>, <<r, 2>>, ...
          scheduled,   \* num_scheduled_tokens of the step
          toAdd,       \* reqs_to_add
          \* InputBatch
          reqIds,      \* _req_ids
          rowOf,       \* req_id_to_index; 0 stands for an absent key
          removed,     \* batch_update_builder.removed
          dest,        \* src_dest_map of the reordering
          \* BlockTable
          table,       \* block_table
          numBlocks,   \* num_blocks_per_row
          compacted,   \* nelssa_compacted
          tailStart,   \* nelssa_tail_start_pos
          \* The KV cache
          kv

reqVars == <<known, prompt, numTokens, computed, allocated>>
tableVars == <<table, numBlocks, compacted, tailStart>>
batchVars == <<pc, steps, reqVars, scheduled, toAdd, reqIds, rowOf, removed, dest, tableVars, kv>>

BatchTypeOK ==
    /\ pc \in {"idle", "add", "condense", "reorder", "run", "attend"}
    /\ steps \in 0 .. MaxSteps
    /\ known \subseteq Request /\ toAdd \subseteq known
    /\ prompt \in [Request -> 0 .. MaxLen]
    /\ numTokens \in [Request -> 0 .. MaxLen + 1]
    /\ computed \in [Request -> 0 .. MaxLen]
    /\ allocated \in [Request -> 0 .. Cdiv(MaxLen)]
    /\ scheduled \in [Request -> 0 .. Chunk]
    /\ Len(reqIds) <= MaxReqs
    /\ \A i \in DOMAIN reqIds : reqIds[i] \in Request \cup {None}
    /\ rowOf \in [Request -> 0 .. MaxReqs]
    /\ removed \subseteq Row
    /\ dest \in [Row -> Row]
    /\ table \in [Row -> [BlockIndex -> Block \cup {None}]]
    /\ numBlocks \in [Row -> 0 .. Cdiv(MaxLen)]
    /\ compacted \in [Row -> BOOLEAN]
    /\ tailStart \in [Row -> 0 .. MaxLen]
    /\ \A s \in Block \X Offset : kv[s] \in Token \cup {None}

BatchInit ==
    /\ pc = "idle"
    /\ steps = 0
    /\ known = {}
    /\ prompt = [r \in Request |-> 0]
    /\ numTokens = [r \in Request |-> 0]
    /\ computed = [r \in Request |-> 0]
    /\ allocated = [r \in Request |-> 0]
    /\ scheduled = [r \in Request |-> 0]
    /\ toAdd = {}
    /\ reqIds = << >>
    /\ rowOf = [r \in Request |-> 0]
    /\ removed = {}
    /\ dest = [i \in Row |-> i]
    /\ table = [i \in Row |-> [b \in BlockIndex |-> None]]
    /\ numBlocks = [i \in Row |-> 0]
    /\ compacted = [i \in Row |-> FALSE]
    /\ tailStart = [i \in Row |-> 0]
    /\ kv = [s \in Block \X Offset |-> None]

Batch == {r \in Request : rowOf[r] # 0}

-----------------------------------------------------------------------------
(* _update_states                                                          *)

\* What the READ of the decoder has left in the blocks of a new request:
\* everything, or the head and the tail of a long prompt.  Which blocks the READ
\* pairs with which is in SparseLayout; here it has put every token in its place.
Loaded(r, promptLen, pos) ==
    /\ Consumer /\ pos < promptLen
    /\ r \in Short \/ pos < HeadBlocks * BlockSize \/ pos >= TailStart(promptLen)

\* append_row, of the blocks of r with the indices from .. to
AppendRow(r, from, to, row, start) ==
    [b \in BlockIndex |->
        IF b > start /\ b <= start + to - from + 1 THEN <<r, from + b - start - 1>>
        ELSE row[b]]

\* clear_row
ClearRow(i) == [b \in BlockIndex |-> IF b <= numBlocks[i] THEN None ELSE table[i][b]]

\* The requests that leave the batch: finished, and unscheduled_req_ids
Gone(finished, sched, resumed) ==
    (finished \cap Batch) \cup (Batch \ (DOMAIN sched \ resumed))

\* The loops over finished, unscheduled, new and cached requests, for a
\* scheduler output with the tokens sched[r] of each scheduled request r
UpdateStates(finished, sched, resumed, prompts) ==
    LET new == DOMAIN sched \ (known \ finished)
        gone == Gone(finished, sched, resumed)
        stay == Batch \ gone
        start(r) == IF r \in new THEN (IF Consumer THEN prompts[r] - 1 ELSE 0)
                    ELSE IF r \in resumed THEN 0 ELSE computed[r]
        blocks(r) == Cdiv(start(r) + sched[r])
        left(r, n) == IF r \in finished THEN 0 ELSE n
    IN  /\ known' = (known \ finished) \cup new
        /\ prompt' = [r \in Request |-> IF r \in new THEN prompts[r] ELSE left(r, prompt[r])]
        /\ numTokens' = [r \in Request |-> 
                            IF r \in new THEN prompts[r] ELSE left(r, numTokens[r])]
        /\ computed' = [r \in Request |->
                            IF r \in DOMAIN sched THEN start(r) ELSE left(r, computed[r])]
        /\ allocated' = [r \in Request |->
                            IF r \in DOMAIN sched THEN blocks(r) ELSE left(r, allocated[r])]
        /\ scheduled' = [r \in Request |-> IF r \in DOMAIN sched THEN sched[r] ELSE 0]
        /\ reqIds' = [i \in DOMAIN reqIds |-> IF reqIds[i] \in gone THEN None ELSE reqIds[i]]
        /\ rowOf' = [r \in Request |-> IF r \in gone THEN 0 ELSE rowOf[r]]
        /\ removed' = {rowOf[r] : r \in gone}
        /\ toAdd' = DOMAIN sched \ stay
        /\ table' = [i \in Row |->
                IF i \notin DOMAIN reqIds THEN table[i]
                ELSE IF reqIds[i] \in gone THEN ClearRow(i)
                ELSE AppendRow(reqIds[i], allocated[reqIds[i]] + 1, blocks(reqIds[i]),
                               table[i], numBlocks[i])]
        /\ numBlocks' = [i \in Row |->
                IF i \notin DOMAIN reqIds THEN numBlocks[i]
                ELSE IF reqIds[i] \in gone THEN 0
                ELSE numBlocks[i] + blocks(reqIds[i]) - allocated[reqIds[i]]]
        /\ kv' = [s \in Block \X Offset |->
                LET r == s[1][1]
                    pos == (s[1][2] - 1) * BlockSize + s[2]
                IN  IF r \in new /\ Loaded(r, prompts[r], pos) THEN <<r, pos>>
                    ELSE IF r \in new \cup resumed \cup finished THEN None ELSE kv[s]]
        /\ UNCHANGED <<compacted, tailStart>>

\* The scheduler's output: a request runs for the tokens it has not computed
\* yet, in chunks, and a request that was preempted from the beginning again.
\* The prefiller is asked for one token of a long request.
Update ==
    \E finished \in SUBSET known, run \in SUBSET Request :
    \E resumed \in SUBSET ((run \cap known) \ finished),
       sched \in [run -> 1 .. Chunk],
       prompts \in {f \in [run \ (known \ finished) -> ShortPrompts \cup LongPrompts] :
                        \A r \in DOMAIN f :
                            f[r] \in IF r \in Short THEN ShortPrompts ELSE LongPrompts} :
        /\ pc = "idle" /\ steps < MaxSteps
        /\ run # {} \/ finished # {}
        /\ Cardinality(run) <= MaxReqs
        /\ finished \subseteq MayFinish
        /\ MayUnschedule \/ known \ finished \subseteq run
        /\ MayPreempt \/ resumed = {}
        /\ \A r \in run :
              LET todo == IF r \in DOMAIN prompts THEN IF Consumer THEN 1 ELSE prompts[r]
                          ELSE IF r \in resumed THEN numTokens[r]
                          ELSE numTokens[r] - computed[r]
              IN  sched[r] <= todo
        /\ \A r \in run \cap (known \ finished) :
              numTokens[r] <= IF Consumer \/ r \in Short THEN MaxLen ELSE prompt[r]
        /\ UpdateStates(finished, sched, resumed, prompts)
        /\ pc' = "add" /\ steps' = steps + 1
        /\ UNCHANGED dest

\* _register_add_request: the lowest removed row, or the next one
NewReqIndex == IF removed # {} THEN Min(removed) ELSE Cardinality(Batch) + 1

\* add_request and add_row
AddRequest(r) ==
    LET i == NewReqIndex
    IN  /\ pc = "add"
        /\ r \in toAdd
        /\ toAdd' = toAdd \ {r}
        /\ removed' = removed \ {i}
        /\ reqIds' = IF i = Len(reqIds) + 1 THEN Append(reqIds, r)
                     ELSE [reqIds EXCEPT ![i] = r]
        /\ rowOf' = [rowOf EXCEPT ![r] = i]
        /\ numBlocks' = [numBlocks EXCEPT ![i] = allocated[r]]
        /\ table' = [table EXCEPT ![i] = AppendRow(r, 1, allocated[r], @, 0)]
        /\ UNCHANGED <<pc, steps, reqVars, scheduled, dest, compacted, tailStart, kv>>

AddDone ==
    /\ pc = "add"
    /\ toAdd = {}
    /\ pc' = "condense"
    /\ UNCHANGED <<steps, reqVars, scheduled, toAdd, reqIds, rowOf, removed, dest, tableVars, kv>>

-----------------------------------------------------------------------------
(* condense: the last request moves into the lowest empty row              *)

\* move_row: the blocks and their number, and nothing else
MoveRow(src, tgt) ==
    /\ table' = [table EXCEPT ![tgt] =
                    [b \in BlockIndex |-> IF b <= numBlocks[src] THEN table[src][b] ELSE @[b]]]
    /\ numBlocks' = [numBlocks EXCEPT ![tgt] = numBlocks[src]]

LastRow == Max({0} \cup {i \in DOMAIN reqIds : reqIds[i] # None})

\* The loop of condense goes on
HasGap == removed # {} /\ Batch # {} /\ Min(removed) < LastRow

\* Mutant: req_id_to_index is not updated
IndexKept(r, i) == rowOf

IndexMoved(r, i) == [rowOf EXCEPT ![r] = i]

CondenseMove ==
    LET empty == Min(removed)
    IN  /\ pc = "condense"
        /\ HasGap
        /\ removed' = removed \ {empty}
        /\ reqIds' = [reqIds EXCEPT ![empty] = reqIds[LastRow], ![LastRow] = None]
        /\ rowOf' = IndexMoved(reqIds[LastRow], empty)
        /\ MoveRow(LastRow, empty)
        /\ UNCHANGED <<pc, steps, reqVars, scheduled, toAdd, dest, compacted, tailStart, kv>>

-----------------------------------------------------------------------------
(* reorder_batch_to_split_decodes_and_prefills                             *)

\* 0: decode, 1: short extend, 2: long extend, 3: prefill
Region(r) ==
    CASE computed[r] = 0 -> 3
      [] computed[r] > 0 /\ scheduled[r] > 1 -> 2
      [] computed[r] > 0 /\ scheduled[r] <= 1 /\ computed[r] < prompt[r] -> 1
      [] OTHER -> 0

\* The order of np.argsort
ComesBefore(g, h) == g < h

\* Where each row of ids goes: the rows in a wrong region, sorted by region
SrcDestMap(ids) ==
    LET region == [i \in DOMAIN ids |-> Region(ids[i])]
        upTo(g) == Cardinality({i \in DOMAIN ids : region[i] <= g})
        target == [i \in DOMAIN ids |-> Min({g \in 0 .. 3 : i <= upTo(g)})]
        wrong == {i \in DOMAIN ids : region[i] # target[i]}
        rank(i) == Cardinality({j \in wrong : \/ ComesBefore(region[j], region[i])
                                              \/ region[j] = region[i] /\ j <= i})
    IN  [i \in Row |->
            IF i \in wrong
            THEN CHOOSE j \in wrong : Cardinality({k \in wrong : k <= j}) = rank(i)
            ELSE i]

\* The end of condense, with the lists trimmed to the batch, and the map that
\* the reordering starts from
CondenseDone ==
    LET ids == SubSeq(reqIds, 1, Cardinality(Batch))
    IN  /\ pc = "condense"
        /\ ~HasGap
        /\ reqIds' = ids
        /\ dest' = IF Reorders THEN SrcDestMap(ids) ELSE dest
        /\ pc' = "reorder"
        /\ UNCHANGED <<steps, reqVars, scheduled, toAdd, rowOf, removed, tableVars, kv>>

\* Mutant: the blocks are copied over instead of swapped
CopyRow(i, j) ==
    /\ table' = [table EXCEPT ![i] = table[j]]
    /\ numBlocks' = [numBlocks EXCEPT ![i] = numBlocks[j], ![j] = numBlocks[i]]

\* swap_row: the blocks and their number, and nothing else
SwapRow(i, j) ==
    /\ table' = [table EXCEPT ![i] = table[j], ![j] = table[i]]
    /\ numBlocks' = [numBlocks EXCEPT ![i] = numBlocks[j], ![j] = numBlocks[i]]

\* src goes on to the destination of the row it was swapped with
DestAfterSwap(src, dst) == [dest EXCEPT ![src] = dest[dst], ![dst] = dst]

\* swap_states, with the first row that is not where it belongs
SwapStates ==
    LET src == Min({i \in Row : dest[i] # i})
        dst == dest[src]
    IN  /\ pc = "reorder"
        /\ \E i \in Row : dest[i] # i
        /\ reqIds' = [reqIds EXCEPT ![src] = reqIds[dst], ![dst] = reqIds[src]]
        /\ rowOf' = [rowOf EXCEPT ![reqIds[src]] = dst, ![reqIds[dst]] = src]
        /\ SwapRow(src, dst)
        /\ dest' = DestAfterSwap(src, dst)
        /\ UNCHANGED <<pc, steps, reqVars, scheduled, toAdd, removed, compacted, tailStart, kv>>

\* refresh_metadata resets the builder; a step without tokens ends here
ReorderDone ==
    /\ pc = "reorder"
    /\ \A i \in Row : dest[i] = i
    /\ removed' = {}
    /\ pc' = IF Batch = {} THEN "idle" ELSE "run"
    /\ UNCHANGED <<steps, reqVars, scheduled, toAdd, reqIds, rowOf, dest, tableVars, kv>>

-----------------------------------------------------------------------------
(* The forward pass                                                        *)

\* The rows that _clear_middle_blocks_for_prefill_complete goes on with, for
\* the requests in rs: rows with more blocks than head and tail
ToClear(rs) ==
    {i \in DOMAIN reqIds : /\ reqIds[i] \in rs
                           /\ numBlocks[i] > HeadBlocks + TailBlocks(prompt[reqIds[i]])}

\* clear_middle_blocks: the row becomes [head | tail]
Compact(i) ==
    LET tail == TailBlocks(prompt[reqIds[i]])
    IN  [b \in BlockIndex |->
            IF b > HeadBlocks /\ b <= HeadBlocks + tail
            THEN table[i][numBlocks[i] - tail + b - HeadBlocks]
            ELSE IF b > HeadBlocks /\ b <= numBlocks[i] THEN None ELSE table[i][b]]

\* A row that is already compacted keeps its blocks
ClearMiddleBlocks(rs) ==
    LET first == {i \in ToClear(rs) : ~compacted[i]}
    IN  /\ table' = [i \in Row |-> IF i \in first THEN Compact(i) ELSE table[i]]
        /\ numBlocks' = [i \in Row |->
                IF i \in first THEN HeadBlocks + TailBlocks(prompt[reqIds[i]])
                ELSE numBlocks[i]]
        /\ compacted' = [i \in Row |-> compacted[i] \/ i \in first]
        /\ tailStart' = [i \in Row |->
                IF i \in ToClear(rs) THEN TailStart(prompt[reqIds[i]]) ELSE tailStart[i]]

\* _compute_slot_mapping_kernel: the slot of the token at pos
SlotOf(tab, isCompacted, start, promptLen, pos) ==
    LET logical == IF isCompacted /\ pos >= start
                   THEN HeadBlocks * BlockSize + pos - start
                   ELSE pos
    IN  <<tab[logical \div BlockSize + 1], logical % BlockSize>>

\* The decoder compacts the rows of all long requests, the slots are computed
\* and the KV of the scheduled tokens is written (slots of block 0 are nobody's)
Run ==
    LET slot(r, pos) == SlotOf(table'[rowOf[r]], compacted'[rowOf[r]], tailStart'[rowOf[r]],
                               prompt[r], pos)
        written == {<<r, pos>> \in Batch \X (0 .. MaxLen - 1) :
                        pos >= computed[r] /\ pos < computed[r] + scheduled[r]}
    IN  /\ pc = "run"
        /\ IF Consumer THEN ClearMiddleBlocks(Long) ELSE UNCHANGED tableVars
        /\ kv' = [s \in Block \X Offset |->
                    IF \E t \in written : slot(t[1], t[2]) = s
                    THEN CHOOSE t \in written : slot(t[1], t[2]) = s
                    ELSE kv[s]]
        /\ pc' = "attend"
        /\ UNCHANGED <<steps, reqVars, scheduled, toAdd, reqIds, rowOf, removed, dest>>

\* decode_seq_lens of _compute_sparse_seq_lens_for_attention
LongSeqLen(r) ==
    HeadBlocks * BlockSize + prompt[r] - TailStart(prompt[r])
        + AtLeast0(computed[r] - prompt[r])

\* The number of entries attention reads from the row of r
SeqLen(r) == IF Consumer /\ r \in Long THEN LongSeqLen(r) ELSE computed[r] + scheduled[r]

\* The end of the step: long requests whose prefill is complete are compacted,
\* and a request that has computed all its tokens gets one more
Attend ==
    LET complete == {r \in Batch \cap Long :
                        /\ computed[r] < prompt[r]
                        /\ computed[r] + scheduled[r] >= numTokens[r]}
    IN  /\ pc = "attend"
        /\ ClearMiddleBlocks(complete)
        /\ computed' = [r \in Request |->
                            IF r \in Batch THEN computed[r] + scheduled[r] ELSE computed[r]]
        /\ numTokens' = [r \in Request |->
                            IF r \in Batch /\ computed'[r] = numTokens[r] THEN numTokens[r] + 1
                            ELSE numTokens[r]]
        /\ pc' = "idle"
        /\ UNCHANGED <<steps, known, prompt, allocated, scheduled, toAdd, reqIds, rowOf, removed, dest,
                       kv>>

BatchNext ==
    \/ Update
    \/ \E r \in Request : AddRequest(r)
    \/ AddDone \/ CondenseMove \/ CondenseDone
    \/ SwapStates \/ ReorderDone
    \/ Run \/ Attend

BatchSpec == BatchInit /\ [][BatchNext]_batchVars

-----------------------------------------------------------------------------
(* Properties *)

\* When the inputs are prepared the batch is dense: the rows up to the number
\* of requests are taken by the scheduled requests, one each, and
\* req_id_to_index is the inverse of _req_ids, whatever was removed, added,
\* moved and swapped before.
BatchDense ==
    pc = "run" =>
        /\ Len(reqIds) = Cardinality(Batch)
        /\ \A i \in DOMAIN reqIds : reqIds[i] # None /\ rowOf[reqIds[i]] = i
        /\ Batch = {r \in Request : scheduled[r] > 0}

\* With a backend that asks for it, decodes come first, then short extends,
\* then long extends, then prefills.
RegionsInOrder ==
    (pc = "run" /\ Reorders) =>
        \A i, j \in DOMAIN reqIds : i < j => Region(reqIds[i]) <= Region(reqIds[j])

\* The batch that the step runs is the scheduled one, dense and ordered.
BatchInv == BatchTypeOK /\ BatchDense /\ RegionsInOrder

\* The j-th entry attention is meant to read for r: of a long request on the
\* decoder the head, and then the tail with the generated tokens
Expected(r, j) ==
    IF Consumer /\ r \in Long /\ j >= HeadBlocks * BlockSize
    THEN TailStart(prompt[r]) + j - HeadBlocks * BlockSize
    ELSE j

Entry(r, j) == kv[<<table[rowOf[r]][j \div BlockSize + 1], j % BlockSize>>]

\* Attention reads what it should: every entry it reads from the row of a
\* request is the KV of the request's own token at the right position, which
\* was written in this or an earlier step or loaded from the prefiller.
ReadsOwnKV ==
    pc = "attend" =>
        \A r \in Batch : \A j \in 0 .. SeqLen(r) - 1 :
            /\ table[rowOf[r]][j \div BlockSize + 1] # None
            /\ Entry(r, j) = <<r, Expected(r, j)>>

\* The sequence length is the exact count of valid tokens: the last entry that
\* attention reads is the KV of the last token of the step.
ReadsLastToken ==
    pc = "attend" =>
        \A r \in Batch :
            Expected(r, SeqLen(r) - 1) = computed[r] + scheduled[r] - 1

\* A long request on the decoder is always in its decode phase.
LongAlwaysDecodes ==
    (pc = "run" /\ Consumer) => \A r \in Batch \cap Long : computed[r] >= prompt[r] - 1
=============================================================================
