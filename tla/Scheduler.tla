----------------------------- MODULE Scheduler -----------------------------
(***************************************************************************)
(* The scheduler of one engine core and the loop that drives it:           *)
(* vllm/v1/core/sched/scheduler.py, async_scheduler.py, request_queue.py   *)
(* and EngineCore in vllm/v1/engine/core.py, on top of KVCacheManager.     *)
(*                                                                         *)
(* One thread runs the loop, so schedule() and update_from_output() are    *)
(* atomic.  schedule() is a long function; it is split at its loops into   *)
(* the actions with pc = "running" ... "finish", and no other action is    *)
(* enabled while it runs.  What does interleave with it is the outside     *)
(* world: clients add and abort requests, batches are executed, and the    *)
(* connector reports transfers.                                            *)
(*                                                                         *)
(* pc names the exception once one escapes: the engine is then dead, and   *)
(* the rest of its state no longer means anything.                         *)
(***************************************************************************)
EXTENDS KVCacheManager, RequestQueue, FiniteSetsExt

CONSTANTS NumPromptTokens,         \* [Request -> Nat], request.num_prompt_tokens
          MaxTokens,               \* [Request -> Nat], request.max_tokens
          RemotePrefill,           \* requests sent with do_remote_prefill
          RemoteDecode,            \* requests sent with do_remote_decode
          MaxNumRunningReqs,       \* max_num_running_reqs
          MaxNumScheduledTokens,   \* max_num_scheduled_tokens
          LongThreshold,           \* NELSSAConfig.prompt_length_threshold
          MaxNumLongRequests,      \* NELSSAConfig.max_num_long_requests
          ReserveFullISL,          \* scheduler_reserve_full_isl
          AsyncScheduling,         \* AsyncScheduler and a batch queue of two
          RecomputeKVLoadFailures  \* kv_load_failure_policy is "recompute"

ASSUME SchedulerAssumption ==
    /\ Request \subseteq Nat /\ IsFiniteSet(Request)
    /\ NumPromptTokens \in [Request -> 1 .. MaxModelLen - 1]
    /\ MaxTokens \in [Request -> Nat \ {0}]
    /\ Priority \in [Request -> Nat]
    /\ RemotePrefill \subseteq Request /\ RemoteDecode \subseteq Request
    /\ Policy \in {"fcfs", "priority"}
    /\ MaxNumRunningReqs \in Nat \ {0} /\ MaxNumScheduledTokens \in Nat \ {0}
    /\ LongThreshold \in Nat /\ MaxNumLongRequests \in Nat
    /\ ReserveFullISL \in BOOLEAN /\ AsyncScheduling \in BOOLEAN
    /\ RecomputeKVLoadFailures \in BOOLEAN

VARIABLES pc,             \* where the engine loop is
          step,           \* the local variables of schedule()
          requests,       \* keys of self.requests
          status,         \* request.status; "NEW" before add_request
          numComputed,    \* request.num_computed_tokens
          numTokens,      \* request.num_tokens: prompt and output
          placeholders,   \* request.num_output_placeholders
          longMask,       \* requests with nelssa_long_mask
          everPreempted,  \* requests with num_preemptions > 0
          running, waiting, skipped,   \* the queues; skipped_waiting
          finishedReqIds,              \* finished_req_ids
          inflight,       \* batch_queue, oldest first
          doRemotePrefill,   \* requests whose do_remote_prefill is still set
          needSend,          \* NIXL scheduler: _reqs_need_send
          recving, sending,  \* NIXL worker: transfers under way
          finishedRecving,   \* finished_recving_kv_req_ids
          failedRecving      \* failed_recving_kv_req_ids

reqVars == <<requests, status, numComputed, numTokens, placeholders, longMask, everPreempted>>
queueVars == <<running, waiting, skipped, finishedReqIds>>
xferVars == <<doRemotePrefill, needSend, recving, sending, finishedRecving, failedRecving>>
vars == <<kvVars, pc, step, reqVars, queueVars, inflight, xferVars>>

Crash == {"ValueError", "AssertionError", "RuntimeError"}
PC == {"input", "running", "allocate", "preempt", "waiting", "finish", "output"} \cup Crash
Status == {"NEW", "WAITING", "WAITING_FOR_REMOTE_KVS", "RUNNING", "PREEMPTED", "FINISHED"}
BatchQueueSize == IF AsyncScheduling THEN 2 ELSE 1

\* The locals at the start of schedule(); index counts from 1
NewStep == [index |-> 1, req |-> 0, new |-> 0, budget |-> MaxNumScheduledTokens,
            toks |-> [r \in Request |-> 0], runningReqs |-> {}, newReqs |-> {},
            preempted |-> {}, skipped |-> << >>, recv |-> {}]

SchedInit ==
    /\ KVInit
    /\ pc = "input" /\ step = NewStep
    /\ requests = {} /\ status = [r \in Request |-> "NEW"]
    /\ numComputed = [r \in Request |-> 0] /\ numTokens = NumPromptTokens
    /\ placeholders = [r \in Request |-> 0]
    /\ longMask = {} /\ everPreempted = {}
    /\ running = << >> /\ waiting = << >> /\ skipped = << >>
    /\ finishedReqIds = {} /\ inflight = << >>
    /\ doRemotePrefill = RemotePrefill
    /\ needSend = {} /\ recving = {} /\ sending = {}
    /\ finishedRecving = {} /\ failedRecving = {}

-----------------------------------------------------------------------------
(* Work that is left                                                       *)

\* Mutant: an engine with nothing running is taken to be idle
HasRunning == running # << >> \/ finishedReqIds # {}

HasRequests == running # << >> \/ waiting # << >> \/ skipped # << >> \/ finishedReqIds # {}

-----------------------------------------------------------------------------
(* Requests from clients                                                   *)

AddRequest(r) ==
    /\ pc = "input" /\ status[r] = "NEW"
    /\ requests' = requests \cup {r}
    /\ status' = [status EXCEPT ![r] = "WAITING"]
    /\ waiting' = AddTo(waiting, r)
    /\ UNCHANGED <<kvVars, pc, step, numComputed, numTokens, placeholders, longMask,
                   everPreempted, running, skipped, finishedReqIds, inflight, xferVars>>

IsLoading(r) == status[r] = "WAITING_FOR_REMOTE_KVS"

\* Mutants: the blocks of a load are given back at once; they wait for a load
\* that has already been reported
NeverDelays(r) == FALSE
DelaysEveryLoad(r) == IsLoading(r)

\* delay_free_blocks in finish_requests
DelaysFree(r) == IsLoading(r) /\ r \notin finishedRecving

\* finish_requests(FINISHED_ABORTED), from the input queue or, after a batch,
\* from the aborts queue.  The blocks of a load that is still under way wait
\* for it to end.  For a load that was not scheduled yet NIXL's request_finished
\* also queues a READ of no blocks: what the worker does with that is in
\* NixlTransfer (MayAbortEarly), and here the entry ends with the request.
Abort(r) ==
    /\ pc \in {"input", "output"}
    /\ r \in requests /\ status[r] # "FINISHED"
    /\ LET gone == IF DelaysFree(r) THEN {} ELSE {r}
       IN  FreeBlocks(gone, {}) /\ requests' = requests \ gone
    /\ status' = [status EXCEPT ![r] = "FINISHED"]
    /\ running' = RemoveAll(running, {r})
    /\ waiting' = RemoveAll(waiting, {r})
    /\ skipped' = RemoveAll(skipped, {r})
    /\ finishedReqIds' = finishedReqIds \cup {r}
    /\ doRemotePrefill' = doRemotePrefill \ {r}
    /\ finishedRecving' = finishedRecving \ {r}
    /\ failedRecving' = failedRecving \ {r}
    /\ UNCHANGED <<pc, step, numComputed, numTokens, placeholders, longMask,
                   everPreempted, inflight, needSend, recving, sending>>

-----------------------------------------------------------------------------
(* step and step_with_batch_queue *)

ScheduleStart ==
    /\ pc = "input" /\ HasRequests
    /\ pc' = "running"
    /\ UNCHANGED <<kvVars, step, reqVars, queueVars, inflight, xferVars>>

AwaitOutput ==
    /\ pc = "input" /\ ~HasRequests /\ inflight # << >>
    /\ pc' = "output"
    /\ UNCHANGED <<kvVars, step, reqVars, queueVars, inflight, xferVars>>

-----------------------------------------------------------------------------
(* schedule(): the RUNNING requests *)

\* The next token would be past max_tokens, counting the outputs under way
OutputsReachMaxTokens(r) ==
    /\ placeholders[r] > 0
    /\ numComputed[r] + 2 - placeholders[r] >= NumPromptTokens[r] + MaxTokens[r]

NumNewTokens(r) ==
    Min({numTokens[r] + placeholders[r] - numComputed[r], step.budget,
         MaxModelLen - 1 - numComputed[r]})

InRunningLoop == pc = "running" /\ step.index <= Len(running) /\ step.budget > 0

RunningSkip ==
    /\ InRunningLoop
    /\ LET r == running[step.index]
       IN  OutputsReachMaxTokens(r) \/ NumNewTokens(r) = 0
    /\ step' = [step EXCEPT !.index = @ + 1]
    /\ UNCHANGED <<kvVars, pc, reqVars, queueVars, inflight, xferVars>>

RunningPick ==
    /\ InRunningLoop
    /\ LET r == running[step.index]
       IN  /\ ~OutputsReachMaxTokens(r) /\ NumNewTokens(r) # 0
           /\ step' = [step EXCEPT !.req = r, !.new = NumNewTokens(r)]
    /\ pc' = "allocate"
    /\ UNCHANGED <<kvVars, reqVars, queueVars, inflight, xferVars>>

\* allocate_slots for the request that was picked
RunningAllocate ==
    /\ pc = "allocate"
    /\ LET r == step.req
           result == AllocationResult(r, r \in longMask, numTokens[r], numComputed[r], 0, step.new)
       IN  /\ AllocateSlots(r, r \in longMask, numTokens[r], numComputed[r], 0, step.new)
           /\ \/ /\ result = "ok"
                 /\ pc' = "running"
                 /\ step' = [step EXCEPT !.index = @ + 1, !.budget = @ - step.new,
                                         !.toks[r] = step.new,
                                         !.runningReqs = @ \cup {r}]
              \/ /\ result # "ok"
                 /\ pc' = IF result = "none" THEN "preempt" ELSE "ValueError"
                 /\ UNCHANGED step
    /\ UNCHANGED <<reqVars, queueVars, inflight, xferVars>>

\* _is_nelssa_preempt_protected
IsPreemptProtected(r) == r \in longMask /\ numComputed[r] >= NumPromptTokens[r]

\* Mutant: protection is not looked at
AnyVictim ==
    IF Policy = "fcfs"
    THEN running[Len(running)]
    ELSE running[CHOOSE i \in DOMAIN running :
                    \A j \in DOMAIN running : i = j \/ Before(running[j], running[i])]

\* The lowest-priority request that is not protected, or the lowest-priority
\* one when all are
PreemptionVictim ==
    LET candidates == {i \in DOMAIN running : ~IsPreemptProtected(running[i])}
        indices == IF candidates # {} THEN candidates ELSE DOMAIN running
    IN  IF Policy = "fcfs"
        THEN running[Max(indices)]
        ELSE running[CHOOSE i \in indices :
                        \A j \in indices : i = j \/ Before(running[j], running[i])]

\* Mutants: what the victim was given in this step is not taken back; only its
\* budget is not
StepKeepsVictim(v) == [step EXCEPT !.preempted = @ \cup {v}]
StepKeepsBudget(v) ==
    [step EXCEPT !.preempted = @ \cup {v}, !.runningReqs = @ \ {v}, !.toks[v] = 0]

\* The locals once the victim v is preempted.  Only the PRIORITY branch takes
\* back what it gave to v in this step.
StepWithout(v) ==
    LET s == [step EXCEPT !.preempted = @ \cup {v}]
    IN  IF Policy = "priority" /\ v \in step.runningReqs
        THEN [s EXCEPT !.runningReqs = @ \ {v}, !.budget = @ + step.toks[v],
                       !.toks[v] = 0, !.index = @ - 1]
        ELSE s

\* Take the victim out of running; _preempt_request
Preempt ==
    /\ pc = "preempt"
    /\ LET v == PreemptionVictim
       IN  /\ FreeBlocks({v}, {})
           /\ status' = [status EXCEPT ![v] = "PREEMPTED"]
           /\ numComputed' = [numComputed EXCEPT ![v] = 0]
           /\ everPreempted' = everPreempted \cup {v}
           /\ running' = RemoveAll(running, {v})
           /\ waiting' = PrependTo(waiting, v)
           /\ step' = StepWithout(v)
           /\ pc' = IF v = step.req THEN "finish" ELSE "allocate"
    /\ UNCHANGED <<requests, numTokens, placeholders, longMask, skipped,
                   finishedReqIds, inflight, xferVars>>

RunningDone ==
    /\ pc = "running" /\ ~InRunningLoop
    /\ pc' = IF step.preempted = {} THEN "waiting" ELSE "finish"
    /\ UNCHANGED <<kvVars, step, reqVars, queueVars, inflight, xferVars>>

-----------------------------------------------------------------------------
(* schedule(): the WAITING requests *)

InWaitingLoop ==
    /\ pc = "waiting" /\ step.budget > 0
    /\ waiting # << >> \/ skipped # << >>
    /\ Len(running) # MaxNumRunningReqs

\* _select_waiting_queue_for_scheduling
SelectSkipped ==
    IF Policy = "fcfs" \/ skipped = << >> \/ waiting = << >>
    THEN skipped # << >>
    ELSE LET w == Head(waiting)
             s == Head(skipped)
         IN  IF w \in longMask <=> s \in longMask THEN ~Before(w, s) ELSE s \in longMask

Candidate == IF SelectSkipped THEN Head(skipped) ELSE Head(waiting)

PopCandidate ==
    IF SelectSkipped
    THEN skipped' = Tail(skipped) /\ UNCHANGED waiting
    ELSE waiting' = Tail(waiting) /\ UNCHANGED skipped

\* nelssa_check, consulted for a candidate; the mask then stays
LongMaskAfter(r) ==
    IF MaxNumLongRequests > 0 /\ NumPromptTokens[r] >= LongThreshold
    THEN longMask \cup {r} ELSE longMask

TooManyLongRequests(r) ==
    /\ MaxNumLongRequests > 0 /\ r \in LongMaskAfter(r)
    /\ Cardinality(Range(running) \cap longMask) >= MaxNumLongRequests

\* The candidate is set aside for this step
WaitingSkip ==
    /\ InWaitingLoop
    /\ LET r == Candidate
       IN  /\ \/ IsLoading(r) /\ r \notin finishedRecving /\ UNCHANGED longMask
              \/ ~IsLoading(r) /\ TooManyLongRequests(r) /\ longMask' = LongMaskAfter(r)
           /\ step' = [step EXCEPT !.skipped = PrependTo(@, r)]
    /\ PopCandidate
    /\ UNCHANGED <<kvVars, pc, requests, status, numComputed, numTokens, placeholders,
                   everPreempted, running, finishedReqIds, inflight, xferVars>>

\* _try_promote_blocked_waiting_request and _update_waiting_for_remote_kv; the
\* candidate then goes on through the loop
Promote ==
    /\ InWaitingLoop
    /\ LET r == Candidate
       IN  /\ IsLoading(r) /\ r \in finishedRecving
           /\ FreeBlocks(IF r \in failedRecving /\ numComputed[r] = 0 THEN {r} ELSE {}, {})
           /\ numComputed' = IF r \notin failedRecving /\ numComputed[r] = numTokens[r]
                             THEN [numComputed EXCEPT ![r] = numTokens[r] - 1]
                             ELSE numComputed
           /\ status' = [status EXCEPT
                            ![r] = IF r \in everPreempted THEN "PREEMPTED" ELSE "WAITING"]
           /\ finishedRecving' = finishedRecving \ {r}
           /\ failedRecving' = failedRecving \ {r}
    /\ UNCHANGED <<pc, step, requests, numTokens, placeholders, longMask, everPreempted,
                   queueVars, inflight, doRemotePrefill, needSend, recving, sending>>

\* get_num_new_matched_tokens of the NIXL connector: all prompt tokens, once
NumExternalTokens(r) ==
    IF numComputed[r] = 0 /\ r \in doRemotePrefill THEN NumPromptTokens[r] ELSE 0

NumWaitingTokens(r) ==
    IF NumExternalTokens(r) > 0
    THEN 0 ELSE Min({numTokens[r] - numComputed[r], step.budget})

CandidateReady == InWaitingLoop /\ ~IsLoading(Candidate) /\ ~TooManyLongRequests(Candidate)

\* The admission gate, then allocate_slots
Admission(r) ==
    IF ReserveFullISL
         /\ ~CanFitFullSequence(r, numTokens[r], numComputed[r], NumExternalTokens(r))
    THEN "no room"
    ELSE AllocationResult(r, r \in LongMaskAfter(r), numTokens[r], numComputed[r],
                          NumExternalTokens(r), NumWaitingTokens(r))

AllocateCandidate(r) ==
    /\ AllocateSlots(r, r \in LongMaskAfter(r), numTokens[r], numComputed[r],
                     NumExternalTokens(r), NumWaitingTokens(r))
    /\ longMask' = LongMaskAfter(r)

\* The candidate does not fit: it stays where it is and the loop ends
WaitingBreak ==
    /\ CandidateReady
    /\ LET r == Candidate
       IN  \/ /\ Admission(r) = "no room" /\ pc' = "finish"
              /\ longMask' = LongMaskAfter(r) /\ UNCHANGED kvVars
           \/ /\ Admission(r) \in {"none", "raise"} /\ AllocateCandidate(r)
              /\ pc' = IF Admission(r) = "none" THEN "finish" ELSE "ValueError"
    /\ UNCHANGED <<step, requests, status, numComputed, numTokens, placeholders,
                   everPreempted, queueVars, inflight, xferVars>>

\* The candidate gets blocks for its prompt and waits for the load
WaitingLoad ==
    /\ CandidateReady
    /\ LET r == Candidate
       IN  /\ Admission(r) = "ok" /\ NumExternalTokens(r) > 0
           /\ AllocateCandidate(r)
           /\ status' = [status EXCEPT ![r] = "WAITING_FOR_REMOTE_KVS"]
           /\ numComputed' = [numComputed EXCEPT ![r] = NumExternalTokens(r)]
           /\ doRemotePrefill' = doRemotePrefill \ {r}
           /\ step' = [step EXCEPT !.skipped = PrependTo(@, r), !.recv = @ \cup {r}]
    /\ PopCandidate
    /\ UNCHANGED <<pc, requests, numTokens, placeholders, everPreempted, running,
                   finishedReqIds, inflight, needSend, recving, sending,
                   finishedRecving, failedRecving>>

\* The candidate joins running and gets tokens; only a request that waits or
\* was preempted may
WaitingRun ==
    /\ CandidateReady
    /\ LET r == Candidate
           new == NumWaitingTokens(r)
       IN  /\ Admission(r) = "ok" /\ NumExternalTokens(r) = 0
           /\ AllocateCandidate(r)
           /\ running' = Append(running, r)
           /\ status' = [status EXCEPT ![r] = "RUNNING"]
           /\ step' = [step EXCEPT !.newReqs = @ \cup {r}, !.toks[r] = new, !.budget = @ - new]
           /\ pc' = CASE new <= 0 -> "AssertionError"
                      [] new > 0 /\ status[r] \notin {"WAITING", "PREEMPTED"} -> "RuntimeError"
                      [] OTHER -> "waiting"
    /\ PopCandidate
    /\ UNCHANGED <<requests, numComputed, numTokens, placeholders, everPreempted,
                   finishedReqIds, inflight, xferVars>>

WaitingDone ==
    /\ pc = "waiting" /\ ~InWaitingLoop
    /\ pc' = "finish"
    /\ UNCHANGED <<kvVars, step, reqVars, queueVars, inflight, xferVars>>

-----------------------------------------------------------------------------
(* schedule(): the end *)

ScheduleAsserts ==
    /\ MapThenSumSet(LAMBDA r : step.toks[r], Request) <= MaxNumScheduledTokens
    /\ step.budget >= 0
    /\ Len(running) <= MaxNumRunningReqs
    /\ Cardinality(step.newReqs) + Cardinality(step.runningReqs) <= Len(running)

Scheduled == {r \in Request : step.toks[r] > 0}

\* The requests that will sample a token: not is_prefill_chunk
Sampling(computed) ==
    {r \in Scheduled : computed[r] >= numTokens[r] + placeholders[r]}

\* Mutant: off by one
PrefillPassed(computed) ==
    {r \in (step.newReqs \cup step.runningReqs) \cap longMask :
        numComputed[r] < NumPromptTokens[r] /\ computed[r] > numTokens[r]}

\* prefill_complete_reqs
PrefillComplete(computed) ==
    {r \in (step.newReqs \cup step.runningReqs) \cap longMask :
        numComputed[r] < NumPromptTokens[r] /\ computed[r] >= numTokens[r]}

\* Mutant: a prefill chunk gets a placeholder too
PlaceholderForAll(sampling) ==
    [r \in Request |-> IF AsyncScheduling /\ r \in Scheduled
                       THEN placeholders[r] + 1 ELSE placeholders[r]]

\* AsyncScheduler._update_after_schedule
PlaceholdersAfter(sampling) ==
    [r \in Request |-> IF AsyncScheduling /\ r \in sampling
                       THEN placeholders[r] + 1 ELSE placeholders[r]]

\* step_with_batch_queue: schedule again before the last batch is waited for
QueueHasRoom == Len(inflight') < BatchQueueSize

\* Requeue what was skipped, build the output and the connector's metadata,
\* _update_after_schedule, and hand the batch to the executor.  With a batch
\* queue the loop goes back for another one unless the oldest is already done.
FinishSchedule ==
    /\ pc = "finish"
    /\ LET computed == [r \in Request |-> numComputed[r] + step.toks[r]]
           sampling == Sampling(computed)
       IN  /\ numComputed' = computed
           /\ placeholders' = PlaceholdersAfter(sampling)
           /\ inflight' = Append(inflight,
                [scheduled |-> Scheduled, sampling |-> sampling,
                 complete |-> PrefillComplete(computed),
                 recv |-> step.recv, send |-> needSend])
    /\ skipped' = PrependRequests(skipped, step.skipped)
    /\ finishedReqIds' = {} /\ needSend' = {}
    /\ step' = NewStep
    /\ pc' \in CASE ~ScheduleAsserts -> {"AssertionError"}
                [] ScheduleAsserts /\ Scheduled # {} /\ QueueHasRoom ->
                        {"input", "output"}
                [] OTHER -> {"output"}
    /\ UNCHANGED <<kvVars, requests, status, numTokens, longMask, everPreempted, running,
                   waiting, doRemotePrefill, recving, sending, finishedRecving, failedRecving>>

-----------------------------------------------------------------------------
(* update_from_output *)

\* check_stop, for a request with that many tokens and no stop token
LengthCapped(r, tokens) ==
    tokens >= MaxModelLen \/ tokens - NumPromptTokens[r] >= MaxTokens[r]

\* _update_requests_with_invalid_blocks: loads that failed and are still
\* wanted; the first block of a failed load is among its invalid ones
InvalidLoads(failed) == {r \in failed : IsLoading(r)}

\* _handle_invalid_blocks: the ones that end their request
FailedRequests(failed) == IF RecomputeKVLoadFailures THEN {} ELSE InvalidLoads(failed)

\* The requests that the loop over the batch does not skip
LiveRequests(batch, failing) ==
    {r \in batch.scheduled \cap requests : status[r] # "FINISHED" /\ r \notin failing}

\* _update_request_with_output, one new token for each
TokensAfter(sampled) ==
    [r \in Request |-> IF r \in sampled THEN numTokens[r] + 1 ELSE numTokens[r]]
PlaceholdersLeft(sampled) ==
    [r \in Request |-> IF AsyncScheduling /\ r \in sampled
                       THEN placeholders[r] - 1 ELSE placeholders[r]]

\* request_finished: the blocks of a prefill wait for the decoder
DelayedSends(capped) == {r \in capped \cap RemoteDecode : reqToBlocks[r] # << >>}

\* _update_from_kv_xfer_finished: loads nobody waits for any more
UnwantedLoads(received, failing) ==
    {r \in received : status[r] = "FINISHED" \/ r \in failing}

\* The oldest batch is done.  eos are requests whose sampled token stops them;
\* failed, received and sent are what the connector reports with the batch.
UpdateFromOutput(eos, failed, received, sent) ==
    /\ pc = "output"
    /\ LET batch == Head(inflight)
           failing == FailedRequests(failed)
           live == LiveRequests(batch, failing)
           sampled == live \cap batch.sampling
           capped == {r \in sampled \ eos : LengthCapped(r, TokensAfter(sampled)[r])}
           stopped == capped \cup (sampled \cap eos)
           delayed == DelayedSends(capped)
           over == UnwantedLoads(received, failing)
           gone == (stopped \ delayed) \cup over \cup sent
       IN  /\ inflight' = Tail(inflight)
           /\ recving' = (recving \cup batch.recv) \ received
           /\ sending' = (sending \cup batch.send) \ sent
           /\ FreeBlocks(gone, live \cap batch.complete)
           /\ requests' = requests \ gone
           /\ status' = [r \in Request |-> IF r \in stopped \cup failing
                                            THEN "FINISHED" ELSE status[r]]
           /\ numTokens' = TokensAfter(sampled)
           /\ numComputed' = [r \in Request |-> IF r \in InvalidLoads(failed)
                                                 THEN 0 ELSE numComputed[r]]
           /\ placeholders' = PlaceholdersLeft(sampled)
           /\ running' = RemoveAll(running, {r \in stopped : status[r] = "RUNNING"})
           /\ waiting' = RemoveAll(waiting, failing \cup {r \in stopped : status[r] # "RUNNING"})
           /\ skipped' = RemoveAll(skipped, failing)
           /\ finishedReqIds' = finishedReqIds \cup stopped \cup failing
           /\ needSend' = needSend \cup delayed
           /\ finishedRecving' = finishedRecving \cup (received \ over)
           /\ failedRecving' = IF RecomputeKVLoadFailures
                               THEN failedRecving \cup InvalidLoads(failed) ELSE failedRecving
           /\ pc' = IF \/ ~(received \cup sent \subseteq requests)
                       \/ \E r \in sampled : placeholders'[r] < 0
                    THEN "AssertionError" ELSE "input"
    /\ UNCHANGED <<step, longMask, everPreempted, doRemotePrefill>>

\* get_finished of the connector's worker: a load is reported when it ends, well
\* or not, a send when the decoder has notified the worker or its time is up
UpdateReceiving(received) ==
    /\ pc = "output"
    /\ LET batch == Head(inflight)
       IN  \E failed \in SUBSET (recving \cup batch.recv) :
           \E eos \in SUBSET batch.sampling, sent \in SUBSET (sending \cup batch.send) :
                UpdateFromOutput(eos, failed, received, sent)

Update ==
    /\ pc = "output"
    /\ \E received \in SUBSET (recving \cup Head(inflight).recv) : UpdateReceiving(received)

\* The engine is idle, every client has its answer, or an exception ended it
Stopped ==
    /\ \/ pc \in Crash
       \/ /\ pc = "input" /\ ~HasRequests /\ inflight = << >>
          /\ \A r \in Request : status[r] # "NEW"
    /\ UNCHANGED vars

Engine ==
    \/ ScheduleStart \/ AwaitOutput
    \/ RunningSkip \/ RunningPick \/ RunningAllocate \/ Preempt \/ RunningDone
    \/ WaitingSkip \/ Promote \/ WaitingBreak \/ WaitingLoad \/ WaitingRun \/ WaitingDone
    \/ FinishSchedule \/ Update

SchedNext ==
    \/ Engine
    \/ \E r \in Request : AddRequest(r) \/ Abort(r)
    \/ Stopped

SchedSpec == SchedInit /\ [][SchedNext]_vars

-----------------------------------------------------------------------------
(* Invariants.  An engine that died is exempt where its state is half done. *)

Alive == pc \notin Crash

SchedTypeOK ==
    /\ KVTypeOK
    /\ pc \in PC
    /\ requests \subseteq Request /\ status \in [Request -> Status]
    /\ numComputed \in [Request -> 0 .. MaxModelLen - 1]
    /\ numTokens \in [Request -> 0 .. MaxModelLen]
    /\ placeholders \in [Request -> 0 .. BatchQueueSize]
    /\ longMask \subseteq Request /\ everPreempted \subseteq Request
    /\ running \in Seq(Request) /\ waiting \in Seq(Request) /\ skipped \in Seq(Request)
    /\ finishedReqIds \subseteq Request
    /\ inflight \in Seq([scheduled : SUBSET Request, sampling : SUBSET Request,
                         complete : SUBSET Request, recv : SUBSET Request,
                         send : SUBSET Request])
    /\ Len(inflight) <= BatchQueueSize
    /\ doRemotePrefill \subseteq Request /\ needSend \subseteq Request
    /\ recving \subseteq Request /\ sending \subseteq Request
    /\ finishedRecving \subseteq Request /\ failedRecving \subseteq Request

\* Every request that is not finished is in exactly one queue, once, and its
\* status says which kind; a finished one is in none.  (finish_requests and
\* update_from_output pick the queue to clean by status alone.)
QueuesMatchStatus ==
    LET queues == running \o waiting \o skipped \o step.skipped
    IN  Alive => /\ IsInjective(queues)
                 /\ Range(running) = {r \in Request : status[r] = "RUNNING"}
                 /\ Range(queues) = {r \in Request : status[r] \notin {"NEW", "FINISHED"}}
                 /\ \A r \in Range(waiting) : ~IsLoading(r)

\* A token that is or is about to be computed has a slot: the table of a
\* request reaches over its computed tokens and those scheduled in this step.
TokensHaveBlocks ==
    Alive => \A r \in Request :
        status[r] # "FINISHED" =>
            numComputed[r] + step.toks[r] <= BlockSize * Len(reqToBlocks[r])

\* With async scheduling the placeholders of a request count the batches under
\* way that will sample a token for it, also when it was preempted meanwhile.
PlaceholdersMatch ==
    Alive => \A r \in Request :
        status[r] # "FINISHED" =>
            placeholders[r] = IF AsyncScheduling
                              THEN Cardinality({i \in DOMAIN inflight : r \in inflight[i].sampling})
                              ELSE 0

Loading == recving \cup step.recv \cup UNION {inflight[i].recv : i \in DOMAIN inflight}
Sending == sending \cup needSend \cup UNION {inflight[i].send : i \in DOMAIN inflight}

\* While a remote read into its blocks may be under way, or the decoder may
\* still read them, a request stays known and keeps its blocks, whatever is
\* aborted, fails or finishes in between.
TransferKeepsBlocks ==
    Alive => /\ \A r \in Loading : r \in requests /\ Len(reqToBlocks[r]) >= Cdiv(NumPromptTokens[r])
             /\ \A r \in Sending : r \in requests /\ reqToBlocks[r] # << >>

\* Nothing is left behind: only a known request holds blocks, and a finished
\* one stays known only while a transfer of its blocks is outstanding.
FinishedHoldsNothing ==
    Alive => \A r \in Request :
        /\ reqToBlocks[r] # << >> => r \in requests
        /\ status[r] = "FINISHED" /\ r \in requests => r \in Loading \cup Sending

\* A request taken out of running in this step is not in the batch that the
\* step hands out.
PreemptedNotScheduled ==
    Alive => \A r \in step.preempted : step.toks[r] = 0

\* The budget is spent or taken back exactly.
BudgetExact ==
    MapThenSumSet(LAMBDA r : step.toks[r], Request) + step.budget = MaxNumScheduledTokens

\* A step of schedule() is exact: a victim that was already scheduled leaves the
\* batch with all its tokens, which go back to the budget.
StepExact == SchedTypeOK /\ PreemptedNotScheduled /\ BudgetExact

\* max_num_long_requests bounds the long requests that run.
LongRequestsBounded ==
    MaxNumLongRequests > 0 =>
        Cardinality(Range(running) \cap longMask) <= MaxNumLongRequests

\* A running long request keeps the blocks of the first first_n and the last
\* last_m tokens of its prompt, and of all its output, on the GPU.
HeadAndTailResident ==
    Alive => \A r \in Range(running) : \A i \in DOMAIN reqToBlocks[r] :
        reqToBlocks[r][i] = NullBlock =>
            /\ (i - 1) * BlockSize >= HeadSize
            /\ i * BlockSize <= NumPromptTokens[r] - TailSize

\* A long request that has sampled a token holds the blocks of its head and those
\* from the block on in which the last last_m tokens of its prompt begin, and no
\* other: what bounds the memory of a long decode.  It is stated of requests that
\* were never preempted: schedule() compares with num_tokens to see whether a
\* prefill is complete, so a resumed one can pass the end of its prompt unseen.
LongDecodeFootprint ==
    Alive => \A r \in (Range(running) \cap longMask) \ everPreempted :
        numTokens[r] > NumPromptTokens[r] =>
            Cardinality(BlocksOf(reqToBlocks[r])) <=
                Cdiv(HeadSize) + Cdiv(numTokens[r] + placeholders[r])
                    - (NumPromptTokens[r] - TailSize) \div BlockSize

\* The memory of long decodes is bounded: max_num_long_requests of them run, each
\* with its head, tail and output only.
LongMemoryBounded == LongRequestsBounded /\ LongDecodeFootprint

\* Every request is accounted for in queues and block tables, whatever is
\* aborted, preempted, fails or finishes: in the one queue of its status, and
\* holding blocks only as long as it is known.
RequestsAccounted == QueuesMatchStatus /\ FinishedHoldsNothing

\* No exception ends the engine.
NoCrash == Alive

\* allocate_slots finds out that the blocks do not suffice before it takes any:
\* get_new_blocks does not raise.
AllocationChecked == pc # "ValueError"

\* The assertions at the end of schedule() hold.
ScheduleAssertsHold == pc # "AssertionError"

-----------------------------------------------------------------------------
(* Action and liveness properties *)

\* A long request that decodes goes on decoding until it ends: it is neither
\* preempted nor set back into its prompt, except that schedule() preempts one when
\* only such requests are running (the fallback for the FCFS tail and for the
\* lowest priority).
ProtectedKeepsRunning ==
    [][\A r \in Request : status[r] = "RUNNING" /\ IsPreemptProtected(r) =>
        \/ status'[r] = "RUNNING" /\ IsPreemptProtected(r)'
        \/ status'[r] = "FINISHED"
        \/ status'[r] = "PREEMPTED" /\ \A i \in DOMAIN running : IsPreemptProtected(running[i])]_vars

LoadEnds(r) ==
    /\ pc = "output" /\ r \in recving \cup Head(inflight).recv
    /\ \E others \in SUBSET (recving \cup Head(inflight).recv) : UpdateReceiving(others \cup {r})

\* The engine loop runs as long as it has work, and a load ends, well or not,
\* if the worker is polled for it again and again.
FairSpec ==
    /\ SchedSpec
    /\ WF_vars(Engine)
    /\ \A r \in RemotePrefill : SF_vars(LoadEnds(r))

\* Every request that was added finishes.
EventuallyFinished ==
    \A r \in Request : status[r] = "WAITING" ~> status[r] = "FINISHED"

\* A preempted request whose tokens the whole cache can hold runs again.
PreemptedResumes ==
    \A r \in Request :
        status[r] = "PREEMPTED" /\ Cdiv(numTokens[r]) <= Cardinality(Block)
            ~> status[r] \in {"RUNNING", "FINISHED"}

\* A request whose blocks have been received is scheduled, or aborted.
LoadedRequestRuns ==
    \A r \in Request : r \in finishedRecving ~> r \notin finishedRecving
=============================================================================
