-------------------------- MODULE SchedulerSteps ----------------------------
(***************************************************************************)
(* The inductive invariant of Scheduler, and that every step keeps it: for *)
(* every set of requests, every pool, either policy, and with or without   *)
(* async scheduling, remote prefills, remote decodes and long requests.    *)
(* What the steps need of the block pool, of the queues and of finite sets *)
(* is stated as Laws, which SchedulerProofs proves.                        *)
(***************************************************************************)
EXTENDS Scheduler, TLAPS

-----------------------------------------------------------------------------
(* The inductive invariant.  It says nothing of an engine that has died,     *)
(* except that its pool is consistent.                                       *)

Batch == [scheduled : SUBSET Request, sampling : SUBSET Request,
          complete : SUBSET Request, recv : SUBSET Request, send : SUBSET Request]

SchedTypes ==
    /\ requests \subseteq Request /\ status \in [Request -> Status]
    /\ numComputed \in [Request -> Nat] /\ numTokens \in [Request -> Nat]
    /\ placeholders \in [Request -> Nat]
    /\ inflight \in Seq(Batch)
    /\ needSend \subseteq Request /\ recving \subseteq Request /\ sending \subseteq Request
    /\ finishedRecving \subseteq Request

Locals == [index : Nat, req : Nat, new : Int, budget : Int, toks : [Request -> Nat],
           runningReqs : SUBSET Request, newReqs : SUBSET Request,
           preempted : SUBSET Request, skipped : Seq(Nat), recv : SUBSET Request]

StepTypes == step \in Locals /\ Cardinality(step.runningReqs) < step.index

\* A request is in the queue of its status; a loading one is not in waiting
Queued(r) ==
    /\ r \in Range(running) <=> status[r] = "RUNNING"
    /\ r \in Range(waiting) \cup Range(skipped) \cup Range(step.skipped)
           <=> status[r] \notin {"NEW", "RUNNING", "FINISHED"}
    /\ r \in Range(waiting) => r \notin Range(skipped) \cup Range(step.skipped)
    /\ r \in Range(skipped) => r \notin Range(step.skipped)
    /\ r \in Range(waiting) => ~IsLoading(r)

ReqQueue(queue) == IsQueue(queue) /\ Range(queue) \subseteq Request

QueueInv ==
    /\ ReqQueue(running) /\ ReqQueue(waiting) /\ ReqQueue(skipped) /\ ReqQueue(step.skipped)
    /\ \A r \in Request : Queued(r)

\* Where schedule() is: its locals are fresh outside of it, a step that preempts
\* admits nothing, and the request that needs blocks is still running
PhaseInv ==
    /\ pc \in {"input", "output"} => step = NewStep
    /\ pc = "waiting" => step.preempted = {}
    /\ pc \in {"allocate", "preempt"} =>
        /\ step.req \in Range(running) /\ step.new > 0
        /\ numComputed[step.req] + step.new <= numTokens[step.req] + placeholders[step.req]
        /\ numComputed[step.req] + step.new < MaxModelLen
    /\ Len(inflight) <= BatchQueueSize
    /\ pc # "output" => Len(inflight) < BatchQueueSize
    /\ pc = "output" => inflight # << >>

\* The tokens of a request: what is computed or scheduled exists or will be
\* sampled; a running request has computed some; a victim of this step starts
\* over, and what it may keep in the step does not reach its last token
TokensInv(r) ==
    /\ numComputed[r] + step.toks[r] <= numTokens[r] + placeholders[r]
    /\ numComputed[r] + step.toks[r] < MaxModelLen
    /\ NumPromptTokens[r] <= numTokens[r]
    /\ status[r] # "FINISHED" => numTokens[r] < MaxModelLen
    /\ status[r] = "RUNNING" => numComputed[r] + step.toks[r] > 0
    /\ status[r] = "RUNNING" /\ pc \notin {"waiting", "finish"} => numComputed[r] > 0
    /\ step.toks[r] # 0 => status[r] = "RUNNING" \/ r \in step.preempted
    /\ r \in step.preempted =>
        numComputed[r] = 0 /\ step.toks[r] < numTokens[r] + placeholders[r]

\* A request that a batch under way samples for runs or is over; or it was
\* preempted in the step after that batch, and waits until the output comes
SampledInv(i, r) ==
    \/ status[r] \in {"RUNNING", "FINISHED"}
    \/ r \in Range(waiting) /\ (r \in step.preempted \/ (pc = "output" /\ i = 1))

SamplingInv == \A i \in DOMAIN inflight : \A r \in inflight[i].sampling : SampledInv(i, r)

\* A request is known from add_request until its blocks are given back
KnownInv(r) ==
    /\ status[r] \notin {"NEW", "FINISHED"} => r \in requests
    /\ reqToBlocks[r] # << >> => r \in requests
    /\ status[r] = "NEW" => r \notin requests

\* A load is known to the scheduler, to a batch or to the worker, and to one only
LoadsApart ==
    /\ recving \cap step.recv = {}
    /\ \A i \in DOMAIN inflight :
        /\ inflight[i].recv \cap (recving \cup step.recv) = {}
        /\ \A j \in DOMAIN inflight : i # j => inflight[i].recv \cap inflight[j].recv = {}

\* Its request keeps its blocks, and waits for it or has been aborted meanwhile
LoadKept(r) ==
    /\ r \in Loading =>
        /\ r \in requests /\ r \notin doRemotePrefill /\ r \notin finishedRecving
        /\ status[r] \in {"WAITING_FOR_REMOTE_KVS", "FINISHED"}
        /\ Len(reqToBlocks[r]) >= Cdiv(NumPromptTokens[r])
    /\ IsLoading(r) => r \in Loading \/ r \in finishedRecving
    /\ r \in finishedRecving => IsLoading(r)

LoadsInv == LoadsApart /\ \A r \in Request : LoadKept(r)

\* ... and so for a send, of a request that has finished
SendsApart ==
    /\ sending \cap needSend = {}
    /\ \A i \in DOMAIN inflight :
        /\ inflight[i].send \cap (sending \cup needSend) = {}
        /\ \A j \in DOMAIN inflight : i # j => inflight[i].send \cap inflight[j].send = {}

SendKept(r) ==
    /\ r \in Sending =>
        /\ r \in requests /\ r \notin Loading /\ status[r] = "FINISHED"
        /\ reqToBlocks[r] # << >>
    /\ r \in requests /\ status[r] = "FINISHED" => r \in Loading \/ r \in Sending

SendsInv == SendsApart /\ \A r \in Request : SendKept(r)

AliveInv ==
    /\ SchedTypes /\ StepTypes /\ QueueInv /\ PhaseInv
    /\ \A r \in Request : TokensInv(r)
    /\ \A r \in Request : KnownInv(r)
    /\ SamplingInv /\ LoadsInv /\ SendsInv

SchedInv == KVInv /\ pc \in PC /\ (Alive => AliveInv)

-----------------------------------------------------------------------------
(* The outputs that are due, which AliveInv says nothing of.  OutputInv is    *)
(* inductive together with SchedInv.                                          *)

SamplesOf(r) == {i \in DOMAIN inflight : r \in inflight[i].sampling}

SampledAreScheduled ==
    \A i \in DOMAIN inflight : inflight[i].sampling \subseteq inflight[i].scheduled

\* PlaceholdersMatch, for one request
OutputsMatch(r) ==
    status[r] # "FINISHED" =>
        placeholders[r] = IF AsyncScheduling THEN Cardinality(SamplesOf(r)) ELSE 0

\* Whoever waits to be scheduled has a token to compute
TokensLeft(r) ==
    status[r] \in {"NEW", "WAITING", "PREEMPTED"} =>
        numComputed[r] + step.toks[r] < numTokens[r] + placeholders[r]

\* A load that failed is still waited for, and starts from nothing
FailedLoad(r) ==
    r \in failedRecving => /\ RecomputeKVLoadFailures /\ IsLoading(r)
                           /\ numComputed[r] = 0 /\ step.toks[r] = 0

OutputInv ==
    /\ SampledAreScheduled
    /\ \A r \in Request : OutputsMatch(r)
    /\ \A r \in Request : TokensLeft(r)
    /\ \A r \in Request : FailedLoad(r)

-----------------------------------------------------------------------------
(* What the steps use of the pool, of the queues and of cardinalities.  These *)
(* laws are proved in SchedulerProofs (LawsHold); the lemmas of this module    *)
(* take them as an assumption.                                                *)

\* allocate_slots keeps the pool consistent and changes one table, which then
\* covers the tokens that were asked for
AllocateLaw ==
    \A r \in Request, mask \in BOOLEAN, n \in Nat, computed, external, new \in Int :
        KVInv /\ AllocateSlots(r, mask, n, computed, external, new) =>
            /\ KVInv'
            /\ \A s \in Request \ {r} : reqToBlocks'[s] = reqToBlocks[s]
            /\ AllocationResult(r, mask, n, computed, external, new) = "ok" =>
                Len(reqToBlocks'[r]) >= Cdiv(NumTokensNeedSlot(computed, external, new))

\* freeing keeps it consistent, and empties the tables of the requests that go
FreeLaw ==
    \A gone, sparse \in SUBSET Request : KVInv /\ FreeBlocks(gone, sparse) =>
        /\ KVInv'
        /\ \A r \in Request :
            /\ r \in gone => reqToBlocks'[r] = << >>
            /\ r \notin gone => /\ Len(reqToBlocks'[r]) = Len(reqToBlocks[r])
                                /\ reqToBlocks'[r] = << >> <=> reqToBlocks[r] = << >>

StutterLaw == KVInv /\ UNCHANGED kvVars => KVInv'

EmptyLaw == IsQueue(<< >>) /\ Range(<< >>) = {}

IndexLaw ==
    \A queue : IsQueue(queue) =>
        /\ queue \in Seq(Nat) /\ Len(queue) \in Nat /\ DOMAIN queue = 1 .. Len(queue)
        /\ \A i \in 1 .. Len(queue) : queue[i] \in Nat /\ queue[i] \in Range(queue)

AddLaw ==
    \A queue : IsQueue(queue) => \A r \in Nat \ Range(queue) :
        /\ Joined(Append(queue, r), queue, r)
        /\ Joined(AddTo(queue, r), queue, r)
        /\ Joined(PrependTo(queue, r), queue, r)

PopLaw ==
    \A queue : IsQueue(queue) /\ queue # << >> =>
        Head(queue) \in Range(queue) /\ Left(Tail(queue), queue, {Head(queue)})

RemoveLaw == \A queue, gone : IsQueue(queue) => Left(RemoveAll(queue, gone), queue, gone)

PrependLaw ==
    \A queue, others :
        IsQueue(queue) /\ IsQueue(others) /\ Range(queue) \cap Range(others) = {} =>
            /\ IsQueue(PrependRequests(queue, others))
            /\ Range(PrependRequests(queue, others)) = Range(queue) \cup Range(others)

\* Some indices of a queue have a last one, by position and by priority
LastLaw ==
    \A queue : IsQueue(queue) /\ Range(queue) \subseteq Request =>
        \A S \in SUBSET (1 .. Len(queue)) : S # {} =>
            /\ \E i \in S : \A j \in S : i >= j
            /\ \E i \in S : \A j \in S : i = j \/ Before(queue[j], queue[i])

CardinalityLaw ==
    /\ Cardinality({}) = 0
    /\ \A S \in SUBSET Request :
        /\ Cardinality(S) \in Nat
        /\ \A r \in Request :
            /\ Cardinality(S \cup {r}) <= Cardinality(S) + 1
            /\ r \in S => Cardinality(S \ {r}) = Cardinality(S) - 1

SubsetLaw ==
    \A S \in SUBSET Request : \A T \in SUBSET S : Cardinality(T) <= Cardinality(S)

\* How the number of batches that sample for a request changes with the queue
SamplesLaw ==
    \A r : inflight \in Seq(Batch) =>
        /\ \A b \in Batch : inflight' = Append(inflight, b) =>
            /\ r \in b.sampling => Cardinality(SamplesOf(r)') = Cardinality(SamplesOf(r)) + 1
            /\ r \notin b.sampling => SamplesOf(r)' = SamplesOf(r)
        /\ inflight # << >> /\ inflight' = Tail(inflight) =>
            /\ r \in inflight[1].sampling =>
                /\ Cardinality(SamplesOf(r)') = Cardinality(SamplesOf(r)) - 1
                /\ Cardinality(SamplesOf(r)) \in Nat \ {0}
            /\ r \notin inflight[1].sampling =>
                Cardinality(SamplesOf(r)') = Cardinality(SamplesOf(r))

Laws ==
    /\ AllocateLaw /\ FreeLaw /\ StutterLaw
    /\ EmptyLaw /\ IndexLaw /\ AddLaw /\ PopLaw /\ RemoveLaw /\ PrependLaw /\ LastLaw
    /\ CardinalityLaw /\ SubsetLaw /\ SamplesLaw

-----------------------------------------------------------------------------
(* Facts that the steps share                                               *)

\* A token is scheduled for someone who exists: requests are numbers.
LEMMA RequestFacts ==
    ASSUME NEW r \in Request
    PROVE  /\ r \in Nat
           /\ NumPromptTokens[r] \in Nat /\ NumPromptTokens[r] > 0
           /\ NumPromptTokens[r] < MaxModelLen
           /\ MaxModelLen \in Nat
BY SMTT(120), SchedulerAssumption, KVAssumption

\* The loads under way, member by member.
LEMMA LoadingFacts ==
    ASSUME NEW r
    PROVE  r \in Loading <=> \/ r \in recving \/ r \in step.recv
                             \/ \E i \in DOMAIN inflight : r \in inflight[i].recv
BY Zenon DEF Loading

LEMMA SendingFacts ==
    ASSUME NEW r
    PROVE  r \in Sending <=> \/ r \in sending \/ r \in needSend
                             \/ \E i \in DOMAIN inflight : r \in inflight[i].send
BY Zenon DEF Sending

\* The fields of the locals at the start of schedule().
LEMMA NewStepFacts ==
    /\ NewStep.index = 1 /\ NewStep.req = 0 /\ NewStep.new = 0
    /\ NewStep.budget = MaxNumScheduledTokens
    /\ NewStep.toks = [r \in Request |-> 0]
    /\ NewStep.runningReqs = {} /\ NewStep.newReqs = {} /\ NewStep.preempted = {}
    /\ NewStep.skipped = << >> /\ NewStep.recv = {}
BY Zenon DEF NewStep

LEMMA NewStepTypes == ASSUME Laws, step = NewStep PROVE StepTypes
<1>1. Cardinality({}) = 0
    BY Zenon DEF Laws, CardinalityLaw
<1>2. << >> \in Seq(Nat)
    OBVIOUS
<1> QED BY SMTT(120), <1>1, <1>2, SchedulerAssumption DEF NewStep, StepTypes, Locals

\* Nothing that the loads depend on changes.
LEMMA LoadsFrame ==
    ASSUME LoadsInv,
           UNCHANGED <<recving, inflight, doRemotePrefill, finishedRecving>>,
           step'.recv = step.recv, requests \subseteq requests',
           \A r \in Request : /\ status'[r] = "WAITING_FOR_REMOTE_KVS" <=> IsLoading(r)
                              /\ status[r] = "FINISHED" => status'[r] = "FINISHED",
           \A r \in Request : status[r] \in {"WAITING_FOR_REMOTE_KVS", "FINISHED"} =>
                Len(reqToBlocks'[r]) = Len(reqToBlocks[r])
    PROVE  LoadsInv'
<1>1. Loading' = Loading
    BY ZenonT(60) DEF Loading
<1>2. LoadsApart'
    BY ZenonT(60) DEF LoadsInv, LoadsApart
<1>3. ASSUME NEW r \in Request PROVE LoadKept(r)'
    <2>1. LoadKept(r)
        BY Zenon DEF LoadsInv
    <2> QED BY Zenon, <1>1, <2>1 DEF LoadKept, IsLoading, Cdiv
<1> QED BY Zenon, <1>2, <1>3 DEF LoadsInv

\* Nothing that the sends depend on changes.
LEMMA SendsFrame ==
    ASSUME SendsInv,
           UNCHANGED <<sending, needSend, inflight>>, Loading' = Loading,
           requests \subseteq requests',
           \A r \in requests' \ requests : status'[r] # "FINISHED",
           \A r \in Request : status'[r] = "FINISHED" <=> status[r] = "FINISHED",
           \A r \in Request : status[r] = "FINISHED" =>
                (reqToBlocks'[r] = << >> <=> reqToBlocks[r] = << >>)
    PROVE  SendsInv'
<1>1. Sending' = Sending
    BY DEF Sending
<1>2. SendsApart'
    BY ZenonT(60) DEF SendsInv, SendsApart
<1>3. ASSUME NEW r \in Request PROVE SendKept(r)'
    <2>1. SendKept(r)
        BY Zenon DEF SendsInv
    <2> QED BY Zenon, <1>1, <2>1 DEF SendKept
<1> QED BY Zenon, <1>2, <1>3 DEF SendsInv

-----------------------------------------------------------------------------
(* Steps that only move on in schedule()                                    *)

LEMMA LocalFrame ==
    ASSUME AliveInv, UNCHANGED <<kvVars, reqVars, queueVars, inflight, xferVars>>,
           step'.toks = step.toks, step'.preempted = step.preempted,
           step'.skipped = step.skipped, step'.recv = step.recv,
           pc # "output", pc' \notin {"waiting", "finish"} => pc \notin {"waiting", "finish"},
           StepTypes', PhaseInv'
    PROVE  AliveInv'
<1>1. /\ UNCHANGED <<requests, status, numComputed, numTokens, placeholders>>
      /\ UNCHANGED <<running, waiting, skipped, inflight, reqToBlocks>>
      /\ UNCHANGED <<doRemotePrefill, needSend, recving, sending, finishedRecving>>
    BY Zenon DEF kvVars, reqVars, queueVars, xferVars
<1>2. SchedTypes'
    BY Zenon, <1>1 DEF AliveInv, SchedTypes
<1>3. QueueInv'
    <2>1. ASSUME NEW r \in Request PROVE Queued(r)'
        BY Zenon, <1>1 DEF AliveInv, QueueInv, Queued, IsLoading
    <2> QED BY Zenon, <1>1, <2>1 DEF AliveInv, QueueInv, ReqQueue, IsQueue
<1>4. ASSUME NEW r \in Request PROVE TokensInv(r)'
    BY Zenon, <1>1 DEF AliveInv, TokensInv
<1>5. ASSUME NEW r \in Request PROVE KnownInv(r)'
    BY Zenon, <1>1 DEF AliveInv, KnownInv
<1>6. SamplingInv'
    BY Zenon, <1>1 DEF AliveInv, SamplingInv, SampledInv
<1>7. LoadsInv'
    <2>1. LoadsInv
        BY Zenon DEF AliveInv
    <2> QED BY Zenon, <1>1, <2>1, LoadsFrame DEF IsLoading
<1>8. SendsInv'
    <2>1. SendsInv
        BY Zenon DEF AliveInv
    <2>2. Loading' = Loading
        BY ZenonT(60), <1>1 DEF Loading
    <2> QED BY Zenon, <1>1, <2>1, <2>2, SendsFrame
<1> QED BY Zenon, <1>2, <1>3, <1>4, <1>5, <1>6, <1>7, <1>8 DEF AliveInv

LEMMA ScheduleStartInv == ASSUME AliveInv, ScheduleStart PROVE AliveInv'
<1>1. /\ pc = "input" /\ pc' = "running" /\ step' = step
      /\ UNCHANGED <<kvVars, reqVars, queueVars, inflight, xferVars>>
    BY Zenon DEF ScheduleStart
<1>2. StepTypes'
    BY Zenon, <1>1 DEF AliveInv, StepTypes
<1>3. PhaseInv'
    BY Zenon, <1>1 DEF AliveInv, PhaseInv
<1> QED BY Zenon, <1>1, <1>2, <1>3, LocalFrame

LEMMA AwaitOutputInv == ASSUME AliveInv, AwaitOutput PROVE AliveInv'
<1>1. /\ pc = "input" /\ pc' = "output" /\ step' = step /\ inflight # << >>
      /\ UNCHANGED <<kvVars, reqVars, queueVars, inflight, xferVars>>
    BY Zenon DEF AwaitOutput
<1>2. StepTypes'
    BY Zenon, <1>1 DEF AliveInv, StepTypes
<1>3. PhaseInv'
    BY Zenon, <1>1 DEF AliveInv, PhaseInv
<1> QED BY Zenon, <1>1, <1>2, <1>3, LocalFrame

LEMMA RunningDoneInv == ASSUME AliveInv, RunningDone PROVE AliveInv'
<1>1. /\ pc = "running" /\ pc' = IF step.preempted = {} THEN "waiting" ELSE "finish"
      /\ step' = step /\ UNCHANGED <<kvVars, reqVars, queueVars, inflight, xferVars>>
    BY Zenon DEF RunningDone
<1>2. StepTypes'
    BY Zenon, <1>1 DEF AliveInv, StepTypes
<1>3. PhaseInv'
    BY Zenon, <1>1 DEF AliveInv, PhaseInv
<1> QED BY Zenon, <1>1, <1>2, <1>3, LocalFrame

LEMMA WaitingDoneInv == ASSUME AliveInv, WaitingDone PROVE AliveInv'
<1>1. /\ pc = "waiting" /\ pc' = "finish" /\ step' = step
      /\ UNCHANGED <<kvVars, reqVars, queueVars, inflight, xferVars>>
    BY Zenon DEF WaitingDone
<1>2. StepTypes'
    BY Zenon, <1>1 DEF AliveInv, StepTypes
<1>3. PhaseInv'
    BY Zenon, <1>1 DEF AliveInv, PhaseInv
<1> QED BY Zenon, <1>1, <1>2, <1>3, LocalFrame

LEMMA RunningSkipInv == ASSUME Laws, AliveInv, RunningSkip PROVE AliveInv'
<1>1. /\ pc = "running" /\ pc' = pc /\ step' = [step EXCEPT !.index = @ + 1]
      /\ UNCHANGED <<kvVars, reqVars, queueVars, inflight, xferVars>>
    BY Zenon DEF RunningSkip, InRunningLoop
<1>2. step \in Locals /\ Cardinality(step.runningReqs) < step.index
    BY Zenon DEF AliveInv, StepTypes
<1>3. /\ step' \in Locals /\ step'.index = step.index + 1 /\ step'.runningReqs = step.runningReqs
      /\ step'.toks = step.toks /\ step'.preempted = step.preempted
      /\ step'.skipped = step.skipped /\ step'.recv = step.recv
    <2> DEFINE next == step.index + 1
    <2>1. next \in Nat /\ step' = [step EXCEPT !.index = next]
        BY SMTT(120), <1>1, <1>2 DEF Locals
    <2> HIDE DEF next
    <2>2. /\ step' \in Locals /\ step'.index = next /\ step'.runningReqs = step.runningReqs
          /\ step'.toks = step.toks /\ step'.preempted = step.preempted
          /\ step'.skipped = step.skipped /\ step'.recv = step.recv
        BY Zenon, <1>2, <2>1 DEF Locals
    <2> QED BY Zenon, <2>2 DEF next
<1>4. StepTypes'
    <2>2. Cardinality(step.runningReqs) \in Nat /\ step.index \in Nat
        BY Zenon, <1>2 DEF Locals, Laws, CardinalityLaw
    <2> QED BY SMTT(120), <1>2, <1>3, <2>2 DEF StepTypes
<1>5. PhaseInv'
    BY Zenon, <1>1 DEF AliveInv, PhaseInv, queueVars
<1> QED BY Zenon, <1>1, <1>3, <1>4, <1>5, LocalFrame

\* min of two and of three integers
LEMMA MinFacts ==
    ASSUME NEW a \in Int, NEW b \in Int, NEW c \in Int
    PROVE  /\ Min({a, b}) \in {a, b} /\ Min({a, b}) <= a /\ Min({a, b}) <= b
           /\ Min({a, b, c}) \in {a, b, c}
           /\ Min({a, b, c}) <= a /\ Min({a, b, c}) <= b /\ Min({a, b, c}) <= c
<1>1. \E x \in {a, b} : \A y \in {a, b} : x <= y
    OBVIOUS
<1>2. \E x \in {a, b, c} : \A y \in {a, b, c} : x <= y
    <2>1. PICK x \in {a, b} : \A y \in {a, b} : x <= y
        BY Zenon, <1>1
    <2>2. CASE x <= c
        BY Zenon, <2>1, <2>2
    <2>3. CASE ~(x <= c)
        <3>1. c <= a /\ c <= b /\ c <= c
            BY SMTT(120), <2>1, <2>3
        <3> QED BY Zenon, <3>1
    <2> QED BY Zenon, <2>2, <2>3
<1> QED BY Zenon, <1>1, <1>2 DEF Min

\* A request that is picked gets at least one token, and none past its last.
LEMMA RunningPickInv == ASSUME Laws, AliveInv, RunningPick PROVE AliveInv'
<1> DEFINE r == running[step.index]
           new == NumNewTokens(r)
<1>1. /\ pc = "running" /\ pc' = "allocate" /\ step' = [step EXCEPT !.req = r, !.new = new]
      /\ step.index <= Len(running) /\ step.budget > 0 /\ new # 0
      /\ UNCHANGED <<kvVars, reqVars, queueVars, inflight, xferVars>>
    BY Zenon DEF RunningPick, InRunningLoop
<1>2. step \in Locals /\ Cardinality(step.runningReqs) < step.index
    BY SMTT(120) DEF AliveInv, StepTypes
<1>3. r \in Range(running) /\ r \in Request /\ r \in Nat
    <2>2. Cardinality(step.runningReqs) \in Nat /\ step.index \in Nat
        BY SMTT(120), <1>2 DEF Locals, Laws, CardinalityLaw
    <2>3. IsQueue(running) /\ Range(running) \subseteq Request
        BY Zenon DEF AliveInv, QueueInv, ReqQueue
    <2>4. step.index \in 1 .. Len(running)
        BY SMTT(120), <1>1, <1>2, <2>2, <2>3 DEF Laws, IndexLaw
    <2> QED BY Zenon, <2>3, <2>4, RequestFacts DEF Laws, IndexLaw
<1> HIDE DEF r
<1>4. /\ new \in Int /\ new > 0
      /\ numComputed[r] + new <= numTokens[r] + placeholders[r]
      /\ numComputed[r] + new < MaxModelLen
    <2> DEFINE a == numTokens[r] + placeholders[r] - numComputed[r]
               c == MaxModelLen - 1 - numComputed[r]
    <2>1. /\ numComputed[r] \in Nat /\ numTokens[r] \in Nat /\ placeholders[r] \in Nat
          /\ step.toks[r] \in Nat /\ step.budget \in Int /\ MaxModelLen \in Nat
        BY Zenon, <1>2, <1>3, KVAssumption DEF AliveInv, SchedTypes, Locals
    <2>2. /\ numComputed[r] + step.toks[r] <= numTokens[r] + placeholders[r]
          /\ numComputed[r] + step.toks[r] < MaxModelLen
        BY Zenon, <1>3 DEF AliveInv, TokensInv
    <2>3. a \in Int /\ a >= 0 /\ c \in Int /\ c >= 0
        BY SMTT(120), <2>1, <2>2
    <2>4. new = Min({a, step.budget, c})
        BY Zenon DEF NumNewTokens
    <2> HIDE DEF a, c, new
    <2>5. new \in {a, step.budget, c} /\ new <= a /\ new <= c
        BY Zenon, <2>1, <2>3, <2>4, MinFacts
    <2>6. new \in Int /\ new > 0
        BY SMTT(120), <1>1, <2>1, <2>3, <2>5
    <2> QED BY SMTT(120), <2>1, <2>5, <2>6 DEF a, c
<1> HIDE DEF new
<1>5. /\ step' \in Locals /\ step'.index = step.index /\ step'.runningReqs = step.runningReqs
      /\ step'.req = r /\ step'.new = new
      /\ step'.toks = step.toks /\ step'.preempted = step.preempted
      /\ step'.skipped = step.skipped /\ step'.recv = step.recv
    BY Zenon, <1>1, <1>2, <1>3, <1>4 DEF Locals
<1>6. StepTypes'
    BY Zenon, <1>2, <1>5 DEF StepTypes
<1>7. PhaseInv'
    BY Zenon, <1>1, <1>3, <1>4, <1>5 DEF AliveInv, PhaseInv, queueVars, reqVars
<1> QED BY Zenon, <1>1, <1>5, <1>6, <1>7, LocalFrame

-----------------------------------------------------------------------------
(* Clients: add_request and finish_requests                                 *)

\* What Queued says of the queues, for a reader of one queue.
LEMMA QueuedFacts ==
    ASSUME AliveInv, NEW r \in Request
    PROVE  /\ status[r] \in Status
           /\ r \in Range(running) <=> status[r] = "RUNNING"
           /\ r \in Range(waiting) => status[r] \in {"WAITING", "PREEMPTED"}
           /\ r \in Range(skipped) => status[r] \in {"WAITING", "PREEMPTED", "WAITING_FOR_REMOTE_KVS"}
           /\ r \in Range(step.skipped) => status[r] \in {"WAITING", "PREEMPTED", "WAITING_FOR_REMOTE_KVS"}
           /\ status[r] \in {"WAITING", "PREEMPTED", "WAITING_FOR_REMOTE_KVS"} =>
                r \in Range(waiting) \/ r \in Range(skipped) \/ r \in Range(step.skipped)
           /\ r \in Range(waiting) => r \notin Range(skipped) /\ r \notin Range(step.skipped)
           /\ r \in Range(skipped) => r \notin Range(step.skipped)
<1>1. Queued(r) /\ status[r] \in Status
    BY Zenon DEF AliveInv, QueueInv, SchedTypes
<1> QED BY Zenon, <1>1 DEF Queued, Status, IsLoading

LEMMA AddRequestInv == ASSUME Laws, AliveInv, NEW r \in Request, AddRequest(r) PROVE AliveInv'
<1>1. /\ pc = "input" /\ pc' = pc /\ status[r] = "NEW"
      /\ requests' = requests \cup {r} /\ status' = [status EXCEPT ![r] = "WAITING"]
      /\ waiting' = AddTo(waiting, r)
      /\ UNCHANGED <<reqToBlocks, step, numComputed, numTokens, placeholders>>
      /\ UNCHANGED <<running, skipped, inflight>>
      /\ UNCHANGED <<doRemotePrefill, needSend, recving, sending, finishedRecving>>
    BY Zenon DEF AddRequest, kvVars, xferVars
<1>2. /\ status'[r] = "WAITING" /\ status' \in [Request -> Status]
      /\ \A s \in Request \ {r} : status'[s] = status[s]
    BY Zenon, <1>1 DEF AliveInv, SchedTypes, Status
<1>3. /\ IsQueue(waiting') /\ Range(waiting') = Range(waiting) \cup {r}
      /\ r \notin Range(waiting) /\ r \notin Range(running) /\ r \notin Range(skipped)
      /\ r \notin Range(step.skipped) /\ Range(waiting) \subseteq Request
    <2>1. IsQueue(waiting) /\ Range(waiting) \subseteq Request
        BY Zenon DEF AliveInv, QueueInv, ReqQueue
    <2>2. /\ r \notin Range(waiting) /\ r \notin Range(running) /\ r \notin Range(skipped)
          /\ r \notin Range(step.skipped)
        BY Zenon, <1>1, QueuedFacts
    <2>3. r \in Nat \ Range(waiting)
        BY Zenon, <2>2, RequestFacts
    <2>4. Joined(waiting', waiting, r)
        BY Zenon, <1>1, <2>1, <2>3 DEF Laws, AddLaw
    <2> QED BY Zenon, <2>1, <2>2, <2>4 DEF Joined
<1>4. SchedTypes' /\ StepTypes'
    BY Zenon, <1>1, <1>2 DEF AliveInv, SchedTypes, StepTypes
<1>5. QueueInv'
    <2>1. ASSUME NEW s \in Request PROVE Queued(s)'
        <3>1. Queued(s)
            BY Zenon DEF AliveInv, QueueInv
        <3>2. CASE s = r
            BY Zenon, <1>1, <1>2, <1>3, <3>2 DEF Queued, IsLoading
        <3>3. CASE s # r
            BY Zenon, <1>1, <1>2, <1>3, <3>1, <3>3 DEF Queued, IsLoading
        <3> QED BY Zenon, <3>2, <3>3
    <2> QED BY Zenon, <1>1, <1>3, <2>1 DEF AliveInv, QueueInv, ReqQueue, IsQueue
<1>6. PhaseInv'
    BY Zenon, <1>1 DEF AliveInv, PhaseInv
<1>7. ASSUME NEW s \in Request PROVE TokensInv(s)' /\ KnownInv(s)'
    BY ZenonT(60), <1>1, <1>2 DEF AliveInv, TokensInv, KnownInv
<1>8. SamplingInv'
    <2> SUFFICES ASSUME NEW i \in DOMAIN inflight, NEW s \in inflight[i].sampling
                 PROVE  SampledInv(i, s)'
        BY Zenon, <1>1 DEF SamplingInv
    <2>1. SampledInv(i, s)
        BY Zenon DEF AliveInv, SamplingInv
    <2>2. status[s] \in {"RUNNING", "FINISHED"} \/ s \in Range(waiting)
        BY Zenon, <2>1 DEF SampledInv
    <2>3. s # r
        BY Zenon, <2>2, <1>1, <1>3
    <2>4. status'[s] = status[s]
        BY SMTT(120), <1>1, <2>3 DEF AliveInv, SchedTypes
    <2> QED BY Zenon, <2>1, <2>4, <1>1, <1>3 DEF SampledInv
<1>9. LoadsInv'
    <2>1. LoadsInv
        BY Zenon DEF AliveInv
    <2> QED BY Zenon, <1>1, <1>2, <2>1, LoadsFrame DEF IsLoading
<1>10. SendsInv'
    <2>1. SendsInv
        BY Zenon DEF AliveInv
    <2>2. Loading' = Loading
        BY ZenonT(60), <1>1 DEF Loading
    <2> QED BY Zenon, <1>1, <1>2, <2>1, <2>2, SendsFrame
<1> QED BY Zenon, <1>4, <1>5, <1>6, <1>7, <1>8, <1>9, <1>10 DEF AliveInv

\* An aborted request leaves every queue; it stays known, with its blocks, just
\* as long as its load is under way.
LEMMA AbortInv ==
    ASSUME Laws, KVInv, AliveInv, NEW r \in Request, Abort(r) PROVE KVInv' /\ AliveInv'
<1> DEFINE gone == IF DelaysFree(r) THEN {} ELSE {r}
<1>1. /\ pc \in {"input", "output"} /\ pc' = pc /\ r \in requests /\ status[r] # "FINISHED"
      /\ FreeBlocks(gone, {}) /\ requests' = requests \ gone
      /\ status' = [status EXCEPT ![r] = "FINISHED"]
      /\ running' = RemoveAll(running, {r}) /\ waiting' = RemoveAll(waiting, {r})
      /\ skipped' = RemoveAll(skipped, {r})
      /\ doRemotePrefill' = doRemotePrefill \ {r} /\ finishedRecving' = finishedRecving \ {r}
      /\ UNCHANGED <<step, numComputed, numTokens, placeholders, inflight>>
      /\ UNCHANGED <<needSend, recving, sending>>
    BY Zenon DEF Abort
<1>2. gone \in SUBSET Request /\ {} \in SUBSET Request
    BY Zenon
<1>3. KVInv'
    BY Zenon, <1>1, <1>2 DEF Laws, FreeLaw
<1>4. \A s \in Request :
        /\ s \in gone => reqToBlocks'[s] = << >>
        /\ s \notin gone => /\ Len(reqToBlocks'[s]) = Len(reqToBlocks[s])
                            /\ reqToBlocks'[s] = << >> <=> reqToBlocks[s] = << >>
    BY Zenon, <1>1, <1>2 DEF Laws, FreeLaw
<1>5. /\ status'[r] = "FINISHED" /\ status' \in [Request -> Status]
      /\ \A s \in Request \ {r} : status'[s] = status[s]
    BY Zenon, <1>1 DEF AliveInv, SchedTypes, Status
<1>6. /\ IsQueue(running') /\ Range(running') = Range(running) \ {r}
      /\ IsQueue(waiting') /\ Range(waiting') = Range(waiting) \ {r}
      /\ IsQueue(skipped') /\ Range(skipped') = Range(skipped) \ {r}
    <2>1. IsQueue(running) /\ IsQueue(waiting) /\ IsQueue(skipped)
        BY Zenon DEF AliveInv, QueueInv, ReqQueue
    <2>2. /\ Left(running', running, {r}) /\ Left(waiting', waiting, {r})
          /\ Left(skipped', skipped, {r})
        BY Zenon, <1>1, <2>1 DEF Laws, RemoveLaw
    <2> QED BY Zenon, <2>2 DEF Left
<1>7. step = NewStep /\ Range(step.skipped) = {} /\ step.recv = {}
    <2>1. step = NewStep
        BY Zenon, <1>1 DEF AliveInv, PhaseInv
    <2> QED BY Zenon, <2>1, NewStepFacts DEF Laws, EmptyLaw
<1>8. SchedTypes' /\ StepTypes'
    BY Zenon, <1>1, <1>5 DEF AliveInv, SchedTypes, StepTypes
<1>9. QueueInv'
    <2>1. ASSUME NEW s \in Request PROVE Queued(s)'
        <3>1. Queued(s)
            BY Zenon DEF AliveInv, QueueInv
        <3>2. CASE s = r
            BY Zenon, <1>1, <1>5, <1>6, <1>7, <3>2 DEF Queued, IsLoading
        <3>3. CASE s # r
            BY Zenon, <1>1, <1>5, <1>6, <3>1, <3>3 DEF Queued, IsLoading
        <3> QED BY Zenon, <3>2, <3>3
    <2> QED BY Zenon, <1>1, <1>6, <2>1 DEF AliveInv, QueueInv, ReqQueue, IsQueue
<1>10. PhaseInv'
    BY Zenon, <1>1 DEF AliveInv, PhaseInv
<1>11. ASSUME NEW s \in Request PROVE TokensInv(s)'
    <2>1. TokensInv(s)
        BY Zenon DEF AliveInv
    <2>2. status'[s] = status[s] \/ status'[s] = "FINISHED"
        BY Zenon, <1>5
    <2>3. UNCHANGED <<pc, step, numComputed, numTokens, placeholders>>
        BY Zenon, <1>1
    <2>4. step.toks[s] = 0
        BY Zenon, <1>7, NewStepFacts
    <2> QED BY Zenon, <2>1, <2>2, <2>3, <2>4 DEF TokensInv
<1>12. ASSUME NEW s \in Request PROVE KnownInv(s)'
    BY Zenon, <1>1, <1>4, <1>5 DEF AliveInv, KnownInv
<1>13. SamplingInv'
    <2> SUFFICES ASSUME NEW i \in DOMAIN inflight, NEW s \in inflight[i].sampling
                 PROVE  SampledInv(i, s)'
        BY Zenon, <1>1 DEF SamplingInv
    <2>1. SampledInv(i, s)
        BY Zenon DEF AliveInv, SamplingInv
    <2>2. s # r => status'[s] = status[s]
        BY SMTT(120), <1>1 DEF AliveInv, SchedTypes
    <2> QED BY Zenon, <2>1, <2>2, <1>1, <1>5, <1>6 DEF SampledInv
<1>14. Loading' = Loading /\ Sending' = Sending
    BY SMTT(120), <1>1 DEF Loading, Sending
<1>15. r \in Loading <=> DelaysFree(r)
    <2>1. LoadKept(r)
        BY Zenon DEF AliveInv, LoadsInv
    <2> QED BY Zenon, <1>1, <2>1 DEF LoadKept, DelaysFree, IsLoading
<1>16. LoadsInv'
    <2>1. LoadsApart'
        BY Zenon, <1>1 DEF AliveInv, LoadsInv, LoadsApart
    <2>2. ASSUME NEW s \in Request PROVE LoadKept(s)'
        <3>1. LoadKept(s)
            BY Zenon DEF AliveInv, LoadsInv
        <3>2. CASE s = r
            BY Zenon, <1>1, <1>4, <1>5, <1>14, <1>15, <3>1, <3>2 DEF LoadKept, IsLoading, Cdiv
        <3>3. CASE s # r
            BY Zenon, <1>1, <1>4, <1>5, <1>14, <3>1, <3>3 DEF LoadKept, IsLoading, Cdiv
        <3> QED BY SMTT(120), <3>2, <3>3
    <2> QED BY Zenon, <2>1, <2>2 DEF LoadsInv
<1>17. SendsInv'
    <2>1. SendsApart'
        BY Zenon, <1>1 DEF AliveInv, SendsInv, SendsApart
    <2>2. ASSUME NEW s \in Request PROVE SendKept(s)'
        <3>1. SendKept(s)
            BY Zenon DEF AliveInv, SendsInv
        <3>2. CASE s = r
            BY Zenon, <1>1, <1>5, <1>14, <1>15, <3>1, <3>2 DEF SendKept
        <3>3. CASE s # r
            BY Zenon, <1>1, <1>4, <1>5, <1>14, <3>1, <3>3 DEF SendKept
        <3> QED BY <3>2, <3>3
    <2> QED BY SMTT(120), <2>1, <2>2 DEF SendsInv
<1> QED BY Zenon, <1>3, <1>8, <1>9, <1>10, <1>11, <1>12, <1>13, <1>16, <1>17 DEF AliveInv

-----------------------------------------------------------------------------
(* schedule(): allocate_slots and preemption in the running loop             *)

\* The types of what a step reads of a request.
LEMMA NumberTypes ==
    ASSUME AliveInv, NEW r \in Request
    PROVE  /\ numComputed[r] \in Nat /\ numTokens[r] \in Nat /\ placeholders[r] \in Nat
           /\ step.toks[r] \in Nat
BY Zenon DEF AliveInv, SchedTypes, StepTypes, Locals

\* index is past the requests that were scheduled
LEMMA LocalsFacts ==
    ASSUME Laws, AliveInv
    PROVE  /\ step \in Locals
           /\ Cardinality(step.runningReqs) \in Nat /\ step.index \in Nat
           /\ step.new \in Int /\ step.budget \in Int
           /\ Cardinality(step.runningReqs) < step.index
<1>1. step \in Locals /\ Cardinality(step.runningReqs) < step.index
    BY Zenon DEF AliveInv, StepTypes
<1>2. Cardinality(step.runningReqs) \in Nat
    BY Zenon, <1>1 DEF Locals, Laws, CardinalityLaw
<1> QED BY Zenon, <1>1, <1>2 DEF Locals

LEMMA RunningAllocateInv ==
    ASSUME Laws, KVInv, AliveInv, RunningAllocate PROVE KVInv' /\ pc' \in PC /\ (Alive' => AliveInv')
<1> DEFINE r == step.req
           result == AllocationResult(r, r \in longMask, numTokens[r], numComputed[r], 0, step.new)
<1>1. /\ pc = "allocate"
      /\ AllocateSlots(r, r \in longMask, numTokens[r], numComputed[r], 0, step.new)
      /\ UNCHANGED <<requests, status, numComputed, numTokens, placeholders>>
      /\ UNCHANGED <<running, waiting, skipped, inflight>>
      /\ UNCHANGED <<doRemotePrefill, needSend, recving, sending, finishedRecving>>
    BY Zenon DEF RunningAllocate, reqVars, queueVars, xferVars
<1>2. \/ /\ result = "ok" /\ pc' = "running"
         /\ step' = [step EXCEPT !.index = @ + 1, !.budget = @ - step.new, !.toks[r] = step.new,
                                 !.runningReqs = @ \cup {r}]
      \/ /\ result # "ok" /\ pc' = (IF result = "none" THEN "preempt" ELSE "ValueError")
         /\ step' = step
    BY Zenon DEF RunningAllocate
<1>3. /\ r \in Request /\ status[r] = "RUNNING" /\ r \in Range(running)
      /\ step.new \in Int /\ step.new > 0
      /\ numComputed[r] + step.new <= numTokens[r] + placeholders[r]
      /\ numComputed[r] + step.new < MaxModelLen
    <2>1. r \in Request /\ r \in Range(running)
        BY Zenon, <1>1 DEF AliveInv, PhaseInv, QueueInv, ReqQueue
    <2>2. status[r] = "RUNNING"
        BY Zenon, <2>1, QueuedFacts
    <2> QED BY Zenon, <1>1, <2>1, <2>2, LocalsFacts DEF AliveInv, PhaseInv
<1>4. numComputed[r] \in Nat /\ numTokens[r] \in Nat /\ placeholders[r] \in Nat
    BY Zenon, <1>3, NumberTypes
<1>5. (r \in longMask) \in BOOLEAN /\ numComputed[r] \in Int /\ 0 \in Int
    BY SMTT(120), <1>4
<1>6. KVInv'
    BY Zenon, <1>1, <1>3, <1>4, <1>5 DEF Laws, AllocateLaw
<1>7. \A s \in Request \ {r} : reqToBlocks'[s] = reqToBlocks[s]
    BY Zenon, <1>1, <1>3, <1>4, <1>5 DEF Laws, AllocateLaw
<1>8. pc' \in PC
    BY Zenon, <1>2 DEF PC, Crash
<1> HIDE DEF result
<1>9. ASSUME step' \in Locals, Cardinality(step'.runningReqs) < step'.index,
             step'.req = r, step'.new = step.new, step'.preempted = step.preempted,
             step'.skipped = step.skipped, step'.recv = step.recv,
             \A s \in Request : step'.toks[s] = step.toks[s] \/ (s = r /\ step'.toks[s] = step.new),
             pc' \in {"running", "preempt"}
      PROVE  AliveInv'
    <2> HIDE DEF r
    <2>1. SchedTypes' /\ StepTypes'
        BY Zenon, <1>1, <1>9 DEF AliveInv, SchedTypes, StepTypes
    <2>2. QueueInv'
        <3>1. ASSUME NEW s \in Request PROVE Queued(s)'
            <4>1. Queued(s)
                BY Zenon DEF AliveInv, QueueInv
            <4> QED BY Zenon, <1>1, <1>9, <4>1 DEF Queued, IsLoading
        <3> QED BY Zenon, <1>1, <1>9, <3>1 DEF AliveInv, QueueInv, ReqQueue, IsQueue
    <2>3. PhaseInv'
        BY Zenon, <1>1, <1>3, <1>9 DEF AliveInv, PhaseInv
    <2>4. ASSUME NEW s \in Request PROVE TokensInv(s)'
        <3>1. TokensInv(s)
            BY Zenon DEF AliveInv
        <3>2. UNCHANGED <<status, numComputed, numTokens, placeholders>>
            BY Zenon, <1>1
        <3>3. CASE step'.toks[s] = step.toks[s]
            BY Zenon, <1>1, <1>9, <3>1, <3>2, <3>3 DEF TokensInv
        <3>4. CASE s = r /\ step'.toks[s] = step.new
            <4>1. numComputed[r] > 0
                BY Zenon, <1>1, <1>3, <3>1, <3>4 DEF TokensInv
            <4>2. r \notin step.preempted
                <5>1. r \in step.preempted => numComputed[r] = 0
                    BY Zenon, <3>1, <3>4 DEF TokensInv
                <5>2. numComputed[r] # 0
                    BY SMTT(60), <1>4, <4>1
                <5> QED BY Zenon, <5>1, <5>2
            <4>3. numComputed[r] + step.new > 0
                BY SMTT(60), <1>3, <1>4
            <4> QED BY Zenon, <1>1, <1>3, <1>9, <3>1, <3>2, <3>4, <4>1, <4>2, <4>3 DEF TokensInv
        <3> QED BY Zenon, <1>9, <3>3, <3>4
    <2>5. ASSUME NEW s \in Request PROVE KnownInv(s)'
        <3>1. KnownInv(s)
            BY Zenon DEF AliveInv
        <3> QED BY Zenon, <1>1, <1>3, <1>7, <3>1 DEF KnownInv
    <2>6. SamplingInv'
        BY ZenonT(60), <1>1, <1>9 DEF AliveInv, SamplingInv, SampledInv
    <2>7. LoadsInv'
        <3>1. LoadsInv
            BY Zenon DEF AliveInv
        <3>2. \A s \in Request : status[s] \in {"WAITING_FOR_REMOTE_KVS", "FINISHED"} =>
                    Len(reqToBlocks'[s]) = Len(reqToBlocks[s])
            BY Zenon, <1>3, <1>7
        <3> QED BY Zenon, <1>1, <1>9, <3>1, <3>2, LoadsFrame DEF IsLoading
    <2>8. SendsInv'
        <3>1. SendsInv
            BY Zenon DEF AliveInv
        <3>2. Loading' = Loading
            BY SMTT(120), <1>1, <1>9 DEF Loading
        <3>3. \A s \in Request : status[s] = "FINISHED" =>
                    (reqToBlocks'[s] = << >> <=> reqToBlocks[s] = << >>)
            BY Zenon, <1>3, <1>7
        <3> QED BY Zenon, <1>1, <3>1, <3>2, <3>3, SendsFrame
    <2> QED BY Zenon, <2>1, <2>2, <2>3, <2>4, <2>5, <2>6, <2>7, <2>8 DEF AliveInv
<1>10. CASE result = "ok"
    <2> DEFINE next == step.index + 1
               left == step.budget - step.new
               toks == [step.toks EXCEPT ![r] = step.new]
               now == step.runningReqs \cup {r}
    <2>1. /\ next \in Nat /\ left \in Int /\ toks \in [Request -> Nat] /\ now \in SUBSET Request
          /\ step' = [step EXCEPT !.index = next, !.budget = left, !.toks = toks, !.runningReqs = now]
        BY SMTT(120), <1>2, <1>3, <1>10, LocalsFacts DEF Locals
    <2>2. Cardinality(now) < next
        <3>1. Cardinality(now) <= Cardinality(step.runningReqs) + 1 /\ Cardinality(now) \in Nat
            BY Zenon, <1>3, <2>1, LocalsFacts DEF Locals, Laws, CardinalityLaw
        <3> HIDE DEF now
        <3> QED BY SMTT(120), <3>1, LocalsFacts
    <2>3. \A s \in Request : toks[s] = step.toks[s] \/ (s = r /\ toks[s] = step.new)
        BY Zenon, LocalsFacts DEF Locals
    <2>4. step \in Locals
        BY Zenon, LocalsFacts
    <2> HIDE DEF next, left, toks, now
    <2>5. /\ step' \in Locals /\ step'.index = next /\ step'.runningReqs = now /\ step'.toks = toks
          /\ step'.req = step.req /\ step'.new = step.new /\ step'.preempted = step.preempted
          /\ step'.skipped = step.skipped /\ step'.recv = step.recv
        BY Zenon, <2>1, <2>4 DEF Locals
    <2> QED BY Zenon, <1>2, <1>6, <1>8, <1>9, <1>10, <2>2, <2>3, <2>5
<1>11. CASE result = "none"
    <2>1. step' = step /\ pc' = "preempt"
        BY Zenon, <1>2, <1>11
    <2> QED BY Zenon, <1>6, <1>8, <1>9, <2>1, LocalsFacts
<1>12. CASE result \notin {"ok", "none"}
    BY Zenon, <1>2, <1>6, <1>8, <1>12 DEF Alive, Crash
<1> QED BY Zenon, <1>10, <1>11, <1>12

\* The victim is one of the running requests.
LEMMA VictimFacts ==
    ASSUME Laws, AliveInv, running # << >>
    PROVE  PreemptionVictim \in Range(running)
<1> DEFINE candidates == {i \in DOMAIN running : ~IsPreemptProtected(running[i])}
           indices == IF candidates # {} THEN candidates ELSE DOMAIN running
<1>1. IsQueue(running) /\ Range(running) \subseteq Request
    BY Zenon DEF AliveInv, QueueInv, ReqQueue
<1>2. /\ Len(running) \in Nat /\ Len(running) # 0 /\ DOMAIN running = 1 .. Len(running)
      /\ \A i \in 1 .. Len(running) : running[i] \in Range(running)
    <2>1. /\ running \in Seq(Nat) /\ Len(running) \in Nat /\ DOMAIN running = 1 .. Len(running)
          /\ \A i \in 1 .. Len(running) : running[i] \in Range(running)
        BY Zenon, <1>1 DEF Laws, IndexLaw
    <2>2. Len(running) # 0
        BY SMTT(120), <2>1
    <2> QED BY Zenon, <2>1, <2>2
<1>3. indices \in SUBSET (1 .. Len(running)) /\ indices # {}
    BY SMTT(120), <1>2
<1> HIDE DEF indices
<1>4. CASE Policy = "fcfs"
    <2>2. \E i \in indices : \A j \in indices : i >= j
        BY Zenon, <1>1, <1>3 DEF Laws, LastLaw
    <2>3. Max(indices) \in indices
        BY Zenon, <2>2 DEF Max
    <2>4. PreemptionVictim = running[Max(indices)]
        BY Zenon, <1>4 DEF PreemptionVictim, indices
    <2> QED BY Zenon, <1>2, <1>3, <2>3, <2>4
<1>5. CASE Policy # "fcfs"
    <2> DEFINE last == CHOOSE i \in indices :
                           \A j \in indices : i = j \/ Before(running[j], running[i])
    <2>1. Priority \in [Request -> Nat]
        BY Zenon, SchedulerAssumption
    <2>2. \E i \in indices : \A j \in indices : i = j \/ Before(running[j], running[i])
        BY Zenon, <1>1, <1>3, <2>1 DEF Laws, LastLaw
    <2>3. last \in indices
        BY Zenon, <2>2
    <2>4. PreemptionVictim = running[last]
        BY Zenon, <1>5 DEF PreemptionVictim, indices
    <2> HIDE DEF last
    <2> QED BY Zenon, <1>2, <1>3, <2>3, <2>4
<1> QED BY Zenon, <1>4, <1>5

\* The locals once v is preempted: what the step gave to v is kept or taken back.
LEMMA StepWithoutFacts ==
    ASSUME Laws, AliveInv, NEW v \in Request, step' = StepWithout(v)
    PROVE  /\ step' \in Locals /\ Cardinality(step'.runningReqs) < step'.index
           /\ step'.req = step.req /\ step'.new = step.new
           /\ step'.preempted = step.preempted \cup {v}
           /\ step'.skipped = step.skipped /\ step'.recv = step.recv
           /\ \A s \in Request : step'.toks[s] = step.toks[s] \/ (s = v /\ step'.toks[s] = 0)
<1> DEFINE gone == step.preempted \cup {v}
           left == step.budget + step.toks[v]
           toks == [step.toks EXCEPT ![v] = 0]
           now == step.runningReqs \ {v}
           prev == step.index - 1
<1>1. step \in Locals /\ gone \in SUBSET Request
    BY Zenon, LocalsFacts DEF Locals
<1>2. CASE Policy = "priority" /\ v \in step.runningReqs
    <2>1. Cardinality(now) = Cardinality(step.runningReqs) - 1 /\ Cardinality(now) \in Nat
        BY Zenon, <1>1, <1>2 DEF Locals, Laws, CardinalityLaw
    <2>3. prev \in Nat /\ Cardinality(now) < prev
        <3> HIDE DEF now
        <3> QED BY SMTT(120), <2>1, LocalsFacts
    <2>4. /\ left \in Int /\ toks \in [Request -> Nat] /\ now \in SUBSET Request
          /\ \A s \in Request : toks[s] = step.toks[s] \/ (s = v /\ toks[s] = 0)
        BY SMTT(120), <1>1 DEF Locals
    <2> DEFINE t == [step EXCEPT !.preempted = gone]
    <2>5. /\ t \in Locals /\ t.index = step.index /\ t.runningReqs = step.runningReqs
          /\ t.toks = step.toks /\ t.budget = step.budget
          /\ t.req = step.req /\ t.new = step.new /\ t.preempted = gone
          /\ t.skipped = step.skipped /\ t.recv = step.recv
        <3> HIDE DEF gone
        <3> QED BY Zenon, <1>1 DEF Locals
    <2>6. step' = [t EXCEPT !.runningReqs = now, !.budget = left, !.toks = toks, !.index = prev]
        <3>1. step' = [t EXCEPT !.runningReqs = @ \ {v}, !.budget = @ + step.toks[v],
                                !.toks[v] = 0, !.index = @ - 1]
            BY Zenon, <1>2 DEF StepWithout
        <3> HIDE DEF t
        <3> QED BY ZenonT(60), <3>1, <2>5
    <2> HIDE DEF t, now, left, toks, prev, gone
    <2>7. /\ step' \in Locals /\ step'.index = prev /\ step'.runningReqs = now /\ step'.toks = toks
          /\ step'.req = t.req /\ step'.new = t.new /\ step'.preempted = t.preempted
          /\ step'.skipped = t.skipped /\ step'.recv = t.recv
        BY ZenonT(120), <2>3, <2>4, <2>5, <2>6 DEF Locals
    <2> QED BY Zenon, <2>3, <2>4, <2>5, <2>7 DEF gone
<1>3. CASE ~(Policy = "priority" /\ v \in step.runningReqs)
    <2>1. step' = [step EXCEPT !.preempted = gone]
        BY Zenon, <1>3, <1>1 DEF StepWithout
    <2> HIDE DEF gone
    <2>2. /\ step' \in Locals /\ step'.index = step.index /\ step'.runningReqs = step.runningReqs
          /\ step'.toks = step.toks
          /\ step'.req = step.req /\ step'.new = step.new /\ step'.preempted = gone
          /\ step'.skipped = step.skipped /\ step'.recv = step.recv
        BY ZenonT(60), <1>1, <2>1 DEF Locals
    <2> QED BY Zenon, <2>2, LocalsFacts DEF gone
<1> QED BY Zenon, <1>2, <1>3

\* A victim leaves running for waiting, gives its blocks back and starts over.
LEMMA PreemptInv ==
    ASSUME Laws, KVInv, AliveInv, Preempt PROVE KVInv' /\ pc' \in PC /\ AliveInv'
<1> DEFINE v == PreemptionVictim
<1>1. /\ pc = "preempt" /\ FreeBlocks({v}, {})
      /\ status' = [status EXCEPT ![v] = "PREEMPTED"]
      /\ numComputed' = [numComputed EXCEPT ![v] = 0]
      /\ running' = RemoveAll(running, {v}) /\ waiting' = PrependTo(waiting, v)
      /\ step' = StepWithout(v)
      /\ pc' = IF v = step.req THEN "finish" ELSE "allocate"
      /\ UNCHANGED <<requests, numTokens, placeholders, skipped, inflight>>
      /\ UNCHANGED <<doRemotePrefill, needSend, recving, sending, finishedRecving>>
    BY Zenon DEF Preempt, xferVars
<1>2. /\ step.req \in Range(running) /\ step.new > 0
      /\ numComputed[step.req] + step.new <= numTokens[step.req] + placeholders[step.req]
      /\ numComputed[step.req] + step.new < MaxModelLen
    BY Zenon, <1>1 DEF AliveInv, PhaseInv
<1>3. v \in Range(running) /\ v \in Request /\ status[v] = "RUNNING"
    <2>1. running # << >>
        BY Zenon, <1>2 DEF Laws, EmptyLaw
    <2>2. v \in Range(running)
        BY Zenon, <2>1, VictimFacts
    <2>3. v \in Request
        BY Zenon, <2>2 DEF AliveInv, QueueInv, ReqQueue
    <2> QED BY Zenon, <2>2, <2>3, QueuedFacts
<1> HIDE DEF v
<1>4. KVInv'
    BY Zenon, <1>1, <1>3 DEF Laws, FreeLaw
<1>5. /\ reqToBlocks'[v] = << >>
      /\ \A s \in Request \ {v} : /\ Len(reqToBlocks'[s]) = Len(reqToBlocks[s])
                                  /\ reqToBlocks'[s] = << >> <=> reqToBlocks[s] = << >>
    <2>1. {v} \in SUBSET Request /\ {} \in SUBSET Request
        BY Zenon, <1>3
    <2> QED BY Zenon, <1>1, <1>3, <2>1 DEF Laws, FreeLaw
<1>6. /\ status'[v] = "PREEMPTED" /\ status' \in [Request -> Status]
      /\ \A s \in Request \ {v} : status'[s] = status[s]
    BY Zenon, <1>1, <1>3 DEF AliveInv, SchedTypes, Status
<1>7. /\ numComputed'[v] = 0 /\ numComputed' \in [Request -> Nat]
      /\ \A s \in Request \ {v} : numComputed'[s] = numComputed[s]
    BY Zenon, <1>1, <1>3 DEF AliveInv, SchedTypes
<1>8. /\ IsQueue(running') /\ Range(running') = Range(running) \ {v}
      /\ IsQueue(waiting') /\ Range(waiting') = Range(waiting) \cup {v}
      /\ v \notin Range(waiting) /\ v \notin Range(skipped) /\ v \notin Range(step.skipped)
    <2>1. IsQueue(running) /\ IsQueue(waiting)
        BY Zenon DEF AliveInv, QueueInv, ReqQueue
    <2>2. v \notin Range(waiting) /\ v \notin Range(skipped) /\ v \notin Range(step.skipped)
        BY Zenon, <1>3, QueuedFacts
    <2>3. v \in Nat \ Range(waiting)
        BY Zenon, <1>3, <2>2, RequestFacts
    <2>4. Left(running', running, {v})
        BY Zenon, <1>1, <2>1 DEF Laws, RemoveLaw
    <2>5. Joined(waiting', waiting, v)
        BY Zenon, <1>1, <2>1, <2>3 DEF Laws, AddLaw
    <2> QED BY Zenon, <2>2, <2>4, <2>5 DEF Left, Joined
<1>9. /\ step' \in Locals /\ Cardinality(step'.runningReqs) < step'.index
      /\ step'.req = step.req /\ step'.new = step.new
      /\ step'.preempted = step.preempted \cup {v}
      /\ step'.skipped = step.skipped /\ step'.recv = step.recv
      /\ \A s \in Request : step'.toks[s] = step.toks[s] \/ (s = v /\ step'.toks[s] = 0)
    BY Zenon, <1>1, <1>3, StepWithoutFacts
<1>10. SchedTypes' /\ StepTypes' /\ pc' \in PC
    BY Zenon, <1>1, <1>6, <1>7, <1>9 DEF AliveInv, SchedTypes, StepTypes, PC
<1>11. QueueInv'
    <2>1. ASSUME NEW s \in Request PROVE Queued(s)'
        <3>1. Queued(s)
            BY DEF AliveInv, QueueInv
        <3>2. CASE s = v
            BY Zenon, <1>1, <1>6, <1>8, <1>9, <3>2 DEF Queued, IsLoading
        <3>3. CASE s # v
            BY ZenonT(60), <1>1, <1>6, <1>8, <1>9, <3>1, <3>3 DEF Queued, IsLoading
        <3> QED BY Zenon, <3>2, <3>3
    <2>2. /\ ReqQueue(running) /\ ReqQueue(waiting) /\ ReqQueue(skipped) /\ ReqQueue(step.skipped)
        BY Zenon DEF AliveInv, QueueInv
    <2> QED BY Zenon, <1>1, <1>3, <1>8, <1>9, <2>1, <2>2 DEF QueueInv, ReqQueue, IsQueue
<1>12. PhaseInv'
    <2>1. /\ Len(inflight) <= BatchQueueSize /\ Len(inflight) < BatchQueueSize
        BY Zenon, <1>1 DEF AliveInv, PhaseInv
    <2>2. ASSUME pc' = "allocate"
          PROVE  /\ step'.req \in Range(running') /\ step'.new > 0
                 /\ numComputed'[step'.req] + step'.new <= numTokens'[step'.req] + placeholders'[step'.req]
                 /\ numComputed'[step'.req] + step'.new < MaxModelLen
        <3>1. step.req # v /\ step.req \in Request
            BY Zenon, <1>1, <1>2, <2>2 DEF AliveInv, QueueInv, ReqQueue
        <3> QED BY ZenonT(60), <1>1, <1>2, <1>7, <1>8, <1>9, <3>1
    <2> QED BY Zenon, <1>1, <2>1, <2>2 DEF PhaseInv
<1>13. ASSUME NEW s \in Request PROVE TokensInv(s)'
    <2>1. TokensInv(s)
        BY DEF AliveInv
    <2>2. UNCHANGED <<numTokens, placeholders>>
        BY Zenon, <1>1
    <2>3. CASE s # v
        <3>1. /\ step'.toks[s] = step.toks[s] /\ status'[s] = status[s]
              /\ numComputed'[s] = numComputed[s]
              /\ s \in step'.preempted <=> s \in step.preempted
            BY Zenon, <1>6, <1>7, <1>9, <2>3
        <3>2. pc \notin {"waiting", "finish"}
            BY Zenon, <1>1
        <3> QED BY Zenon, <2>1, <2>2, <3>1, <3>2 DEF TokensInv
    <2>4. CASE s = v
        <3>1. /\ numComputed[v] > 0 /\ numComputed[v] \in Nat /\ numTokens[v] \in Nat
              /\ placeholders[v] \in Nat /\ step.toks[v] \in Nat /\ MaxModelLen \in Nat
              /\ NumPromptTokens[v] \in Nat
            BY Zenon, <1>1, <1>3, <2>1, <2>4, NumberTypes, RequestFacts DEF TokensInv
        <3>2. /\ numComputed'[v] = 0 /\ status'[v] = "PREEMPTED" /\ v \in step'.preempted
              /\ step'.toks[v] = step.toks[v] \/ step'.toks[v] = 0
            BY Zenon, <1>3, <1>6, <1>7, <1>9
        <3>3. /\ numComputed[v] + step.toks[v] <= numTokens[v] + placeholders[v]
              /\ numComputed[v] + step.toks[v] < MaxModelLen
              /\ NumPromptTokens[v] <= numTokens[v] /\ numTokens[v] < MaxModelLen
            BY Zenon, <1>3, <2>1, <2>4 DEF TokensInv
        <3>4. /\ numComputed'[v] + step'.toks[v] <= numTokens[v] + placeholders[v]
              /\ numComputed'[v] + step'.toks[v] < MaxModelLen
              /\ step'.toks[v] < numTokens[v] + placeholders[v]
            BY SMTT(60), <3>1, <3>2, <3>3
        <3> QED BY Zenon, <2>2, <2>4, <3>2, <3>3, <3>4 DEF TokensInv
    <2> QED BY Zenon, <2>3, <2>4
<1>14. ASSUME NEW s \in Request PROVE KnownInv(s)'
    <2>1. KnownInv(s)
        BY SMTT(120) DEF AliveInv
    <2> QED BY Zenon, <1>1, <1>3, <1>5, <1>6, <2>1 DEF KnownInv
<1>15. SamplingInv'
    <2> SUFFICES ASSUME NEW i \in DOMAIN inflight, NEW s \in inflight[i].sampling
                 PROVE  SampledInv(i, s)'
        BY Zenon, <1>1 DEF SamplingInv
    <2>1. SampledInv(i, s)
        BY Zenon DEF AliveInv, SamplingInv
    <2>2. s # v => status'[s] = status[s]
        BY SMTT(120), <1>1 DEF AliveInv, SchedTypes
    <2> QED BY Zenon, <2>1, <2>2, <1>1, <1>8, <1>9 DEF SampledInv
<1>16. LoadsInv'
    <2>1. LoadsInv
        BY DEF AliveInv
    <2>2. \A s \in Request : status[s] \in {"WAITING_FOR_REMOTE_KVS", "FINISHED"} =>
                Len(reqToBlocks'[s]) = Len(reqToBlocks[s])
        BY Zenon, <1>3, <1>5
    <2>3. \A s \in Request : /\ status'[s] = "WAITING_FOR_REMOTE_KVS" <=> IsLoading(s)
                             /\ status[s] = "FINISHED" => status'[s] = "FINISHED"
        BY Zenon, <1>3, <1>6 DEF IsLoading
    <2> QED BY Zenon, <1>1, <1>9, <2>1, <2>2, <2>3, LoadsFrame
<1>17. SendsInv'
    <2>1. SendsInv
        BY SMTT(120) DEF AliveInv
    <2>2. Loading' = Loading
        BY SMTT(120), <1>1, <1>9 DEF Loading
    <2>3. \A s \in Request : status[s] = "FINISHED" =>
                (reqToBlocks'[s] = << >> <=> reqToBlocks[s] = << >>)
        BY Zenon, <1>3, <1>5
    <2>4. \A s \in Request : status'[s] = "FINISHED" <=> status[s] = "FINISHED"
        BY Zenon, <1>3, <1>6
    <2> QED BY Zenon, <1>1, <2>1, <2>2, <2>3, <2>4, SendsFrame
<1> QED BY Zenon, <1>4, <1>10, <1>11, <1>12, <1>13, <1>14, <1>15, <1>16, <1>17 DEF AliveInv

-----------------------------------------------------------------------------
(* schedule(): the waiting loop                                             *)

\* The candidate is the head of one of the two queues that hold what waits.
LEMMA CandidateFacts ==
    ASSUME Laws, AliveInv, InWaitingLoop
    PROVE  /\ Candidate \in Request /\ Candidate \in Nat
           /\ Candidate \in Range(waiting) \/ Candidate \in Range(skipped)
           /\ Candidate \notin Range(running) /\ Candidate \notin Range(step.skipped)
           /\ status[Candidate] \in {"WAITING", "PREEMPTED", "WAITING_FOR_REMOTE_KVS"}
           /\ pc = "waiting" /\ step.preempted = {} /\ step.toks[Candidate] = 0
           /\ step.budget > 0
<1>1. pc = "waiting" /\ step.budget > 0 /\ (waiting # << >> \/ skipped # << >>)
    BY Zenon DEF InWaitingLoop
<1>2. /\ IsQueue(waiting) /\ IsQueue(skipped)
      /\ Range(waiting) \subseteq Request /\ Range(skipped) \subseteq Request
    BY Zenon DEF AliveInv, QueueInv, ReqQueue
<1>3. Candidate \in Range(waiting) \/ Candidate \in Range(skipped)
    <2>1. CASE SelectSkipped
        <3>1. skipped # << >>
            BY Zenon, <2>1 DEF SelectSkipped
        <3>2. Head(skipped) \in Range(skipped)
            BY Zenon, <1>2, <3>1 DEF Laws, PopLaw
        <3> QED BY Zenon, <2>1, <3>2 DEF Candidate
    <2>2. CASE ~SelectSkipped
        <3>1. waiting # << >>
            BY Zenon, <1>1, <2>2 DEF SelectSkipped
        <3>2. Head(waiting) \in Range(waiting)
            BY Zenon, <1>2, <3>1 DEF Laws, PopLaw
        <3> QED BY Zenon, <2>2, <3>2 DEF Candidate
    <2> QED BY Zenon, <2>1, <2>2
<1> DEFINE c == Candidate
<1>4. c \in Request /\ c \in Nat
    BY Zenon, <1>2, <1>3, RequestFacts
<1>5. /\ c \notin Range(running) /\ c \notin Range(step.skipped)
      /\ status[c] \in {"WAITING", "PREEMPTED", "WAITING_FOR_REMOTE_KVS"}
    <2> HIDE DEF c
    <2>1. c \in Range(waiting) \/ c \in Range(skipped)
        BY Zenon, <1>3 DEF c
    <2> QED BY Zenon, <1>4, <2>1, QueuedFacts
<1>6. step.preempted = {}
    BY Zenon, <1>1 DEF AliveInv, PhaseInv
<1>7. step.toks[c] = 0
    <2>1. TokensInv(c)
        BY Zenon, <1>4 DEF AliveInv
    <2> QED BY Zenon, <1>5, <1>6, <2>1 DEF TokensInv
<1> QED BY Zenon, <1>1, <1>3, <1>4, <1>5, <1>6, <1>7

\* Taking it out leaves both queues without it.
LEMMA PopCandidateFacts ==
    ASSUME Laws, AliveInv, InWaitingLoop, PopCandidate
    PROVE  /\ IsQueue(waiting') /\ Range(waiting') = Range(waiting) \ {Candidate}
           /\ IsQueue(skipped') /\ Range(skipped') = Range(skipped) \ {Candidate}
<1>1. waiting # << >> \/ skipped # << >>
    BY Zenon DEF InWaitingLoop
<1>2. /\ IsQueue(waiting) /\ IsQueue(skipped)
      /\ Range(waiting) \subseteq Request /\ Range(skipped) \subseteq Request
    BY Zenon DEF AliveInv, QueueInv, ReqQueue
<1>3. CASE SelectSkipped
    <2>1. skipped # << >> /\ Candidate = Head(skipped)
        BY Zenon, <1>3 DEF SelectSkipped, Candidate
    <2>2. Candidate \in Range(skipped) /\ Left(Tail(skipped), skipped, {Candidate})
        BY Zenon, <1>2, <2>1 DEF Laws, PopLaw
    <2>3. skipped' = Tail(skipped) /\ waiting' = waiting
        BY Zenon, <1>3 DEF PopCandidate
    <2>4. Candidate \notin Range(waiting)
        BY Zenon, <1>2, <2>2, QueuedFacts
    <2>5. IsQueue(skipped') /\ Range(skipped') = Range(skipped) \ {Candidate}
        BY Zenon, <2>2, <2>3 DEF Left
    <2> QED BY Zenon, <1>2, <2>3, <2>4, <2>5
<1>4. CASE ~SelectSkipped
    <2>1. waiting # << >> /\ Candidate = Head(waiting)
        BY Zenon, <1>1, <1>4 DEF SelectSkipped, Candidate
    <2>2. Candidate \in Range(waiting) /\ Left(Tail(waiting), waiting, {Candidate})
        BY Zenon, <1>2, <2>1 DEF Laws, PopLaw
    <2>3. waiting' = Tail(waiting) /\ skipped' = skipped
        BY Zenon, <1>4 DEF PopCandidate
    <2>4. Candidate \notin Range(skipped)
        BY Zenon, <1>2, <2>2, QueuedFacts
    <2>5. IsQueue(waiting') /\ Range(waiting') = Range(waiting) \ {Candidate}
        BY SMTT(120), <2>2, <2>3 DEF Left
    <2> QED BY Zenon, <1>2, <2>3, <2>4, <2>5
<1> QED BY Zenon, <1>3, <1>4

\* A step of the waiting loop that sets the candidate aside: it is then in the
\* queue of what was skipped, and its status is that of a request that waits.
LEMMA SetAsideFacts ==
    ASSUME Laws, AliveInv, InWaitingLoop, PopCandidate,
           running' = running, step'.skipped = PrependTo(step.skipped, Candidate),
           \A r \in Request \ {Candidate} : status'[r] = status[r],
           status'[Candidate] \in {"WAITING", "PREEMPTED", "WAITING_FOR_REMOTE_KVS"}
    PROVE  QueueInv'
<1> DEFINE c == Candidate
<1>1. /\ c \in Request /\ c \in Nat /\ c \notin Range(running) /\ c \notin Range(step.skipped)
    BY Zenon, CandidateFacts
<1>2. /\ IsQueue(waiting') /\ Range(waiting') = Range(waiting) \ {c}
      /\ IsQueue(skipped') /\ Range(skipped') = Range(skipped) \ {c}
    BY Zenon, PopCandidateFacts
<1>3. /\ ReqQueue(running) /\ ReqQueue(waiting) /\ ReqQueue(skipped) /\ ReqQueue(step.skipped)
    BY Zenon DEF AliveInv, QueueInv
<1>4. IsQueue(step'.skipped) /\ Range(step'.skipped) = Range(step.skipped) \cup {c}
    <2>1. Joined(step'.skipped, step.skipped, c)
        BY Zenon, <1>1, <1>3 DEF ReqQueue, Laws, AddLaw
    <2> QED BY Zenon, <2>1 DEF Joined
<1>5. ASSUME NEW s \in Request PROVE Queued(s)'
    <2>1. Queued(s)
        BY Zenon DEF AliveInv, QueueInv
    <2> HIDE DEF c
    <2>2. CASE s = c
        BY Zenon, <1>1, <1>2, <1>4, <2>2 DEF Queued, c
    <2>3. CASE s # c
        <3>1. status'[s] = status[s]
            BY Zenon, <2>3 DEF c
        <3> QED BY Zenon, <1>2, <1>4, <2>1, <2>3, <3>1 DEF Queued, IsLoading
    <2> QED BY Zenon, <2>2, <2>3
<1> QED BY Zenon, <1>1, <1>2, <1>3, <1>4, <1>5 DEF QueueInv, ReqQueue, IsQueue

\* While requests are admitted, whoever a batch samples for runs or is over.
LEMMA SampledRuns ==
    ASSUME AliveInv, pc = "waiting",
           NEW i \in DOMAIN inflight, NEW r \in inflight[i].sampling
    PROVE  status[r] \in {"RUNNING", "FINISHED"}
<1>1. SampledInv(i, r) /\ step.preempted = {}
    BY Zenon DEF AliveInv, SamplingInv, PhaseInv
<1> QED BY Zenon, <1>1 DEF SampledInv

LEMMA WaitingSkipInv == ASSUME Laws, AliveInv, WaitingSkip PROVE AliveInv'
<1> DEFINE c == Candidate
<1>1. /\ InWaitingLoop /\ PopCandidate /\ pc' = pc
      /\ step' = [step EXCEPT !.skipped = PrependTo(@, c)]
      /\ UNCHANGED <<reqToBlocks, requests, status, numComputed, numTokens, placeholders>>
      /\ UNCHANGED <<running, inflight>>
      /\ UNCHANGED <<doRemotePrefill, needSend, recving, sending, finishedRecving>>
    BY Zenon DEF WaitingSkip, kvVars, xferVars
<1>2. /\ c \in Request /\ c \in Nat /\ c \notin Range(step.skipped) /\ pc = "waiting"
      /\ status[c] \in {"WAITING", "PREEMPTED", "WAITING_FOR_REMOTE_KVS"}
    BY Zenon, <1>1, CandidateFacts
<1>3. step \in Locals /\ Cardinality(step.runningReqs) < step.index
    BY Zenon, LocalsFacts
<1>4. PrependTo(step.skipped, c) \in Seq(Nat)
    <2>1. IsQueue(step.skipped)
        BY Zenon DEF AliveInv, QueueInv, ReqQueue
    <2>2. Joined(PrependTo(step.skipped, c), step.skipped, c)
        BY Zenon, <1>2, <2>1 DEF Laws, AddLaw
    <2> QED BY Zenon, <2>2 DEF Joined, IsQueue
<1> DEFINE others == PrependTo(step.skipped, c)
<1>5. /\ step' \in Locals /\ step'.skipped = others
      /\ step'.index = step.index /\ step'.runningReqs = step.runningReqs
      /\ step'.toks = step.toks /\ step'.preempted = step.preempted /\ step'.recv = step.recv
    <2>1. step' = [step EXCEPT !.skipped = others] /\ others \in Seq(Nat)
        BY Zenon, <1>1, <1>3, <1>4 DEF Locals
    <2> HIDE DEF others
    <2> QED BY Zenon, <1>3, <2>1 DEF Locals
<1>6. SchedTypes' /\ StepTypes'
    BY Zenon, <1>1, <1>3, <1>5 DEF AliveInv, SchedTypes, StepTypes
<1>7. QueueInv'
    BY Zenon, <1>1, <1>2, <1>5, SetAsideFacts
<1> HIDE DEF c, others
<1>8. PhaseInv'
    BY Zenon, <1>1, <1>2, <1>5 DEF AliveInv, PhaseInv
<1>9. ASSUME NEW s \in Request PROVE TokensInv(s)'
    <2>1. TokensInv(s)
        BY Zenon DEF AliveInv
    <2>2. UNCHANGED <<pc, status, numComputed, numTokens, placeholders>>
        BY Zenon, <1>1
    <2> QED BY Zenon, <1>5, <2>1, <2>2 DEF TokensInv
<1>10. ASSUME NEW s \in Request PROVE KnownInv(s)'
    BY Zenon, <1>1 DEF AliveInv, KnownInv
<1>11. SamplingInv'
    BY Zenon, <1>1, <1>2, SampledRuns DEF SamplingInv, SampledInv
<1>12. LoadsInv'
    <2>1. LoadsInv
        BY Zenon DEF AliveInv
    <2> QED BY Zenon, <1>1, <1>5, <2>1, LoadsFrame DEF IsLoading
<1>13. SendsInv'
    <2>1. SendsInv
        BY Zenon DEF AliveInv
    <2>2. Loading' = Loading
        BY SMTT(120), <1>1, <1>5 DEF Loading
    <2> QED BY Zenon, <1>1, <2>1, <2>2, SendsFrame
<1> QED BY Zenon, <1>6, <1>7, <1>8, <1>9, <1>10, <1>11, <1>12, <1>13 DEF AliveInv

\* A load that has been reported lets its request go on, from its last token or,
\* if the load failed, from the first.
LEMMA PromoteInv == ASSUME Laws, KVInv, AliveInv, Promote PROVE KVInv' /\ AliveInv'
<1> DEFINE c == Candidate
           gone == IF c \in failedRecving /\ numComputed[c] = 0 THEN {c} ELSE {}
           next == IF c \in everPreempted THEN "PREEMPTED" ELSE "WAITING"
<1>1. /\ InWaitingLoop /\ IsLoading(c) /\ c \in finishedRecving /\ pc' = pc
      /\ FreeBlocks(gone, {})
      /\ numComputed' = IF c \notin failedRecving /\ numComputed[c] = numTokens[c]
                        THEN [numComputed EXCEPT ![c] = numTokens[c] - 1] ELSE numComputed
      /\ status' = [status EXCEPT ![c] = next]
      /\ finishedRecving' = finishedRecving \ {c}
      /\ UNCHANGED <<step, requests, numTokens, placeholders>>
      /\ UNCHANGED <<running, waiting, skipped, inflight>>
      /\ UNCHANGED <<doRemotePrefill, needSend, recving, sending>>
    BY Zenon DEF Promote, queueVars
<1>2. /\ c \in Request /\ pc = "waiting" /\ step.preempted = {} /\ step.toks[c] = 0
    BY Zenon, <1>1, CandidateFacts
<1> HIDE DEF c
<1>3. gone \in SUBSET Request /\ {} \in SUBSET Request /\ next \in {"WAITING", "PREEMPTED"}
    BY Zenon, <1>2
<1>4. KVInv'
    BY Zenon, <1>1, <1>3 DEF Laws, FreeLaw
<1>5. \A s \in Request \ {c} : /\ Len(reqToBlocks'[s]) = Len(reqToBlocks[s])
                               /\ reqToBlocks'[s] = << >> <=> reqToBlocks[s] = << >>
    <2>1. \A s \in Request \ {c} : s \notin gone
        BY Zenon
    <2> HIDE DEF gone
    <2> QED BY Zenon, <1>1, <1>3, <2>1 DEF Laws, FreeLaw
<1> HIDE DEF next, gone
<1>6. /\ status'[c] = next /\ status' \in [Request -> Status]
      /\ \A s \in Request \ {c} : status'[s] = status[s]
    BY Zenon, <1>1, <1>2, <1>3 DEF AliveInv, SchedTypes, Status
<1>7. /\ numComputed[c] \in Nat /\ numTokens[c] \in Nat /\ placeholders[c] \in Nat
      /\ NumPromptTokens[c] \in Nat /\ NumPromptTokens[c] > 0 /\ NumPromptTokens[c] <= numTokens[c]
    <2>1. TokensInv(c)
        BY Zenon, <1>2 DEF AliveInv
    <2> QED BY Zenon, <1>2, <2>1, NumberTypes, RequestFacts DEF TokensInv
<1>8. /\ numComputed' \in [Request -> Nat] /\ numComputed'[c] <= numComputed[c]
      /\ \A s \in Request \ {c} : numComputed'[s] = numComputed[s]
    <2> DEFINE last == numTokens[c] - 1
    <2>1. last \in Nat /\ last <= numTokens[c] /\ numComputed \in [Request -> Nat]
        BY SMTT(120), <1>7 DEF AliveInv, SchedTypes
    <2>2. CASE c \notin failedRecving /\ numComputed[c] = numTokens[c]
        <3>1. numComputed' = [numComputed EXCEPT ![c] = last]
            BY Zenon, <1>1, <2>2
        <3> HIDE DEF last
        <3> QED BY Zenon, <1>2, <2>1, <2>2, <3>1
    <2>3. CASE ~(c \notin failedRecving /\ numComputed[c] = numTokens[c])
        <3>1. numComputed' = numComputed
            BY Zenon, <1>1, <2>3
        <3> QED BY SMTT(120), <1>7, <2>1, <3>1
    <2> QED BY Zenon, <2>2, <2>3
<1>9. SchedTypes' /\ StepTypes'
    BY Zenon, <1>1, <1>6, <1>8 DEF AliveInv, SchedTypes, StepTypes
<1>10. QueueInv'
    <2>1. ASSUME NEW s \in Request PROVE Queued(s)'
        <3>1. Queued(s)
            BY DEF AliveInv, QueueInv
        <3>2. CASE s = c
            BY Zenon, <1>1, <1>3, <1>6, <3>1, <3>2 DEF Queued, IsLoading
        <3>3. CASE s # c
            BY Zenon, <1>1, <1>6, <3>1, <3>3 DEF Queued, IsLoading
        <3> QED BY SMTT(120), <3>2, <3>3
    <2> QED BY Zenon, <1>1, <2>1 DEF AliveInv, QueueInv, ReqQueue, IsQueue
<1>11. PhaseInv'
    BY Zenon, <1>1, <1>2 DEF AliveInv, PhaseInv
<1>12. ASSUME NEW s \in Request PROVE TokensInv(s)'
    <2>1. TokensInv(s)
        BY DEF AliveInv
    <2>2. UNCHANGED <<pc, step, numTokens, placeholders>>
        BY Zenon, <1>1
    <2>3. CASE s # c
        <3>1. status'[s] = status[s] /\ numComputed'[s] = numComputed[s]
            BY Zenon, <1>6, <1>8, <2>3
        <3> QED BY ZenonT(60), <2>1, <2>2, <3>1 DEF TokensInv
    <2>4. CASE s = c
        <3>1. /\ status'[c] \in {"WAITING", "PREEMPTED"} /\ numComputed'[c] \in Nat
              /\ numComputed'[c] <= numComputed[c] /\ MaxModelLen \in Nat
            BY Zenon, <1>2, <1>3, <1>6, <1>8, RequestFacts
        <3>2. /\ numComputed[c] + step.toks[c] <= numTokens[c] + placeholders[c]
              /\ numComputed[c] + step.toks[c] < MaxModelLen
              /\ numTokens[c] < MaxModelLen
            BY Zenon, <1>1, <2>1, <2>4 DEF TokensInv, IsLoading
        <3>3. /\ numComputed'[c] + step.toks[c] <= numTokens[c] + placeholders[c]
              /\ numComputed'[c] + step.toks[c] < MaxModelLen
            <4>1. /\ numComputed[c] \in Nat /\ numTokens[c] \in Nat /\ placeholders[c] \in Nat
                  /\ step.toks[c] \in Nat
                BY Zenon, <2>4, NumberTypes
            <4> QED BY SMTT(60), <3>1, <3>2, <4>1
        <3> QED BY Zenon, <1>2, <1>7, <2>1, <2>2, <2>4, <3>1, <3>2, <3>3 DEF TokensInv
    <2> QED BY SMTT(120), <2>3, <2>4
<1>13. ASSUME NEW s \in Request PROVE KnownInv(s)'
    <2>1. KnownInv(s)
        BY DEF AliveInv
    <2>2. c \in requests
        <3>1. KnownInv(c)
            BY Zenon, <1>2 DEF AliveInv
        <3> QED BY Zenon, <1>1, <3>1 DEF KnownInv, IsLoading
    <2> QED BY Zenon, <1>1, <1>3, <1>5, <1>6, <2>1, <2>2 DEF KnownInv
<1>14. SamplingInv'
    <2> SUFFICES ASSUME NEW i \in DOMAIN inflight, NEW s \in inflight[i].sampling
                 PROVE  SampledInv(i, s)'
        BY Zenon, <1>1 DEF SamplingInv
    <2>1. status[s] \in {"RUNNING", "FINISHED"}
        BY Zenon, <1>2, SampledRuns
    <2>2. s # c
        BY Zenon, <1>1, <2>1 DEF IsLoading
    <2>3. status'[s] = status[s]
        BY SMTT(120), <1>1, <2>2 DEF AliveInv, SchedTypes
    <2> QED BY Zenon, <2>1, <2>3 DEF SampledInv
<1>15. Loading' = Loading
    BY ZenonT(60), <1>1 DEF Loading
<1>16. LoadsInv'
    <2>1. LoadsApart'
        BY Zenon, <1>1 DEF AliveInv, LoadsInv, LoadsApart
    <2>2. ASSUME NEW s \in Request PROVE LoadKept(s)'
        <3>1. LoadKept(s)
            BY Zenon DEF AliveInv, LoadsInv
        <3>2. CASE s = c
            BY Zenon, <1>1, <1>3, <1>6, <1>15, <3>1, <3>2 DEF LoadKept, IsLoading
        <3>3. CASE s # c
            BY Zenon, <1>1, <1>5, <1>6, <1>15, <3>1, <3>3 DEF LoadKept, IsLoading, Cdiv
        <3> QED BY <3>2, <3>3
    <2> QED BY Zenon, <2>1, <2>2 DEF LoadsInv
<1>17. SendsInv'
    <2>1. SendsInv
        BY DEF AliveInv
    <2>2. \A s \in Request : status'[s] = "FINISHED" <=> status[s] = "FINISHED"
        BY Zenon, <1>1, <1>3, <1>6 DEF IsLoading
    <2>3. \A s \in Request : status[s] = "FINISHED" =>
                (reqToBlocks'[s] = << >> <=> reqToBlocks[s] = << >>)
        BY Zenon, <1>1, <1>5 DEF IsLoading
    <2> QED BY Zenon, <1>1, <1>15, <2>1, <2>2, <2>3, SendsFrame
<1> QED BY Zenon, <1>4, <1>9, <1>10, <1>11, <1>12, <1>13, <1>14, <1>16, <1>17 DEF AliveInv

\* A candidate that goes through the admission gate is known and has no load.
LEMMA AdmissionFacts ==
    ASSUME Laws, KVInv, AliveInv, CandidateReady
    PROVE  /\ Candidate \in Request /\ Candidate \in requests
           /\ status[Candidate] \in {"WAITING", "PREEMPTED"}
           /\ Candidate \notin Loading /\ Candidate \notin finishedRecving
           /\ NumExternalTokens(Candidate) \in Nat /\ NumWaitingTokens(Candidate) \in Int
           /\ numTokens[Candidate] \in Nat /\ numComputed[Candidate] \in Nat
           /\ AllocateCandidate(Candidate) =>
                /\ KVInv'
                /\ \A s \in Request \ {Candidate} : reqToBlocks'[s] = reqToBlocks[s]
<1> DEFINE c == Candidate
<1>1. InWaitingLoop /\ ~IsLoading(c)
    BY Zenon DEF CandidateReady
<1>2. c \in Request /\ status[c] \in {"WAITING", "PREEMPTED"}
    BY Zenon, <1>1, CandidateFacts DEF IsLoading
<1> HIDE DEF c
<1>3. c \in requests
    <2>1. KnownInv(c)
        BY Zenon, <1>2 DEF AliveInv
    <2> QED BY Zenon, <1>2, <2>1 DEF KnownInv
<1>4. c \notin Loading /\ c \notin finishedRecving
    <2>1. LoadKept(c)
        BY Zenon, <1>2 DEF AliveInv, LoadsInv
    <2> QED BY Zenon, <1>1, <1>2, <2>1 DEF LoadKept
<1>5. numTokens[c] \in Nat /\ numComputed[c] \in Nat /\ step.budget \in Int
    BY Zenon, <1>2, NumberTypes, LocalsFacts
<1>6. NumExternalTokens(c) \in Nat
    BY Zenon, <1>2, RequestFacts DEF NumExternalTokens
<1>7. NumWaitingTokens(c) \in Int
    <2> DEFINE a == numTokens[c] - numComputed[c]
    <2>1. a \in Int
        BY SMTT(120), <1>5
    <2> HIDE DEF a
    <2>2. Min({a, step.budget}) \in {a, step.budget}
        BY Zenon, <1>5, <2>1, MinFacts
    <2>3. Min({a, step.budget}) \in Int
        BY Zenon, <1>5, <2>1, <2>2
    <2> QED BY SMTT(120), <2>3 DEF NumWaitingTokens, a
<1>8. ASSUME AllocateCandidate(c)
      PROVE  KVInv' /\ \A s \in Request \ {c} : reqToBlocks'[s] = reqToBlocks[s]
    <2>1. AllocateSlots(c, c \in LongMaskAfter(c), numTokens[c], numComputed[c],
                        NumExternalTokens(c), NumWaitingTokens(c))
        BY Zenon, <1>8 DEF AllocateCandidate
    <2>2. /\ (c \in LongMaskAfter(c)) \in BOOLEAN /\ numComputed[c] \in Int
          /\ NumExternalTokens(c) \in Int
        BY SMTT(120), <1>5, <1>6
    <2>3. KVInv'
        BY Zenon, <1>2, <1>5, <1>7, <2>1, <2>2 DEF Laws, AllocateLaw
    <2>4. \A s \in Request \ {c} : reqToBlocks'[s] = reqToBlocks[s]
        BY Zenon, <1>2, <1>5, <1>7, <2>1, <2>2 DEF Laws, AllocateLaw
    <2> QED BY Zenon, <2>3, <2>4
<1> QED BY Zenon, <1>2, <1>3, <1>4, <1>5, <1>6, <1>7, <1>8 DEF c

\* A candidate that does not fit changes nothing but its long mask and its mark.
LEMMA WaitingBreakInv ==
    ASSUME Laws, KVInv, AliveInv, WaitingBreak PROVE KVInv' /\ pc' \in PC /\ (Alive' => AliveInv')
<1> DEFINE c == Candidate
<1>1. /\ CandidateReady
      /\ UNCHANGED <<step, requests, status, numComputed, numTokens, placeholders>>
      /\ UNCHANGED <<running, waiting, skipped, inflight>>
      /\ UNCHANGED <<doRemotePrefill, needSend, recving, sending, finishedRecving>>
    BY Zenon DEF WaitingBreak, queueVars, xferVars
<1>2. \/ pc' = "finish" /\ UNCHANGED kvVars
      \/ /\ Admission(c) \in {"none", "raise"} /\ AllocateCandidate(c)
         /\ pc' = (IF Admission(c) = "none" THEN "finish" ELSE "ValueError")
    BY Zenon DEF WaitingBreak
<1>3. pc = "waiting"
    BY Zenon, <1>1 DEF CandidateReady, InWaitingLoop
<1>4. c \in requests /\ c \in Request /\ status[c] \in {"WAITING", "PREEMPTED"}
    BY Zenon, <1>1, AdmissionFacts
<1>5. KVInv' /\ \A s \in Request \ {c} : reqToBlocks'[s] = reqToBlocks[s]
    <2>1. CASE UNCHANGED kvVars
        <3>1. UNCHANGED <<freeBlocks, refCnt, reqToBlocks, longRequests, tailBlocks>>
            BY Zenon, <2>1 DEF kvVars
        <3> QED BY SMTT(120), <3>1 DEF KVInv, KVTypeOK, NoSharedBlock, RefCntMatches, BlocksOf
    <2>2. CASE AllocateCandidate(c)
        BY Zenon, <1>1, <2>2, AdmissionFacts
    <2> QED BY Zenon, <1>2, <2>1, <2>2
<1> HIDE DEF c
<1>6. pc' \in {"finish", "ValueError"}
    BY Zenon, <1>2
<1>7. CASE pc' = "ValueError"
    BY Zenon, <1>5, <1>7 DEF PC, Alive, Crash
<1>8. CASE pc' = "finish"
    <2>1. SchedTypes' /\ StepTypes'
        BY Zenon, <1>1 DEF AliveInv, SchedTypes, StepTypes
    <2>2. QueueInv'
        <3>1. ASSUME NEW s \in Request PROVE Queued(s)'
            BY Zenon, <1>1 DEF AliveInv, QueueInv, Queued, IsLoading
        <3> QED BY Zenon, <1>1, <3>1 DEF AliveInv, QueueInv, ReqQueue, IsQueue
    <2>3. PhaseInv'
        BY Zenon, <1>1, <1>3, <1>8 DEF AliveInv, PhaseInv
    <2>4. ASSUME NEW s \in Request PROVE TokensInv(s)'
        BY Zenon, <1>1, <1>8 DEF AliveInv, TokensInv
    <2>5. ASSUME NEW s \in Request PROVE KnownInv(s)'
        <3>1. KnownInv(s)
            BY Zenon DEF AliveInv
        <3> QED BY Zenon, <1>1, <1>4, <1>5, <3>1 DEF KnownInv
    <2>6. SamplingInv'
        BY Zenon, <1>1, <1>3, SampledRuns DEF SamplingInv, SampledInv
    <2>7. LoadsInv'
        <3>1. LoadsInv
            BY Zenon DEF AliveInv
        <3>2. \A s \in Request : status[s] \in {"WAITING_FOR_REMOTE_KVS", "FINISHED"} =>
                    Len(reqToBlocks'[s]) = Len(reqToBlocks[s])
            BY Zenon, <1>4, <1>5
        <3> QED BY Zenon, <1>1, <3>1, <3>2, LoadsFrame DEF IsLoading
    <2>8. SendsInv'
        <3>1. SendsInv
            BY Zenon DEF AliveInv
        <3>2. Loading' = Loading
            BY ZenonT(60), <1>1 DEF Loading
        <3>3. \A s \in Request : status[s] = "FINISHED" =>
                    (reqToBlocks'[s] = << >> <=> reqToBlocks[s] = << >>)
            BY Zenon, <1>4, <1>5
        <3> QED BY Zenon, <1>1, <3>1, <3>2, <3>3, SendsFrame
    <2>9. AliveInv'
        BY Zenon, <2>1, <2>2, <2>3, <2>4, <2>5, <2>6, <2>7, <2>8 DEF AliveInv
    <2> QED BY Zenon, <1>5, <1>8, <2>9 DEF PC
<1> QED BY Zenon, <1>6, <1>7, <1>8

\* The blocks that allocate_slots takes for a load cover the prompt.
LEMMA LoadHasBlocks ==
    ASSUME Laws, KVInv, AliveInv, CandidateReady, AllocateCandidate(Candidate),
           Admission(Candidate) = "ok", NumExternalTokens(Candidate) > 0
    PROVE  /\ Len(reqToBlocks'[Candidate]) >= Cdiv(NumPromptTokens[Candidate])
           /\ NumExternalTokens(Candidate) = NumPromptTokens[Candidate]
           /\ Candidate \in doRemotePrefill
<1> DEFINE c == Candidate
           ext == NumExternalTokens(c)
<1>1. /\ c \in Request /\ numComputed[c] \in Int /\ ext \in Int
    BY SMTT(120), AdmissionFacts
<1>2. c \in doRemotePrefill /\ ext = NumPromptTokens[c] /\ numComputed[c] = 0
    BY SMTT(120) DEF NumExternalTokens
<1>3. NumWaitingTokens(c) = 0
    BY Zenon DEF NumWaitingTokens
<1>4. /\ AllocateSlots(c, c \in LongMaskAfter(c), numTokens[c], numComputed[c], ext, 0)
      /\ AllocationResult(c, c \in LongMaskAfter(c), numTokens[c], numComputed[c], ext, 0) = "ok"
    BY Zenon, <1>3 DEF AllocateCandidate, Admission
<1> HIDE DEF c, ext
<1>5. Len(reqToBlocks'[c]) >= Cdiv(NumTokensNeedSlot(numComputed[c], ext, 0))
    <2>1. 0 \in Int /\ (c \in LongMaskAfter(c)) \in BOOLEAN
        OBVIOUS
    <2>2. numTokens[c] \in Nat
        BY Zenon, <1>1, NumberTypes
    <2> QED BY Zenon, <1>1, <1>4, <2>1, <2>2 DEF Laws, AllocateLaw
<1>6. NumTokensNeedSlot(numComputed[c], ext, 0) = NumPromptTokens[c]
    BY SMTT(120), <1>1, <1>2, RequestFacts DEF NumTokensNeedSlot, AtMost
<1> QED BY Zenon, <1>2, <1>5, <1>6 DEF c, ext

LEMMA WaitingLoadInv ==
    ASSUME Laws, KVInv, AliveInv, WaitingLoad PROVE KVInv' /\ AliveInv'
<1> DEFINE c == Candidate
<1>1. /\ CandidateReady /\ PopCandidate /\ AllocateCandidate(c)
      /\ Admission(c) = "ok" /\ NumExternalTokens(c) > 0
      /\ status' = [status EXCEPT ![c] = "WAITING_FOR_REMOTE_KVS"]
      /\ numComputed' = [numComputed EXCEPT ![c] = NumExternalTokens(c)]
      /\ doRemotePrefill' = doRemotePrefill \ {c}
      /\ step' = [step EXCEPT !.skipped = PrependTo(@, c), !.recv = @ \cup {c}]
      /\ UNCHANGED <<pc, requests, numTokens, placeholders, running, inflight>>
      /\ UNCHANGED <<needSend, recving, sending, finishedRecving>>
    BY Zenon DEF WaitingLoad
<1>2. InWaitingLoop
    BY Zenon, <1>1 DEF CandidateReady
<1>3. /\ c \in Request /\ c \in Nat /\ c \notin Range(step.skipped) /\ pc = "waiting"
      /\ step.toks[c] = 0 /\ step.preempted = {}
    BY Zenon, <1>2, CandidateFacts
<1>4. /\ KVInv' /\ \A s \in Request \ {c} : reqToBlocks'[s] = reqToBlocks[s]
      /\ c \in requests /\ status[c] \in {"WAITING", "PREEMPTED"}
      /\ c \notin Loading /\ c \notin finishedRecving
    BY Zenon, <1>1, AdmissionFacts
<1>5. /\ Len(reqToBlocks'[c]) >= Cdiv(NumPromptTokens[c])
      /\ NumExternalTokens(c) = NumPromptTokens[c]
    BY Zenon, <1>1, LoadHasBlocks
<1>6. /\ status'[c] = "WAITING_FOR_REMOTE_KVS" /\ status' \in [Request -> Status]
      /\ \A s \in Request \ {c} : status'[s] = status[s]
    BY Zenon, <1>1, <1>3 DEF AliveInv, SchedTypes, Status
<1>7. /\ numComputed'[c] = NumPromptTokens[c] /\ numComputed' \in [Request -> Nat]
      /\ \A s \in Request \ {c} : numComputed'[s] = numComputed[s]
    <2>1. NumPromptTokens[c] \in Nat
        BY Zenon, <1>3, RequestFacts
    <2> QED BY Zenon, <1>1, <1>3, <1>5, <2>1 DEF AliveInv, SchedTypes
<1> DEFINE others == PrependTo(step.skipped, c)
           loads == step.recv \cup {c}
<1>8. others \in Seq(Nat) /\ loads \in SUBSET Request /\ step \in Locals
      /\ Cardinality(step.runningReqs) < step.index
    <2>1. IsQueue(step.skipped)
        BY Zenon DEF AliveInv, QueueInv, ReqQueue
    <2>2. Joined(others, step.skipped, c)
        BY Zenon, <1>3, <2>1 DEF Laws, AddLaw
    <2> QED BY Zenon, <1>3, <2>2, LocalsFacts DEF Joined, IsQueue, Locals
<1>9. /\ step' \in Locals /\ step'.skipped = others /\ step'.recv = loads
      /\ step'.index = step.index /\ step'.runningReqs = step.runningReqs
      /\ step'.toks = step.toks /\ step'.preempted = step.preempted
    <2>1. step' = [step EXCEPT !.skipped = others, !.recv = loads]
        BY Zenon, <1>1, <1>8 DEF Locals
    <2> HIDE DEF others, loads
    <2> QED BY Zenon, <1>8, <2>1 DEF Locals
<1>10. SchedTypes' /\ StepTypes'
    BY Zenon, <1>1, <1>6, <1>7, <1>8, <1>9 DEF AliveInv, SchedTypes, StepTypes
<1>11. QueueInv'
    BY Zenon, <1>1, <1>2, <1>6, <1>9, SetAsideFacts
<1> HIDE DEF c, others
<1>12. PhaseInv'
    BY Zenon, <1>1, <1>3, <1>9 DEF AliveInv, PhaseInv
<1>13. ASSUME NEW s \in Request PROVE TokensInv(s)'
    <2>1. TokensInv(s)
        BY Zenon DEF AliveInv
    <2>2. UNCHANGED <<pc, numTokens, placeholders>>
        BY Zenon, <1>1
    <2>3. CASE s # c
        <3>1. status'[s] = status[s] /\ numComputed'[s] = numComputed[s]
            BY Zenon, <1>6, <1>7, <2>3
        <3> QED BY ZenonT(60), <1>9, <2>1, <2>2, <3>1 DEF TokensInv
    <2>4. CASE s = c
        <3>1. /\ numTokens[c] \in Nat /\ placeholders[c] \in Nat /\ NumPromptTokens[c] \in Nat
              /\ NumPromptTokens[c] < MaxModelLen /\ MaxModelLen \in Nat
            BY Zenon, <1>3, NumberTypes, RequestFacts
        <3>2. NumPromptTokens[c] <= numTokens[c] /\ numTokens[c] < MaxModelLen
            BY Zenon, <1>4, <2>1, <2>4 DEF TokensInv
        <3>3. /\ numComputed'[c] + step'.toks[c] <= numTokens[c] + placeholders[c]
              /\ numComputed'[c] + step'.toks[c] < MaxModelLen
            BY SMTT(60), <1>3, <1>6, <1>7, <1>9, <3>1, <3>2
        <3> QED BY Zenon, <1>3, <1>6, <1>7, <1>9, <2>1, <2>2, <2>4, <3>2, <3>3 DEF TokensInv
    <2> QED BY Zenon, <2>3, <2>4
<1>14. ASSUME NEW s \in Request PROVE KnownInv(s)'
    <2>1. KnownInv(s)
        BY DEF AliveInv
    <2> QED BY Zenon, <1>1, <1>4, <1>6, <2>1 DEF KnownInv
<1>15. SamplingInv'
    <2> SUFFICES ASSUME NEW i \in DOMAIN inflight, NEW s \in inflight[i].sampling
                 PROVE  SampledInv(i, s)'
        BY Zenon, <1>1 DEF SamplingInv
    <2>1. status[s] \in {"RUNNING", "FINISHED"}
        BY Zenon, <1>3, SampledRuns
    <2>2. s # c
        BY Zenon, <1>4, <2>1
    <2>3. status'[s] = status[s]
        BY SMTT(120), <1>1, <2>2 DEF AliveInv, SchedTypes
    <2> QED BY Zenon, <2>1, <2>3 DEF SampledInv
<1>16. \A s : s \in Loading' <=> s \in Loading \/ s = c
    BY SMTT(120), <1>1, <1>9 DEF Loading, loads
<1>17. LoadsInv'
    <2>1. LoadsApart'
        <3>1. c \notin recving /\ \A i \in DOMAIN inflight : c \notin inflight[i].recv
            BY Zenon, <1>4, LoadingFacts
        <3> QED BY SMTT(120), <1>1, <1>9, <3>1 DEF AliveInv, LoadsInv, LoadsApart, loads
    <2>2. ASSUME NEW s \in Request PROVE LoadKept(s)'
        <3>1. LoadKept(s)
            BY Zenon DEF AliveInv, LoadsInv
        <3>2. CASE s = c
            BY Zenon, <1>1, <1>4, <1>5, <1>6, <1>16, <3>2 DEF LoadKept, IsLoading, Cdiv
        <3>3. CASE s # c
            BY Zenon, <1>1, <1>4, <1>6, <1>16, <3>1, <3>3 DEF LoadKept, IsLoading, Cdiv
        <3> QED BY Zenon, <3>2, <3>3
    <2> QED BY Zenon, <2>1, <2>2 DEF LoadsInv
<1>18. SendsInv'
    <2>1. SendsApart'
        BY Zenon, <1>1 DEF AliveInv, SendsInv, SendsApart
    <2>2. Sending' = Sending
        BY ZenonT(60), <1>1 DEF Sending
    <2>3. ASSUME NEW s \in Request PROVE SendKept(s)'
        <3>1. SendKept(s)
            BY Zenon DEF AliveInv, SendsInv
        <3>2. CASE s = c
            BY Zenon, <1>4, <1>6, <2>2, <3>1, <3>2 DEF SendKept
        <3>3. CASE s # c
            BY Zenon, <1>1, <1>4, <1>6, <1>16, <2>2, <3>1, <3>3 DEF SendKept
        <3> QED BY <3>2, <3>3
    <2> QED BY SMTT(120), <2>1, <2>3 DEF SendsInv
<1> QED BY Zenon, <1>4, <1>10, <1>11, <1>12, <1>13, <1>14, <1>15, <1>17, <1>18 DEF AliveInv

\* A candidate that is admitted moves to running with the tokens it was given.
LEMMA WaitingRunInv ==
    ASSUME Laws, KVInv, AliveInv, WaitingRun PROVE KVInv' /\ pc' \in PC /\ (Alive' => AliveInv')
<1> DEFINE c == Candidate
           new == NumWaitingTokens(c)
<1>1. /\ CandidateReady /\ PopCandidate /\ AllocateCandidate(c) /\ NumExternalTokens(c) = 0
      /\ running' = Append(running, c) /\ status' = [status EXCEPT ![c] = "RUNNING"]
      /\ step' = [step EXCEPT !.newReqs = @ \cup {c}, !.toks[c] = new, !.budget = @ - new]
      /\ UNCHANGED <<requests, numComputed, numTokens, placeholders, inflight>>
      /\ UNCHANGED <<doRemotePrefill, needSend, recving, sending, finishedRecving>>
    BY Zenon DEF WaitingRun, xferVars
<1>2. pc' = CASE new <= 0 -> "AssertionError"
              [] new > 0 /\ status[c] \notin {"WAITING", "PREEMPTED"} -> "RuntimeError"
              [] OTHER -> "waiting"
    BY Zenon DEF WaitingRun
<1>3. InWaitingLoop
    BY Zenon, <1>1 DEF CandidateReady
<1>4. /\ c \in Request /\ c \in Nat /\ c \notin Range(running) /\ c \notin Range(step.skipped)
      /\ pc = "waiting" /\ step.preempted = {}
    BY Zenon, <1>3, CandidateFacts
<1>5. /\ KVInv' /\ \A s \in Request \ {c} : reqToBlocks'[s] = reqToBlocks[s]
      /\ c \in requests /\ status[c] \in {"WAITING", "PREEMPTED"}
      /\ new \in Int
    BY Zenon, <1>1, AdmissionFacts
<1>6. /\ IsQueue(waiting') /\ Range(waiting') = Range(waiting) \ {c}
      /\ IsQueue(skipped') /\ Range(skipped') = Range(skipped) \ {c}
    BY Zenon, <1>1, <1>3, PopCandidateFacts
<1>7. numComputed[c] + new <= numTokens[c]
    <2> DEFINE a == numTokens[c] - numComputed[c]
    <2>1. /\ a \in Int /\ step.budget \in Int /\ numTokens[c] \in Nat /\ numComputed[c] \in Nat
        BY SMTT(120), <1>4, NumberTypes, LocalsFacts
    <2>2. new = Min({a, step.budget})
        BY SMTT(120), <1>1 DEF NumWaitingTokens
    <2>3. new <= a
        <3> HIDE DEF a, new
        <3> QED BY Zenon, <2>1, <2>2, MinFacts
    <2> HIDE DEF new
    <2> QED BY SMTT(120), <1>5, <2>1, <2>3
<1> HIDE DEF c, new
<1>8. CASE new <= 0
    <2>1. pc' = "AssertionError"
        BY Zenon, <1>2, <1>5, <1>8
    <2> QED BY Zenon, <1>5, <2>1 DEF PC, Alive, Crash
<1>9. CASE new > 0
    <2>0. pc' = "waiting"
        BY SMTT(120), <1>2, <1>5, <1>9
    <2>1. /\ status'[c] = "RUNNING" /\ status' \in [Request -> Status]
          /\ \A s \in Request \ {c} : status'[s] = status[s]
        BY Zenon, <1>1, <1>4 DEF AliveInv, SchedTypes, Status
    <2>2. IsQueue(running') /\ Range(running') = Range(running) \cup {c}
        <3>1. IsQueue(running)
            BY Zenon DEF AliveInv, QueueInv, ReqQueue
        <3>2. Joined(running', running, c)
            BY Zenon, <1>1, <1>4, <3>1 DEF Laws, AddLaw
        <3> QED BY Zenon, <3>2 DEF Joined
    <2> DEFINE toks == [step.toks EXCEPT ![c] = new]
               left == step.budget - new
               admitted == step.newReqs \cup {c}
    <2>3. /\ toks \in [Request -> Nat] /\ left \in Int /\ admitted \in SUBSET Request
          /\ toks[c] = new /\ \A s \in Request \ {c} : toks[s] = step.toks[s]
          /\ step \in Locals /\ Cardinality(step.runningReqs) < step.index
        BY SMTT(120), <1>4, <1>5, <1>9, LocalsFacts DEF Locals
    <2>4. step' = [step EXCEPT !.newReqs = admitted, !.toks = toks, !.budget = left]
        BY Zenon, <1>1, <2>3 DEF Locals
    <2>5. /\ step' \in Locals /\ step'.toks = toks
          /\ step'.index = step.index /\ step'.runningReqs = step.runningReqs
          /\ step'.preempted = step.preempted /\ step'.skipped = step.skipped
          /\ step'.recv = step.recv
        <3> HIDE DEF toks, left, admitted
        <3> QED BY Zenon, <2>3, <2>4 DEF Locals
    <2> HIDE DEF toks
    <2>6. SchedTypes' /\ StepTypes'
        BY Zenon, <1>1, <2>1, <2>3, <2>5 DEF AliveInv, SchedTypes, StepTypes
    <2>7. QueueInv'
        <3>1. ASSUME NEW s \in Request PROVE Queued(s)'
            <4>1. Queued(s)
                BY Zenon DEF AliveInv, QueueInv
            <4>2. CASE s = c
                BY Zenon, <1>4, <1>6, <2>1, <2>2, <2>5, <4>2 DEF Queued, IsLoading
            <4>3. CASE s # c
                BY Zenon, <1>6, <2>1, <2>2, <2>5, <4>1, <4>3 DEF Queued, IsLoading
            <4> QED BY <4>2, <4>3
        <3>2. ReqQueue(running) /\ ReqQueue(waiting) /\ ReqQueue(skipped) /\ ReqQueue(step.skipped)
            BY Zenon DEF AliveInv, QueueInv
        <3> QED BY Zenon, <1>4, <1>6, <2>2, <2>5, <3>1, <3>2 DEF QueueInv, ReqQueue, IsQueue
    <2>8. PhaseInv'
        BY Zenon, <1>1, <1>4, <2>0, <2>5 DEF AliveInv, PhaseInv
    <2>9. ASSUME NEW s \in Request PROVE TokensInv(s)'
        <3>1. TokensInv(s)
            BY DEF AliveInv
        <3>2. UNCHANGED <<numComputed, numTokens, placeholders>>
            BY Zenon, <1>1
        <3>3. CASE s # c
            <4>1. status'[s] = status[s] /\ step'.toks[s] = step.toks[s]
                BY Zenon, <2>1, <2>3, <2>5, <3>3
            <4> QED BY Zenon, <1>4, <2>0, <2>5, <3>1, <3>2, <4>1 DEF TokensInv
        <3>4. CASE s = c
            <4>1. /\ numTokens[c] \in Nat /\ placeholders[c] \in Nat /\ numComputed[c] \in Nat
                  /\ MaxModelLen \in Nat
                BY Zenon, <1>4, NumberTypes, RequestFacts
            <4>2. NumPromptTokens[c] <= numTokens[c] /\ numTokens[c] < MaxModelLen
                BY Zenon, <1>5, <3>1, <3>4 DEF TokensInv
            <4>3. step'.toks[c] = new /\ c \notin step'.preempted
                BY Zenon, <1>4, <2>3, <2>5
            <4>4. /\ numComputed[c] + new <= numTokens[c] + placeholders[c]
                  /\ numComputed[c] + new < MaxModelLen /\ numComputed[c] + new > 0
                <5>1. new \in Int
                    BY Zenon, <1>5
                <5> QED BY SMTT(60), <1>7, <1>9, <4>1, <4>2, <5>1
            <4> QED BY Zenon, <1>5, <2>0, <2>1, <3>1, <3>2, <3>4, <4>2, <4>3, <4>4 DEF TokensInv
        <3> QED BY <3>3, <3>4
    <2>10. ASSUME NEW s \in Request PROVE KnownInv(s)'
        <3>1. KnownInv(s)
            BY DEF AliveInv
        <3> QED BY Zenon, <1>1, <1>5, <2>1, <3>1 DEF KnownInv
    <2>11. SamplingInv'
        <3> SUFFICES ASSUME NEW i \in DOMAIN inflight, NEW s \in inflight[i].sampling
                     PROVE  SampledInv(i, s)'
            BY Zenon, <1>1 DEF SamplingInv
        <3>1. status[s] \in {"RUNNING", "FINISHED"}
            BY Zenon, <1>4, SampledRuns
        <3>2. s # c
            BY Zenon, <1>5, <3>1
        <3>3. status'[s] = status[s]
            BY SMTT(120), <1>1, <3>2 DEF AliveInv, SchedTypes
        <3> QED BY SMTT(120), <3>1, <3>3 DEF SampledInv
    <2>12. LoadsInv'
        <3>1. LoadsInv
            BY DEF AliveInv
        <3>2. \A s \in Request : status[s] \in {"WAITING_FOR_REMOTE_KVS", "FINISHED"} =>
                    Len(reqToBlocks'[s]) = Len(reqToBlocks[s])
            BY Zenon, <1>5
        <3>3. \A s \in Request : /\ status'[s] = "WAITING_FOR_REMOTE_KVS" <=> IsLoading(s)
                                 /\ status[s] = "FINISHED" => status'[s] = "FINISHED"
            BY Zenon, <1>5, <2>1 DEF IsLoading
        <3> QED BY Zenon, <1>1, <2>5, <3>1, <3>2, <3>3, LoadsFrame
    <2>13. SendsInv'
        <3>1. SendsInv
            BY DEF AliveInv
        <3>2. Loading' = Loading
            BY SMTT(120), <1>1, <2>5 DEF Loading
        <3>3. \A s \in Request : status[s] = "FINISHED" =>
                    (reqToBlocks'[s] = << >> <=> reqToBlocks[s] = << >>)
            BY Zenon, <1>5
        <3>4. \A s \in Request : status'[s] = "FINISHED" <=> status[s] = "FINISHED"
            BY Zenon, <1>5, <2>1
        <3> QED BY Zenon, <1>1, <3>1, <3>2, <3>3, <3>4, SendsFrame
    <2>14. AliveInv'
        BY SMTT(120), <2>6, <2>7, <2>8, <2>9, <2>10, <2>11, <2>12, <2>13 DEF AliveInv
    <2> QED BY Zenon, <1>5, <2>0, <2>14 DEF PC
<1> QED BY SMTT(120), <1>5, <1>8, <1>9

-----------------------------------------------------------------------------
(* The end of schedule()                                                    *)

\* The batches under way, after one more.
LEMMA AppendBatch ==
    ASSUME inflight \in Seq(Batch), NEW b \in Batch, inflight' = Append(inflight, b)
    PROVE  /\ inflight' \in Seq(Batch) /\ Len(inflight') = Len(inflight) + 1
           /\ Len(inflight) \in Nat
           /\ DOMAIN inflight = 1 .. Len(inflight)
           /\ DOMAIN inflight' = DOMAIN inflight \cup {Len(inflight) + 1}
           /\ Len(inflight) + 1 \notin DOMAIN inflight
           /\ \A i \in DOMAIN inflight : inflight'[i] = inflight[i]
           /\ inflight'[Len(inflight) + 1] = b
<1>1. /\ inflight' \in Seq(Batch) /\ Len(inflight') = Len(inflight) + 1
      /\ \A i \in 1 .. Len(inflight) : inflight'[i] = inflight[i]
      /\ inflight'[Len(inflight) + 1] = b
    OBVIOUS
<1>2. Len(inflight) \in Nat /\ DOMAIN inflight = 1 .. Len(inflight)
    OBVIOUS
<1>3. DOMAIN inflight' = 1 .. Len(inflight) + 1
    BY SMTT(120), <1>1
<1>4. /\ 1 .. Len(inflight) + 1 = 1 .. Len(inflight) \cup {Len(inflight) + 1}
      /\ Len(inflight) + 1 \notin 1 .. Len(inflight)
    BY SMTT(120), <1>2
<1> QED BY Zenon, <1>1, <1>2, <1>3, <1>4

\* What was skipped goes back to the queue, and what was scheduled counts as
\* computed.  Whoever the new batch samples for runs: a victim that kept its
\* place in the batch has not reached its last token.
LEMMA FinishScheduleInv ==
    ASSUME Laws, AliveInv, FinishSchedule PROVE pc' \in PC /\ (Alive' => AliveInv')
<1> DEFINE computed == [r \in Request |-> numComputed[r] + step.toks[r]]
           sampling == Sampling(computed)
           batch == [scheduled |-> Scheduled, sampling |-> sampling,
                     complete |-> PrefillComplete(computed), recv |-> step.recv, send |-> needSend]
           n == Len(inflight) + 1
<1>1. /\ pc = "finish" /\ numComputed' = computed /\ placeholders' = PlaceholdersAfter(sampling)
      /\ inflight' = Append(inflight, batch)
      /\ skipped' = PrependRequests(skipped, step.skipped)
      /\ needSend' = {} /\ step' = NewStep
      /\ UNCHANGED <<reqToBlocks, requests, status, numTokens, running, waiting>>
      /\ UNCHANGED <<doRemotePrefill, recving, sending, finishedRecving>>
    BY Zenon DEF FinishSchedule, kvVars
<1>2. /\ pc' \in {"AssertionError", "input", "output"}
      /\ pc' = "input" => Len(inflight') < BatchQueueSize
    BY Zenon DEF FinishSchedule, QueueHasRoom
<1>3. pc' \in PC
    BY Zenon, <1>2 DEF PC, Crash
<1>4. SUFFICES ASSUME pc' \in {"input", "output"} PROVE AliveInv'
    BY Zenon, <1>2, <1>3 DEF Alive, Crash
<1>5. /\ step'.toks = [r \in Request |-> 0] /\ step'.preempted = {} /\ step'.recv = {}
      /\ step'.skipped = << >> /\ IsQueue(step'.skipped) /\ Range(step'.skipped) = {}
    BY Zenon, <1>1, NewStepFacts DEF Laws, EmptyLaw
<1>6. /\ step \in Locals /\ inflight \in Seq(Batch) /\ needSend \in SUBSET Request
      /\ requests \subseteq Request
    BY Zenon, LocalsFacts DEF AliveInv, SchedTypes
<1>7. batch \in Batch
    <2>1. /\ Scheduled \in SUBSET Request /\ sampling \in SUBSET Request
          /\ PrefillComplete(computed) \in SUBSET Request /\ step.recv \in SUBSET Request
        BY Zenon, <1>6 DEF Scheduled, Sampling, PrefillComplete, Locals
    <2> HIDE DEF sampling, computed
    <2> QED BY Zenon, <1>6, <2>1 DEF Batch
<1>8. \A r \in sampling : /\ r \in Request /\ step.toks[r] > 0
                          /\ computed[r] >= numTokens[r] + placeholders[r]
    BY Zenon DEF Sampling, Scheduled
<1>9. /\ batch.sampling = sampling /\ batch.recv = step.recv /\ batch.send = needSend
    BY Zenon
<1> HIDE DEF batch
<1>10. /\ inflight' \in Seq(Batch) /\ Len(inflight') = n /\ Len(inflight) \in Nat
       /\ DOMAIN inflight = 1 .. Len(inflight)
       /\ DOMAIN inflight' = DOMAIN inflight \cup {n} /\ n \notin DOMAIN inflight
       /\ \A i \in DOMAIN inflight : inflight'[i] = inflight[i]
       /\ inflight'[n] = batch
    BY Zenon, <1>1, <1>6, <1>7, AppendBatch
<1> HIDE DEF n
<1>11. /\ computed \in [Request -> Nat]
       /\ \A r \in Request : computed[r] = numComputed[r] + step.toks[r]
    BY SMTT(120), <1>6 DEF AliveInv, SchedTypes, Locals
<1> HIDE DEF computed, sampling
<1>12. /\ placeholders' \in [Request -> Nat]
       /\ \A r \in Request : placeholders'[r] >= placeholders[r]
    BY SMTT(120), <1>1 DEF PlaceholdersAfter, AliveInv, SchedTypes
<1>13. SchedTypes'
    BY Zenon, <1>1, <1>6, <1>10, <1>11, <1>12 DEF AliveInv, SchedTypes
<1>14. StepTypes'
    <2>1. Cardinality({}) = 0 /\ << >> \in Seq(Nat)
        BY SMTT(120) DEF Laws, CardinalityLaw
    <2>2. NewStep \in Locals /\ NewStep.runningReqs = {} /\ NewStep.index = 1
        BY SMTT(120), <2>1, SchedulerAssumption DEF NewStep, Locals
    <2> QED BY SMTT(120), <1>1, <2>1, <2>2 DEF StepTypes
<1>15. /\ IsQueue(skipped') /\ Range(skipped') = Range(skipped) \cup Range(step.skipped)
    <2>1. ReqQueue(skipped) /\ ReqQueue(step.skipped)
        BY Zenon DEF AliveInv, QueueInv
    <2>2. Range(skipped) \cap Range(step.skipped) = {}
        BY Zenon, <2>1, QueuedFacts DEF ReqQueue
    <2> QED BY Zenon, <1>1, <2>1, <2>2 DEF ReqQueue, Laws, PrependLaw
<1>16. QueueInv'
    <2>1. ASSUME NEW s \in Request PROVE Queued(s)'
        <3>1. Queued(s)
            BY Zenon DEF AliveInv, QueueInv
        <3> QED BY Zenon, <1>1, <1>5, <1>15, <3>1 DEF Queued, IsLoading
    <2>2. ReqQueue(running) /\ ReqQueue(waiting) /\ ReqQueue(skipped) /\ ReqQueue(step.skipped)
        BY Zenon DEF AliveInv, QueueInv
    <2> QED BY Zenon, <1>1, <1>5, <1>15, <2>1, <2>2 DEF QueueInv, ReqQueue, IsQueue
<1>17. PhaseInv'
    <2>1. Len(inflight) < BatchQueueSize /\ BatchQueueSize \in Nat
        BY Zenon, <1>1 DEF AliveInv, PhaseInv, BatchQueueSize
    <2>2. Len(inflight') <= BatchQueueSize
        BY SMTT(120), <1>10, <2>1 DEF n
    <2>3. inflight' # << >>
        <3>1. n \in DOMAIN inflight'
            BY Zenon, <1>10
        <3> QED BY SMTT(120), <3>1
    <2> QED BY Zenon, <1>1, <1>2, <1>4, <2>2, <2>3 DEF PhaseInv
<1>18. ASSUME NEW s \in Request PROVE TokensInv(s)'
    <2>1. TokensInv(s)
        BY Zenon DEF AliveInv
    <2>2. /\ numComputed'[s] = numComputed[s] + step.toks[s] /\ step'.toks[s] = 0
          /\ placeholders'[s] >= placeholders[s] /\ placeholders'[s] \in Nat
          /\ s \notin step'.preempted /\ status'[s] = status[s] /\ numTokens'[s] = numTokens[s]
        BY Zenon, <1>1, <1>5, <1>11, <1>12
    <2>3. /\ numComputed[s] \in Nat /\ numTokens[s] \in Nat /\ placeholders[s] \in Nat
          /\ step.toks[s] \in Nat /\ MaxModelLen \in Nat
        BY Zenon, NumberTypes, RequestFacts
    <2>4. numComputed[s] + step.toks[s] <= numTokens[s] + placeholders[s]
        BY Zenon, <2>1 DEF TokensInv
    <2>5. /\ numComputed'[s] + step'.toks[s] = numComputed[s] + step.toks[s]
          /\ numComputed[s] + step.toks[s] <= numTokens[s] + placeholders'[s]
        BY SMTT(60), <2>2, <2>3, <2>4
    <2> QED BY Zenon, <2>1, <2>2, <2>5 DEF TokensInv
<1>19. ASSUME NEW s \in Request PROVE KnownInv(s)'
    BY Zenon, <1>1 DEF AliveInv, KnownInv
<1>20. SamplingInv'
    <2> SUFFICES ASSUME NEW i \in DOMAIN inflight', NEW s \in inflight'[i].sampling
                 PROVE  SampledInv(i, s)'
        BY Zenon DEF SamplingInv
    <2>1. CASE i = n
        <3>1. s \in sampling /\ s \in Request
            BY Zenon, <1>8, <1>9, <1>10, <2>1
        <3>2. TokensInv(s)
            BY Zenon, <3>1 DEF AliveInv
        <3>3. /\ step.toks[s] > 0 /\ numComputed[s] + step.toks[s] >= numTokens[s] + placeholders[s]
              /\ numComputed[s] \in Nat /\ numTokens[s] \in Nat /\ placeholders[s] \in Nat
              /\ step.toks[s] \in Nat
            BY Zenon, <1>8, <1>11, <3>1, NumberTypes
        <3>4. s \notin step.preempted
            <4>1. s \in step.preempted =>
                    numComputed[s] = 0 /\ step.toks[s] < numTokens[s] + placeholders[s]
                BY Zenon, <3>2 DEF TokensInv
            <4>2. ~(numComputed[s] = 0 /\ step.toks[s] < numTokens[s] + placeholders[s])
                BY SMTT(60), <3>3
            <4> QED BY Zenon, <4>1, <4>2
        <3>5. status[s] = "RUNNING"
            <4>1. step.toks[s] # 0
                BY SMTT(60), <3>3
            <4> QED BY Zenon, <3>2, <3>4, <4>1 DEF TokensInv
        <3> QED BY Zenon, <1>1, <3>5 DEF SampledInv
    <2>2. CASE i # n
        <3>1. i \in DOMAIN inflight /\ s \in inflight[i].sampling
            BY Zenon, <1>10, <2>2
        <3>2. SampledInv(i, s)
            BY Zenon, <3>1 DEF AliveInv, SamplingInv
        <3>3. i = 1 /\ ~(Len(inflight') < BatchQueueSize)
            <4>1. Len(inflight) < BatchQueueSize /\ BatchQueueSize <= 2 /\ BatchQueueSize \in Nat
                BY SMTT(120), <1>1 DEF AliveInv, PhaseInv, BatchQueueSize
            <4>2. i \in 1 .. Len(inflight)
                BY Zenon, <1>10, <3>1
            <4> QED BY SMTT(120), <1>10, <4>1, <4>2 DEF n
        <3>4. pc' = "output"
            BY Zenon, <1>2, <1>4, <3>3
        <3> QED BY Zenon, <1>1, <3>2, <3>3, <3>4 DEF SampledInv
    <2> QED BY Zenon, <2>1, <2>2
<1>21. ASSUME NEW s PROVE s \in Loading' <=> s \in Loading
    <2>1. s \in Loading' <=> \/ s \in recving' \/ s \in step'.recv
                             \/ \E i \in DOMAIN inflight' : s \in inflight'[i].recv
        BY Zenon DEF Loading
    <2> QED BY SMTT(120), <1>1, <1>5, <1>9, <1>10, <2>1, LoadingFacts
<1>22. ASSUME NEW s PROVE s \in Sending' <=> s \in Sending
    <2>1. s \in Sending' <=> \/ s \in sending' \/ s \in needSend'
                             \/ \E i \in DOMAIN inflight' : s \in inflight'[i].send
        BY Zenon DEF Sending
    <2> QED BY Zenon, <1>1, <1>9, <1>10, <2>1, SendingFacts
<1>23. LoadsInv'
    <2>1. LoadsApart
        BY Zenon DEF AliveInv, LoadsInv
    <2>2. LoadsApart'
        <3>1. recving' \cap step'.recv = {}
            BY Zenon, <1>5
        <3>2. ASSUME NEW i \in DOMAIN inflight' PROVE inflight'[i].recv \cap (recving' \cup step'.recv) = {}
            BY SMTT(120), <1>1, <1>5, <1>9, <1>10, <2>1 DEF LoadsApart
        <3>3. ASSUME NEW i \in DOMAIN inflight', NEW j \in DOMAIN inflight', i # j
              PROVE  inflight'[i].recv \cap inflight'[j].recv = {}
            BY ZenonT(60), <1>9, <1>10, <2>1, <3>3 DEF LoadsApart
        <3> QED BY Zenon, <3>1, <3>2, <3>3 DEF LoadsApart
    <2>3. ASSUME NEW s \in Request PROVE LoadKept(s)'
        <3>1. LoadKept(s)
            BY Zenon DEF AliveInv, LoadsInv
        <3> QED BY Zenon, <1>1, <1>21, <3>1 DEF LoadKept, IsLoading, Cdiv
    <2> QED BY Zenon, <2>2, <2>3 DEF LoadsInv
<1>24. SendsInv'
    <2>1. SendsApart
        BY Zenon DEF AliveInv, SendsInv
    <2>2. SendsApart'
        <3>1. sending' \cap needSend' = {}
            BY Zenon, <1>1
        <3>2. ASSUME NEW i \in DOMAIN inflight' PROVE inflight'[i].send \cap (sending' \cup needSend') = {}
            BY ZenonT(60), <1>1, <1>9, <1>10, <2>1 DEF SendsApart
        <3>3. ASSUME NEW i \in DOMAIN inflight', NEW j \in DOMAIN inflight', i # j
              PROVE  inflight'[i].send \cap inflight'[j].send = {}
            BY ZenonT(60), <1>9, <1>10, <2>1, <3>3 DEF SendsApart
        <3> QED BY Zenon, <3>1, <3>2, <3>3 DEF SendsApart
    <2>3. ASSUME NEW s \in Request PROVE SendKept(s)'
        <3>1. SendKept(s)
            BY Zenon DEF AliveInv, SendsInv
        <3> QED BY Zenon, <1>1, <1>21, <1>22, <3>1 DEF SendKept
    <2> QED BY SMTT(120), <2>2, <2>3 DEF SendsInv
<1> QED BY Zenon, <1>13, <1>14, <1>16, <1>17, <1>18, <1>19, <1>20, <1>23, <1>24 DEF AliveInv

-----------------------------------------------------------------------------
(* The output of a batch                                                    *)

\* The batches under way, after the oldest is done.
LEMMA TailBatch ==
    ASSUME inflight \in Seq(Batch), inflight # << >>, inflight' = Tail(inflight)
    PROVE  /\ inflight' \in Seq(Batch) /\ Len(inflight) \in Nat
           /\ Len(inflight') = Len(inflight) - 1
           /\ 1 \in DOMAIN inflight /\ Head(inflight) = inflight[1] /\ Head(inflight) \in Batch
           /\ \A i \in DOMAIN inflight' : /\ i \in Nat /\ i + 1 \in DOMAIN inflight /\ i + 1 # 1
                                          /\ inflight'[i] = inflight[i + 1]
           /\ \A i \in DOMAIN inflight : i # 1 => /\ i - 1 \in DOMAIN inflight'
                                                 /\ inflight'[i - 1] = inflight[i]
<1>1. /\ Len(inflight) \in Nat /\ Len(inflight) # 0 /\ DOMAIN inflight = 1 .. Len(inflight)
    OBVIOUS
<1>2. /\ inflight' \in Seq(Batch) /\ Len(inflight') = Len(inflight) - 1
      /\ \A i \in 1 .. Len(inflight') : inflight'[i] = inflight[i + 1]
      /\ Head(inflight) = inflight[1]
    OBVIOUS
<1>3. DOMAIN inflight' = 1 .. Len(inflight) - 1
    BY SMTT(120), <1>2
<1>4. inflight[1] \in Batch
    BY SMTT(120), <1>1
<1>5. \A i \in 1 .. Len(inflight) - 1 :
        /\ i \in Nat /\ i + 1 \in 1 .. Len(inflight) /\ i + 1 # 1
        /\ inflight'[i] = inflight[i + 1]
    BY SMTT(120), <1>1, <1>2
<1>6. \A i \in 1 .. Len(inflight) : i # 1 =>
        i - 1 \in 1 .. Len(inflight) - 1 /\ (i - 1) + 1 = i
    BY SMTT(120), <1>1
<1>7. \A i \in 1 .. Len(inflight) : i # 1 => inflight'[i - 1] = inflight[i]
    BY Zenon, <1>5, <1>6
<1> QED BY SMTT(120), <1>1, <1>2, <1>3, <1>4, <1>5, <1>6, <1>7

\* Whoever the oldest batch sampled for and is not over yet runs or was
\* preempted: it is not loading, nor is anybody who waits for a transfer.
LEMMA SampledFacts ==
    ASSUME AliveInv, pc = "output", NEW r \in Request, r \in inflight[1].sampling,
           1 \in DOMAIN inflight, status[r] # "FINISHED"
    PROVE  /\ status[r] = "RUNNING" \/ r \in Range(waiting)
           /\ status[r] \in {"RUNNING", "WAITING", "PREEMPTED"}
           /\ r \notin Loading /\ r \notin Sending
<1>1. SampledInv(1, r)
    BY Zenon DEF AliveInv, SamplingInv
<1>2. status[r] = "RUNNING" \/ r \in Range(waiting)
    BY Zenon, <1>1 DEF SampledInv
<1>3. status[r] \in {"RUNNING", "WAITING", "PREEMPTED"}
    BY Zenon, <1>2, QueuedFacts
<1>4. LoadKept(r) /\ SendKept(r)
    BY Zenon DEF AliveInv, LoadsInv, SendsInv
<1> QED BY Zenon, <1>2, <1>3, <1>4 DEF LoadKept, SendKept

\* The requests that stop were running or waiting, so none of them is loading;
\* the failed loads are among the skipped; and what the connector reports as
\* sent was kept for the decoder alone.
LEMMA UpdateInv ==
    ASSUME Laws, KVInv, AliveInv, NEW eos, NEW failed, NEW received, NEW sent, pc = "output",
           failed \subseteq recving \cup Head(inflight).recv,
           received \subseteq recving \cup Head(inflight).recv,
           sent \subseteq sending \cup Head(inflight).send,
           UpdateFromOutput(eos, failed, received, sent)
    PROVE  KVInv' /\ pc' \in PC /\ (Alive' => AliveInv')
<1> DEFINE batch == Head(inflight)
           invalid == InvalidLoads(failed)
           failing == FailedRequests(failed)
           live == LiveRequests(batch, failing)
           sampled == live \cap batch.sampling
           capped == {r \in sampled \ eos : LengthCapped(r, TokensAfter(sampled)[r])}
           stopped == capped \cup (sampled \cap eos)
           delayed == DelayedSends(capped)
           over == UnwantedLoads(received, failing)
           gone == (stopped \ delayed) \cup over \cup sent
           inRunning == {r \in stopped : status[r] = "RUNNING"}
           inWaiting == failing \cup {r \in stopped : status[r] # "RUNNING"}
<1>1. /\ inflight' = Tail(inflight)
      /\ recving' = (recving \cup batch.recv) \ received
      /\ sending' = (sending \cup batch.send) \ sent
      /\ FreeBlocks(gone, live \cap batch.complete)
      /\ requests' = requests \ gone
      /\ status' = [r \in Request |-> IF r \in stopped \cup failing THEN "FINISHED" ELSE status[r]]
      /\ numTokens' = TokensAfter(sampled)
      /\ numComputed' = [r \in Request |-> IF r \in invalid THEN 0 ELSE numComputed[r]]
      /\ placeholders' = PlaceholdersLeft(sampled)
      /\ running' = RemoveAll(running, inRunning)
      /\ waiting' = RemoveAll(waiting, inWaiting)
      /\ skipped' = RemoveAll(skipped, failing)
      /\ needSend' = needSend \cup delayed
      /\ finishedRecving' = finishedRecving \cup (received \ over)
      /\ step' = step /\ doRemotePrefill' = doRemotePrefill
    BY Zenon DEF UpdateFromOutput
<1>2. \/ pc' = "AssertionError"
      \/ pc' = "input" /\ \A r \in sampled : ~(placeholders'[r] < 0)
    BY Zenon DEF UpdateFromOutput
<1>3. /\ inflight \in Seq(Batch) /\ inflight # << >> /\ step = NewStep
      /\ requests \subseteq Request /\ recving \subseteq Request /\ sending \subseteq Request
      /\ needSend \subseteq Request /\ finishedRecving \subseteq Request
    BY Zenon DEF AliveInv, SchedTypes, PhaseInv
<1>4. /\ inflight' \in Seq(Batch) /\ Len(inflight) \in Nat
      /\ Len(inflight') = Len(inflight) - 1
      /\ 1 \in DOMAIN inflight /\ batch = inflight[1] /\ batch \in Batch
      /\ \A i \in DOMAIN inflight' : /\ i \in Nat /\ i + 1 \in DOMAIN inflight /\ i + 1 # 1
                                     /\ inflight'[i] = inflight[i + 1]
      /\ \A i \in DOMAIN inflight : i # 1 => /\ i - 1 \in DOMAIN inflight'
                                            /\ inflight'[i - 1] = inflight[i]
    BY Zenon, <1>1, <1>3, TailBatch
<1> HIDE DEF batch
<1>5. /\ batch.scheduled \subseteq Request /\ batch.sampling \subseteq Request
      /\ batch.complete \subseteq Request /\ batch.recv \subseteq Request
      /\ batch.send \subseteq Request
    BY Zenon, <1>4 DEF Batch
<1>6. /\ step.toks = [r \in Request |-> 0] /\ step.preempted = {} /\ step.recv = {}
      /\ Range(step.skipped) = {}
    BY Zenon, <1>3, NewStepFacts DEF Laws, EmptyLaw
<1>7. received \subseteq recving \cup batch.recv /\ failed \subseteq recving \cup batch.recv
      /\ sent \subseteq sending \cup batch.send
    BY Zenon DEF batch
<1>8. \A r \in invalid : r \in failed /\ IsLoading(r)
    BY Zenon DEF InvalidLoads
<1>9. \A r \in failing : r \in invalid
    BY Zenon DEF FailedRequests
<1>10. \A r \in sampled : /\ r \in Request /\ r \in requests /\ status[r] # "FINISHED"
                          /\ r \in batch.sampling
    BY Zenon, <1>5 DEF LiveRequests
<1>11. live \cap batch.complete \in SUBSET Request
    BY Zenon, <1>5 DEF LiveRequests
<1>12. \A r \in over : r \in received /\ (status[r] = "FINISHED" \/ r \in failing)
    BY Zenon DEF UnwantedLoads
<1>13. \A r \in received : status[r] = "FINISHED" \/ r \in failing => r \in over
    BY Zenon DEF UnwantedLoads
<1> HIDE DEF failing, invalid, live, over
<1>14. \A r \in sampled : r \notin stopped => ~LengthCapped(r, TokensAfter(sampled)[r])
    BY Zenon
<1>15. \A r \in capped : r \in sampled
    BY Zenon
<1> HIDE DEF sampled
<1>16. \A r \in stopped : r \in sampled
    BY Zenon, <1>15
<1>17. \A r \in delayed : r \in stopped /\ reqToBlocks[r] # << >>
    BY Zenon DEF DelayedSends
<1> HIDE DEF capped
<1> HIDE DEF stopped, delayed
<1>18. \A r : r \in gone <=> (r \in stopped /\ r \notin delayed) \/ r \in over \/ r \in sent
    BY Zenon
<1>19. \A r : r \in inRunning <=> r \in stopped /\ status[r] = "RUNNING"
    BY Zenon
<1>20. \A r : r \in inWaiting <=> r \in failing \/ (r \in stopped /\ status[r] # "RUNNING")
    BY Zenon
<1> HIDE DEF gone, inRunning, inWaiting
<1>21. gone \in SUBSET Request
    BY Zenon, <1>3, <1>5, <1>7, <1>10, <1>12, <1>16, <1>18
<1>22. KVInv'
    BY Zenon, <1>1, <1>11, <1>21 DEF Laws, FreeLaw
<1>23. pc' \in PC
    BY Zenon, <1>2 DEF PC, Crash
<1>24. SUFFICES ASSUME pc' = "input", \A r \in sampled : ~(placeholders'[r] < 0)
                PROVE  AliveInv'
    BY Zenon, <1>2, <1>22, <1>23 DEF Alive, Crash
<1>25. \A s \in Request :
        /\ s \in gone => reqToBlocks'[s] = << >>
        /\ s \notin gone => /\ Len(reqToBlocks'[s]) = Len(reqToBlocks[s])
                            /\ reqToBlocks'[s] = << >> <=> reqToBlocks[s] = << >>
    BY Zenon, <1>1, <1>11, <1>21 DEF Laws, FreeLaw
<1>26. ASSUME NEW r, r \in sampled
       PROVE  /\ status[r] = "RUNNING" \/ r \in Range(waiting)
              /\ status[r] \in {"RUNNING", "WAITING", "PREEMPTED"}
              /\ r \notin Loading /\ r \notin Sending
    BY Zenon, <1>4, <1>10, <1>26, SampledFacts
<1>27. ASSUME NEW r, r \in recving \/ r \in batch.recv PROVE r \in Loading
    BY Zenon, <1>4, <1>27, LoadingFacts
<1>28. ASSUME NEW r, r \in sending \/ r \in batch.send PROVE r \in Sending
    BY Zenon, <1>4, <1>28, SendingFacts
<1>29. \A r : r \in failing => r \in Loading /\ IsLoading(r)
    BY Zenon, <1>7, <1>8, <1>9, <1>27
<1>30. \A r : r \in received => r \in Loading
    BY Zenon, <1>7, <1>27
<1>31. \A r : r \in sent => r \in Sending
    BY Zenon, <1>7, <1>28
<1>32. /\ status' \in [Request -> Status]
       /\ \A r \in Request : /\ r \in stopped \/ r \in failing => status'[r] = "FINISHED"
                             /\ r \notin stopped /\ r \notin failing => status'[r] = status[r]
    BY Zenon, <1>1 DEF AliveInv, SchedTypes, Status
<1>33. SchedTypes'
    <2>1. /\ numTokens' \in [Request -> Nat] /\ numComputed' \in [Request -> Nat]
        BY SMTT(120), <1>1 DEF AliveInv, SchedTypes, TokensAfter
    <2>2. placeholders' \in [Request -> Nat]
        <3>1. ASSUME NEW r \in Request PROVE placeholders'[r] \in Nat
            <4>1. placeholders[r] \in Nat
                BY Zenon, NumberTypes
            <4>2. placeholders'[r] = IF AsyncScheduling /\ r \in sampled
                                     THEN placeholders[r] - 1 ELSE placeholders[r]
                BY Zenon, <1>1 DEF PlaceholdersLeft
            <4> QED BY SMTT(120), <1>24, <4>1, <4>2
        <3> QED BY Zenon, <1>1, <3>1 DEF PlaceholdersLeft
    <2>3. /\ needSend' \subseteq Request /\ recving' \subseteq Request /\ sending' \subseteq Request
          /\ finishedRecving' \subseteq Request
        BY Zenon, <1>1, <1>3, <1>5, <1>7, <1>10, <1>16, <1>17
    <2> QED BY Zenon, <1>1, <1>3, <1>4, <1>32, <2>1, <2>2, <2>3 DEF SchedTypes
<1>34. StepTypes'
    BY Zenon, <1>1 DEF AliveInv, StepTypes
<1>35. /\ IsQueue(running') /\ Range(running') = Range(running) \ inRunning
       /\ IsQueue(waiting') /\ Range(waiting') = Range(waiting) \ inWaiting
       /\ IsQueue(skipped') /\ Range(skipped') = Range(skipped) \ failing
    <2>1. IsQueue(running) /\ IsQueue(waiting) /\ IsQueue(skipped)
        BY Zenon DEF AliveInv, QueueInv, ReqQueue
    <2>2. /\ Left(running', running, inRunning) /\ Left(waiting', waiting, inWaiting)
          /\ Left(skipped', skipped, failing)
        BY Zenon, <1>1, <2>1 DEF Laws, RemoveLaw
    <2> QED BY Zenon, <2>2 DEF Left
<1>36. QueueInv'
    <2>1. ASSUME NEW s \in Request PROVE Queued(s)'
        <3>1. Queued(s) /\ status[s] \in Status
            BY Zenon, QueuedFacts DEF AliveInv, QueueInv
        <3>2. /\ s \in Range(running') <=> s \in Range(running) /\ s \notin inRunning
              /\ s \in Range(waiting') <=> s \in Range(waiting) /\ s \notin inWaiting
              /\ s \in Range(skipped') <=> s \in Range(skipped) /\ s \notin failing
              /\ s \notin Range(step.skipped) /\ s \notin Range(step'.skipped)
            BY Zenon, <1>1, <1>6, <1>35
        <3>3. CASE s \in failing
            <4>1. status'[s] = "FINISHED" /\ s \in inWaiting /\ status[s] = "WAITING_FOR_REMOTE_KVS"
                BY Zenon, <1>20, <1>29, <1>32, <3>3 DEF IsLoading
            <4> QED BY Zenon, <3>1, <3>2, <3>3, <4>1 DEF Queued, IsLoading
        <3>4. CASE s \notin failing /\ s \in stopped
            <4>1. /\ status'[s] = "FINISHED"
                  /\ s \in inRunning <=> status[s] = "RUNNING"
                  /\ s \in inWaiting <=> status[s] # "RUNNING"
                BY Zenon, <1>19, <1>20, <1>32, <3>4
            <4>2. status[s] = "RUNNING" \/ s \in Range(waiting)
                BY Zenon, <1>16, <1>26, <3>4
            <4> QED BY Zenon, <3>1, <3>2, <3>4, <4>1, <4>2 DEF Queued, IsLoading
        <3>5. CASE s \notin failing /\ s \notin stopped
            <4>1. status'[s] = status[s] /\ s \notin inRunning /\ s \notin inWaiting
                BY Zenon, <1>19, <1>20, <1>32, <3>5
            <4> QED BY Zenon, <3>1, <3>2, <3>5, <4>1 DEF Queued, IsLoading
        <3> QED BY Zenon, <3>3, <3>4, <3>5
    <2> QED BY Zenon, <1>1, <1>35, <2>1 DEF AliveInv, QueueInv, ReqQueue, IsQueue
<1>37. PhaseInv'
    <2>1. Len(inflight') <= BatchQueueSize /\ Len(inflight') < BatchQueueSize
        BY SMTT(120), <1>4 DEF AliveInv, PhaseInv, BatchQueueSize
    <2> QED BY Zenon, <1>1, <1>3, <1>24, <2>1 DEF PhaseInv
<1>38. ASSUME NEW s \in Request PROVE TokensInv(s)'
    <2>1. TokensInv(s) /\ step.toks[s] = 0 /\ s \notin step.preempted
        BY Zenon, <1>6 DEF AliveInv
    <2>2. /\ numComputed[s] \in Nat /\ numTokens[s] \in Nat /\ placeholders[s] \in Nat
          /\ MaxModelLen \in Nat /\ NumPromptTokens[s] \in Nat
        BY Zenon, NumberTypes, RequestFacts
    <2>3. numComputed'[s] = (IF s \in invalid THEN 0 ELSE numComputed[s])
        BY Zenon, <1>1
    <2>4. /\ numTokens'[s] = (IF s \in sampled THEN numTokens[s] + 1 ELSE numTokens[s])
          /\ TokensAfter(sampled)[s] = numTokens'[s]
        BY Zenon, <1>1 DEF TokensAfter
    <2>5. placeholders'[s] \in Int /\ numTokens'[s] + placeholders'[s] >= numTokens[s] + placeholders[s]
        <3>1. placeholders'[s] = IF AsyncScheduling /\ s \in sampled
                                 THEN placeholders[s] - 1 ELSE placeholders[s]
            BY ZenonT(120), <1>1 DEF PlaceholdersLeft
        <3> QED BY SMTT(120), <2>2, <2>4, <3>1
    <2>6. status'[s] # "FINISHED" => numTokens'[s] < MaxModelLen
        <3>1. status'[s] # "FINISHED" => s \notin stopped /\ status'[s] = status[s]
            BY Zenon, <1>32
        <3>2. s \in sampled /\ s \notin stopped => ~(numTokens'[s] >= MaxModelLen)
            BY Zenon, <1>14, <2>4 DEF LengthCapped
        <3>3. status[s] # "FINISHED" => numTokens[s] < MaxModelLen
            BY Zenon, <2>1 DEF TokensInv
        <3>4. ASSUME status'[s] # "FINISHED", s \in sampled PROVE numTokens'[s] < MaxModelLen
            <4>1. ~(numTokens'[s] >= MaxModelLen)
                BY Zenon, <3>1, <3>2, <3>4
            <4>2. numTokens'[s] \in Int
                BY SMTT(60), <2>2, <2>4
            <4> QED BY SMTT(60), <2>2, <4>1, <4>2
        <3>5. ASSUME status'[s] # "FINISHED", s \notin sampled PROVE numTokens'[s] < MaxModelLen
            BY Zenon, <2>4, <3>1, <3>3, <3>5
        <3> QED BY Zenon, <3>4, <3>5
    <2>7. status'[s] = "RUNNING" => status[s] = "RUNNING" /\ numComputed'[s] = numComputed[s]
        BY Zenon, <1>8, <1>32, <2>3 DEF IsLoading
    <2>8. numComputed'[s] \in Nat /\ numComputed'[s] <= numComputed[s] /\ numTokens'[s] \in Nat
          /\ numTokens'[s] >= numTokens[s]
        BY SMTT(120), <2>2, <2>3, <2>4
    <2>9. step' = step
        BY Zenon, <1>1
    <2>10. /\ step.toks[s] = 0 /\ s \notin step.preempted
        BY Zenon, <1>6
    <2>11. /\ numComputed[s] + step.toks[s] <= numTokens[s] + placeholders[s]
           /\ numComputed[s] + step.toks[s] < MaxModelLen
           /\ NumPromptTokens[s] <= numTokens[s]
        BY Zenon, <2>1 DEF TokensInv
    <2>12. /\ numComputed'[s] + step.toks[s] <= numTokens'[s] + placeholders'[s]
           /\ numComputed'[s] + step.toks[s] < MaxModelLen
           /\ NumPromptTokens[s] <= numTokens'[s]
        BY SMTT(60), <2>2, <2>5, <2>8, <2>10, <2>11
    <2> QED BY Zenon, <1>24, <2>1, <2>6, <2>7, <2>9, <2>10, <2>12 DEF TokensInv
<1>39. ASSUME NEW s \in Request PROVE LoadKept(s) /\ SendKept(s) /\ KnownInv(s) /\ status[s] \in Status
    BY Zenon DEF AliveInv, LoadsInv, SendsInv, SchedTypes
<1>40. ASSUME NEW s \in Request, s \in gone PROVE status'[s] = "FINISHED"
    <2>1. s \in sent => status[s] = "FINISHED"
        BY Zenon, <1>31, <1>39 DEF SendKept
    <2> QED BY Zenon, <1>12, <1>18, <1>32, <1>40, <2>1
<1>41. ASSUME NEW s \in Request PROVE KnownInv(s)'
    <2>1. s \in requests' <=> s \in requests /\ s \notin gone
        BY Zenon, <1>1
    <2>2. status'[s] = status[s] \/ status'[s] = "FINISHED"
        BY Zenon, <1>32
    <2>3. status'[s] = "NEW" => status[s] = "NEW"
        BY Zenon, <2>2
    <2> QED BY Zenon, <1>25, <1>39, <1>40, <2>1, <2>2, <2>3 DEF KnownInv
<1>42. SamplingInv'
    <2> SUFFICES ASSUME NEW i \in DOMAIN inflight', NEW s \in inflight'[i].sampling
                 PROVE  SampledInv(i, s)'
        BY Zenon DEF SamplingInv
    <2>1. i + 1 \in DOMAIN inflight /\ i + 1 # 1 /\ s \in inflight[i + 1].sampling
        BY Zenon, <1>4
    <2>2. SampledInv(i + 1, s)
        BY Zenon, <2>1 DEF AliveInv, SamplingInv
    <2>3. status[s] \in {"RUNNING", "FINISHED"}
        BY Zenon, <1>6, <2>1, <2>2 DEF SampledInv
    <2>4. s \in Request
        <3>1. inflight[i + 1] \in Batch
            BY SMTT(120), <1>3, <2>1
        <3> QED BY Zenon, <2>1, <3>1 DEF Batch
    <2> QED BY Zenon, <1>32, <2>3, <2>4 DEF SampledInv
<1>43. LoadsApart /\ SendsApart
    BY Zenon DEF AliveInv, LoadsInv, SendsInv
<1>44. ASSUME NEW s PROVE s \in Loading' <=> s \in Loading /\ s \notin received
    <2>1. s \in Loading' <=> \/ s \in recving' \/ s \in step'.recv
                             \/ \E i \in DOMAIN inflight' : s \in inflight'[i].recv
        BY Zenon DEF Loading
    <2>2. (\E i \in DOMAIN inflight' : s \in inflight'[i].recv)
            <=> \E i \in DOMAIN inflight : i # 1 /\ s \in inflight[i].recv
        BY ZenonT(60), <1>4
    <2>3. ASSUME NEW i \in DOMAIN inflight, i # 1, s \in inflight[i].recv
          PROVE  s \notin recving /\ s \notin batch.recv
        BY Zenon, <1>4, <1>43, <2>3 DEF LoadsApart
    <2>4. s \in recving' <=> (s \in recving \/ s \in batch.recv) /\ s \notin received
        BY Zenon, <1>1
    <2>5. s \in received => s \in recving \/ s \in batch.recv
        BY Zenon, <1>7
    <2>6. s \in Loading <=> \/ s \in recving \/ s \in batch.recv
                            \/ \E i \in DOMAIN inflight : i # 1 /\ s \in inflight[i].recv
        BY Zenon, <1>4, <1>6, LoadingFacts
    <2> QED BY Zenon, <1>1, <1>6, <2>1, <2>2, <2>3, <2>4, <2>5, <2>6
<1>45. ASSUME NEW s PROVE s \in Sending' <=> (s \in Sending /\ s \notin sent) \/ s \in delayed
    <2>1. s \in Sending' <=> \/ s \in sending' \/ s \in needSend'
                             \/ \E i \in DOMAIN inflight' : s \in inflight'[i].send
        BY Zenon DEF Sending
    <2>2. (\E i \in DOMAIN inflight' : s \in inflight'[i].send)
            <=> \E i \in DOMAIN inflight : i # 1 /\ s \in inflight[i].send
        BY ZenonT(60), <1>4
    <2>3. ASSUME NEW i \in DOMAIN inflight, i # 1, s \in inflight[i].send
          PROVE  s \notin sending /\ s \notin batch.send
        BY Zenon, <1>4, <1>43, <2>3 DEF SendsApart
    <2>4. s \in needSend => s \notin sending /\ s \notin batch.send
        BY Zenon, <1>4, <1>43 DEF SendsApart
    <2>5. /\ s \in sending' <=> (s \in sending \/ s \in batch.send) /\ s \notin sent
          /\ s \in needSend' <=> s \in needSend \/ s \in delayed
        BY Zenon, <1>1
    <2>6. s \in sent => s \in sending \/ s \in batch.send
        BY Zenon, <1>7
    <2>7. s \in Sending <=> \/ s \in sending \/ s \in batch.send \/ s \in needSend
                            \/ \E i \in DOMAIN inflight : i # 1 /\ s \in inflight[i].send
        BY Zenon, <1>4, SendingFacts
    <2> QED BY Zenon, <2>1, <2>2, <2>3, <2>4, <2>5, <2>6, <2>7
<1>46. ASSUME NEW s \in delayed
       PROVE  /\ s \in Request /\ s \in requests /\ s \in stopped /\ s \notin gone
              /\ s \notin Loading /\ s \notin Sending /\ reqToBlocks[s] # << >>
    BY Zenon, <1>10, <1>12, <1>16, <1>17, <1>18, <1>26, <1>30, <1>31
<1>47. LoadsInv'
    <2>1. LoadsApart'
        <3>1. recving' \cap step'.recv = {}
            BY Zenon, <1>1, <1>6
        <3>2. ASSUME NEW i \in DOMAIN inflight'
              PROVE  inflight'[i].recv \cap (recving' \cup step'.recv) = {}
            <4>1. /\ inflight[i + 1].recv \cap recving = {}
                  /\ inflight[i + 1].recv \cap inflight[1].recv = {}
                BY ZenonT(60), <1>4, <1>43 DEF LoadsApart
            <4> QED BY Zenon, <1>1, <1>4, <1>6, <4>1
        <3>3. ASSUME NEW i \in DOMAIN inflight', NEW j \in DOMAIN inflight', i # j
              PROVE  inflight'[i].recv \cap inflight'[j].recv = {}
            <4>1. /\ i + 1 \in DOMAIN inflight /\ j + 1 \in DOMAIN inflight /\ i + 1 # j + 1
                  /\ inflight'[i] = inflight[i + 1] /\ inflight'[j] = inflight[j + 1]
                BY SMTT(120), <1>4, <3>3
            <4> QED BY Zenon, <1>43, <4>1 DEF LoadsApart
        <3> QED BY Zenon, <3>1, <3>2, <3>3 DEF LoadsApart
    <2>2. ASSUME NEW s \in Request PROVE LoadKept(s)'
        <3>1. LoadKept(s)
            BY Zenon, <1>39
        <3>2. /\ s \in stopped => /\ s \notin Loading /\ ~IsLoading(s)
              /\ s \in finishedRecving' <=> s \in finishedRecving \/ (s \in received /\ s \notin over)
              /\ s \in requests' <=> s \in requests /\ s \notin gone
              /\ s \in doRemotePrefill' <=> s \in doRemotePrefill
            BY Zenon, <1>1, <1>16, <1>26 DEF IsLoading
        <3>3. s \in Loading => s \notin Sending
            BY Zenon, <1>39 DEF SendKept
        <3>4. ASSUME s \in Loading'
              PROVE  /\ s \in requests' /\ s \notin doRemotePrefill' /\ s \notin finishedRecving'
                     /\ status'[s] \in {"WAITING_FOR_REMOTE_KVS", "FINISHED"}
                     /\ Len(reqToBlocks'[s]) >= Cdiv(NumPromptTokens[s])
            <4>1. s \in Loading /\ s \notin received /\ s \notin gone
                BY Zenon, <1>12, <1>18, <1>31, <1>44, <3>2, <3>3, <3>4
            <4> QED BY Zenon, <1>25, <1>32, <3>1, <3>2, <4>1 DEF LoadKept
        <3>5. ASSUME IsLoading(s)' PROVE s \in Loading' \/ s \in finishedRecving'
            <4>1. s \notin stopped /\ s \notin failing /\ IsLoading(s)
                BY Zenon, <1>32, <3>5 DEF IsLoading
            <4>2. s \notin over
                BY Zenon, <1>12, <4>1 DEF IsLoading
            <4> QED BY Zenon, <1>44, <3>1, <3>2, <4>1, <4>2 DEF LoadKept
        <3>6. ASSUME s \in finishedRecving' PROVE IsLoading(s)'
            <4>1. IsLoading(s)
                BY Zenon, <1>13, <1>30, <3>1, <3>2, <3>6 DEF LoadKept, IsLoading
            <4>2. s \notin failing
                BY Zenon, <1>13, <1>29, <3>1, <3>2, <3>6 DEF LoadKept
            <4> QED BY Zenon, <1>32, <3>2, <4>1, <4>2 DEF IsLoading
        <3> QED BY Zenon, <3>4, <3>5, <3>6 DEF LoadKept, Cdiv
    <2> QED BY Zenon, <2>1, <2>2 DEF LoadsInv
<1>48. SendsInv'
    <2>1. SendsApart'
        <3>1. \A s \in delayed : /\ s \notin sending /\ s \notin batch.send
                                 /\ \A i \in DOMAIN inflight : s \notin inflight[i].send
            BY Zenon, <1>28, <1>46, SendingFacts
        <3>2. sending' \cap needSend' = {}
            <4>1. sending \cap needSend = {} /\ batch.send \cap needSend = {}
                BY Zenon, <1>4, <1>43 DEF SendsApart
            <4> QED BY Zenon, <1>1, <3>1, <4>1
        <3>3. ASSUME NEW i \in DOMAIN inflight'
              PROVE  inflight'[i].send \cap (sending' \cup needSend') = {}
            <4>1. /\ inflight[i + 1].send \cap (sending \cup needSend) = {}
                  /\ inflight[i + 1].send \cap inflight[1].send = {}
                  /\ inflight'[i] = inflight[i + 1] /\ i + 1 \in DOMAIN inflight
                BY Zenon, <1>4, <1>43 DEF SendsApart
            <4> QED BY ZenonT(60), <1>1, <1>4, <3>1, <4>1
        <3>4. ASSUME NEW i \in DOMAIN inflight', NEW j \in DOMAIN inflight', i # j
              PROVE  inflight'[i].send \cap inflight'[j].send = {}
            <4>1. /\ i + 1 \in DOMAIN inflight /\ j + 1 \in DOMAIN inflight /\ i + 1 # j + 1
                  /\ inflight'[i] = inflight[i + 1] /\ inflight'[j] = inflight[j + 1]
                BY <1>4, <3>4
            <4> QED BY Zenon, <1>43, <4>1 DEF SendsApart
        <3> QED BY Zenon, <3>2, <3>3, <3>4 DEF SendsApart
    <2>2. ASSUME NEW s \in Request PROVE SendKept(s)'
        <3>1. SendKept(s) /\ LoadKept(s)
            BY Zenon, <1>39
        <3>2. s \in requests' <=> s \in requests /\ s \notin gone
            BY SMTT(120), <1>1
        <3>3. ASSUME s \in Sending, s \notin sent
              PROVE  s \in requests' /\ s \notin Loading' /\ status'[s] = "FINISHED"
                     /\ reqToBlocks'[s] # << >>
            <4>1. /\ s \in requests /\ s \notin Loading /\ status[s] = "FINISHED"
                  /\ reqToBlocks[s] # << >>
                BY Zenon, <3>1, <3>3 DEF SendKept
            <4>2. s \notin gone
                BY Zenon, <1>10, <1>12, <1>16, <1>18, <1>30, <3>3, <4>1
            <4> QED BY Zenon, <1>25, <1>32, <1>44, <3>2, <4>1, <4>2
        <3>4. ASSUME s \in delayed
              PROVE  s \in requests' /\ s \notin Loading' /\ status'[s] = "FINISHED"
                     /\ reqToBlocks'[s] # << >>
            BY Zenon, <1>25, <1>32, <1>44, <1>46, <3>2, <3>4
        <3>5. ASSUME s \in requests', status'[s] = "FINISHED" PROVE s \in Loading' \/ s \in Sending'
            <4>1. s \in requests /\ s \notin gone
                BY Zenon, <3>2, <3>5
            <4>2. CASE s \in stopped
                BY Zenon, <1>18, <1>45, <4>1, <4>2
            <4>3. CASE s \in failing
                BY Zenon, <1>13, <1>18, <1>29, <1>44, <4>1, <4>3
            <4>4. CASE s \notin stopped /\ s \notin failing
                <5>1. status[s] = "FINISHED"
                    BY Zenon, <1>32, <3>5, <4>4
                <5>2. s \in Loading \/ s \in Sending
                    BY Zenon, <3>1, <4>1, <5>1 DEF SendKept
                <5> QED BY Zenon, <1>13, <1>18, <1>44, <1>45, <4>1, <5>1, <5>2
            <4> QED BY Zenon, <4>2, <4>3, <4>4
        <3> QED BY Zenon, <1>45, <3>3, <3>4, <3>5 DEF SendKept
    <2> QED BY SMTT(120), <2>1, <2>2 DEF SendsInv
<1> QED BY Zenon, <1>33, <1>34, <1>36, <1>37, <1>38, <1>41, <1>42, <1>47, <1>48 DEF AliveInv

-----------------------------------------------------------------------------
(* Every step                                                               *)

\* A step that leaves the pool alone.
LEMMA PoolUnchanged == ASSUME Laws, KVInv, UNCHANGED kvVars PROVE KVInv'
BY Zenon DEF Laws, StutterLaw

\* Nothing changes.
LEMMA StutterInv == ASSUME Laws, SchedInv, UNCHANGED vars PROVE SchedInv'
<1>1. /\ UNCHANGED <<pc, step, requests, status, numComputed, numTokens, placeholders>>
      /\ UNCHANGED <<reqToBlocks, running, waiting, skipped, inflight>>
      /\ UNCHANGED <<doRemotePrefill, needSend, recving, sending, finishedRecving>>
    BY Zenon DEF vars, kvVars, reqVars, queueVars, xferVars
<1>2. KVInv'
    BY Zenon, PoolUnchanged DEF SchedInv, vars
<1>3. Loading' = Loading /\ Sending' = Sending
    BY ZenonT(60), <1>1 DEF Loading, Sending
<1>4. ASSUME AliveInv PROVE AliveInv'
    <2>1. /\ SchedTypes' /\ StepTypes' /\ PhaseInv'
        BY Zenon, <1>1, <1>4 DEF AliveInv, SchedTypes, StepTypes, PhaseInv
    <2>2. QueueInv'
        BY Zenon, <1>1, <1>4 DEF AliveInv, QueueInv, Queued, ReqQueue, IsLoading, IsQueue
    <2>3. \A r \in Request : TokensInv(r)' /\ KnownInv(r)'
        BY ZenonT(60), <1>1, <1>4 DEF AliveInv, TokensInv, KnownInv
    <2>4. SamplingInv'
        BY Zenon, <1>1, <1>4 DEF AliveInv, SamplingInv, SampledInv
    <2>5. LoadsInv'
        BY ZenonT(60), <1>1, <1>3, <1>4 DEF AliveInv, LoadsInv, LoadsApart, LoadKept, IsLoading, Cdiv
    <2>6. SendsInv'
        BY Zenon, <1>1, <1>3, <1>4 DEF AliveInv, SendsInv, SendsApart, SendKept
    <2> QED BY Zenon, <2>1, <2>2, <2>3, <2>4, <2>5, <2>6 DEF AliveInv
<1> QED BY Zenon, <1>1, <1>2, <1>4 DEF SchedInv, Alive

\* A step of a live engine, or of one of its clients.
LEMMA LiveStepInv ==
    ASSUME Laws, SchedInv, Alive, SchedNext PROVE KVInv' /\ pc' \in PC /\ (Alive' => AliveInv')
<1> KVInv /\ AliveInv /\ pc \in PC
    BY Zenon DEF SchedInv
<1>1. CASE ScheduleStart
    BY Zenon, <1>1, ScheduleStartInv, PoolUnchanged DEF ScheduleStart, PC
<1>2. CASE AwaitOutput
    BY Zenon, <1>2, AwaitOutputInv, PoolUnchanged DEF AwaitOutput, PC
<1>3. CASE RunningSkip
    BY Zenon, <1>3, RunningSkipInv, PoolUnchanged DEF RunningSkip, InRunningLoop, PC
<1>4. CASE RunningPick
    BY Zenon, <1>4, RunningPickInv, PoolUnchanged DEF RunningPick, PC
<1>5. CASE RunningAllocate
    BY Zenon, <1>5, RunningAllocateInv
<1>6. CASE Preempt
    BY Zenon, <1>6, PreemptInv
<1>7. CASE RunningDone
    BY Zenon, <1>7, RunningDoneInv, PoolUnchanged DEF RunningDone, PC
<1>8. CASE WaitingSkip
    BY Zenon, <1>8, WaitingSkipInv, PoolUnchanged DEF WaitingSkip, InWaitingLoop, PC
<1>9. CASE Promote
    BY Zenon, <1>9, PromoteInv DEF Promote, InWaitingLoop, PC
<1>10. CASE WaitingBreak
    BY SMTT(120), <1>10, WaitingBreakInv
<1>11. CASE WaitingLoad
    BY Zenon, <1>11, WaitingLoadInv DEF WaitingLoad, CandidateReady, InWaitingLoop, PC
<1>12. CASE WaitingRun
    BY <1>12, WaitingRunInv
<1>13. CASE WaitingDone
    BY Zenon, <1>13, WaitingDoneInv, PoolUnchanged DEF WaitingDone, PC
<1>14. CASE FinishSchedule
    BY Zenon, <1>14, FinishScheduleInv, PoolUnchanged DEF FinishSchedule
<1>15. CASE Update
    <2>1. pc = "output"
        BY Zenon, <1>15 DEF Update
    <2>2. PICK received \in SUBSET (recving \cup Head(inflight).recv) : UpdateReceiving(received)
        BY Zenon, <1>15 DEF Update
    <2>3. PICK failed \in SUBSET (recving \cup Head(inflight).recv),
               eos \in SUBSET Head(inflight).sampling,
               sent \in SUBSET (sending \cup Head(inflight).send) :
                    UpdateFromOutput(eos, failed, received, sent)
        BY Zenon, <2>2 DEF UpdateReceiving
    <2> QED BY Zenon, <2>1, <2>2, <2>3, UpdateInv
<1>16. ASSUME NEW r \in Request, AddRequest(r) PROVE KVInv' /\ pc' \in PC /\ AliveInv'
    BY Zenon, <1>16, AddRequestInv, PoolUnchanged DEF AddRequest, PC
<1>17. ASSUME NEW r \in Request, Abort(r) PROVE KVInv' /\ pc' \in PC /\ AliveInv'
    BY Zenon, <1>17, AbortInv DEF Abort, PC
<1>18. CASE Stopped
    BY Zenon, <1>18, StutterInv DEF Stopped, SchedInv
<1> QED BY Zenon, <1>1, <1>2, <1>3, <1>4, <1>5, <1>6, <1>7, <1>8, <1>9, <1>10, <1>11, <1>12, <1>13,
           <1>14, <1>15, <1>16, <1>17, <1>18 DEF SchedNext, Engine

\* A dead engine stops.
LEMMA DeadStops == ASSUME SchedNext, ~Alive PROVE UNCHANGED vars
<1>1. pc \in Crash
    BY Zenon DEF Alive
<1>2. ~Engine
    BY Zenon, <1>1 DEF Crash, Engine, ScheduleStart, AwaitOutput, RunningSkip, RunningPick,
                InRunningLoop, RunningAllocate, Preempt, RunningDone, WaitingSkip, Promote,
                WaitingBreak, WaitingLoad, WaitingRun, CandidateReady, InWaitingLoop,
                WaitingDone, FinishSchedule, Update
<1>3. \A r \in Request : ~AddRequest(r) /\ ~Abort(r)
    BY Zenon, <1>1 DEF Crash, AddRequest, Abort
<1>4. Stopped
    BY Zenon, <1>2, <1>3 DEF SchedNext
<1> QED BY Zenon, <1>4 DEF Stopped

\* The invariant is inductive, given the laws.
LEMMA SchedNextInv == ASSUME Laws, SchedInv, [SchedNext]_vars PROVE SchedInv'
<1>1. CASE UNCHANGED vars
    BY Zenon, <1>1, StutterInv
<1>2. CASE SchedNext /\ Alive
    BY Zenon, <1>2, LiveStepInv DEF SchedInv
<1>3. CASE SchedNext /\ ~Alive
    BY Zenon, <1>1, <1>3, DeadStops
<1> QED BY Zenon, <1>1, <1>2, <1>3

-----------------------------------------------------------------------------
(* Long requests                                                            *)

\* Any of the requests that run can be counted.
LEMMA RunningFacts ==
    ASSUME Laws, AliveInv, NEW S \in SUBSET Range(running)
    PROVE  /\ IsQueue(running) /\ Range(running) \subseteq Request
           /\ S \in SUBSET Request /\ Cardinality(S) \in Nat
<1>1. IsQueue(running) /\ Range(running) \subseteq Request
    BY Zenon DEF AliveInv, QueueInv, ReqQueue
<1>2. S \in SUBSET Request
    BY Zenon, <1>1
<1> QED BY Zenon, <1>1, <1>2 DEF Laws, CardinalityLaw

\* No more long requests run than before.
LEMMA LongFrame ==
    ASSUME Laws, AliveInv, LongRequestsBounded,
           \A r : r \in Range(running') /\ r \in longMask' => r \in Range(running) /\ r \in longMask
    PROVE  LongRequestsBounded'
<1> DEFINE S == Range(running) \cap longMask
           T == Range(running') \cap longMask'
<1>1. S \in SUBSET Range(running) /\ T \in SUBSET S /\ T \in SUBSET Range(running)
    BY Zenon
<1>2. S \in SUBSET Request /\ Cardinality(S) \in Nat
    BY Zenon, <1>1, RunningFacts
<1>3. Cardinality(T) <= Cardinality(S)
    BY Zenon, <1>1, <1>2 DEF Laws, SubsetLaw
<1>4. Cardinality(T) \in Nat
    BY Zenon, <1>1, RunningFacts
<1>5. MaxNumLongRequests > 0 => Cardinality(S) <= MaxNumLongRequests
    BY Zenon DEF LongRequestsBounded
<1>6. MaxNumLongRequests \in Nat
    BY Zenon, SchedulerAssumption
<1> HIDE DEF S, T
<1>7. MaxNumLongRequests > 0 => Cardinality(T) <= MaxNumLongRequests
    BY SMTT(60), <1>2, <1>3, <1>4, <1>5, <1>6
<1> QED BY Zenon, <1>7 DEF LongRequestsBounded, T

\* What nelssa_check adds to the mask is the candidate, if anything.
LEMMA MaskFacts ==
    ASSUME NEW c, NEW r
    PROVE  r \in LongMaskAfter(c) <=> r \in longMask \/ (r = c /\ c \in LongMaskAfter(c))
<1>1. LongMaskAfter(c) = longMask \/ LongMaskAfter(c) = longMask \cup {c}
    BY Zenon DEF LongMaskAfter
<1> QED BY Zenon, <1>1

\* A candidate that joins running was below the limit, if it is long.
LEMMA WaitingRunLong ==
    ASSUME Laws, AliveInv, LongRequestsBounded, WaitingRun PROVE LongRequestsBounded'
<1> DEFINE c == Candidate
           S == Range(running) \cap longMask
<1>1. /\ InWaitingLoop /\ ~TooManyLongRequests(c) /\ longMask' = LongMaskAfter(c)
      /\ running' = Append(running, c)
    BY Zenon DEF WaitingRun, CandidateReady, AllocateCandidate
<1>2. c \in Nat /\ c \in Request /\ c \notin Range(running)
    BY Zenon, <1>1, CandidateFacts
<1> HIDE DEF c
<1>3. Range(running') = Range(running) \cup {c}
    <2>1. IsQueue(running)
        BY Zenon DEF AliveInv, QueueInv, ReqQueue
    <2> QED BY Zenon, <1>1, <1>2, <2>1 DEF Laws, AddLaw, Joined
<1>4. CASE c \notin LongMaskAfter(c)
    BY Zenon, <1>1, <1>3, <1>4, MaskFacts, LongFrame
<1>5. CASE c \in LongMaskAfter(c)
    <2>1. S \in SUBSET Request /\ Cardinality(S) \in Nat
        BY Zenon, RunningFacts
    <2>2. Range(running') \cap longMask' = S \cup {c}
        <3>1. \A r : r \in longMask' <=> r \in longMask \/ r = c
            BY Zenon, <1>1, <1>5, MaskFacts
        <3> QED BY Zenon, <1>2, <1>3, <3>1
    <2>3. Cardinality(S \cup {c}) \in Nat
        <3>1. S \cup {c} \in SUBSET Request
            BY Zenon, <1>2, <2>1
        <3> QED BY Zenon, <3>1 DEF Laws, CardinalityLaw
    <2>4. Cardinality(S \cup {c}) <= Cardinality(S) + 1
        BY Zenon, <1>2, <2>1 DEF Laws, CardinalityLaw
    <2>5. MaxNumLongRequests > 0 => ~(Cardinality(S) >= MaxNumLongRequests)
        BY Zenon, <1>1, <1>5 DEF TooManyLongRequests
    <2>6. MaxNumLongRequests \in Nat
        BY Zenon, SchedulerAssumption
    <2> HIDE DEF S
    <2>7. MaxNumLongRequests > 0 => Cardinality(S \cup {c}) <= MaxNumLongRequests
        BY SMTT(60), <2>1, <2>3, <2>4, <2>5, <2>6
    <2> QED BY Zenon, <2>2, <2>7 DEF LongRequestsBounded
<1> QED BY Zenon, <1>4, <1>5

\* What the output of a batch brings.
LEMMA UpdateFacts ==
    ASSUME Update
    PROVE  /\ pc = "output"
           /\ \E eos, failed, received, sent :
                /\ failed \subseteq recving \cup Head(inflight).recv
                /\ received \subseteq recving \cup Head(inflight).recv
                /\ sent \subseteq sending \cup Head(inflight).send
                /\ UpdateFromOutput(eos, failed, received, sent)
<1>1. pc = "output"
    BY Zenon DEF Update
<1>2. PICK received \in SUBSET (recving \cup Head(inflight).recv) : UpdateReceiving(received)
    BY Zenon DEF Update
<1>3. PICK failed \in SUBSET (recving \cup Head(inflight).recv),
           eos \in SUBSET Head(inflight).sampling,
           sent \in SUBSET (sending \cup Head(inflight).send) :
                UpdateFromOutput(eos, failed, received, sent)
    BY Zenon, <1>2 DEF UpdateReceiving
<1> QED BY Zenon, <1>1, <1>2, <1>3

LEMMA LongStep ==
    ASSUME Laws, AliveInv, LongRequestsBounded, SchedNext PROVE LongRequestsBounded'
<1>1. CASE UNCHANGED <<running, longMask>>
    BY Zenon, <1>1, LongFrame
<1>2. ASSUME NEW gone, running' = RemoveAll(running, gone), UNCHANGED longMask
      PROVE  LongRequestsBounded'
    <2>1. Range(running') = Range(running) \ gone
        <3>1. IsQueue(running)
            BY Zenon DEF AliveInv, QueueInv, ReqQueue
        <3> QED BY Zenon, <1>2, <3>1 DEF Laws, RemoveLaw, Left
    <2> QED BY Zenon, <1>2, <2>1, LongFrame
<1>3. ASSUME InWaitingLoop, UNCHANGED running,
             longMask' = longMask \/ longMask' = LongMaskAfter(Candidate)
      PROVE  LongRequestsBounded'
    <2>1. Candidate \notin Range(running)
        BY Zenon, <1>3, CandidateFacts
    <2> QED BY Zenon, <1>3, <2>1, MaskFacts, LongFrame
<1>4. ASSUME ScheduleStart \/ AwaitOutput \/ RunningSkip \/ RunningPick \/ RunningAllocate
             \/ RunningDone \/ Promote \/ WaitingDone \/ FinishSchedule \/ Stopped
      PROVE  LongRequestsBounded'
    BY Zenon, <1>1, <1>4 DEF ScheduleStart, AwaitOutput, RunningSkip, RunningPick,
        RunningAllocate, RunningDone, Promote, WaitingDone, FinishSchedule, Stopped, vars,
        reqVars, queueVars
<1>5. CASE Preempt
    BY Zenon, <1>2, <1>5 DEF Preempt
<1>6. CASE Update
    <2>1. PICK eos, failed, received, sent : UpdateFromOutput(eos, failed, received, sent)
        BY Zenon, <1>6, UpdateFacts
    <2> DEFINE failing == FailedRequests(failed)
               sampled == LiveRequests(Head(inflight), failing) \cap Head(inflight).sampling
               capped == {r \in sampled \ eos : LengthCapped(r, TokensAfter(sampled)[r])}
               stopped == capped \cup (sampled \cap eos)
               gone == {r \in stopped : status[r] = "RUNNING"}
    <2>2. running' = RemoveAll(running, gone) /\ UNCHANGED longMask
        BY Zenon, <2>1 DEF UpdateFromOutput
    <2> HIDE DEF gone
    <2> QED BY Zenon, <1>2, <2>2
<1>7. CASE WaitingSkip
    BY Zenon, <1>3, <1>7 DEF WaitingSkip
<1>8. CASE WaitingBreak
    BY Zenon, <1>3, <1>8 DEF WaitingBreak, CandidateReady, AllocateCandidate, queueVars
<1>9. CASE WaitingLoad
    BY Zenon, <1>3, <1>9 DEF WaitingLoad, CandidateReady, AllocateCandidate
<1>10. CASE WaitingRun
    BY Zenon, <1>10, WaitingRunLong
<1>11. ASSUME NEW r \in Request, AddRequest(r) \/ Abort(r) PROVE LongRequestsBounded'
    BY Zenon, <1>1, <1>2, <1>11 DEF AddRequest, Abort
<1> QED BY Zenon, <1>4, <1>5, <1>6, <1>7, <1>8, <1>9, <1>10, <1>11 DEF SchedNext, Engine

-----------------------------------------------------------------------------
(* Outputs that are due                                                     *)

LEMMA SamplesAppend ==
    ASSUME Laws, inflight \in Seq(Batch), NEW b \in Batch, inflight' = Append(inflight, b), NEW r
    PROVE  /\ r \in b.sampling => Cardinality(SamplesOf(r)') = Cardinality(SamplesOf(r)) + 1
           /\ r \notin b.sampling => SamplesOf(r)' = SamplesOf(r)
BY Zenon DEF Laws, SamplesLaw

LEMMA SamplesTail ==
    ASSUME Laws, inflight \in Seq(Batch), inflight # << >>, inflight' = Tail(inflight), NEW r
    PROVE  /\ r \in inflight[1].sampling =>
                /\ Cardinality(SamplesOf(r)') = Cardinality(SamplesOf(r)) - 1
                /\ Cardinality(SamplesOf(r)) \in Nat \ {0}
           /\ r \notin inflight[1].sampling =>
                Cardinality(SamplesOf(r)') = Cardinality(SamplesOf(r))
BY Zenon DEF Laws, SamplesLaw

\* Nobody comes back from FINISHED, and no output becomes due or comes.
LEMMA OutputFrame ==
    ASSUME OutputInv, UNCHANGED <<inflight, placeholders, numTokens>>,
           \A r \in Request : status[r] = "FINISHED" => status'[r] = "FINISHED",
           \A r \in Request : status'[r] \in {"NEW", "WAITING", "PREEMPTED"} =>
                \/ numComputed'[r] + step'.toks[r] < numTokens[r] + placeholders[r]
                \/ /\ status[r] \in {"NEW", "WAITING", "PREEMPTED"}
                   /\ numComputed'[r] = numComputed[r] /\ step'.toks[r] = step.toks[r],
           \A r \in Request : r \in failedRecving' =>
                /\ r \in failedRecving /\ numComputed'[r] = numComputed[r]
                /\ status'[r] = status[r] /\ step'.toks[r] = step.toks[r]
    PROVE  OutputInv'
<1>1. SampledAreScheduled'
    BY Zenon DEF OutputInv, SampledAreScheduled
<1>2. ASSUME NEW r \in Request PROVE OutputsMatch(r)'
    <2>1. SamplesOf(r)' = SamplesOf(r)
        BY Zenon DEF SamplesOf
    <2> QED BY Zenon, <2>1 DEF OutputInv, OutputsMatch
<1>3. ASSUME NEW r \in Request PROVE TokensLeft(r)'
    BY Zenon DEF OutputInv, TokensLeft
<1>4. ASSUME NEW r \in Request PROVE FailedLoad(r)'
    BY Zenon DEF OutputInv, FailedLoad, IsLoading
<1> QED BY Zenon, <1>1, <1>2, <1>3, <1>4 DEF OutputInv

\* A step that leaves status, computed and scheduled tokens alone.
LEMMA QuietOutput ==
    ASSUME Laws, AliveInv, OutputInv,
           ScheduleStart \/ AwaitOutput \/ RunningSkip \/ RunningPick \/ RunningDone
             \/ WaitingSkip \/ WaitingBreak \/ WaitingDone \/ Stopped
    PROVE  OutputInv'
<1>1. UNCHANGED <<inflight, placeholders, numTokens, numComputed, status, failedRecving>>
    BY Zenon DEF ScheduleStart, AwaitOutput, RunningSkip, RunningPick, RunningDone, WaitingSkip,
        WaitingBreak, WaitingDone, Stopped, vars, reqVars, xferVars
<1>2. \/ step' = step \/ \E x : step' = [step EXCEPT !.index = x]
      \/ \E x, y : step' = [step EXCEPT !.req = x, !.new = y]
      \/ \E x : step' = [step EXCEPT !.skipped = x]
    BY Zenon DEF ScheduleStart, AwaitOutput, RunningSkip, RunningPick, RunningDone, WaitingSkip,
        WaitingBreak, WaitingDone, Stopped, vars
<1>3. step \in Locals
    BY Zenon, LocalsFacts
<1>4. step'.toks = step.toks
    <2>1. CASE step' = step
        BY Zenon, <2>1
    <2>2. ASSUME NEW x, step' = [step EXCEPT !.index = x] PROVE step'.toks = step.toks
        BY Zenon, <1>3, <2>2 DEF Locals
    <2>3. ASSUME NEW x, NEW y, step' = [step EXCEPT !.req = x, !.new = y]
          PROVE  step'.toks = step.toks
        BY Zenon, <1>3, <2>3 DEF Locals
    <2>4. ASSUME NEW x, step' = [step EXCEPT !.skipped = x] PROVE step'.toks = step.toks
        BY Zenon, <1>3, <2>4 DEF Locals
    <2> QED BY Zenon, <1>2, <2>1, <2>2, <2>3, <2>4
<1> QED BY Zenon, <1>1, <1>4, OutputFrame DEF OutputInv, TokensLeft

LEMMA RunningAllocateOutput ==
    ASSUME Laws, AliveInv, OutputInv, RunningAllocate PROVE OutputInv'
<1> DEFINE r == step.req
<1>1. /\ pc = "allocate"
      /\ UNCHANGED <<inflight, placeholders, numTokens, numComputed, status, failedRecving>>
      /\ \/ step' = [step EXCEPT !.index = @ + 1, !.budget = @ - step.new, !.toks[r] = step.new,
                                 !.runningReqs = @ \cup {r}]
         \/ step' = step
    BY Zenon DEF RunningAllocate, reqVars, xferVars
<1>2. step \in Locals
    BY Zenon, LocalsFacts
<1>3. r \in Request /\ status[r] = "RUNNING"
    <2>1. r \in Range(running) /\ Range(running) \subseteq Request
        BY Zenon, <1>1 DEF AliveInv, PhaseInv, QueueInv, ReqQueue
    <2> QED BY Zenon, <2>1, QueuedFacts
<1>4. \A s \in Request : s # r => step'.toks[s] = step.toks[s]
    <2>1. ASSUME step' = [step EXCEPT !.index = @ + 1, !.budget = @ - step.new, !.toks[r] = step.new,
                                      !.runningReqs = @ \cup {r}]
          PROVE  step'.toks = [step.toks EXCEPT ![r] = step.new]
        BY Zenon, <1>2, <2>1 DEF Locals
    <2>2. step'.toks = [step.toks EXCEPT ![r] = step.new] \/ step'.toks = step.toks
        BY Zenon, <1>1, <2>1
    <2>3. step.toks \in [Request -> Nat]
        BY Zenon, <1>2 DEF Locals
    <2> QED BY Zenon, <1>3, <2>2, <2>3
<1>5. r \notin failedRecving
    BY Zenon, <1>3 DEF OutputInv, FailedLoad, IsLoading
<1> HIDE DEF r
<1> QED BY Zenon, <1>1, <1>3, <1>4, <1>5, OutputFrame

\* A victim starts over.
LEMMA PreemptOutput ==
    ASSUME Laws, AliveInv, AliveInv', OutputInv, Preempt PROVE OutputInv'
<1> DEFINE v == PreemptionVictim
<1>1. /\ pc = "preempt" /\ status' = [status EXCEPT ![v] = "PREEMPTED"]
      /\ numComputed' = [numComputed EXCEPT ![v] = 0] /\ step' = StepWithout(v)
      /\ UNCHANGED <<inflight, placeholders, numTokens, failedRecving>>
    BY Zenon DEF Preempt, xferVars
<1>2. v \in Request /\ status[v] = "RUNNING"
    <2>1. step.req \in Range(running) /\ Range(running) \subseteq Request
        BY Zenon, <1>1 DEF AliveInv, PhaseInv, QueueInv, ReqQueue
    <2>2. running # << >>
        BY Zenon, <2>1 DEF Laws, EmptyLaw
    <2>3. v \in Range(running)
        BY Zenon, <2>2, VictimFacts
    <2> QED BY Zenon, <2>1, <2>3, QueuedFacts
<1> HIDE DEF v
<1>3. /\ step'.preempted = step.preempted \cup {v}
      /\ \A s \in Request : s # v => step'.toks[s] = step.toks[s]
    BY Zenon, <1>1, <1>2, StepWithoutFacts
<1>4. status \in [Request -> Status] /\ numComputed \in [Request -> Nat]
    BY Zenon DEF AliveInv, SchedTypes
<1>5. /\ status'[v] = "PREEMPTED" /\ numComputed'[v] = 0
      /\ \A s \in Request : s # v => status'[s] = status[s] /\ numComputed'[s] = numComputed[s]
    BY Zenon, <1>1, <1>2, <1>4
<1>6. numComputed'[v] + step'.toks[v] < numTokens[v] + placeholders[v]
    <2>1. \A s \in Request : s \in step'.preempted =>
                numComputed'[s] = 0 /\ step'.toks[s] < numTokens'[s] + placeholders'[s]
        BY Zenon DEF AliveInv, TokensInv
    <2>2. numComputed'[v] = 0 /\ step'.toks[v] < numTokens'[v] + placeholders'[v]
        BY Zenon, <1>2, <1>3, <2>1
    <2>3. step'.toks[v] \in Nat
        <3>1. step' \in Locals
            BY Zenon DEF AliveInv, StepTypes
        <3> QED BY Zenon, <1>2, <3>1 DEF Locals
    <2> QED BY SMTT(60), <1>1, <2>2, <2>3
<1>7. v \notin failedRecving
    BY Zenon, <1>2 DEF OutputInv, FailedLoad, IsLoading
<1> QED BY Zenon, <1>1, <1>2, <1>3, <1>5, <1>6, <1>7, OutputFrame

\* While requests are admitted, no output is due to one that waits.
LEMMA NothingDue ==
    ASSUME Laws, AliveInv, OutputInv, InWaitingLoop
    PROVE  /\ placeholders[Candidate] = 0
           /\ numComputed[Candidate] \in Nat /\ numTokens[Candidate] \in Nat
           /\ NumPromptTokens[Candidate] \in Nat /\ NumPromptTokens[Candidate] > 0
           /\ NumPromptTokens[Candidate] <= numTokens[Candidate]
           /\ numComputed[Candidate] <= numTokens[Candidate]
<1> DEFINE c == Candidate
<1>1. /\ c \in Request /\ pc = "waiting" /\ step.toks[c] = 0
      /\ status[c] \in {"WAITING", "PREEMPTED", "WAITING_FOR_REMOTE_KVS"}
    BY Zenon, CandidateFacts
<1> HIDE DEF c
<1>2. SamplesOf(c) = {}
    BY Zenon, <1>1, SampledRuns DEF SamplesOf
<1>3. placeholders[c] = 0
    BY Zenon, <1>1, <1>2 DEF OutputInv, OutputsMatch, Laws, CardinalityLaw
<1>4. /\ numComputed[c] \in Nat /\ numTokens[c] \in Nat
      /\ NumPromptTokens[c] \in Nat /\ NumPromptTokens[c] > 0
    BY Zenon, <1>1, NumberTypes, RequestFacts
<1>5. /\ numComputed[c] + step.toks[c] <= numTokens[c] + placeholders[c]
      /\ NumPromptTokens[c] <= numTokens[c]
    BY Zenon, <1>1 DEF AliveInv, TokensInv
<1>6. numComputed[c] <= numTokens[c]
    BY SMTT(60), <1>1, <1>3, <1>4, <1>5
<1> QED BY Zenon, <1>3, <1>4, <1>5, <1>6 DEF c

\* A load that is over leaves its request a token to compute: the last of the
\* prompt, or all.
LEMMA PromoteOutput ==
    ASSUME Laws, AliveInv, OutputInv, Promote PROVE OutputInv'
<1> DEFINE c == Candidate
<1>1. /\ InWaitingLoop /\ IsLoading(c)
      /\ numComputed' = IF c \notin failedRecving /\ numComputed[c] = numTokens[c]
                        THEN [numComputed EXCEPT ![c] = numTokens[c] - 1] ELSE numComputed
      /\ \E s : status' = [status EXCEPT ![c] = s]
      /\ failedRecving' = failedRecving \ {c}
      /\ UNCHANGED <<step, inflight, placeholders, numTokens>>
    BY Zenon DEF Promote
<1>2. c \in Request /\ step.toks[c] = 0
    BY Zenon, <1>1, CandidateFacts
<1>3. /\ placeholders[c] = 0 /\ numComputed[c] \in Nat /\ numTokens[c] \in Nat
      /\ NumPromptTokens[c] \in Nat /\ NumPromptTokens[c] > 0
      /\ NumPromptTokens[c] <= numTokens[c] /\ numComputed[c] <= numTokens[c]
    BY Zenon, <1>1, NothingDue
<1>4. c \in failedRecving => numComputed[c] = 0
    BY Zenon, <1>2 DEF OutputInv, FailedLoad
<1>5. status \in [Request -> Status] /\ numComputed \in [Request -> Nat]
    BY Zenon DEF AliveInv, SchedTypes
<1>6. status[c] = "WAITING_FOR_REMOTE_KVS"
    BY Zenon, <1>1 DEF IsLoading
<1> HIDE DEF c
<1>7. \A r \in Request : r # c => status'[r] = status[r] /\ numComputed'[r] = numComputed[r]
    BY Zenon, <1>1, <1>5
<1>8. numComputed'[c] < numTokens[c]
    <2>1. CASE c \notin failedRecving /\ numComputed[c] = numTokens[c]
        <3>1. numComputed'[c] = numTokens[c] - 1
            BY Zenon, <1>1, <1>2, <1>5, <2>1
        <3> QED BY SMTT(60), <1>3, <3>1
    <2>2. CASE ~(c \notin failedRecving /\ numComputed[c] = numTokens[c])
        <3>1. numComputed'[c] = numComputed[c]
            BY Zenon, <1>1, <2>2
        <3>2. numComputed[c] = 0 \/ numComputed[c] # numTokens[c]
            BY Zenon, <1>4, <2>2
        <3> QED BY SMTT(60), <1>3, <3>1, <3>2
    <2> QED BY Zenon, <2>1, <2>2
<1>9. numComputed'[c] + step'.toks[c] < numTokens[c] + placeholders[c]
    <2>1. numComputed'[c] \in Int
        BY SMTT(60), <1>1, <1>2, <1>3, <1>5
    <2> QED BY SMTT(60), <1>1, <1>2, <1>3, <1>8, <2>1
<1>10. \A r \in Request : status[r] = "FINISHED" => status'[r] = "FINISHED"
    BY Zenon, <1>6, <1>7
<1>11. \A r \in Request : r \in failedRecving' => r \in failedRecving /\ r # c
    BY Zenon, <1>1
<1>12. \A r \in Request : status'[r] \in {"NEW", "WAITING", "PREEMPTED"} =>
            \/ numComputed'[r] + step'.toks[r] < numTokens[r] + placeholders[r]
            \/ /\ status[r] \in {"NEW", "WAITING", "PREEMPTED"}
               /\ numComputed'[r] = numComputed[r] /\ step'.toks[r] = step.toks[r]
    BY Zenon, <1>1, <1>7, <1>9
<1> QED BY Zenon, <1>1, <1>7, <1>10, <1>11, <1>12, OutputFrame

LEMMA WaitingLoadOutput ==
    ASSUME Laws, AliveInv, OutputInv, WaitingLoad PROVE OutputInv'
<1> DEFINE c == Candidate
<1>1. /\ InWaitingLoop /\ ~IsLoading(c)
      /\ status' = [status EXCEPT ![c] = "WAITING_FOR_REMOTE_KVS"]
      /\ numComputed' = [numComputed EXCEPT ![c] = NumExternalTokens(c)]
      /\ step' = [step EXCEPT !.skipped = PrependTo(@, c), !.recv = @ \cup {c}]
      /\ UNCHANGED <<inflight, placeholders, numTokens, failedRecving>>
    BY Zenon DEF WaitingLoad, CandidateReady
<1>2. c \in Request /\ status[c] \in {"WAITING", "PREEMPTED", "WAITING_FOR_REMOTE_KVS"}
    BY Zenon, <1>1, CandidateFacts
<1>3. step \in Locals
    BY Zenon, LocalsFacts
<1>4. step'.toks = step.toks
    BY Zenon, <1>1, <1>3 DEF Locals
<1>5. status \in [Request -> Status] /\ numComputed \in [Request -> Nat]
    BY Zenon DEF AliveInv, SchedTypes
<1>6. c \notin failedRecving
    BY Zenon, <1>1, <1>2 DEF OutputInv, FailedLoad
<1> HIDE DEF c
<1>7. /\ status'[c] = "WAITING_FOR_REMOTE_KVS"
      /\ \A r \in Request : r # c => status'[r] = status[r] /\ numComputed'[r] = numComputed[r]
    BY Zenon, <1>1, <1>2, <1>5
<1>8. \A r \in Request : status[r] = "FINISHED" => status'[r] = "FINISHED"
    BY Zenon, <1>2, <1>7
<1> QED BY Zenon, <1>1, <1>4, <1>6, <1>7, <1>8, OutputFrame

LEMMA WaitingRunOutput ==
    ASSUME Laws, AliveInv, OutputInv, WaitingRun PROVE OutputInv'
<1> DEFINE c == Candidate
           new == NumWaitingTokens(c)
<1>1. /\ InWaitingLoop /\ ~IsLoading(c)
      /\ status' = [status EXCEPT ![c] = "RUNNING"]
      /\ step' = [step EXCEPT !.newReqs = @ \cup {c}, !.toks[c] = new, !.budget = @ - new]
      /\ UNCHANGED <<inflight, placeholders, numTokens, numComputed, failedRecving>>
    BY Zenon DEF WaitingRun, CandidateReady, xferVars
<1>2. c \in Request /\ status[c] \in {"WAITING", "PREEMPTED", "WAITING_FOR_REMOTE_KVS"}
    BY Zenon, <1>1, CandidateFacts
<1>3. step \in Locals /\ step.toks \in [Request -> Nat]
    BY Zenon, LocalsFacts DEF Locals
<1>4. step'.toks = [step.toks EXCEPT ![c] = new]
    BY Zenon, <1>1, <1>3 DEF Locals
<1>5. status \in [Request -> Status]
    BY Zenon DEF AliveInv, SchedTypes
<1>6. c \notin failedRecving
    BY Zenon, <1>1, <1>2 DEF OutputInv, FailedLoad
<1> HIDE DEF c, new
<1>7. /\ status'[c] = "RUNNING"
      /\ \A r \in Request : r # c => status'[r] = status[r] /\ step'.toks[r] = step.toks[r]
    BY Zenon, <1>1, <1>2, <1>3, <1>4, <1>5
<1>8. \A r \in Request : status[r] = "FINISHED" => status'[r] = "FINISHED"
    BY Zenon, <1>2, <1>7
<1> QED BY Zenon, <1>1, <1>6, <1>7, <1>8, OutputFrame

LEMMA ClientOutput ==
    ASSUME Laws, AliveInv, OutputInv, NEW q \in Request, AddRequest(q) \/ Abort(q) PROVE OutputInv'
<1>1. status \in [Request -> Status]
    BY Zenon DEF AliveInv, SchedTypes
<1>2. CASE AddRequest(q)
    <2>1. /\ status[q] = "NEW" /\ status' = [status EXCEPT ![q] = "WAITING"]
          /\ UNCHANGED <<step, inflight, placeholders, numTokens, numComputed, failedRecving>>
        BY Zenon, <1>2 DEF AddRequest, xferVars
    <2>2. \A r \in Request : r # q => status'[r] = status[r]
        BY Zenon, <1>1, <2>1
    <2>3. q \notin failedRecving
        BY Zenon, <2>1 DEF OutputInv, FailedLoad, IsLoading
    <2>4. \A r \in Request : status[r] = "FINISHED" => status'[r] = "FINISHED"
        BY Zenon, <2>1, <2>2
    <2> QED BY Zenon, <2>1, <2>2, <2>3, <2>4, OutputFrame
<1>3. CASE Abort(q)
    <2>1. /\ status' = [status EXCEPT ![q] = "FINISHED"] /\ failedRecving' = failedRecving \ {q}
          /\ UNCHANGED <<step, inflight, placeholders, numTokens, numComputed>>
        BY Zenon, <1>3 DEF Abort
    <2>2. status'[q] = "FINISHED" /\ \A r \in Request : r # q => status'[r] = status[r]
        BY Zenon, <1>1, <2>1
    <2>3. \A r \in Request : r \in failedRecving' => r \in failedRecving /\ r # q
        BY Zenon, <2>1
    <2>4. \A r \in Request : status[r] = "FINISHED" => status'[r] = "FINISHED"
        BY Zenon, <2>1, <2>2
    <2> QED BY Zenon, <2>1, <2>2, <2>3, <2>4, OutputFrame
<1> QED BY Zenon, <1>2, <1>3

\* With async scheduling a batch leaves one more output due to each request it
\* samples for.
LEMMA FinishScheduleOutput ==
    ASSUME Laws, AliveInv, OutputInv, FinishSchedule PROVE OutputInv'
<1> DEFINE computed == [r \in Request |-> numComputed[r] + step.toks[r]]
           sampling == Sampling(computed)
           batch == [scheduled |-> Scheduled, sampling |-> sampling,
                     complete |-> PrefillComplete(computed), recv |-> step.recv, send |-> needSend]
<1>1. /\ numComputed' = computed /\ placeholders' = PlaceholdersAfter(sampling)
      /\ inflight' = Append(inflight, batch) /\ step' = NewStep
      /\ UNCHANGED <<status, numTokens, failedRecving>>
    BY Zenon DEF FinishSchedule
<1>2. /\ step \in Locals /\ inflight \in Seq(Batch) /\ needSend \in SUBSET Request
    BY Zenon, LocalsFacts DEF AliveInv, SchedTypes
<1>3. batch \in Batch
    <2>1. /\ Scheduled \in SUBSET Request /\ sampling \in SUBSET Request
          /\ PrefillComplete(computed) \in SUBSET Request /\ step.recv \in SUBSET Request
        BY Zenon, <1>2 DEF Scheduled, Sampling, PrefillComplete, Locals
    <2> HIDE DEF sampling, computed
    <2> QED BY Zenon, <1>2, <2>1 DEF Batch
<1>4. /\ batch.sampling = sampling /\ batch.scheduled = Scheduled /\ sampling \subseteq Scheduled
    BY Zenon DEF Sampling
<1> HIDE DEF batch
<1>5. SampledAreScheduled'
    <2>1. /\ DOMAIN inflight' = DOMAIN inflight \cup {Len(inflight) + 1}
          /\ \A i \in DOMAIN inflight : inflight'[i] = inflight[i]
          /\ inflight'[Len(inflight) + 1] = batch
        BY Zenon, <1>1, <1>2, <1>3, AppendBatch
    <2>2. batch.sampling \subseteq batch.scheduled
        BY Zenon, <1>4
    <2> QED BY Zenon, <2>1, <2>2 DEF OutputInv, SampledAreScheduled
<1> HIDE DEF sampling
<1>6. ASSUME NEW r \in Request PROVE OutputsMatch(r)'
    <2>1. /\ r \in sampling => Cardinality(SamplesOf(r)') = Cardinality(SamplesOf(r)) + 1
          /\ r \notin sampling => SamplesOf(r)' = SamplesOf(r)
        BY Zenon, <1>1, <1>2, <1>3, <1>4, SamplesAppend
    <2>2. placeholders'[r] = IF AsyncScheduling /\ r \in sampling
                             THEN placeholders[r] + 1 ELSE placeholders[r]
        BY Zenon, <1>1 DEF PlaceholdersAfter
    <2>3. OutputsMatch(r)
        BY Zenon DEF OutputInv
    <2> QED BY Zenon, <1>1, <2>1, <2>2, <2>3 DEF OutputsMatch
<1>7. ASSUME NEW r \in Request PROVE TokensLeft(r)'
    <2>1. /\ numComputed'[r] = numComputed[r] + step.toks[r] /\ step'.toks[r] = 0
        BY Zenon, <1>1, NewStepFacts
    <2>2. /\ numComputed[r] \in Nat /\ numTokens[r] \in Nat /\ placeholders[r] \in Nat
          /\ step.toks[r] \in Nat
        BY Zenon, NumberTypes
    <2>3. placeholders'[r] = placeholders[r] + 1 \/ placeholders'[r] = placeholders[r]
        BY Zenon, <1>1 DEF PlaceholdersAfter
    <2>4. numComputed[r] + step.toks[r] < numTokens[r] + placeholders[r] =>
            numComputed'[r] + step'.toks[r] < numTokens[r] + placeholders'[r]
        BY SMTT(60), <2>1, <2>2, <2>3
    <2>5. TokensLeft(r)
        BY Zenon DEF OutputInv
    <2> QED BY Zenon, <1>1, <2>4, <2>5 DEF TokensLeft
<1>8. ASSUME NEW r \in Request PROVE FailedLoad(r)'
    <2>1. FailedLoad(r)
        BY Zenon DEF OutputInv
    <2>2. numComputed'[r] = numComputed[r] + step.toks[r] /\ step'.toks[r] = 0
        BY Zenon, <1>1, NewStepFacts
    <2>3. numComputed[r] = 0 /\ step.toks[r] = 0 => numComputed'[r] = 0
        BY SMTT(60), <2>2
    <2> QED BY Zenon, <1>1, <2>1, <2>2, <2>3 DEF FailedLoad, IsLoading
<1> QED BY Zenon, <1>5, <1>6, <1>7, <1>8 DEF OutputInv

\* The output of a batch is due to everyone it samples for who is not over, so
\* no placeholder count falls below zero; and what the connector reports is
\* known to the scheduler.
LEMMA UpdateOutput ==
    ASSUME Laws, AliveInv, OutputInv, NEW eos, NEW failed, NEW received, NEW sent, pc = "output",
           failed \subseteq recving \cup Head(inflight).recv,
           received \subseteq recving \cup Head(inflight).recv,
           sent \subseteq sending \cup Head(inflight).send,
           UpdateFromOutput(eos, failed, received, sent)
    PROVE  pc' = "input" /\ OutputInv'
<1> DEFINE batch == Head(inflight)
           invalid == InvalidLoads(failed)
           failing == FailedRequests(failed)
           live == LiveRequests(batch, failing)
           sampled == live \cap batch.sampling
           capped == {r \in sampled \ eos : LengthCapped(r, TokensAfter(sampled)[r])}
           stopped == capped \cup (sampled \cap eos)
<1>1. /\ inflight' = Tail(inflight)
      /\ status' = [r \in Request |-> IF r \in stopped \cup failing THEN "FINISHED" ELSE status[r]]
      /\ numTokens' = TokensAfter(sampled)
      /\ numComputed' = [r \in Request |-> IF r \in invalid THEN 0 ELSE numComputed[r]]
      /\ placeholders' = PlaceholdersLeft(sampled)
      /\ failedRecving' = IF RecomputeKVLoadFailures THEN failedRecving \cup invalid ELSE failedRecving
      /\ step' = step
      /\ pc' = IF \/ ~(received \cup sent \subseteq requests)
                  \/ \E r \in sampled : placeholders'[r] < 0
               THEN "AssertionError" ELSE "input"
    BY Zenon DEF UpdateFromOutput
<1>2. /\ inflight \in Seq(Batch) /\ inflight # << >> /\ step = NewStep
      /\ recving \subseteq Request /\ sending \subseteq Request
    BY Zenon DEF AliveInv, SchedTypes, PhaseInv
<1>3. /\ 1 \in DOMAIN inflight /\ batch = inflight[1] /\ batch \in Batch
      /\ \A i \in DOMAIN inflight' : i + 1 \in DOMAIN inflight /\ inflight'[i] = inflight[i + 1]
    BY Zenon, <1>1, <1>2, TailBatch
<1>4. /\ received \subseteq recving \cup batch.recv /\ sent \subseteq sending \cup batch.send
    BY Zenon
<1> HIDE DEF batch
<1>5. /\ batch.scheduled \subseteq Request /\ batch.recv \subseteq Request
      /\ batch.send \subseteq Request
    BY Zenon, <1>3 DEF Batch
<1>6. received \cup sent \subseteq requests
    <2>1. ASSUME NEW r \in received PROVE r \in requests
        <3>1. r \in Request /\ r \in Loading
            BY Zenon, <1>2, <1>3, <1>4, <1>5, LoadingFacts
        <3> QED BY Zenon, <3>1 DEF AliveInv, LoadsInv, LoadKept
    <2>2. ASSUME NEW r \in sent PROVE r \in requests
        <3>1. r \in Request /\ r \in Sending
            BY Zenon, <1>2, <1>3, <1>4, <1>5, SendingFacts
        <3> QED BY Zenon, <3>1 DEF AliveInv, SendsInv, SendKept
    <2> QED BY Zenon, <2>1, <2>2
<1>7. \A r : r \in sampled <=> /\ r \in batch.sampling /\ r \in batch.scheduled /\ r \in requests
                               /\ status[r] # "FINISHED" /\ r \notin failing
    BY Zenon DEF LiveRequests
<1>8. \A r \in stopped : r \in sampled
    BY Zenon
<1>9. \A r \in invalid : IsLoading(r)
    BY Zenon DEF InvalidLoads
<1>10. /\ \A r \in failing : r \in invalid
       /\ RecomputeKVLoadFailures => failing = {}
    BY Zenon DEF FailedRequests
<1> HIDE DEF invalid, failing, live, sampled, capped, stopped
<1>11. ASSUME NEW r \in Request, r \in batch.sampling, status[r] # "FINISHED"
       PROVE  /\ status[r] \in {"RUNNING", "WAITING", "PREEMPTED"} /\ ~IsLoading(r)
              /\ r \in sampled
    <2>1. status[r] \in {"RUNNING", "WAITING", "PREEMPTED"}
        BY Zenon, <1>3, <1>11, SampledFacts
    <2>2. ~IsLoading(r)
        BY Zenon, <2>1 DEF IsLoading
    <2>3. r \in requests
        BY Zenon, <2>1 DEF AliveInv, KnownInv
    <2>4. r \in batch.scheduled
        BY Zenon, <1>3, <1>11 DEF OutputInv, SampledAreScheduled
    <2>5. r \notin failing
        BY Zenon, <1>9, <1>10, <2>2
    <2> QED BY Zenon, <1>7, <1>11, <2>1, <2>2, <2>3, <2>4, <2>5
<1>12. ASSUME NEW r \in Request
       PROVE  /\ placeholders'[r] = IF AsyncScheduling /\ r \in sampled
                                    THEN placeholders[r] - 1 ELSE placeholders[r]
              /\ numTokens'[r] = IF r \in sampled THEN numTokens[r] + 1 ELSE numTokens[r]
              /\ numComputed'[r] = IF r \in invalid THEN 0 ELSE numComputed[r]
              /\ status'[r] = IF r \in stopped \cup failing THEN "FINISHED" ELSE status[r]
              /\ step'.toks[r] = 0 /\ step.toks[r] = 0
              /\ numComputed[r] \in Nat /\ numTokens[r] \in Nat /\ placeholders[r] \in Nat
    BY Zenon, <1>1, <1>2, NewStepFacts, NumberTypes DEF PlaceholdersLeft, TokensAfter
<1>13. ASSUME NEW r \in Request, status[r] # "FINISHED"
       PROVE  /\ r \in sampled => placeholders'[r] \in Nat
              /\ AsyncScheduling => placeholders'[r] = Cardinality(SamplesOf(r)')
              /\ ~AsyncScheduling => placeholders'[r] = 0
    <2>1. placeholders[r] = IF AsyncScheduling THEN Cardinality(SamplesOf(r)) ELSE 0
        BY Zenon, <1>13 DEF OutputInv, OutputsMatch
    <2>2. CASE r \in batch.sampling
        <3>1. r \in sampled
            BY Zenon, <1>11, <1>13, <2>2
        <3>2. /\ Cardinality(SamplesOf(r)') = Cardinality(SamplesOf(r)) - 1
              /\ Cardinality(SamplesOf(r)) \in Nat \ {0}
            BY Zenon, <1>1, <1>2, <1>3, <2>2, SamplesTail
        <3>3. CASE AsyncScheduling
            <4>1. /\ placeholders[r] = Cardinality(SamplesOf(r))
                  /\ placeholders'[r] = placeholders[r] - 1
                BY Zenon, <1>12, <2>1, <3>1, <3>3
            <4>2. placeholders'[r] \in Nat
                BY SMTT(60), <3>2, <4>1
            <4> QED BY Zenon, <3>2, <3>3, <4>1, <4>2
        <3>4. CASE ~AsyncScheduling
            <4>1. placeholders'[r] = 0
                BY Zenon, <1>12, <2>1, <3>4
            <4> QED BY Zenon, <1>12, <2>1, <3>4, <4>1
        <3> QED BY Zenon, <3>3, <3>4
    <2>3. CASE r \notin batch.sampling
        <3>1. r \notin sampled
            BY Zenon, <1>7, <2>3
        <3>2. Cardinality(SamplesOf(r)') = Cardinality(SamplesOf(r))
            BY Zenon, <1>1, <1>2, <1>3, <2>3, SamplesTail
        <3> QED BY Zenon, <1>12, <2>1, <3>1, <3>2
    <2> QED BY Zenon, <2>2, <2>3
<1>14. pc' = "input"
    <2>1. ASSUME NEW r \in sampled PROVE ~(placeholders'[r] < 0)
        <3>1. r \in Request /\ status[r] # "FINISHED"
            BY Zenon, <1>5, <1>7
        <3>2. placeholders'[r] \in Nat
            BY Zenon, <1>13, <3>1
        <3> QED BY SMTT(60), <3>2
    <2> QED BY Zenon, <1>1, <1>6, <2>1
<1>15. SampledAreScheduled'
    BY Zenon, <1>3 DEF OutputInv, SampledAreScheduled
<1>16. ASSUME NEW r \in Request PROVE OutputsMatch(r)'
    BY Zenon, <1>12, <1>13 DEF OutputsMatch
<1>17. ASSUME NEW r \in Request PROVE TokensLeft(r)'
    <2>1. TokensLeft(r)
        BY Zenon DEF OutputInv
    <2>2. /\ numComputed'[r] = 0 \/ numComputed'[r] = numComputed[r]
          /\ \/ numTokens'[r] = numTokens[r] /\ placeholders'[r] = placeholders[r]
             \/ numTokens'[r] = numTokens[r] + 1 /\ placeholders'[r] = placeholders[r] - 1
             \/ numTokens'[r] = numTokens[r] + 1 /\ placeholders'[r] = placeholders[r]
        BY Zenon, <1>12
    <2>3. /\ numComputed[r] \in Nat /\ numTokens[r] \in Nat /\ placeholders[r] \in Nat
          /\ step'.toks[r] = 0 /\ step.toks[r] = 0
        BY Zenon, <1>12
    <2>4. numComputed[r] + step.toks[r] < numTokens[r] + placeholders[r] =>
            numComputed'[r] + step'.toks[r] < numTokens'[r] + placeholders'[r]
        BY SMTT(60), <2>2, <2>3
    <2>5. status'[r] \in {"NEW", "WAITING", "PREEMPTED"} => status'[r] = status[r]
        BY Zenon, <1>12
    <2> QED BY Zenon, <2>1, <2>4, <2>5 DEF TokensLeft
<1>18. ASSUME NEW r \in Request PROVE FailedLoad(r)'
    <2> SUFFICES ASSUME r \in failedRecving'
                 PROVE  /\ RecomputeKVLoadFailures /\ IsLoading(r)'
                        /\ numComputed'[r] = 0 /\ step'.toks[r] = 0
        BY Zenon DEF FailedLoad
    <2>1. FailedLoad(r)
        BY Zenon DEF OutputInv
    <2>2. RecomputeKVLoadFailures /\ IsLoading(r)
        BY Zenon, <1>1, <1>9, <2>1 DEF FailedLoad
    <2>3. numComputed'[r] = 0
        BY Zenon, <1>1, <1>12, <2>1 DEF FailedLoad
    <2>4. r \notin stopped \cup failing
        <3>1. r \notin failing
            BY Zenon, <1>10, <2>2
        <3>2. r \notin sampled
            BY Zenon, <1>7, <1>11, <2>2
        <3> QED BY Zenon, <1>8, <3>1, <3>2
    <2>5. IsLoading(r)'
        BY Zenon, <1>12, <2>2, <2>4 DEF IsLoading
    <2> QED BY Zenon, <1>12, <2>2, <2>3, <2>5
<1> QED BY Zenon, <1>14, <1>15, <1>16, <1>17, <1>18 DEF OutputInv

\* A candidate that is admitted has a token to compute and waits for nothing.
LEMMA WaitingRunGoesOn ==
    ASSUME Laws, AliveInv, OutputInv, WaitingRun PROVE pc' = "waiting"
<1> DEFINE c == Candidate
           new == NumWaitingTokens(c)
<1>1. /\ InWaitingLoop /\ ~IsLoading(c) /\ NumExternalTokens(c) = 0
      /\ pc' = CASE new <= 0 -> "AssertionError"
                 [] new > 0 /\ status[c] \notin {"WAITING", "PREEMPTED"} -> "RuntimeError"
                 [] OTHER -> "waiting"
    BY Zenon DEF WaitingRun, CandidateReady
<1>2. /\ c \in Request /\ step.toks[c] = 0 /\ step.budget > 0
      /\ status[c] \in {"WAITING", "PREEMPTED", "WAITING_FOR_REMOTE_KVS"}
    BY Zenon, <1>1, CandidateFacts
<1>3. status[c] \in {"WAITING", "PREEMPTED"}
    BY Zenon, <1>1, <1>2 DEF IsLoading
<1>4. placeholders[c] = 0 /\ numComputed[c] \in Nat /\ numTokens[c] \in Nat
    BY Zenon, <1>1, NothingDue
<1>5. numComputed[c] + step.toks[c] < numTokens[c] + placeholders[c]
    BY Zenon, <1>2, <1>3 DEF OutputInv, TokensLeft
<1>6. step.budget \in Int
    BY Zenon, LocalsFacts
<1>7. new = Min({numTokens[c] - numComputed[c], step.budget})
    <2>1. ~(NumExternalTokens(c) > 0)
        BY SMTT(60), <1>1
    <2> QED BY Zenon, <2>1 DEF NumWaitingTokens
<1> HIDE DEF c
<1>8. new = numTokens[c] - numComputed[c] \/ new = step.budget
    <2>1. numTokens[c] - numComputed[c] \in Int
        BY SMTT(60), <1>4
    <2> QED BY Zenon, <1>6, <1>7, <2>1, MinFacts
<1>9. new \in Int /\ new > 0
    BY SMTT(60), <1>2, <1>4, <1>5, <1>6, <1>8
<1>10. ~(new <= 0)
    BY SMTT(60), <1>9
<1> HIDE DEF new
<1> QED BY Zenon, <1>1, <1>3, <1>10

\* What a step of a live engine does to the outputs that are due, and how it
\* can raise.
LEMMA OutputStep ==
    ASSUME Laws, SchedInv, SchedInv', Alive, OutputInv, SchedNext
    PROVE  /\ Alive' => OutputInv'
           /\ ~Alive' => \/ pc' = "ValueError" /\ pc \in {"allocate", "waiting"}
                         \/ pc' = "AssertionError" /\ pc = "finish"
<1>1. AliveInv /\ (Alive' => AliveInv')
    BY Zenon DEF SchedInv
<1>2. ASSUME ScheduleStart \/ AwaitOutput \/ RunningSkip \/ RunningPick \/ RunningDone
               \/ WaitingSkip \/ WaitingDone \/ Stopped
      PROVE  OutputInv' /\ Alive'
    <2>1. pc' = pc \/ pc' \in {"running", "output", "allocate", "waiting", "finish"}
        BY Zenon, <1>2 DEF ScheduleStart, AwaitOutput, RunningSkip, RunningPick, RunningDone,
            WaitingSkip, WaitingDone, Stopped, vars
    <2>2. Alive'
        BY Zenon, <2>1 DEF Alive, Crash
    <2> QED BY Zenon, <1>1, <1>2, <2>2, QuietOutput
<1>3. CASE WaitingBreak
    <2>1. pc = "waiting" /\ (pc' = "finish" \/ pc' = "ValueError")
        BY Zenon, <1>3 DEF WaitingBreak, CandidateReady, InWaitingLoop
    <2> QED BY Zenon, <1>1, <1>3, <2>1, QuietOutput DEF Alive, Crash
<1>4. CASE RunningAllocate
    <2>1. pc = "allocate" /\ pc' \in {"running", "preempt", "ValueError"}
        BY Zenon, <1>4 DEF RunningAllocate
    <2> QED BY Zenon, <1>1, <1>4, <2>1, RunningAllocateOutput DEF Alive, Crash
<1>5. CASE Preempt
    <2>1. Alive'
        BY Zenon, <1>5 DEF Preempt, Alive, Crash
    <2> QED BY Zenon, <1>1, <1>5, <2>1, PreemptOutput
<1>6. CASE Promote
    <2>1. Alive'
        BY Zenon, <1>6 DEF Promote, Alive
    <2> QED BY Zenon, <1>1, <1>6, <2>1, PromoteOutput
<1>7. CASE WaitingLoad
    <2>1. Alive'
        BY Zenon, <1>7 DEF WaitingLoad, Alive
    <2> QED BY Zenon, <1>1, <1>7, <2>1, WaitingLoadOutput
<1>8. CASE WaitingRun
    <2>1. Alive'
        BY Zenon, <1>1, <1>8, WaitingRunGoesOn DEF Alive, Crash
    <2> QED BY Zenon, <1>1, <1>8, <2>1, WaitingRunOutput
<1>9. CASE FinishSchedule
    <2>1. pc = "finish" /\ pc' \in {"AssertionError", "input", "output"}
        BY Zenon, <1>9 DEF FinishSchedule
    <2> QED BY Zenon, <1>1, <1>9, <2>1, FinishScheduleOutput DEF Alive, Crash
<1>10. CASE Update
    <2>1. pc' = "input" /\ OutputInv'
        BY Zenon, <1>1, <1>10, UpdateFacts, UpdateOutput
    <2> QED BY Zenon, <2>1 DEF Alive, Crash
<1>11. ASSUME NEW r \in Request, AddRequest(r) \/ Abort(r) PROVE OutputInv' /\ Alive'
    <2>1. Alive'
        BY Zenon, <1>11 DEF AddRequest, Abort, Alive
    <2> QED BY Zenon, <1>1, <1>11, <2>1, ClientOutput
<1> QED BY Zenon, <1>2, <1>3, <1>4, <1>5, <1>6, <1>7, <1>8, <1>9, <1>10, <1>11 DEF SchedNext, Engine
=============================================================================
