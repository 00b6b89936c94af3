-------------------------- MODULE SchedulerProofs ---------------------------
(***************************************************************************)
(* The laws that SchedulerSteps assumes, and the theorems about Scheduler, *)
(* for every set of requests, every pool, either policy and with or        *)
(* without async scheduling, remote prefills, remote decodes and long      *)
(* requests.                                                               *)
(***************************************************************************)
EXTENDS SchedulerSteps, KVCacheManagerProofs, TLAPS

-----------------------------------------------------------------------------
(* The laws                                                                 *)

LEMMA PoolLawsHold == AllocateLaw /\ FreeLaw /\ StutterLaw
<1>1. AllocateLaw
    <2> SUFFICES ASSUME NEW r \in Request, NEW mask \in BOOLEAN, NEW n \in Nat,
                        NEW computed \in Int, NEW external \in Int, NEW new \in Int,
                        KVInv, AllocateSlots(r, mask, n, computed, external, new)
                 PROVE  /\ KVInv'
                        /\ \A s \in Request \ {r} : reqToBlocks'[s] = reqToBlocks[s]
                        /\ AllocationResult(r, mask, n, computed, external, new) = "ok" =>
                            Len(reqToBlocks'[r]) >= Cdiv(NumTokensNeedSlot(computed, external, new))
        BY ZenonT(60) DEF AllocateLaw
    <2> QED BY ZenonT(60), AllocateSlotsKeepsInv, AllocateSlotsFacts
<1>2. FreeLaw
    BY ZenonT(60), FreeBlocksKeepsInv, FreeBlocksFacts DEF FreeLaw
<1>3. StutterLaw
    BY Zenon, KVNextInv DEF StutterLaw
<1> QED BY Zenon, <1>1, <1>2, <1>3

LEMMA LastLawHolds == LastLaw
<1> SUFFICES ASSUME NEW queue, IsQueue(queue), Range(queue) \subseteq Request,
                    NEW S \in SUBSET (1 .. Len(queue)), S # {}
             PROVE  /\ \E i \in S : \A j \in S : i >= j
                    /\ \E i \in S : \A j \in S : i = j \/ Before(queue[j], queue[i])
    BY Zenon DEF LastLaw
<1>1. Len(queue) \in Nat
    BY Zenon, QueueFacts
<1>2. PICK i \in S : \A j \in S : j <= i
    BY Zenon, <1>1, Largest
<1>3. \A j \in S : i >= j
    BY Zenon, <1>1, <1>2
<1>4. \E k \in S : \A j \in S : k = j \/ Before(queue[j], queue[k])
    BY Zenon, LastRequest, SchedulerAssumption
<1> QED BY Zenon, <1>3, <1>4

LEMMA CardinalityLawHolds == CardinalityLaw
<1>1. ASSUME NEW S \in SUBSET Request PROVE IsFiniteSet(S) /\ Cardinality(S) \in Nat
    BY Zenon, SchedulerAssumption, FS_Subset, FS_CardinalityType
<1>2. ASSUME NEW S \in SUBSET Request, NEW r \in Request
      PROVE  /\ Cardinality(S \cup {r}) <= Cardinality(S) + 1
             /\ r \in S => Cardinality(S \ {r}) = Cardinality(S) - 1
    <2>1. Cardinality(S \cup {r}) = IF r \in S THEN Cardinality(S) ELSE Cardinality(S) + 1
        BY Zenon, <1>1, FS_AddElement
    <2>2. Cardinality(S \ {r}) = IF r \in S THEN Cardinality(S) - 1 ELSE Cardinality(S)
        BY Zenon, <1>1, FS_RemoveElement
    <2> QED BY SMTT(120), <1>1, <2>1, <2>2
<1> QED BY Zenon, <1>1, <1>2, FS_EmptySet DEF CardinalityLaw

\* The batches under way that sample for r are finitely many.
LEMMA SamplesFinite ==
    ASSUME inflight \in Seq(Batch), NEW r
    PROVE  IsFiniteSet(SamplesOf(r)) /\ Cardinality(SamplesOf(r)) \in Nat
<1>1. Len(inflight) \in Nat /\ DOMAIN inflight = 1 .. Len(inflight)
    BY Zenon, LenProperties
<1>2. 1 \in Int /\ Len(inflight) \in Int
    BY SMTT(60), <1>1
<1>3. IsFiniteSet(DOMAIN inflight)
    BY Zenon, <1>1, <1>2, FS_Interval
<1>4. SamplesOf(r) \in SUBSET (DOMAIN inflight)
    BY Zenon DEF SamplesOf
<1> QED BY Zenon, <1>3, <1>4, FS_Subset, FS_CardinalityType

LEMMA AppendedSamples ==
    ASSUME inflight \in Seq(Batch), NEW b \in Batch, inflight' = Append(inflight, b), NEW r
    PROVE  /\ r \in b.sampling => Cardinality(SamplesOf(r)') = Cardinality(SamplesOf(r)) + 1
           /\ r \notin b.sampling => SamplesOf(r)' = SamplesOf(r)
<1> DEFINE n == Len(inflight) + 1
<1>1. /\ DOMAIN inflight' = DOMAIN inflight \cup {n} /\ n \notin DOMAIN inflight
      /\ \A i \in DOMAIN inflight : inflight'[i] = inflight[i]
      /\ inflight'[n] = b
    BY Zenon, AppendBatch
<1> HIDE DEF n
<1>2. ASSUME r \in b.sampling
      PROVE  Cardinality(SamplesOf(r)') = Cardinality(SamplesOf(r)) + 1
    <2>1. SamplesOf(r)' = SamplesOf(r) \cup {n}
        BY Zenon, <1>1, <1>2 DEF SamplesOf
    <2>2. n \notin SamplesOf(r)
        BY Zenon, <1>1 DEF SamplesOf
    <2> QED BY Zenon, <2>1, <2>2, SamplesFinite, FS_AddElement
<1>3. ASSUME r \notin b.sampling PROVE SamplesOf(r)' = SamplesOf(r)
    BY Zenon, <1>1, <1>3 DEF SamplesOf
<1> QED BY Zenon, <1>2, <1>3

LEMMA RemainingSamples ==
    ASSUME inflight \in Seq(Batch), inflight # << >>, inflight' = Tail(inflight), NEW r
    PROVE  /\ r \in inflight[1].sampling =>
                /\ Cardinality(SamplesOf(r)') = Cardinality(SamplesOf(r)) - 1
                /\ Cardinality(SamplesOf(r)) \in Nat \ {0}
           /\ r \notin inflight[1].sampling =>
                Cardinality(SamplesOf(r)') = Cardinality(SamplesOf(r))
<1> DEFINE S == SamplesOf(r)'
           T == SamplesOf(r) \ {1}
           f == [i \in S |-> i + 1]
<1>1. /\ inflight' \in Seq(Batch) /\ 1 \in DOMAIN inflight
      /\ \A i \in DOMAIN inflight' : /\ i \in Nat /\ i + 1 \in DOMAIN inflight /\ i + 1 # 1
                                     /\ inflight'[i] = inflight[i + 1]
      /\ \A i \in DOMAIN inflight : i # 1 => /\ i - 1 \in DOMAIN inflight'
                                            /\ inflight'[i - 1] = inflight[i]
    BY Zenon, TailBatch
<1>2. IsFiniteSet(S) /\ IsFiniteSet(SamplesOf(r)) /\ Cardinality(SamplesOf(r)) \in Nat
    <2>1. IsFiniteSet(SamplesOf(r)) /\ Cardinality(SamplesOf(r)) \in Nat
        BY Zenon, SamplesFinite
    <2>2. Len(inflight') \in Nat /\ DOMAIN inflight' = 1 .. Len(inflight')
        BY Zenon, <1>1, LenProperties
    <2>3. 1 \in Int /\ Len(inflight') \in Int
        BY SMTT(60), <2>2
    <2>4. IsFiniteSet(DOMAIN inflight')
        BY Zenon, <2>2, <2>3, FS_Interval
    <2>5. S \in SUBSET (DOMAIN inflight')
        BY Zenon DEF SamplesOf
    <2> QED BY Zenon, <2>1, <2>4, <2>5, FS_Subset
<1>3. \A i \in S : i \in Nat /\ i + 1 \in T
    BY Zenon, <1>1 DEF SamplesOf
<1>4. \A i \in T : i \in Nat /\ i - 1 \in S
    <2>1. \A i \in DOMAIN inflight : i \in Nat
        <3>1. Len(inflight) \in Nat /\ DOMAIN inflight = 1 .. Len(inflight)
            BY Zenon, LenProperties
        <3> QED BY SMTT(60), <3>1
    <2> QED BY Zenon, <1>1, <2>1 DEF SamplesOf
<1>5. Cardinality(T) = Cardinality(S)
    <2> HIDE DEF S, T
    <2>1. f \in [S -> T] /\ \A i \in S : f[i] = i + 1
        BY Zenon, <1>3
    <2>2. \A i, j \in S : i + 1 = j + 1 => i = j
        BY SMTT(60), <1>3
    <2>3. \A i \in T : (i - 1) + 1 = i
        BY SMTT(60), <1>4
    <2> HIDE DEF f
    <2>4. f \in Injection(S, T)
        BY Zenon, <2>1, <2>2 DEF Injection, IsInjective
    <2>5. f \in Surjection(S, T)
        BY Zenon, <1>4, <2>1, <2>3 DEF Surjection
    <2>6. ExistsBijection(S, T)
        BY Zenon, <2>4, <2>5 DEF ExistsBijection, Bijection
    <2> QED BY Zenon, <1>2, <2>6, FS_Bijection
<1>6. ASSUME r \in inflight[1].sampling
      PROVE  Cardinality(S) = Cardinality(SamplesOf(r)) - 1 /\ Cardinality(SamplesOf(r)) \in Nat \ {0}
    <2>1. 1 \in SamplesOf(r)
        BY Zenon, <1>1, <1>6 DEF SamplesOf
    <2>2. Cardinality(T) = Cardinality(SamplesOf(r)) - 1
        BY Zenon, <1>2, <2>1, FS_RemoveElement
    <2>3. Cardinality(SamplesOf(r)) # 0
        BY Zenon, <1>2, <2>1, FS_EmptySet
    <2> QED BY Zenon, <1>2, <1>5, <2>2, <2>3
<1>7. ASSUME r \notin inflight[1].sampling PROVE Cardinality(S) = Cardinality(SamplesOf(r))
    <2>1. T = SamplesOf(r)
        BY Zenon, <1>7 DEF SamplesOf
    <2> QED BY Zenon, <1>5, <2>1
<1> QED BY Zenon, <1>6, <1>7

LEMMA SubsetLawHolds == SubsetLaw
<1> SUFFICES ASSUME NEW S \in SUBSET Request, NEW T \in SUBSET S
             PROVE  Cardinality(T) <= Cardinality(S)
    BY Zenon DEF SubsetLaw
<1>1. IsFiniteSet(S)
    BY Zenon, SchedulerAssumption, FS_Subset
<1> QED BY Zenon, <1>1, FS_Subset

LEMMA LawsHold == Laws
<1>1. EmptyLaw
    BY Zenon, EmptyQueue DEF EmptyLaw
<1>2. IndexLaw
    BY Zenon, QueueFacts DEF IndexLaw
<1>3. AddLaw
    BY Zenon, AppendFacts, AddToFacts, PrependToFacts DEF AddLaw
<1>4. PopLaw
    BY Zenon, PopFacts DEF PopLaw
<1>5. RemoveLaw
    BY Zenon, RemoveAllFacts DEF RemoveLaw
<1>6. PrependLaw
    BY Zenon, PrependRequestsFacts DEF PrependLaw
<1>7. SamplesLaw
    BY Zenon, AppendedSamples, RemainingSamples DEF SamplesLaw
<1> QED BY Zenon, <1>1, <1>2, <1>3, <1>4, <1>5, <1>6, <1>7, PoolLawsHold, LastLawHolds,
           CardinalityLawHolds, SubsetLawHolds DEF Laws

-----------------------------------------------------------------------------
(* The initial states                                                       *)

LEMMA SchedInitInv == SchedInit => SchedInv
<1> SUFFICES ASSUME SchedInit PROVE SchedInv
    BY Zenon
<1>1. KVInv
    BY Zenon, KVInitInv DEF SchedInit
<1>2. /\ pc = "input" /\ step = NewStep /\ requests = {} /\ inflight = << >>
      /\ running = << >> /\ waiting = << >> /\ skipped = << >>
      /\ needSend = {} /\ recving = {} /\ sending = {} /\ finishedRecving = {}
      /\ status = [r \in Request |-> "NEW"] /\ numComputed = [r \in Request |-> 0]
      /\ numTokens = NumPromptTokens /\ placeholders = [r \in Request |-> 0]
      /\ reqToBlocks = [r \in Request |-> << >>]
    BY Zenon DEF SchedInit, KVInit
<1>3. /\ step.toks = [r \in Request |-> 0] /\ step.preempted = {} /\ step.recv = {}
      /\ step.skipped = << >>
    BY Zenon, <1>2, NewStepFacts
<1>4. IsQueue(<< >>) /\ Range(<< >>) = {}
    BY Zenon, EmptyQueue
<1>5. DOMAIN inflight = {} /\ Len(inflight) = 0 /\ inflight \in Seq(Batch)
    BY SMTT(120), <1>2
<1>6. SchedTypes
    BY SMTT(120), <1>2, <1>5, SchedulerAssumption DEF SchedTypes, Status
<1>7. StepTypes
    BY Zenon, <1>2, NewStepTypes, LawsHold
<1>8. QueueInv
    <2>1. ASSUME NEW r \in Request PROVE Queued(r)
        BY Zenon, <1>2, <1>3, <1>4 DEF Queued
    <2> QED BY Zenon, <1>2, <1>3, <1>4, <2>1 DEF QueueInv, ReqQueue
<1>9. PhaseInv
    BY SMTT(120), <1>2, <1>5 DEF PhaseInv, BatchQueueSize
<1>10. ASSUME NEW r \in Request PROVE TokensInv(r) /\ KnownInv(r)
    <2>1. /\ status[r] = "NEW" /\ numComputed[r] = 0 /\ numTokens[r] = NumPromptTokens[r]
          /\ placeholders[r] = 0 /\ step.toks[r] = 0 /\ r \notin step.preempted
          /\ reqToBlocks[r] = << >> /\ r \notin requests
        BY Zenon, <1>2, <1>3
    <2> QED BY SMTT(120), <2>1, RequestFacts DEF TokensInv, KnownInv
<1>11. SamplingInv
    BY Zenon, <1>5 DEF SamplingInv
<1>12. Loading = {} /\ Sending = {}
    BY ZenonT(60), <1>2, <1>3, <1>5 DEF Loading, Sending
<1>13. LoadsInv
    BY Zenon, <1>2, <1>3, <1>5, <1>12 DEF LoadsInv, LoadsApart, LoadKept, IsLoading
<1>14. SendsInv
    BY Zenon, <1>2, <1>5, <1>12 DEF SendsInv, SendsApart, SendKept
<1>15. pc \in PC
    BY Zenon, <1>2 DEF PC
<1> QED BY Zenon, <1>1, <1>6, <1>7, <1>8, <1>9, <1>10, <1>11, <1>13, <1>14, <1>15 DEF SchedInv, AliveInv

-----------------------------------------------------------------------------
(* What holds of every run                                                  *)

LEMMA SchedInvHolds == SchedSpec => []SchedInv
<1>1. SchedInv /\ [SchedNext]_vars => SchedInv'
    BY Zenon, SchedNextInv, LawsHold
<1> QED BY <1>1, SchedInitInv, PTL DEF SchedSpec

\* Under the scheduler as it drives the manager, for any requests, budget, pool
\* and policy, with the loads, sends, preemptions and aborts it handles: no
\* block is in two tables, and the counts and the free queue agree with them,
\* also once an exception has ended the engine.
THEOREM SchedulerKeepsPool == SchedSpec => []KVInv
<1>1. SchedInv => KVInv
    BY Zenon DEF SchedInv
<1> QED BY <1>1, SchedInvHolds, PTL

LEMMA AliveAccounted == ASSUME SchedInv PROVE RequestsAccounted
<1>1. FinishedHoldsNothing
    <2> SUFFICES ASSUME Alive, NEW r \in Request
                 PROVE  /\ reqToBlocks[r] # << >> => r \in requests
                        /\ status[r] = "FINISHED" /\ r \in requests => r \in Loading \cup Sending
        BY Zenon DEF FinishedHoldsNothing
    <2>1. KnownInv(r) /\ SendKept(r)
        BY Zenon DEF SchedInv, AliveInv, SendsInv
    <2> QED BY Zenon, <2>1 DEF KnownInv, SendKept
<1>2. QueuesMatchStatus
    <2> DEFINE a == running \o waiting
               b == a \o skipped
               c == b \o step.skipped
    <2> SUFFICES ASSUME Alive
                 PROVE  /\ IsInjective(c)
                        /\ Range(running) = {r \in Request : status[r] = "RUNNING"}
                        /\ Range(c) = {r \in Request : status[r] \notin {"NEW", "FINISHED"}}
                        /\ \A r \in Range(waiting) : ~IsLoading(r)
        BY Zenon DEF QueuesMatchStatus
    <2>1. AliveInv
        BY Zenon DEF SchedInv
    <2>2. /\ ReqQueue(running) /\ ReqQueue(waiting) /\ ReqQueue(skipped) /\ ReqQueue(step.skipped)
        BY Zenon, <2>1 DEF AliveInv, QueueInv
    <2>3. \A r \in Request : Queued(r) /\ status[r] \in Status
        BY Zenon, <2>1 DEF AliveInv, QueueInv, SchedTypes
    <2>4. Range(running) \cap Range(waiting) = {}
        BY Zenon, <2>2, <2>3 DEF Queued, ReqQueue
    <2>5. IsQueue(a) /\ Range(a) = Range(running) \cup Range(waiting)
        BY Zenon, <2>2, <2>4, ConcatFacts DEF ReqQueue
    <2> HIDE DEF a
    <2>6. Range(a) \cap Range(skipped) = {}
        BY Zenon, <2>2, <2>3, <2>5 DEF Queued, ReqQueue
    <2>7. IsQueue(b) /\ Range(b) = Range(a) \cup Range(skipped)
        BY Zenon, <2>2, <2>5, <2>6, ConcatFacts DEF ReqQueue
    <2> HIDE DEF b
    <2>8. Range(b) \cap Range(step.skipped) = {}
        BY Zenon, <2>2, <2>3, <2>5, <2>7 DEF Queued, ReqQueue
    <2>9. IsQueue(c) /\ Range(c) = Range(b) \cup Range(step.skipped)
        BY Zenon, <2>2, <2>7, <2>8, ConcatFacts DEF ReqQueue
    <2> HIDE DEF c
    <2>10. Range(running) = {r \in Request : status[r] = "RUNNING"}
        BY Zenon, <2>2, <2>3 DEF Queued, ReqQueue
    <2>11. ASSUME NEW r
           PROVE  r \in Range(c) <=> r \in Request /\ status[r] \notin {"NEW", "FINISHED"}
        <3>1. r \in Range(c) <=> \/ r \in Range(running)
                                 \/ r \in Range(waiting) \cup Range(skipped) \cup Range(step.skipped)
            BY Zenon, <2>5, <2>7, <2>9
        <3>2. r \in Range(c) => r \in Request
            BY Zenon, <3>1, <2>2 DEF ReqQueue
        <3> QED BY Zenon, <2>3, <3>1, <3>2 DEF Queued
    <2>12. \A r \in Range(waiting) : ~IsLoading(r)
        BY Zenon, <2>2, <2>3 DEF Queued, ReqQueue
    <2> QED BY Zenon, <2>9, <2>10, <2>11, <2>12 DEF IsQueue
<1> QED BY Zenon, <1>1, <1>2 DEF RequestsAccounted

\* Whatever is aborted, preempted, fails or finishes, in any order: a request
\* that is not over is in exactly one queue, once, and its status says which;
\* blocks belong to known requests, and a finished request is known only as
\* long as a transfer of its blocks is outstanding.
THEOREM RequestsStayAccounted == SchedSpec => []RequestsAccounted
<1>1. SchedInv => RequestsAccounted
    BY Zenon, AliveAccounted
<1> QED BY <1>1, SchedInvHolds, PTL

\* The blocks of a transfer outlive it: while a load into them or a read by the
\* decoder may be under way, their request is known and keeps all of them.
THEOREM TransfersKeepTheirBlocks == SchedSpec => []TransferKeepsBlocks
<1>1. SchedInv => TransferKeepsBlocks
    <2> SUFFICES ASSUME SchedInv, Alive
                 PROVE  /\ \A r \in Loading : /\ r \in requests
                                              /\ Len(reqToBlocks[r]) >= Cdiv(NumPromptTokens[r])
                        /\ \A r \in Sending : r \in requests /\ reqToBlocks[r] # << >>
        BY Zenon DEF TransferKeepsBlocks
    <2>1. AliveInv
        BY SMTT(120) DEF SchedInv
    <2>2. /\ step \in Locals /\ inflight \in Seq(Batch) /\ recving \subseteq Request
          /\ sending \subseteq Request /\ needSend \subseteq Request
        BY Zenon, <2>1 DEF AliveInv, SchedTypes, StepTypes
    <2>3. \A i \in DOMAIN inflight : inflight[i] \in Batch
        BY Zenon, <2>2, ElementOfSeq, LenProperties
    <2>4. Loading \subseteq Request /\ Sending \subseteq Request
        BY Zenon, <2>2, <2>3, LoadingFacts, SendingFacts DEF Batch, Locals
    <2> QED BY Zenon, <2>1, <2>4 DEF AliveInv, LoadsInv, LoadKept, SendsInv, SendKept
<1> QED BY <1>1, SchedInvHolds, PTL

-----------------------------------------------------------------------------
\* max_num_long_requests bounds the long requests that run at any time, also
\* inside schedule(): the count is taken when a candidate is let in, and the
\* mask only grows by requests that do not run.
THEOREM LongRequestsStayBounded == SchedSpec => []LongRequestsBounded
<1>1. SchedInit => LongRequestsBounded
    <2>1. SchedInit => Range(running) = {}
        BY Zenon, EmptyQueue DEF SchedInit
    <2>2. Cardinality({} \cap longMask) = 0
        <3>1. {} \cap longMask = {}
            BY Zenon
        <3> QED BY Zenon, <3>1, FS_EmptySet
    <2>3. MaxNumLongRequests > 0 => 0 <= MaxNumLongRequests
        BY SMTT(60), SchedulerAssumption
    <2> QED BY Zenon, <2>1, <2>2, <2>3 DEF LongRequestsBounded
<1>2. SchedInv /\ LongRequestsBounded /\ [SchedNext]_vars => LongRequestsBounded'
    <2> SUFFICES ASSUME SchedInv, LongRequestsBounded, [SchedNext]_vars PROVE LongRequestsBounded'
        BY Zenon
    <2>1. CASE UNCHANGED vars
        BY Zenon, <2>1 DEF vars, reqVars, queueVars, LongRequestsBounded
    <2>2. CASE SchedNext /\ Alive
        BY Zenon, <2>2, LongStep, LawsHold DEF SchedInv
    <2>3. CASE SchedNext /\ ~Alive
        BY Zenon, <2>1, <2>3, DeadStops
    <2> QED BY Zenon, <2>1, <2>2, <2>3
<1> QED BY <1>1, <1>2, SchedInvHolds, PTL DEF SchedSpec

-----------------------------------------------------------------------------
LEMMA OutputInit == SchedInit => OutputInv
<1> SUFFICES ASSUME SchedInit PROVE OutputInv
    BY Zenon
<1>1. /\ step = NewStep /\ inflight = << >> /\ numTokens = NumPromptTokens
      /\ status = [r \in Request |-> "NEW"] /\ numComputed = [r \in Request |-> 0]
      /\ placeholders = [r \in Request |-> 0] /\ failedRecving = {}
    BY Zenon DEF SchedInit
<1>2. DOMAIN inflight = {}
    BY SMTT(60), <1>1
<1>3. SampledAreScheduled
    BY Zenon, <1>2 DEF SampledAreScheduled
<1>4. ASSUME NEW r \in Request PROVE OutputsMatch(r) /\ TokensLeft(r) /\ FailedLoad(r)
    <2>1. SamplesOf(r) = {}
        BY Zenon, <1>2 DEF SamplesOf
    <2>2. OutputsMatch(r)
        BY Zenon, <1>1, <2>1, FS_EmptySet DEF OutputsMatch
    <2>3. /\ numComputed[r] = 0 /\ step.toks[r] = 0 /\ placeholders[r] = 0
          /\ numTokens[r] = NumPromptTokens[r]
        BY Zenon, <1>1, NewStepFacts
    <2>4. numComputed[r] + step.toks[r] < numTokens[r] + placeholders[r]
        BY SMTT(60), <2>3, RequestFacts
    <2> QED BY Zenon, <1>1, <2>2, <2>4 DEF TokensLeft, FailedLoad
<1> QED BY Zenon, <1>3, <1>4 DEF OutputInv

LEMMA OutputInvHolds == SchedSpec => [](SchedInv /\ (Alive => OutputInv))
<1>1. SchedInv /\ SchedInv' /\ (Alive => OutputInv) /\ [SchedNext]_vars => (Alive => OutputInv)'
    <2> SUFFICES ASSUME SchedInv, SchedInv', Alive => OutputInv, [SchedNext]_vars, Alive'
                 PROVE  OutputInv'
        BY Zenon
    <2>1. CASE UNCHANGED vars
        <3>1. /\ UNCHANGED <<pc, step, status, numComputed, numTokens, placeholders>>
              /\ UNCHANGED <<inflight, failedRecving>>
            BY Zenon, <2>1 DEF vars, reqVars, xferVars
        <3>2. OutputInv
            BY Zenon, <3>1 DEF Alive
        <3> QED BY Zenon, <3>1, <3>2, OutputFrame
    <2>2. CASE SchedNext /\ Alive
        BY Zenon, <2>2, OutputStep, LawsHold
    <2>3. CASE SchedNext /\ ~Alive
        BY Zenon, <2>1, <2>3, DeadStops
    <2> QED BY Zenon, <2>1, <2>2, <2>3
<1> QED BY <1>1, OutputInit, SchedInvHolds, PTL DEF SchedSpec

\* For any requests, pool and policy, whatever is preempted, aborted or finished
\* while batches are under way: the placeholders of a request are exactly the
\* outputs it is still due.
THEOREM PlaceholdersStayExact == SchedSpec => []PlaceholdersMatch
<1>1. (Alive => OutputInv) => PlaceholdersMatch
    BY Zenon DEF OutputInv, OutputsMatch, PlaceholdersMatch, SamplesOf
<1> QED BY <1>1, OutputInvHolds, PTL

\* The engine raises in two places only: where get_new_blocks finds the pool
\* short of what allocate_slots has checked, and at the assertions on which
\* schedule() ends.  The assertions of update_from_output on placeholders and on
\* transfers of unknown requests, the one that an admitted request gets tokens,
\* and the error for an admitted request of another status never fire.
THEOREM RaisesOnlyInSchedule ==
    SchedSpec => [][Alive /\ ~Alive' =>
                        \/ pc' = "ValueError" /\ pc \in {"allocate", "waiting"}
                        \/ pc' = "AssertionError" /\ pc = "finish"]_vars
<1>1. /\ SchedInv /\ (Alive => OutputInv) /\ SchedInv' /\ [SchedNext]_vars
      => [Alive /\ ~Alive' => \/ pc' = "ValueError" /\ pc \in {"allocate", "waiting"}
                              \/ pc' = "AssertionError" /\ pc = "finish"]_vars
    BY Zenon, OutputStep, LawsHold
<1> QED BY <1>1, OutputInvHolds, PTL DEF SchedSpec
=============================================================================
