------------------------- MODULE NixlTransferProofs -------------------------
(***************************************************************************)
(* Theorems about NixlTransfer, for any requests and any number of steps   *)
(* under way on either side, with READs and handshakes that may fail.  No  *)
(* request is aborted before D schedules it (MayAbortEarly is FALSE).      *)
(***************************************************************************)
EXTENDS NixlTransfer, SequenceTheorems, TLAPS

PStep == [inBatch : SUBSET Request, notProcessed : SUBSET Request,
          toSend : SUBSET Request, ran : SUBSET Request]
POutput == [sent : SUBSET Request, ran : SUBSET Request]
DStep == SUBSET (Request \X {Blocks})
DOutput == [recvd : SUBSET Request, invalid : SUBSET Request]

PTypes ==
    /\ pReq \in [Request -> {"new", "running", "sending", "gone"}]
    /\ notProcessed \subseteq Request /\ needSend \subseteq Request
    /\ pSteps \in Seq(PStep) /\ pRunning \in Seq(PStep) /\ pOutputs \in Seq(POutput)
    /\ Len(pSteps) + Len(pRunning) + Len(pOutputs) <= PDepth
    /\ toProcess \subseteq Request /\ toSend \subseteq toProcess /\ overdue \subseteq toSend
    /\ notifs \subseteq Request /\ expired \subseteq Request

DTypes ==
    /\ dReq \in [Request -> {"none", "arrived", "loading", "aborting", "received",
                             "running", "gone"}]
    /\ needRecv = {}
    /\ dSteps \in Seq(DStep) /\ dRunning \in Seq(DStep) /\ dOutputs \in Seq(DOutput)
    /\ Len(dSteps) + Len(dRunning) + Len(dOutputs) <= DDepth
    /\ xfer \in [Request -> {"none", "posted", "done", "error"}]
    /\ callbacks \in [Request -> {"none", "put ready", "mark invalid", "add failed"}]
    /\ recvMeta \subseteq Request /\ invalid \subseteq Request
    /\ collected \in Seq(SUBSET Request)
    /\ collected # << >> => dRunning # << >>
    /\ good \subseteq Request

\* P has finished the request and D has its parameters
HandedOver(r) == dReq[r] # "none"

\* The blocks of the request were read, or P's timer ran out
ReadOrExpired(r) == r \in good \cup expired

\* P: a request is in one place at most of the steps to start, _reqs_to_process
\* and the outputs that free it; one that was aborted in none of the places
\* where one that was handed over may be.
PInv(r) ==
    /\ HandedOver(r) => pReq[r] \in {"sending", "gone"}
    /\ pReq[r] = "sending" => HandedOver(r)
    /\ r \in toSend \cup needSend \cup notifs => HandedOver(r)
    /\ \A i \in DOMAIN pSteps : r \in pSteps[i].toSend => HandedOver(r)
    /\ r \in notProcessed => ~HandedOver(r) /\ pReq[r] = "gone"
    /\ \A i \in DOMAIN pSteps :
          r \in pSteps[i].notProcessed => ~HandedOver(r) /\ pReq[r] = "gone"
    /\ pReq[r] = "new" \/ (HandedOver(r) /\ pReq[r] = "gone") =>
          r \notin toProcess /\ \A i \in DOMAIN pSteps : r \notin pSteps[i].inBatch
    /\ \A i \in DOMAIN pSteps : r \in pSteps[i].inBatch =>
          /\ r \notin toProcess
          /\ \A j \in DOMAIN pSteps : r \in pSteps[j].inBatch => i = j
          /\ \A k \in DOMAIN pOutputs : r \notin pOutputs[k].sent
    /\ r \in toProcess => \A k \in DOMAIN pOutputs : r \notin pOutputs[k].sent
    /\ \A k \in DOMAIN pOutputs : r \in pOutputs[k].sent =>
          /\ pReq[r] = "sending"
          /\ \A l \in DOMAIN pOutputs : r \in pOutputs[l].sent => k = l

\* P frees blocks only when they were read or their time ran out
FreedInv(r) ==
    /\ r \in notifs => ReadOrExpired(r)
    /\ \A k \in DOMAIN pOutputs : r \in pOutputs[k].sent => ReadOrExpired(r)
    /\ HandedOver(r) /\ pReq[r] = "gone" => ReadOrExpired(r)

InStep(r, i) == <<r, Blocks>> \in dSteps[i]
Holds(r) == dReq[r] \in {"loading", "aborting"}
Collected(r) == r \in failedRecv \/ (collected # << >> /\ r \in collected[1])

\* D: a load is in one place at most, from the step that starts it to the output
\* that ends it, and D holds the blocks as long as it is in one.
DInv(r) ==
    /\ r \in recvMeta => Holds(r) /\ \A k \in DOMAIN dOutputs : r \notin dOutputs[k].recvd
    /\ \A i \in DOMAIN dSteps : InStep(r, i) =>
          /\ Holds(r) /\ r \notin recvMeta
          /\ \A j \in DOMAIN dSteps : InStep(r, j) => i = j
          /\ \A k \in DOMAIN dOutputs : r \notin dOutputs[k].recvd
    /\ \A k \in DOMAIN dOutputs : r \in dOutputs[k].recvd =>
          /\ Holds(r)
          /\ \A l \in DOMAIN dOutputs : r \in dOutputs[l].recvd => k = l
    /\ r \in handshake => r \in recvMeta /\ callbacks[r] = "none" /\ r \notin ready
                          /\ xfer[r] = "none" /\ ~Collected(r)
    /\ callbacks[r] # "none" => r \in recvMeta /\ r \notin ready /\ xfer[r] = "none"
                                /\ ~Collected(r)
    /\ r \in ready => r \in recvMeta /\ xfer[r] = "none" /\ ~Collected(r)
    /\ xfer[r] # "none" => r \in recvMeta /\ ~Collected(r)
    /\ Collected(r) => r \in recvMeta

\* The scheduler of D knows of a failure, or its worker will tell it with the
\* next output or the ones under way
FailureKnown(r) ==
    dReq[r] = "aborting" \/ r \in invalid \/ \E j \in DOMAIN dOutputs : r \in dOutputs[j].invalid

\* A load that ends well read what P held; any other is known to have failed
\* by the time it ends.
ValidInv(r) ==
    /\ r \in good => /\ dReq[r] \notin {"none", "arrived"}
                     /\ \A i \in DOMAIN dSteps : ~InStep(r, i)
                     /\ r \notin handshake /\ callbacks[r] = "none" /\ r \notin ready
                     /\ xfer[r] \in {"none", "done"}
    /\ xfer[r] = "done" => ReadOrExpired(r)
    /\ callbacks[r] = "add failed" \/ Collected(r) => ReadOrExpired(r) \/ FailureKnown(r)
    /\ \A k \in DOMAIN dOutputs : r \in dOutputs[k].recvd =>
          \/ ReadOrExpired(r) \/ dReq[r] = "aborting"
          \/ \E j \in 1 .. k : r \in dOutputs[j].invalid
    /\ dReq[r] \in {"received", "running"} => ReadOrExpired(r)

\* The sets of D's worker hold requests
DSets == handshake \subseteq Request /\ ready \subseteq Request /\ failedRecv \subseteq Request

HandoffInv ==
    /\ PTypes /\ DTypes /\ DSets /\ ~crashed
    /\ \A r \in Request : PInv(r) /\ FreedInv(r) /\ DInv(r) /\ ValidInv(r)

-----------------------------------------------------------------------------
(* Queues *)

LEMMA TailEntries ==
    ASSUME NEW S, NEW q \in Seq(S), q # << >>
    PROVE  /\ Head(q) = q[1] /\ q[1] \in S /\ 1 \in DOMAIN q
           /\ Tail(q) \in Seq(S) /\ Len(Tail(q)) = Len(q) - 1 /\ Len(q) \in Nat
           /\ \A i \in DOMAIN Tail(q) :
                 i \in Nat /\ i >= 1 /\ i + 1 \in DOMAIN q /\ Tail(q)[i] = q[i + 1]
<1>1. /\ Head(q) = q[1] /\ q[1] \in S /\ Len(q) \in Nat /\ Len(q) > 0
      /\ DOMAIN q = 1 .. Len(q)
    OBVIOUS
<1>2. Tail(q) \in Seq(S)
    OBVIOUS
<1>3. Len(Tail(q)) = Len(q) - 1 /\ \A i \in 1 .. Len(Tail(q)) : Tail(q)[i] = q[i + 1]
    BY Zenon, HeadTailProperties
<1> DEFINE t == Tail(q)
<1>4. t \in Seq(S) /\ Len(t) = Len(q) - 1 /\ \A i \in 1 .. Len(t) : t[i] = q[i + 1]
    BY Zenon, <1>2, <1>3
<1> HIDE DEF t
<1>5. DOMAIN t = 1 .. Len(t)
    BY SMTT(120), <1>4
<1>6. \A i \in DOMAIN t : i \in Nat /\ i >= 1 /\ i + 1 \in DOMAIN q /\ t[i] = q[i + 1]
    BY SMTT(120), <1>1, <1>4, <1>5
<1> QED BY SMTT(120), <1>1, <1>4, <1>6 DEF t

LEMMA AppendEntries ==
    ASSUME NEW S, NEW q \in Seq(S), NEW e \in S
    PROVE  /\ Append(q, e) \in Seq(S) /\ Len(Append(q, e)) = Len(q) + 1 /\ Len(q) \in Nat
           /\ \A i \in DOMAIN q : i \in 1 .. Len(q)
           /\ \A i \in DOMAIN Append(q, e) :
                 \/ i \in DOMAIN q /\ Append(q, e)[i] = q[i]
                 \/ i = Len(q) + 1 /\ Append(q, e)[i] = e
           /\ Len(q) + 1 \in DOMAIN Append(q, e) /\ Append(q, e)[Len(q) + 1] = e
           /\ \A i \in DOMAIN q : i \in DOMAIN Append(q, e) /\ Append(q, e)[i] = q[i]
OBVIOUS

\* A side whose steps do not change what the other one refers to

LEMMA DStepKeepsP ==
    ASSUME HandoffInv, UNCHANGED <<pSched, pPipe, pWorker, expired>>, good \subseteq good',
           \A r \in Request : dReq'[r] = "none" <=> dReq[r] = "none"
    PROVE  PTypes' /\ \A r \in Request : PInv(r)' /\ FreedInv(r)'
<1>1. PTypes'
    BY Zenon DEF HandoffInv, PTypes, pSched, pPipe, pWorker
<1>2. ASSUME NEW r \in Request PROVE PInv(r)'
    <2>1. PInv(r) /\ (HandedOver(r)' <=> HandedOver(r))
        BY Zenon DEF HandoffInv, HandedOver
    <2> QED BY ZenonT(60), <2>1 DEF PInv, pSched, pPipe, pWorker
<1>3. ASSUME NEW r \in Request PROVE FreedInv(r)'
    <2>1. FreedInv(r) /\ (HandedOver(r)' <=> HandedOver(r)) /\ (ReadOrExpired(r) => ReadOrExpired(r)')
        BY Zenon DEF HandoffInv, HandedOver, ReadOrExpired
    <2> QED BY Zenon, <2>1 DEF FreedInv, pSched, pPipe, pWorker
<1> QED BY Zenon, <1>1, <1>2, <1>3

LEMMA SameDecoder ==
    ASSUME HandoffInv, UNCHANGED <<dSched, dPipe, agents, handshake, callbacks, ready, dWorker, good>>,
           expired \subseteq expired'
    PROVE  DTypes' /\ DSets' /\ \A r \in Request : DInv(r)' /\ ValidInv(r)'
<1>1. DTypes' /\ DSets'
    BY Zenon DEF HandoffInv, DTypes, DSets, dSched, dPipe, dWorker
<1>2. ASSUME NEW r \in Request PROVE DInv(r)'
    <2>1. DInv(r)
        BY Zenon DEF HandoffInv
    <2> QED BY ZenonT(60), <2>1 DEF DInv, InStep, Holds, Collected, dSched, dPipe, dWorker
<1>3. ASSUME NEW r \in Request PROVE ValidInv(r)'
    <2>1. ValidInv(r) /\ (ReadOrExpired(r) => ReadOrExpired(r)')
        BY Zenon DEF HandoffInv, ReadOrExpired
    <2>2. FailureKnown(r)' <=> FailureKnown(r)
        BY Zenon DEF FailureKnown, dSched, dPipe, dWorker
    <2> QED BY Zenon, <2>1, <2>2
            DEF ValidInv, InStep, Collected, dSched, dPipe, dWorker
<1> QED BY Zenon, <1>1, <1>2, <1>3

LEMMA PStepKeepsD ==
    ASSUME HandoffInv, UNCHANGED <<dSched, dPipe, handshakeVars, dWorker, good>>,
           expired \subseteq expired'
    PROVE  DTypes' /\ DSets' /\ \A r \in Request : DInv(r)' /\ ValidInv(r)'
BY Zenon, SameDecoder DEF handshakeVars

-----------------------------------------------------------------------------
(* The steps of P *)

LEMMA PScheduleKeeps == ASSUME HandoffInv, PSchedule PROVE HandoffInv'
<1>0. PTypes /\ \A r \in Request : PInv(r) /\ FreedInv(r)
    BY Zenon DEF HandoffInv
<1>1. PICK batch \in SUBSET {r \in Request : pReq[r] = "new"} :
          /\ pReq' = Set(pReq, batch, "running")
          /\ pSteps' = Append(pSteps, [inBatch |-> batch, notProcessed |-> notProcessed,
                                       toSend |-> needSend,
                                       ran |-> {r \in Request : pReq'[r] = "running"}])
    BY Zenon DEF PSchedule
<1>2. /\ notProcessed' = {} /\ needSend' = {} /\ ~crashed'
      /\ UNCHANGED <<pRunning, pOutputs, pWorker, dSched, dPipe, handshakeVars, dWorker, history>>
    BY Zenon DEF PSchedule, HandoffInv
<1> DEFINE e == [inBatch |-> batch, notProcessed |-> notProcessed, toSend |-> needSend,
                 ran |-> {r \in Request : pReq'[r] = "running"}]
<1>3. e \in PStep /\ pSteps \in Seq(PStep)
    BY Zenon, <1>0 DEF PTypes, PStep
<1>4. e.inBatch = batch /\ e.notProcessed = notProcessed /\ e.toSend = needSend
    BY Zenon
<1> HIDE DEF e
<1>5. /\ pSteps' \in Seq(PStep) /\ Len(pSteps') = Len(pSteps) + 1 /\ Len(pSteps) \in Nat
      /\ \A i \in DOMAIN pSteps : i # Len(pSteps) + 1
      /\ \A i \in DOMAIN pSteps' : \/ i \in DOMAIN pSteps /\ pSteps'[i] = pSteps[i]
                                   \/ i = Len(pSteps) + 1 /\ pSteps'[i] = e
    BY SMTT(120), <1>1, <1>3, AppendEntries DEF e
<1>6. \A r \in Request : pReq'[r] = IF r \in batch THEN "running" ELSE pReq[r]
    BY Zenon, <1>1 DEF Set
<1>7. PTypes'
    <2>1. pReq' \in [Request -> {"new", "running", "sending", "gone"}]
        BY Zenon, <1>0, <1>1 DEF PTypes, Set
    <2>2. Len(pSteps') + Len(pRunning') + Len(pOutputs') <= PDepth
        <3>1. Len(pSteps) + Len(pRunning) + Len(pOutputs) < PDepth
            BY Zenon DEF PSchedule, Room
        <3>2. Len(pRunning) \in Nat /\ Len(pOutputs) \in Nat
            BY SMTT(120), <1>0 DEF PTypes
        <3> QED BY SMTT(120), <1>2, <1>5, <3>1, <3>2, HandoffAssumption
    <2> QED BY Zenon, <1>0, <1>2, <1>5, <2>1, <2>2 DEF PTypes, pWorker, history
<1>8. DTypes' /\ DSets' /\ \A r \in Request : DInv(r)' /\ ValidInv(r)'
    BY Zenon, <1>2, PStepKeepsD DEF history
<1>9. ASSUME NEW r \in Request PROVE PInv(r)'
    <2>1. PInv(r) /\ (HandedOver(r)' <=> HandedOver(r))
        BY Zenon, <1>0, <1>2 DEF HandedOver, dSched
    <2> DEFINE last == Len(pSteps) + 1
    <2>2. /\ \A i \in DOMAIN pSteps : i # last
          /\ \A i \in DOMAIN pSteps' :
                \/ i \in DOMAIN pSteps /\ pSteps'[i] = pSteps[i]
                \/ /\ i = last /\ pSteps'[i].inBatch = batch
                   /\ pSteps'[i].notProcessed = notProcessed /\ pSteps'[i].toSend = needSend
        BY Zenon, <1>4, <1>5
    <2> HIDE DEF last
    <2>3. /\ toProcess' = toProcess /\ toSend' = toSend /\ notifs' = notifs /\ pOutputs' = pOutputs
          /\ needSend' = {} /\ notProcessed' = {}
        BY Zenon, <1>2 DEF pWorker
    <2>4. CASE r \in batch
        <3>1. pReq[r] = "new" /\ pReq'[r] = "running"
            BY Zenon, <1>1, <1>6, <2>4
        <3>2. /\ r \notin toProcess /\ \A i \in DOMAIN pSteps : r \notin pSteps[i].inBatch
              /\ \A k \in DOMAIN pOutputs : r \notin pOutputs[k].sent
              /\ ~HandedOver(r) /\ r \notin notProcessed
              /\ \A i \in DOMAIN pSteps : r \notin pSteps[i].notProcessed
            BY Zenon, <2>1, <3>1 DEF PInv
        <3> QED BY ZenonT(120), <2>1, <2>2, <2>3, <3>1, <3>2 DEF PInv
    <2>5. CASE r \notin batch
        <3>1. pReq'[r] = pReq[r]
            BY Zenon, <1>6, <2>5
        <3> QED BY ZenonT(120), <2>1, <2>2, <2>3, <2>5, <3>1 DEF PInv
    <2> QED BY Zenon, <2>4, <2>5
<1>10. ASSUME NEW r \in Request PROVE FreedInv(r)'
    <2>1. /\ FreedInv(r) /\ (HandedOver(r)' <=> HandedOver(r))
          /\ ReadOrExpired(r)' = ReadOrExpired(r)
        BY Zenon, <1>0, <1>2 DEF HandedOver, ReadOrExpired, dSched, history
    <2> QED BY Zenon, <1>2, <1>6, <2>1 DEF FreedInv, pWorker
<1> QED BY Zenon, <1>2, <1>7, <1>8, <1>9, <1>10 DEF HandoffInv

LEMMA PAbortKeeps == ASSUME HandoffInv, NEW q \in Request, PAbort(q) PROVE HandoffInv'
<1>0. PTypes /\ \A r \in Request : PInv(r) /\ FreedInv(r)
    BY Zenon DEF HandoffInv
<1>1. /\ pReq[q] \in {"new", "running"} /\ pReq' = [pReq EXCEPT ![q] = "gone"]
      /\ notProcessed' = notProcessed \cup {q} /\ ~crashed'
      /\ UNCHANGED <<needSend, pPipe, pWorker, dSched, dPipe, handshakeVars, dWorker, history>>
    BY Zenon DEF PAbort, HandoffInv
<1>2. PTypes'
    BY Zenon, <1>0, <1>1 DEF PTypes, pPipe, pWorker, history
<1>3. DTypes' /\ DSets' /\ \A r \in Request : DInv(r)' /\ ValidInv(r)'
    BY Zenon, <1>1, PStepKeepsD DEF history
<1>4. ASSUME NEW r \in Request PROVE PInv(r)' /\ FreedInv(r)'
    <2>1. PInv(r) /\ FreedInv(r) /\ (HandedOver(r)' <=> HandedOver(r))
          /\ ReadOrExpired(r)' = ReadOrExpired(r)
        BY Zenon, <1>0, <1>1 DEF HandedOver, ReadOrExpired, dSched, history
    <2>2. pReq'[r] = IF r = q THEN "gone" ELSE pReq[r]
        BY Zenon, <1>0, <1>1 DEF PTypes
    <2>3. r = q => ~HandedOver(r)
        BY Zenon, <1>1, <2>1 DEF PInv
    <2>4. PInv(r)'
        BY SMTT(120), <1>1, <2>1, <2>2, <2>3 DEF PInv, pPipe, pWorker
    <2>5. FreedInv(r)'
        BY Zenon, <1>1, <2>1, <2>2, <2>3 DEF FreedInv, pPipe, pWorker
    <2> QED BY Zenon, <2>4, <2>5
<1> QED BY Zenon, <1>1, <1>2, <1>3, <1>4 DEF HandoffInv

LEMMA TimeoutKeeps == ASSUME HandoffInv, NEW q \in Request, Timeout(q) PROVE HandoffInv'
<1>0. PTypes /\ \A r \in Request : PInv(r) /\ FreedInv(r)
    BY DEF HandoffInv
<1>1. /\ q \in toSend /\ overdue' = overdue \cup {q} /\ ~crashed'
      /\ UNCHANGED <<pSched, pPipe, toProcess, toSend, notifs, dSched, dPipe, handshakeVars,
                     dWorker, history>>
    BY Zenon DEF Timeout, HandoffInv
<1>2. PTypes'
    BY Zenon, <1>0, <1>1 DEF PTypes, pSched, pPipe, history
<1>3. DTypes' /\ DSets' /\ \A r \in Request : DInv(r)' /\ ValidInv(r)'
    BY Zenon, <1>1, PStepKeepsD DEF history
<1>4. ASSUME NEW r \in Request PROVE PInv(r)' /\ FreedInv(r)'
    <2>1. PInv(r) /\ FreedInv(r) /\ (HandedOver(r)' <=> HandedOver(r))
          /\ ReadOrExpired(r)' = ReadOrExpired(r)
        BY Zenon, <1>0, <1>1 DEF HandedOver, ReadOrExpired, dSched, history
    <2> QED BY ZenonT(60), <1>1, <2>1 DEF PInv, FreedInv, pSched, pPipe
<1> QED BY Zenon, <1>1, <1>2, <1>3, <1>4 DEF HandoffInv

\* A request that P gave up is in no set of its worker, so the assertion in
\* start_load_kv holds.
LEMMA PStartLoadKeeps == ASSUME HandoffInv, PStartLoad PROVE HandoffInv'
<1>0. PTypes /\ \A r \in Request : PInv(r) /\ FreedInv(r)
    BY DEF HandoffInv
<1> DEFINE step == Head(pSteps)
           known == (toProcess \cup step.inBatch) \ step.notProcessed
<1>1. /\ pSteps # << >> /\ pRunning = << >> /\ pRunning' = <<step>>
      /\ toProcess' = known /\ toSend' = toSend \cup (step.toSend \cap known)
      /\ crashed' = (step.notProcessed \cap toSend # {}) /\ pSteps' = Tail(pSteps)
      /\ UNCHANGED <<pSched, pOutputs, overdue, notifs, dSched, dPipe, handshakeVars, dWorker,
                     history>>
    BY Zenon DEF PStartLoad, ToSendNow
<1>2. /\ step = pSteps[1] /\ step \in PStep /\ 1 \in DOMAIN pSteps /\ pSteps' \in Seq(PStep)
      /\ Len(pSteps') = Len(pSteps) - 1 /\ Len(pSteps) \in Nat
      /\ \A i \in DOMAIN pSteps' :
            i \in Nat /\ i >= 1 /\ i + 1 \in DOMAIN pSteps /\ pSteps'[i] = pSteps[i + 1]
    BY ZenonT(60), <1>0, <1>1, TailEntries DEF PTypes
<1>3. ASSUME NEW r \in Request, r \in step.notProcessed PROVE r \notin toSend
    BY Zenon, <1>0, <1>2, <1>3 DEF PInv
<1>4. ~crashed' /\ toSend \cap step.notProcessed = {}
    <2>1. step.notProcessed \subseteq Request
        BY Zenon, <1>2 DEF PStep
    <2> QED BY Zenon, <1>1, <1>3, <2>1
<1>5. PTypes'
    <2>1. known \subseteq Request /\ toSend' \subseteq known /\ overdue' \subseteq toSend'
        BY Zenon, <1>0, <1>1, <1>2, <1>4 DEF PTypes, PStep
    <2>2. <<step>> \in Seq(PStep) /\ Len(<<step>>) = 1
        BY SMTT(120), <1>2
    <2>3. Len(pSteps') + Len(pRunning') + Len(pOutputs') <= PDepth
        <3>1. Len(pRunning) = 0 /\ Len(pOutputs) \in Nat
            BY SMTT(120), <1>0, <1>1 DEF PTypes
        <3>2. Len(pSteps) + 0 + Len(pOutputs) <= PDepth
            BY Zenon, <1>0, <3>1 DEF PTypes
        <3> QED BY SMTT(120), <1>1, <1>2, <2>2, <3>1, <3>2, HandoffAssumption
    <2> QED BY Zenon, <1>0, <1>1, <1>2, <2>1, <2>2, <2>3 DEF PTypes, pSched, history
<1>6. DTypes' /\ DSets' /\ \A r \in Request : DInv(r)' /\ ValidInv(r)'
    BY Zenon, <1>1, PStepKeepsD DEF history
<1>7. ASSUME NEW r \in Request PROVE PInv(r)' /\ FreedInv(r)'
    <2>1. PInv(r) /\ FreedInv(r) /\ (HandedOver(r)' <=> HandedOver(r))
          /\ ReadOrExpired(r)' = ReadOrExpired(r)
        BY Zenon, <1>0, <1>1 DEF HandedOver, ReadOrExpired, dSched, history
    <2>2. UNCHANGED <<pReq, notProcessed, needSend, pOutputs, notifs>>
        BY Zenon, <1>1 DEF pSched
    <2>3. r \in toSend' => r \in toSend \/ r \in pSteps[1].toSend
        BY Zenon, <1>1, <1>2
    <2>4. /\ r \in toProcess' => r \in toProcess \/ r \in pSteps[1].inBatch
          /\ \A i \in DOMAIN pSteps' : r \in pSteps'[i].inBatch => r \notin pSteps[1].inBatch
        <3>1. \A i \in DOMAIN pSteps' : i + 1 # 1
            BY SMTT(120), <1>2
        <3>2. \A i, j \in DOMAIN pSteps :
                r \in pSteps[i].inBatch /\ r \in pSteps[j].inBatch => i = j
            BY Zenon, <2>1 DEF PInv
        <3> QED BY Zenon, <1>1, <1>2, <3>1, <3>2
    <2>5. \A i, j \in DOMAIN pSteps' : r \in pSteps'[i].inBatch /\ r \in pSteps'[j].inBatch => i = j
        <3>1. \A i, j \in DOMAIN pSteps :
                r \in pSteps[i].inBatch /\ r \in pSteps[j].inBatch => i = j
            BY SMTT(120), <2>1 DEF PInv
        <3>2. \A i, j \in DOMAIN pSteps' : i + 1 = j + 1 => i = j
            BY SMTT(120), <1>2
        <3> QED BY Zenon, <1>2, <3>1, <3>2
    <2>6. PInv(r)'
        BY ZenonT(60), <1>2, <2>1, <2>2, <2>3, <2>4, <2>5 DEF PInv
    <2>7. FreedInv(r)'
        BY Zenon, <2>1, <2>2 DEF FreedInv
    <2> QED BY Zenon, <2>6, <2>7
<1> QED BY Zenon, <1>4, <1>5, <1>6, <1>7 DEF HandoffInv

\* What get_finished takes out of _reqs_to_process is there, and is still held.
LEMMA PGetFinishedKeeps == ASSUME HandoffInv, PGetFinished PROVE HandoffInv'
<1>0. PTypes /\ \A r \in Request : PInv(r) /\ FreedInv(r)
    BY Zenon DEF HandoffInv
<1> DEFINE late == (toSend \ Notified) \cap overdue
           over == Notified \cup late
           e == [sent |-> over, ran |-> pRunning[1].ran]
<1>1. /\ pRunning # << >> /\ pRunning' = << >> /\ notifs' = {}
      /\ toProcess' = toProcess \ over /\ toSend' = toSend \ over /\ overdue' = overdue \ over
      /\ crashed' = ~(over \subseteq toProcess)
      /\ expired' = expired \cup late
      /\ pOutputs' = Append(pOutputs, e)
      /\ UNCHANGED <<pSched, pSteps, dSched, dPipe, handshakeVars, dWorker, good>>
    BY Zenon DEF PGetFinished
<1>2. over \subseteq toProcess /\ over \subseteq notifs \cup toSend /\ late \subseteq Request
      /\ over \subseteq Request /\ over \subseteq notifs \cup late
    BY Zenon, <1>0 DEF Notified, PTypes
<1>3. e \in POutput /\ pOutputs \in Seq(POutput) /\ e.sent = over
    <2>1. pRunning[1] \in PStep
        BY Zenon, <1>0, <1>1, TailEntries DEF PTypes
    <2>2. pRunning[1].ran \in SUBSET Request
        BY Zenon, <2>1 DEF PStep
    <2> HIDE DEF over
    <2> QED BY Zenon, <1>0, <1>2, <2>2 DEF PTypes, POutput
<1> HIDE DEF e, over, late
<1>4. /\ pOutputs' \in Seq(POutput) /\ Len(pOutputs') = Len(pOutputs) + 1 /\ Len(pOutputs) \in Nat
      /\ \A i \in DOMAIN pOutputs : i # Len(pOutputs) + 1
      /\ \A i \in DOMAIN pOutputs' : \/ i \in DOMAIN pOutputs /\ pOutputs'[i] = pOutputs[i]
                                     \/ i = Len(pOutputs) + 1 /\ pOutputs'[i] = e
    <2>1. pOutputs' = Append(pOutputs, e)
        BY Zenon, <1>1
    <2>2. pOutputs \in Seq(POutput) /\ e \in POutput
        BY Zenon, <1>3
    <2>3. /\ Append(pOutputs, e) \in Seq(POutput) /\ Len(Append(pOutputs, e)) = Len(pOutputs) + 1
          /\ Len(pOutputs) \in Nat
        BY Zenon, <2>2, AppendEntries
    <2>4. \A i \in DOMAIN pOutputs : i \in 1 .. Len(pOutputs)
        BY Zenon, <2>2, AppendEntries
    <2>5. \A i \in DOMAIN pOutputs : i # Len(pOutputs) + 1
        BY SMTT(120), <2>3, <2>4
    <2>6. \A i \in DOMAIN Append(pOutputs, e) :
             \/ i \in DOMAIN pOutputs /\ Append(pOutputs, e)[i] = pOutputs[i]
             \/ i = Len(pOutputs) + 1 /\ Append(pOutputs, e)[i] = e
        BY ZenonT(60), <2>2, AppendEntries
    <2> QED BY Zenon, <2>1, <2>3, <2>5, <2>6
<1>5. PTypes'
    <2>1. Len(pSteps') + Len(pRunning') + Len(pOutputs') <= PDepth
        <3>1. Len(pSteps) \in Nat /\ Len(pRunning) \in Nat /\ Len(pRunning) > 0 /\ Len(pRunning') = 0
            BY SMTT(120), <1>0, <1>1 DEF PTypes
        <3>2. Len(pSteps) + Len(pRunning) + Len(pOutputs) <= PDepth
            BY Zenon, <1>0 DEF PTypes
        <3> QED BY SMTT(120), <1>1, <1>4, <3>1, <3>2, HandoffAssumption
    <2>2. /\ toProcess' \subseteq Request /\ toSend' \subseteq toProcess' /\ overdue' \subseteq toSend'
          /\ notifs' \subseteq Request /\ expired' \subseteq Request
        BY Zenon, <1>0, <1>1, <1>2 DEF PTypes
    <2>3. pRunning' \in Seq(PStep)
        BY SMTT(120), <1>1
    <2> QED BY Zenon, <1>0, <1>1, <1>4, <2>1, <2>2, <2>3 DEF PTypes, pSched
<1>6. DTypes' /\ DSets' /\ \A r \in Request : DInv(r)' /\ ValidInv(r)'
    BY Zenon, <1>1, PStepKeepsD
<1>7. ASSUME NEW r \in Request PROVE PInv(r)' /\ FreedInv(r)'
    <2>1. /\ PInv(r) /\ FreedInv(r) /\ (HandedOver(r)' <=> HandedOver(r))
          /\ ReadOrExpired(r) => ReadOrExpired(r)'
        BY Zenon, <1>0, <1>1 DEF HandedOver, ReadOrExpired, dSched
    <2>2. r \in over => r \in toProcess /\ HandedOver(r) /\ pReq[r] = "sending"
        BY Zenon, <1>2, <2>1 DEF PInv
    <2>3. r \in over => ReadOrExpired(r)'
        BY Zenon, <1>1, <1>2, <2>1 DEF FreedInv, ReadOrExpired
    <2>4. PInv(r)'
        <3>1. /\ r \in over => \A k \in DOMAIN pOutputs : r \notin pOutputs[k].sent
              /\ r \in over => \A i \in DOMAIN pSteps : r \notin pSteps[i].inBatch
            BY Zenon, <2>1, <2>2 DEF PInv
        <3>2. /\ r \in toProcess' => r \in toProcess /\ r \notin over
              /\ r \in toSend' => r \in toSend
            BY Zenon, <1>1
        <3>3. \A k \in DOMAIN pOutputs' : r \in pOutputs'[k].sent =>
                 \/ k \in DOMAIN pOutputs /\ r \in pOutputs[k].sent /\ r \notin over
                 \/ k = Len(pOutputs) + 1 /\ r \in over
            BY Zenon, <1>3, <1>4, <3>1
        <3>4. UNCHANGED <<pReq, notProcessed, needSend, pSteps>> /\ r \notin notifs'
            BY Zenon, <1>1 DEF pSched
        <3> QED BY ZenonT(60), <2>1, <2>2, <3>1, <3>2, <3>3, <3>4 DEF PInv
    <2>5. FreedInv(r)'
        BY Zenon, <1>1, <1>3, <1>4, <2>1, <2>3 DEF FreedInv, pSched
    <2> QED BY Zenon, <2>4, <2>5
<1> QED BY Zenon, <1>1, <1>2, <1>5, <1>6, <1>7 DEF HandoffInv

\* What is freed was held, and once.
LEMMA PUpdateKeeps == ASSUME HandoffInv, PUpdate PROVE HandoffInv'
<1>0. PTypes /\ DTypes /\ DSets /\ \A r \in Request : PInv(r) /\ FreedInv(r) /\ DInv(r) /\ ValidInv(r)
    BY Zenon DEF HandoffInv
<1> DEFINE out == Head(pOutputs)
<1>1. PICK done \in SUBSET {r \in out.ran : pReq[r] = "running"} :
          /\ pReq' = Set(Set(pReq, done, "sending"), out.sent, "gone")
          /\ dReq' = Set(dReq, done, "arrived")
          /\ needSend' = needSend \cup done
          /\ crashed' = (\E r \in out.sent : pReq[r] = "gone")
    BY Zenon DEF PUpdate
<1>2. /\ pOutputs # << >> /\ pOutputs' = Tail(pOutputs)
      /\ UNCHANGED <<notProcessed, pSteps, pRunning, pWorker, needRecv, dPipe, handshakeVars,
                     dWorker, history>>
    BY Zenon DEF PUpdate
<1>3. /\ out = pOutputs[1] /\ out \in POutput /\ 1 \in DOMAIN pOutputs
      /\ pOutputs' \in Seq(POutput)
      /\ Len(pOutputs') = Len(pOutputs) - 1 /\ Len(pOutputs) \in Nat
      /\ \A i \in DOMAIN pOutputs' :
            i \in Nat /\ i >= 1 /\ i + 1 \in DOMAIN pOutputs /\ pOutputs'[i] = pOutputs[i + 1]
    BY SMTT(120), <1>0, <1>2, TailEntries DEF PTypes
<1>4. done \subseteq Request /\ out.sent \subseteq Request
    BY Zenon, <1>3 DEF POutput
<1> DEFINE sent == out.sent
<1>5. ASSUME NEW r \in Request
      PROVE  /\ r \in sent => pReq[r] = "sending" /\ r \notin done
             /\ r \in done => pReq[r] = "running" /\ ~HandedOver(r)
             /\ pReq'[r] = IF r \in sent THEN "gone" ELSE IF r \in done THEN "sending" ELSE pReq[r]
             /\ dReq'[r] = IF r \in done THEN "arrived" ELSE dReq[r]
    <2>1. PInv(r)
        BY Zenon, <1>0
    <2>2. r \in sent => pReq[r] = "sending"
        BY Zenon, <1>3, <2>1 DEF PInv
    <2>3. r \in done => pReq[r] = "running"
        BY Zenon
    <2>4. r \in done => ~HandedOver(r)
        BY Zenon, <2>1, <2>3 DEF PInv
    <2> QED BY Zenon, <1>1, <2>2, <2>3, <2>4 DEF Set
<1>6. ~crashed'
    BY Zenon, <1>1, <1>4, <1>5
<1> HIDE DEF out, sent
<1>7. PTypes'
    <2>1. pReq' \in [Request -> {"new", "running", "sending", "gone"}]
        BY Zenon, <1>0, <1>1 DEF PTypes, Set
    <2>2. Len(pSteps') + Len(pRunning') + Len(pOutputs') <= PDepth
        <3>1. Len(pSteps) \in Nat /\ Len(pRunning) \in Nat
            BY SMTT(120), <1>0 DEF PTypes
        <3>2. Len(pSteps) + Len(pRunning) + Len(pOutputs) <= PDepth
            BY Zenon, <1>0 DEF PTypes
        <3> QED BY SMTT(120), <1>2, <1>3, <3>1, <3>2, HandoffAssumption
    <2> QED BY Zenon, <1>0, <1>1, <1>2, <1>3, <1>4, <2>1, <2>2 DEF PTypes, pWorker, history
<1>8. DTypes' /\ DSets'
    <2>1. dReq' \in [Request -> {"none", "arrived", "loading", "aborting", "received",
                                 "running", "gone"}]
        BY Zenon, <1>0, <1>1 DEF DTypes, Set
    <2> QED BY Zenon, <1>0, <1>2, <2>1 DEF DTypes, DSets, dPipe, handshakeVars, dWorker, history
<1>9. ASSUME NEW r \in Request PROVE PInv(r)' /\ FreedInv(r)'
    <2>1. PInv(r) /\ FreedInv(r) /\ ReadOrExpired(r)' = ReadOrExpired(r)
        BY Zenon, <1>0, <1>2 DEF ReadOrExpired, history
    <2>2. HandedOver(r)' <=> HandedOver(r) \/ r \in done
        BY Zenon, <1>5 DEF HandedOver
    <2>3. /\ UNCHANGED <<notProcessed, pSteps, toProcess, toSend, notifs>>
          /\ r \in needSend' => r \in needSend \/ r \in done
        BY Zenon, <1>1, <1>2 DEF pWorker
    <2>4. \A i \in DOMAIN pOutputs' : r \in pOutputs'[i].sent => r \notin sent
        <3>1. \A i \in DOMAIN pOutputs' : i + 1 # 1
            BY SMTT(120), <1>3
        <3>2. \A i, j \in DOMAIN pOutputs :
                r \in pOutputs[i].sent /\ r \in pOutputs[j].sent => i = j
            BY Zenon, <2>1 DEF PInv
        <3> QED BY Zenon, <1>3, <3>1, <3>2 DEF sent
    <2>5. \A i, j \in DOMAIN pOutputs' : r \in pOutputs'[i].sent /\ r \in pOutputs'[j].sent => i = j
        <3>1. \A i, j \in DOMAIN pOutputs :
                r \in pOutputs[i].sent /\ r \in pOutputs[j].sent => i = j
            BY SMTT(120), <2>1 DEF PInv
        <3>2. \A i, j \in DOMAIN pOutputs' : i + 1 = j + 1 => i = j
            BY SMTT(120), <1>3
        <3> QED BY ZenonT(60), <1>3, <3>1, <3>2
    <2>6. r \in sent => r \in pOutputs[1].sent
        BY Zenon, <1>3 DEF sent
    <2>7. \A i \in DOMAIN pOutputs' : r \in pOutputs'[i].sent =>
              \E j \in DOMAIN pOutputs : r \in pOutputs[j].sent
        BY Zenon, <1>3
    <2>8. PInv(r)'
        <3>1. CASE r \in sent
            BY ZenonT(60), <1>3, <1>5, <2>1, <2>2, <2>3, <2>4, <2>6, <3>1 DEF PInv
        <3>2. CASE r \in done
            BY ZenonT(120), <1>5, <2>1, <2>2, <2>3, <2>5, <2>7, <3>2 DEF PInv
        <3>3. CASE r \notin sent \cup done
            BY ZenonT(60), <1>5, <2>1, <2>2, <2>3, <2>5, <2>7, <3>3 DEF PInv
        <3> QED BY Zenon, <3>1, <3>2, <3>3
    <2>9. FreedInv(r)'
        BY Zenon, <1>3, <1>5, <2>1, <2>2, <2>3, <2>6, <2>7 DEF FreedInv
    <2> QED BY Zenon, <2>8, <2>9
<1>10. ASSUME NEW r \in Request PROVE DInv(r)' /\ ValidInv(r)'
    <2>1. DInv(r) /\ ValidInv(r) /\ ReadOrExpired(r)' = ReadOrExpired(r)
        BY Zenon, <1>0, <1>2 DEF ReadOrExpired, history
    <2>2. CASE r \notin done
        <3>1. dReq'[r] = dReq[r]
            BY Zenon, <1>5, <2>2
        <3>2. DInv(r)'
            BY ZenonT(60), <1>2, <2>1, <3>1 DEF DInv, InStep, Holds, Collected, dPipe, handshakeVars, dWorker
        <3>3. FailureKnown(r)' <=> FailureKnown(r)
            BY Zenon, <1>2, <3>1 DEF FailureKnown, dPipe, dWorker
        <3>4. ValidInv(r)'
            BY Zenon, <1>2, <2>1, <3>1, <3>3
               DEF ValidInv, InStep, Collected, dPipe, handshakeVars, dWorker, history
        <3> QED BY SMTT(120), <3>2, <3>4
    <2>3. CASE r \in done
        <3>1. dReq[r] = "none" /\ dReq'[r] = "arrived"
            BY Zenon, <1>5, <2>3 DEF HandedOver
        <3>2. /\ r \notin recvMeta /\ \A i \in DOMAIN dSteps : ~InStep(r, i)
              /\ \A k \in DOMAIN dOutputs : r \notin dOutputs[k].recvd
            BY Zenon, <2>1, <3>1 DEF DInv, Holds
        <3>3. /\ dSteps' = dSteps /\ dOutputs' = dOutputs /\ recvMeta' = recvMeta /\ xfer' = xfer
              /\ handshake' = handshake /\ callbacks' = callbacks /\ ready' = ready
              /\ failedRecv' = failedRecv /\ collected' = collected
            BY Zenon, <1>2 DEF dPipe, handshakeVars, dWorker
        <3>4. callbacks[r] = "none" /\ xfer[r] = "none" /\ ~Collected(r) /\ r \notin good
            BY Zenon, <2>1, <3>1, <3>2 DEF DInv, ValidInv
        <3>6. ~Collected(r)' /\ \A i \in DOMAIN dSteps' : ~InStep(r, i)'
            BY Zenon, <3>2, <3>3, <3>4 DEF Collected, InStep
        <3>7. r \notin handshake /\ r \notin ready
            BY Zenon, <2>1, <3>2 DEF DInv
        <3>8. DInv(r)'
            BY Zenon, <3>2, <3>3, <3>4, <3>6, <3>7 DEF DInv
        <3>5. ValidInv(r)'
            BY Zenon, <1>2, <3>1, <3>2, <3>4
               DEF ValidInv, Collected, dPipe, handshakeVars, dWorker, history
        <3> QED BY Zenon, <3>5, <3>8
    <2> QED BY Zenon, <2>2, <2>3
<1> QED BY Zenon, <1>6, <1>7, <1>8, <1>9, <1>10 DEF HandoffInv

-----------------------------------------------------------------------------
(* The steps of D *)

LEMMA DScheduleKeeps == ASSUME HandoffInv, DSchedule PROVE HandoffInv'
<1>0. PTypes /\ DTypes /\ DSets /\ \A r \in Request : DInv(r) /\ ValidInv(r)
    BY Zenon DEF HandoffInv
<1>1. PICK load \in SUBSET {r \in Request : dReq[r] = "arrived"} :
          /\ dReq' = Set(Set(dReq, load, "loading"),
                         {r \in Request : dReq[r] = "received"}, "running")
          /\ dSteps' = Append(dSteps, needRecv \cup (load \X {Blocks}))
    BY Zenon DEF DSchedule
<1>2. /\ needRecv' = {} /\ ~crashed'
      /\ UNCHANGED <<pSched, pPipe, pWorker, dRunning, dOutputs, handshakeVars, dWorker, history>>
    BY Zenon DEF DSchedule, HandoffInv
<1> DEFINE e == load \X {Blocks}
<1>3. e \in DStep /\ dSteps \in Seq(DStep) /\ dSteps' = Append(dSteps, e)
    BY Zenon, <1>0, <1>1 DEF DTypes, DStep
<1>4. \A r : <<r, Blocks>> \in e <=> r \in load
    BY Zenon
<1> HIDE DEF e
<1>5. /\ dSteps' \in Seq(DStep) /\ Len(dSteps') = Len(dSteps) + 1 /\ Len(dSteps) \in Nat
      /\ \A i \in DOMAIN dSteps : i # Len(dSteps) + 1
      /\ \A i \in DOMAIN dSteps' : \/ i \in DOMAIN dSteps /\ dSteps'[i] = dSteps[i]
                                   \/ i = Len(dSteps) + 1 /\ dSteps'[i] = e
    BY SMTT(120), <1>3, AppendEntries
<1>6. \A r \in Request : dReq'[r] = IF r \in load THEN "loading"
                                    ELSE IF dReq[r] = "received" THEN "running" ELSE dReq[r]
    BY Zenon, <1>1 DEF Set
<1>7. PTypes' /\ \A r \in Request : PInv(r)' /\ FreedInv(r)'
    <2>1. \A r \in Request : dReq'[r] = "none" <=> dReq[r] = "none"
        BY Zenon, <1>6
    <2> QED BY Zenon, <1>2, <2>1, DStepKeepsP DEF history
<1>8. DTypes' /\ DSets'
    <2>1. dReq' \in [Request -> {"none", "arrived", "loading", "aborting", "received",
                                 "running", "gone"}]
        BY Zenon, <1>0, <1>1 DEF DTypes, Set
    <2>2. Len(dSteps') + Len(dRunning') + Len(dOutputs') <= DDepth
        <3>1. Len(dSteps) + Len(dRunning) + Len(dOutputs) < DDepth
            BY Zenon DEF DSchedule, Room
        <3>2. Len(dRunning) \in Nat /\ Len(dOutputs) \in Nat
            <4>1. dRunning \in Seq(DStep) /\ dOutputs \in Seq(DOutput)
                BY Zenon, <1>0 DEF DTypes
            <4> QED BY SMTT(120), <4>1
        <3> QED BY SMTT(120), <1>2, <1>5, <3>1, <3>2, HandoffAssumption
    <2> QED BY Zenon, <1>0, <1>2, <1>5, <2>1, <2>2 DEF DTypes, DSets, handshakeVars, dWorker, history
<1>9. ASSUME NEW r \in Request PROVE DInv(r)' /\ ValidInv(r)'
    <2>1. DInv(r) /\ ValidInv(r) /\ ReadOrExpired(r)' = ReadOrExpired(r)
        BY Zenon, <1>0, <1>2 DEF ReadOrExpired, history
    <2>2. \A i \in DOMAIN dSteps' : InStep(r, i)' =>
             \/ i \in DOMAIN dSteps /\ InStep(r, i)
             \/ i = Len(dSteps) + 1 /\ r \in load
        BY Zenon, <1>4, <1>5 DEF InStep, Blocks
    <2>3. UNCHANGED <<dOutputs, recvMeta, handshake, callbacks, ready, xfer, failedRecv,
                      invalid, collected, good>> /\ Collected(r)' = Collected(r)
        BY Zenon, <1>2 DEF handshakeVars, dWorker, history, Collected
    <2>4. CASE r \notin load
        <3>1. Holds(r)' <=> Holds(r)
            BY Zenon, <1>6, <2>4 DEF Holds
        <3>2. DInv(r)'
            BY Zenon, <2>1, <2>2, <2>3, <2>4, <3>1 DEF DInv
        <3>3. FailureKnown(r)' <=> FailureKnown(r)
            BY Zenon, <1>6, <2>3, <2>4 DEF FailureKnown
        <3>4. ValidInv(r)'
            BY Zenon, <1>6, <2>1, <2>2, <2>3, <2>4, <3>3 DEF ValidInv
        <3> QED BY Zenon, <3>2, <3>4
    <2>5. CASE r \in load
        <3>1. dReq[r] = "arrived" /\ dReq'[r] = "loading" /\ Holds(r)'
            BY Zenon, <1>6, <2>5 DEF Holds
        <3>2. /\ r \notin recvMeta /\ \A i \in DOMAIN dSteps : ~InStep(r, i)
              /\ \A k \in DOMAIN dOutputs : r \notin dOutputs[k].recvd
            BY Zenon, <2>1, <3>1 DEF DInv, Holds
        <3>3. DInv(r)'
            BY ZenonT(60), <1>5, <2>1, <2>2, <2>3, <3>1, <3>2 DEF DInv
        <3>4. callbacks[r] = "none" /\ xfer[r] = "none" /\ ~Collected(r) /\ r \notin good
            BY Zenon, <2>1, <3>1, <3>2 DEF DInv, ValidInv
        <3>5. ValidInv(r)'
            BY Zenon, <2>3, <3>1, <3>2, <3>4 DEF ValidInv
        <3> QED BY SMTT(120), <3>3, <3>5
    <2> QED BY Zenon, <2>4, <2>5
<1> QED BY Zenon, <1>2, <1>7, <1>8, <1>9 DEF HandoffInv

LEMMA DAbortKeeps ==
    ASSUME ~MayAbortEarly, HandoffInv, NEW q \in Request, DAbort(q) PROVE HandoffInv'
<1>0. DTypes /\ DSets /\ \A r \in Request : DInv(r) /\ ValidInv(r)
    BY Zenon DEF HandoffInv
<1>1. /\ ~crashed' /\ needRecv' = needRecv
      /\ UNCHANGED <<pSched, pPipe, pWorker, dPipe, handshakeVars, dWorker, history>>
    BY Zenon DEF DAbort, HandoffInv
<1>2. \/ dReq[q] = "loading" /\ dReq' = [dReq EXCEPT ![q] = "aborting"]
      \/ dReq[q] \in {"received", "running"} /\ dReq' = [dReq EXCEPT ![q] = "gone"]
    BY Zenon DEF DAbort, LoadingAborted
<1>3. PTypes' /\ \A r \in Request : PInv(r)' /\ FreedInv(r)'
    <2>1. \A r \in Request : dReq'[r] = "none" <=> dReq[r] = "none"
        BY ZenonT(60), <1>0, <1>2 DEF DTypes
    <2> QED BY Zenon, <1>1, <2>1, DStepKeepsP DEF history
<1>4. DTypes' /\ DSets'
    BY Zenon, <1>0, <1>1, <1>2 DEF DTypes, DSets, dPipe, handshakeVars, dWorker, history
<1>5. ASSUME NEW r \in Request PROVE DInv(r)' /\ ValidInv(r)'
    <2>1. DInv(r) /\ ValidInv(r) /\ ReadOrExpired(r)' = ReadOrExpired(r)
        BY Zenon, <1>0, <1>1 DEF ReadOrExpired, history
    <2>2. \/ dReq'[r] = dReq[r]
          \/ dReq[r] = "loading" /\ dReq'[r] = "aborting"
          \/ dReq[r] \in {"received", "running"} /\ dReq'[r] = "gone"
        BY ZenonT(60), <1>0, <1>2 DEF DTypes
    <2>3. Holds(r)' <=> Holds(r)
        BY Zenon, <2>2 DEF Holds
    <2>4. DInv(r)'
        BY Zenon, <1>1, <2>1, <2>3 DEF DInv, InStep, Collected, dPipe, handshakeVars, dWorker
    <2>5. FailureKnown(r) => FailureKnown(r)'
        BY Zenon, <1>1, <2>2 DEF FailureKnown, dPipe, dWorker
    <2>6. ValidInv(r)'
        BY Zenon, <1>1, <2>1, <2>2, <2>5
           DEF ValidInv, InStep, Collected, dPipe, handshakeVars, dWorker, history
    <2> QED BY Zenon, <2>4, <2>6
<1> QED BY Zenon, <1>1, <1>3, <1>4, <1>5 DEF HandoffInv

\* A step asks for blocks (no request was aborted before it was scheduled), and
\* each load in it is new to the worker.
LEMMA DStartLoadKeeps == ASSUME HandoffInv, DStartLoad PROVE HandoffInv'
<1>0. DTypes /\ DSets /\ \A r \in Request : DInv(r) /\ ValidInv(r)
    BY Zenon DEF HandoffInv
<1> DEFINE step == Head(dSteps)
           new == {e[1] : e \in step}
           post == ready \cup (IF agents THEN new ELSE {})
<1>1. PICK fail \in SUBSET post :
          /\ xfer' = Set(xfer, post \ fail, "posted")
          /\ failedRecv' = failedRecv \cup fail
          /\ invalid' = invalid \cup fail
    BY Zenon DEF DStartLoad, PostFails
<1>2. /\ dSteps # << >> /\ dRunning = << >> /\ dRunning' = <<step>>
      /\ crashed' = (\E e \in step : e[2] = NoBlocks)
      /\ recvMeta' = recvMeta \cup new
      /\ handshake' = IF agents THEN handshake ELSE handshake \cup new
      /\ dSteps' = Tail(dSteps) /\ ready' = {}
      /\ UNCHANGED <<pSched, pPipe, pWorker, dSched, dOutputs, agents, callbacks, collected,
                     history>>
    BY Zenon DEF DStartLoad
<1>3. /\ step = dSteps[1] /\ step \in DStep /\ 1 \in DOMAIN dSteps /\ dSteps' \in Seq(DStep)
      /\ Len(dSteps') = Len(dSteps) - 1 /\ Len(dSteps) \in Nat
      /\ \A i \in DOMAIN dSteps' :
            i \in Nat /\ i >= 1 /\ i + 1 \in DOMAIN dSteps /\ dSteps'[i] = dSteps[i + 1]
    <2>1. dSteps \in Seq(DStep)
        BY Zenon, <1>0 DEF DTypes
    <2> QED BY ZenonT(60), <1>2, <2>1, TailEntries
<1>4. new \subseteq Request /\ \A r \in Request : r \in new <=> <<r, Blocks>> \in step
    BY SMTT(120), <1>3 DEF DStep
<1>5. ~crashed'
    BY Zenon, <1>2, <1>3 DEF DStep, Blocks, NoBlocks
<1> HIDE DEF step, new
<1>6. PTypes' /\ \A r \in Request : PInv(r)' /\ FreedInv(r)'
    BY Zenon, <1>2, DStepKeepsP DEF dSched, history
<1>7. post \subseteq Request
    BY Zenon, <1>0, <1>4 DEF DSets
<1>8. DTypes' /\ DSets'
    <2>1. xfer' \in [Request -> {"none", "posted", "done", "error"}]
        BY Zenon, <1>0, <1>1 DEF DTypes, Set
    <2>2. <<step>> \in Seq(DStep) /\ Len(<<step>>) = 1
        BY SMTT(120), <1>3
    <2>3. Len(dSteps') + Len(dRunning') + Len(dOutputs') <= DDepth
        <3>1. Len(dRunning) = 0 /\ Len(dOutputs) \in Nat
            <4>1. dOutputs \in Seq(DOutput)
                BY Zenon, <1>0 DEF DTypes
            <4> QED BY SMTT(120), <1>2, <4>1
        <3>2. Len(dSteps) + 0 + Len(dOutputs) <= DDepth
            BY Zenon, <1>0, <3>1 DEF DTypes
        <3> QED BY SMTT(120), <1>2, <1>3, <2>2, <3>1, <3>2, HandoffAssumption
    <2>4. recvMeta' \subseteq Request /\ invalid' \subseteq Request
        BY Zenon, <1>0, <1>1, <1>2, <1>4, <1>7 DEF DTypes
    <2>5. collected' # << >> => dRunning' # << >>
        BY Zenon, <1>2, <2>2
    <2>6. DTypes'
        BY Zenon, <1>0, <1>2, <1>3, <2>1, <2>2, <2>3, <2>4, <2>5 DEF DTypes, dSched, history
    <2>7. DSets'
        BY Zenon, <1>0, <1>1, <1>2, <1>4, <1>7 DEF DSets
    <2> QED BY Zenon, <2>6, <2>7
<1>9. ASSUME NEW r \in Request PROVE DInv(r)' /\ ValidInv(r)'
    <2>1. /\ DInv(r) /\ ValidInv(r) /\ ReadOrExpired(r)' = ReadOrExpired(r)
          /\ UNCHANGED <<dReq, dOutputs, callbacks, good>> /\ Holds(r)' = Holds(r)
        BY Zenon, <1>0, <1>2 DEF ReadOrExpired, Holds, dSched, history
    <2>2. r \in new <=> InStep(r, 1)
        BY Zenon, <1>3, <1>4 DEF InStep
    <2>3. \A i \in DOMAIN dSteps' : InStep(r, i)' => i + 1 \in DOMAIN dSteps /\ InStep(r, i + 1)
        BY Zenon, <1>3 DEF InStep
    <2>4. \A i \in DOMAIN dSteps' : InStep(r, i)' => r \notin new
        <3>1. \A i \in DOMAIN dSteps' : i + 1 # 1
            BY SMTT(120), <1>3
        <3>2. \A i, j \in DOMAIN dSteps : InStep(r, i) /\ InStep(r, j) => i = j
            BY Zenon, <2>1 DEF DInv
        <3> QED BY Zenon, <1>3, <2>2, <2>3, <3>1, <3>2
    <2>5. \A i, j \in DOMAIN dSteps' : InStep(r, i)' /\ InStep(r, j)' => i = j
        <3>1. \A i, j \in DOMAIN dSteps : InStep(r, i) /\ InStep(r, j) => i = j
            BY ZenonT(120), <2>1 DEF DInv
        <3>2. \A i, j \in DOMAIN dSteps' : i + 1 = j + 1 => i = j
            BY SMTT(120), <1>3
        <3> QED BY Zenon, <2>3, <3>1, <3>2
    <2>6. /\ xfer'[r] = IF r \in post \ fail THEN "posted" ELSE xfer[r]
          /\ Collected(r)' <=> Collected(r) \/ r \in fail
          /\ r \in recvMeta' <=> r \in recvMeta \/ r \in new
          /\ r \in handshake' <=> r \in handshake \/ (~agents /\ r \in new)
          /\ r \notin ready'
        BY Zenon, <1>1, <1>2 DEF Set, Collected
    <2>7. /\ r \in post <=> r \in ready \/ (agents /\ r \in new)
          /\ r \in fail => r \in post
        BY Zenon
    <2>8. r \in new => /\ Holds(r) /\ r \notin recvMeta /\ r \notin handshake
                       /\ callbacks[r] = "none" /\ r \notin ready /\ xfer[r] = "none"
                       /\ ~Collected(r) /\ r \notin good
                       /\ \A k \in DOMAIN dOutputs : r \notin dOutputs[k].recvd
        BY Zenon, <1>3, <2>1, <2>2 DEF DInv, ValidInv
    <2> HIDE DEF post
    <2>9. DInv(r)'
        <3>1. CASE r \in new
            BY Zenon, <2>1, <2>4, <2>6, <2>7, <2>8, <3>1 DEF DInv
        <3>2. CASE r \notin new
            BY ZenonT(60), <2>1, <2>3, <2>5, <2>6, <2>7, <3>2 DEF DInv
        <3> QED BY Zenon, <3>1, <3>2
    <2>10. /\ FailureKnown(r) => FailureKnown(r)'
           /\ r \in fail => FailureKnown(r)'
        BY Zenon, <1>1, <2>1 DEF FailureKnown
    <2>11. r \in good => r \notin post
        BY Zenon, <2>1, <2>7, <2>8 DEF ValidInv
    <2>12. ValidInv(r)'
        <3>1. \A i \in DOMAIN dSteps' : r \in good => ~InStep(r, i)'
            BY Zenon, <2>1, <2>3 DEF ValidInv
        <3> QED BY ZenonT(60), <2>1, <2>6, <2>7, <2>8, <2>10, <2>11, <3>1 DEF ValidInv
    <2> QED BY Zenon, <2>9, <2>12
<1> QED BY Zenon, <1>5, <1>6, <1>8, <1>9 DEF HandoffInv

LEMMA HandshakeDoneKeeps == ASSUME HandoffInv, HandshakeDone PROVE HandoffInv'
<1>0. DTypes /\ DSets /\ \A r \in Request : DInv(r) /\ ValidInv(r)
    BY DEF HandoffInv
<1>1. PICK ok \in {TRUE} \cup {~HandshakeMayFail} :
          callbacks' = Set(callbacks, handshake, IF ok THEN "put ready" ELSE "mark invalid")
    BY Zenon DEF HandshakeDone
<1>2. /\ handshake' = {} /\ ~crashed'
      /\ UNCHANGED <<pSched, pPipe, pWorker, dSched, dPipe, ready, dWorker, history>>
    BY Zenon DEF HandshakeDone, HandoffInv
<1>3. PTypes' /\ \A r \in Request : PInv(r)' /\ FreedInv(r)'
    BY Zenon, <1>2, DStepKeepsP DEF dSched, history
<1>4. DTypes' /\ DSets'
    <2>1. callbacks' \in [Request -> {"none", "put ready", "mark invalid", "add failed"}]
        BY Zenon, <1>0, <1>1 DEF DTypes, Set
    <2> QED BY Zenon, <1>0, <1>2, <2>1 DEF DTypes, DSets, dSched, dPipe, dWorker, history
<1>5. ASSUME NEW r \in Request PROVE DInv(r)' /\ ValidInv(r)'
    <2>1. DInv(r) /\ ValidInv(r) /\ ReadOrExpired(r)' = ReadOrExpired(r)
          /\ FailureKnown(r)' = FailureKnown(r) /\ Collected(r)' = Collected(r)
        BY Zenon, <1>0, <1>2 DEF ReadOrExpired, FailureKnown, Collected, dSched, dPipe, dWorker, history
    <2>2. /\ r \in handshake => callbacks'[r] \in {"put ready", "mark invalid"}
          /\ r \notin handshake => callbacks'[r] = callbacks[r]
        BY Zenon, <1>1 DEF Set
    <2>3. DInv(r)'
        BY ZenonT(60), <1>2, <2>1, <2>2 DEF DInv, InStep, Holds, dSched, dPipe, dWorker
    <2>4. ValidInv(r)'
        BY Zenon, <1>2, <2>1, <2>2 DEF ValidInv, InStep, dSched, dPipe, dWorker, history
    <2> QED BY Zenon, <2>3, <2>4
<1> QED BY Zenon, <1>2, <1>3, <1>4, <1>5 DEF HandoffInv

LEMMA CallbackKeeps == ASSUME HandoffInv, NEW q \in Request, Callback(q) PROVE HandoffInv'
<1>0. DTypes /\ DSets /\ \A r \in Request : DInv(r) /\ ValidInv(r)
    BY Zenon DEF HandoffInv
<1>1. /\ ~crashed'
      /\ UNCHANGED <<pSched, pPipe, pWorker, dSched, dPipe, agents, handshake, recvMeta, xfer,
                     collected, history>>
    BY Zenon DEF Callback, HandoffInv
<1>2. PTypes' /\ \A r \in Request : PInv(r)' /\ FreedInv(r)'
    BY Zenon, <1>1, DStepKeepsP DEF dSched, history
<1>3. \/ /\ callbacks[q] = "put ready" /\ callbacks' = [callbacks EXCEPT ![q] = "none"]
         /\ ready' = ready \cup {q} /\ UNCHANGED <<failedRecv, invalid>>
      \/ /\ callbacks[q] = "mark invalid" /\ callbacks' = [callbacks EXCEPT ![q] = "add failed"]
         /\ invalid' = invalid \cup {q} /\ UNCHANGED <<failedRecv, ready>>
      \/ /\ callbacks[q] = "add failed" /\ callbacks' = [callbacks EXCEPT ![q] = "none"]
         /\ failedRecv' = failedRecv \cup {q} /\ UNCHANGED <<invalid, ready>>
    BY Zenon DEF Callback, RequestReady
<1>4. DTypes' /\ DSets'
    <2>1. callbacks' \in [Request -> {"none", "put ready", "mark invalid", "add failed"}]
        BY ZenonT(60), <1>0, <1>3 DEF DTypes
    <2>2. ready' \subseteq Request /\ failedRecv' \subseteq Request /\ invalid' \subseteq Request
        BY Zenon, <1>0, <1>3 DEF DTypes, DSets
    <2> QED BY Zenon, <1>0, <1>1, <2>1, <2>2 DEF DTypes, DSets, dSched, dPipe, history
<1>5. ASSUME NEW r \in Request PROVE DInv(r)' /\ ValidInv(r)'
    <2>1. DInv(r) /\ ValidInv(r) /\ ReadOrExpired(r)' = ReadOrExpired(r)
          /\ UNCHANGED <<dReq, dSteps, dOutputs, handshake, recvMeta, xfer, collected, good>>
        BY Zenon, <1>0, <1>1 DEF ReadOrExpired, dSched, dPipe, history
    <2>2. CASE r # q
        <3>1. /\ callbacks'[r] = callbacks[r] /\ (r \in ready' <=> r \in ready)
              /\ (r \in failedRecv' <=> r \in failedRecv) /\ (r \in invalid' <=> r \in invalid)
            BY ZenonT(60), <1>0, <1>3, <2>2 DEF DTypes
        <3>2. (Collected(r)' <=> Collected(r)) /\ (FailureKnown(r)' <=> FailureKnown(r))
            BY Zenon, <2>1, <3>1 DEF Collected, FailureKnown
        <3>3. DInv(r)'
            BY ZenonT(60), <2>1, <3>1, <3>2 DEF DInv, InStep, Holds
        <3>4. ValidInv(r)'
            BY Zenon, <2>1, <3>1, <3>2 DEF ValidInv, InStep
        <3> QED BY Zenon, <3>3, <3>4
    <2>3. CASE r = q
        <3>1. \/ /\ callbacks[r] = "put ready" /\ callbacks'[r] = "none"
                 /\ r \in ready' /\ UNCHANGED <<failedRecv, invalid>>
              \/ /\ callbacks[r] = "mark invalid" /\ callbacks'[r] = "add failed"
                 /\ r \in invalid' /\ UNCHANGED <<failedRecv, ready>>
              \/ /\ callbacks[r] = "add failed" /\ callbacks'[r] = "none"
                 /\ r \in failedRecv' /\ UNCHANGED <<invalid, ready>>
            BY Zenon, <1>0, <1>3, <2>3 DEF DTypes
        <3>2. /\ r \in recvMeta /\ r \notin handshake /\ r \notin ready /\ xfer[r] = "none"
              /\ ~Collected(r) /\ r \notin good
            BY Zenon, <2>1, <3>1 DEF DInv, ValidInv
        <3>3. /\ Collected(r)' => callbacks[r] = "add failed" /\ callbacks'[r] = "none" /\ r \notin ready'
              /\ FailureKnown(r) => FailureKnown(r)'
              /\ callbacks'[r] = "add failed" => FailureKnown(r)'
            BY Zenon, <2>1, <3>1, <3>2 DEF Collected, FailureKnown
        <3>4. DInv(r)'
            BY Zenon, <2>1, <3>1, <3>2, <3>3 DEF DInv, InStep, Holds
        <3>5. ValidInv(r)'
            BY Zenon, <2>1, <3>1, <3>2, <3>3 DEF ValidInv, InStep
        <3> QED BY SMTT(120), <3>4, <3>5
    <2> QED BY Zenon, <2>2, <2>3
<1> QED BY Zenon, <1>1, <1>2, <1>4, <1>5 DEF HandoffInv

\* A READ that ends well has read blocks that P held, unless its timer ran out
LEMMA ReadEndsKeeps == ASSUME HandoffInv, NEW q \in Request, ReadEnds(q) PROVE HandoffInv'
<1>0. PTypes /\ DTypes /\ DSets /\ \A r \in Request : PInv(r) /\ FreedInv(r) /\ DInv(r) /\ ValidInv(r)
    BY Zenon DEF HandoffInv
<1>1. /\ ~crashed' /\ xfer[q] = "posted"
      /\ UNCHANGED <<pSched, pPipe, toProcess, toSend, overdue, dSched, dPipe, handshakeVars,
                     recvMeta, failedRecv, invalid, collected, expired>>
    BY Zenon DEF ReadEnds, HandoffInv
<1>2. \/ /\ xfer' = [xfer EXCEPT ![q] = "done"] /\ notifs' = notifs \cup {q}
         /\ good' = IF pReq[q] = "sending" THEN good \cup {q} ELSE good
      \/ xfer' = [xfer EXCEPT ![q] = "error"] /\ UNCHANGED <<notifs, good>>
    BY Zenon DEF ReadEnds
<1>3. /\ q \in recvMeta /\ Holds(q) /\ HandedOver(q) /\ q \notin good
      /\ pReq[q] \in {"sending", "gone"} /\ (pReq[q] = "gone" => q \in expired)
    BY ZenonT(60), <1>0, <1>1 DEF DInv, Holds, HandedOver, ValidInv, PInv, FreedInv, ReadOrExpired
<1>4. PTypes'
    <2>1. notifs' \subseteq Request
        BY Zenon, <1>0, <1>2 DEF PTypes
    <2> QED BY Zenon, <1>0, <1>1, <2>1 DEF PTypes, pSched, pPipe
<1>5. DTypes' /\ DSets'
    <2>1. xfer' \in [Request -> {"none", "posted", "done", "error"}] /\ good' \subseteq Request
        BY Zenon, <1>0, <1>2 DEF DTypes
    <2> QED BY Zenon, <1>0, <1>1, <2>1 DEF DTypes, DSets, dSched, dPipe, handshakeVars
<1>6. ASSUME NEW r \in Request PROVE PInv(r)' /\ FreedInv(r)' /\ DInv(r)' /\ ValidInv(r)'
    <2>1. /\ PInv(r) /\ FreedInv(r) /\ DInv(r) /\ ValidInv(r)
          /\ HandedOver(r)' = HandedOver(r) /\ Holds(r)' = Holds(r)
          /\ FailureKnown(r)' = FailureKnown(r) /\ Collected(r)' = Collected(r)
          /\ ReadOrExpired(r) => ReadOrExpired(r)'
        BY Zenon, <1>0, <1>1, <1>2
           DEF HandedOver, Holds, FailureKnown, Collected, ReadOrExpired, dSched, dPipe
    <2>2. /\ r # q => xfer'[r] = xfer[r] /\ (r \in notifs' => r \in notifs) /\ (r \in good' => r \in good)
          /\ r = q => xfer'[r] \in {"done", "error"}
          /\ r = q /\ xfer'[r] = "done" => ReadOrExpired(r)'
          /\ r = q /\ r \in notifs' => r \in notifs \/ ReadOrExpired(r)'
          /\ r = q /\ r \in good' => xfer'[r] = "done"
        BY ZenonT(60), <1>0, <1>1, <1>2, <1>3 DEF DTypes, ReadOrExpired
    <2>3. PInv(r)'
        BY ZenonT(60), <1>1, <1>3, <2>1, <2>2 DEF PInv, pSched, pPipe
    <2>4. FreedInv(r)'
        BY Zenon, <1>1, <2>1, <2>2 DEF FreedInv, pSched, pPipe
    <2>5. DInv(r)'
        BY Zenon, <1>1, <2>1, <2>2 DEF DInv, InStep, dSched, dPipe, handshakeVars
    <2>6. r = q => /\ \A i \in DOMAIN dSteps : ~InStep(r, i)
                   /\ r \notin handshake /\ callbacks[r] = "none" /\ r \notin ready
        BY Zenon, <1>1, <1>3, <2>1 DEF DInv
    <2>7. ValidInv(r)'
        <3>1. CASE r # q
            BY Zenon, <1>1, <2>1, <2>2, <3>1 DEF ValidInv, InStep, dSched, dPipe, handshakeVars
        <3>2. CASE r = q
            BY Zenon, <1>1, <1>3, <2>1, <2>2, <2>6, <3>2
               DEF ValidInv, InStep, Holds, dSched, dPipe, handshakeVars
        <3> QED BY Zenon, <3>1, <3>2
    <2> QED BY Zenon, <2>3, <2>4, <2>5, <2>7
<1> QED BY Zenon, <1>1, <1>4, <1>5, <1>6 DEF HandoffInv

LEMMA DCollectKeeps == ASSUME HandoffInv, DCollect PROVE HandoffInv'
<1>0. DTypes /\ DSets /\ \A r \in Request : DInv(r) /\ ValidInv(r)
    BY DEF HandoffInv
<1>1. /\ ~crashed' /\ dRunning # << >> /\ collected = << >>
      /\ collected' = <<Ended \cup failedRecv>>
      /\ invalid' = invalid \cup {r \in recvMeta : xfer[r] = "error"}
      /\ xfer' = Set(xfer, Ended, "none")
      /\ UNCHANGED <<pSched, pPipe, pWorker, dSched, dPipe, handshakeVars, recvMeta, failedRecv,
                     history>>
    <2>1. ~crashed
        BY Zenon DEF HandoffInv
    <2>2. crashed' = crashed
        BY Zenon DEF DCollect
    <2>3. /\ dRunning # << >> /\ collected = << >>
          /\ collected' = <<Ended \cup failedRecv>>
          /\ invalid' = invalid \cup {r \in recvMeta : xfer[r] = "error"}
          /\ xfer' = Set(xfer, Ended, "none")
        BY Zenon DEF DCollect
    <2>4. UNCHANGED <<pSched, pPipe, pWorker, dSched, dPipe, handshakeVars, recvMeta, failedRecv,
                      crashed, history>>
        BY Zenon DEF DCollect
    <2>5. UNCHANGED <<pSched, pPipe, pWorker, dSched, dPipe, handshakeVars, recvMeta, failedRecv,
                      history>>
        BY Zenon, <2>4
    <2> QED BY Zenon, <2>1, <2>2, <2>3, <2>5
<1>2. PTypes' /\ \A r \in Request : PInv(r)' /\ FreedInv(r)'
    BY Zenon, <1>1, DStepKeepsP DEF dSched, history
<1>3. Ended \cup failedRecv \subseteq Request
    BY Zenon, <1>0 DEF Ended, DSets
<1>4. DTypes' /\ DSets'
    <2>1. xfer' \in [Request -> {"none", "posted", "done", "error"}]
        BY Zenon, <1>0, <1>1 DEF DTypes, Set
    <2>2. collected' \in Seq(SUBSET Request) /\ invalid' \subseteq Request
        <3> DEFINE c == Ended \cup failedRecv
        <3>1. c \in SUBSET Request
            BY Zenon, <1>3
        <3> HIDE DEF c
        <3>2. <<c>> \in Seq(SUBSET Request)
            BY SMTT(120), <3>1
        <3>3. recvMeta \subseteq Request /\ invalid \subseteq Request
            BY Zenon, <1>0 DEF DTypes
        <3> QED BY Zenon, <1>1, <3>2, <3>3 DEF c
    <2>3. dRunning' # << >>
        BY Zenon, <1>1 DEF dPipe
    <2> QED BY Zenon, <1>0, <1>1, <2>1, <2>2, <2>3 DEF DTypes, DSets, dSched, dPipe, handshakeVars, history
<1>5. ASSUME NEW r \in Request PROVE DInv(r)' /\ ValidInv(r)'
    <2>1. DInv(r) /\ ValidInv(r) /\ ReadOrExpired(r)' = ReadOrExpired(r) /\ Holds(r)' = Holds(r)
        <3>1. dReq' = dReq /\ good' = good /\ expired' = expired
            BY Zenon, <1>1 DEF dSched, history
        <3>2. ReadOrExpired(r)' = ReadOrExpired(r) /\ Holds(r)' = Holds(r)
            BY Zenon, <3>1 DEF ReadOrExpired, Holds
        <3> QED BY Zenon, <1>0, <3>2
    <2>2. /\ xfer'[r] = IF r \in Ended THEN "none" ELSE xfer[r]
          /\ r \in Ended <=> xfer[r] \in {"done", "error"}
        BY Zenon, <1>1 DEF Set, Ended
    <2>3. Collected(r)' <=> r \in Ended \/ Collected(r)
        BY Zenon, <1>1 DEF Collected
    <2>4. /\ FailureKnown(r) => FailureKnown(r)'
          /\ r \in Ended => ReadOrExpired(r) \/ FailureKnown(r)'
        BY Zenon, <1>1, <2>1, <2>2 DEF FailureKnown, DInv, ValidInv, dSched, dPipe
    <2>5. DInv(r)'
        BY Zenon, <1>1, <2>1, <2>2, <2>3 DEF DInv, InStep, dPipe, handshakeVars
    <2>6. ValidInv(r)'
        BY Zenon, <1>1, <2>1, <2>2, <2>3, <2>4 DEF ValidInv, InStep, dSched, dPipe, handshakeVars, history
    <2> QED BY Zenon, <2>5, <2>6
<1> QED BY Zenon, <1>1, <1>2, <1>4, <1>5 DEF HandoffInv

\* Every request that get_finished reports is in _recving_metadata.
LEMMA DGetFinishedKeeps == ASSUME HandoffInv, DGetFinished PROVE HandoffInv'
<1>0. DTypes /\ DSets /\ \A r \in Request : DInv(r) /\ ValidInv(r)
    BY DEF HandoffInv
<1> DEFINE c == collected[1]
           e == [recvd |-> c, invalid |-> invalid]
<1>1. /\ collected # << >> /\ failedRecv' = {} /\ recvMeta' = recvMeta \ c
      /\ crashed' = ~(c \subseteq recvMeta)
      /\ dOutputs' = Append(dOutputs, e) /\ invalid' = {} /\ collected' = << >>
      /\ dRunning' = << >>
      /\ UNCHANGED <<pSched, pPipe, pWorker, dSched, dSteps, agents, handshake, callbacks, ready,
                     xfer, history>>
    BY Zenon DEF DGetFinished
<1>2. PTypes' /\ \A r \in Request : PInv(r)' /\ FreedInv(r)'
    BY Zenon, <1>1, DStepKeepsP DEF dSched, history
<1>3. c \in SUBSET Request
    <2>1. collected \in Seq(SUBSET Request)
        BY Zenon, <1>0 DEF DTypes
    <2> QED BY Zenon, <1>1, <2>1, TailEntries
<1>4. e \in DOutput /\ e.recvd = c /\ e.invalid = invalid
    <2>1. invalid \in SUBSET Request
        BY Zenon, <1>0 DEF DTypes
    <2> QED BY Zenon, <1>3, <2>1 DEF DOutput
<1>5. ~crashed'
    <2>1. \A r \in c : r \in recvMeta
        BY Zenon, <1>0, <1>1, <1>3 DEF DInv, Collected
    <2> QED BY Zenon, <1>1, <2>1
<1>6. \A r \in c : Collected(r)
    BY Zenon, <1>1 DEF Collected
<1> HIDE DEF c, e
<1>7. /\ dOutputs' \in Seq(DOutput) /\ Len(dOutputs') = Len(dOutputs) + 1 /\ Len(dOutputs) \in Nat
      /\ \A i \in DOMAIN dOutputs : i \in 1 .. Len(dOutputs)
      /\ \A i \in DOMAIN dOutputs' : \/ i \in DOMAIN dOutputs /\ dOutputs'[i] = dOutputs[i]
                                     \/ i = Len(dOutputs) + 1 /\ dOutputs'[i] = e
      /\ Len(dOutputs) + 1 \in DOMAIN dOutputs' /\ dOutputs'[Len(dOutputs) + 1] = e
      /\ \A i \in DOMAIN dOutputs : i \in DOMAIN dOutputs' /\ dOutputs'[i] = dOutputs[i]
    <2>1. dOutputs \in Seq(DOutput)
        BY Zenon, <1>0 DEF DTypes
    <2> QED BY SMTT(120), <1>1, <1>4, <2>1, AppendEntries
<1>8. DTypes' /\ DSets'
    <2>1. Len(dSteps') + Len(dRunning') + Len(dOutputs') <= DDepth
        <3>1. dSteps \in Seq(DStep) /\ dRunning \in Seq(DStep) /\ dRunning # << >>
            BY Zenon, <1>0, <1>1 DEF DTypes
        <3>2. Len(dSteps) \in Nat /\ Len(dRunning) \in Nat /\ Len(dRunning) > 0 /\ Len(dRunning') = 0
            BY SMTT(120), <1>1, <3>1
        <3>3. Len(dSteps) + Len(dRunning) + Len(dOutputs) <= DDepth
            BY Zenon, <1>0 DEF DTypes
        <3> QED BY SMTT(120), <1>1, <1>7, <3>2, <3>3, HandoffAssumption
    <2>2. dRunning' \in Seq(DStep)
        BY SMTT(120), <1>1
    <2>3. collected' \in Seq(SUBSET Request)
        BY SMTT(120), <1>1
    <2>4. recvMeta' \subseteq Request /\ invalid' \subseteq Request
        BY Zenon, <1>0, <1>1 DEF DTypes
    <2>5. DTypes'
        BY Zenon, <1>0, <1>1, <1>7, <2>1, <2>2, <2>3, <2>4 DEF DTypes, dSched, handshakeVars, history
    <2> QED BY Zenon, <1>0, <1>1, <2>5 DEF DSets, handshakeVars
<1>9. ASSUME NEW r \in Request PROVE DInv(r)' /\ ValidInv(r)'
    <2>1. /\ DInv(r) /\ ValidInv(r) /\ ReadOrExpired(r)' = ReadOrExpired(r) /\ Holds(r)' = Holds(r)
          /\ UNCHANGED <<dReq, dSteps, handshake, callbacks, ready, xfer, good>>
        BY Zenon, <1>0, <1>1 DEF ReadOrExpired, Holds, dSched, handshakeVars, history
    <2>2. ~Collected(r)' /\ (r \in recvMeta' <=> r \in recvMeta /\ r \notin c)
          /\ (r \in c => r \in recvMeta /\ Collected(r))
        BY Zenon, <1>1, <1>6, <2>1 DEF Collected, DInv
    <2>3. \A k \in DOMAIN dOutputs' : r \in dOutputs'[k].recvd =>
             \/ k \in DOMAIN dOutputs /\ dOutputs'[k] = dOutputs[k] /\ r \in dOutputs[k].recvd
             \/ k = Len(dOutputs) + 1 /\ r \in c
        BY Zenon, <1>4, <1>7
    <2>4. DInv(r)'
        <3>1. CASE r \in c
            BY Zenon, <2>1, <2>2, <2>3, <3>1 DEF DInv, InStep
        <3>2. CASE r \notin c
            BY Zenon, <2>1, <2>2, <2>3, <3>2 DEF DInv, InStep
        <3> QED BY Zenon, <3>1, <3>2
    <2>5. FailureKnown(r) => FailureKnown(r)'
        BY Zenon, <1>4, <1>7, <2>1 DEF FailureKnown
    <2>6. ASSUME NEW k \in DOMAIN dOutputs', r \in dOutputs'[k].recvd
          PROVE  \/ ReadOrExpired(r)' \/ dReq'[r] = "aborting"
                 \/ \E j \in 1 .. k : r \in dOutputs'[j].invalid
        <3>1. CASE k \in DOMAIN dOutputs /\ dOutputs'[k] = dOutputs[k] /\ r \in dOutputs[k].recvd
            <4>1. \/ ReadOrExpired(r) \/ dReq[r] = "aborting"
                  \/ \E j \in 1 .. k : r \in dOutputs[j].invalid
                BY Zenon, <2>1, <3>1 DEF ValidInv
            <4>2. \A j \in 1 .. k : dOutputs'[j] = dOutputs[j]
                <5>1. dOutputs \in Seq(DOutput)
                    BY Zenon, <1>0 DEF DTypes
                <5>2. \A j \in 1 .. k : j \in DOMAIN dOutputs
                    BY SMTT(120), <3>1, <5>1
                <5> QED BY Zenon, <1>7, <5>2
            <4> QED BY Zenon, <2>1, <4>1, <4>2
        <3>2. CASE k = Len(dOutputs) + 1 /\ r \in c
            <4>1. ReadOrExpired(r) \/ FailureKnown(r)
                BY Zenon, <2>1, <2>2, <3>2 DEF ValidInv
            <4>2. CASE r \in invalid
                BY SMTT(120), <1>4, <1>7, <3>2, <4>2
            <4>3. ASSUME NEW j \in DOMAIN dOutputs, r \in dOutputs[j].invalid
                  PROVE  \E i \in 1 .. k : r \in dOutputs'[i].invalid
                BY SMTT(120), <1>7, <3>2, <4>3
            <4> QED BY Zenon, <2>1, <4>1, <4>2, <4>3 DEF FailureKnown
        <3> QED BY Zenon, <2>3, <2>6, <3>1, <3>2
    <2>7. ValidInv(r)'
        BY Zenon, <2>1, <2>2, <2>5, <2>6 DEF ValidInv, InStep
    <2> QED BY SMTT(120), <2>4, <2>7
<1> QED BY Zenon, <1>2, <1>5, <1>8, <1>9 DEF HandoffInv

\* A request that an output reports still holds its blocks, and one that goes on
\* to decode has read them.
LEMMA DUpdateKeeps == ASSUME HandoffInv, DUpdate PROVE HandoffInv'
<1>0. DTypes /\ DSets /\ \A r \in Request : DInv(r) /\ ValidInv(r)
    BY Zenon DEF HandoffInv
<1> DEFINE out == Head(dOutputs)
           failed == {r \in out.invalid : dReq[r] = "loading"}
           status == Set(dReq, failed, "aborting")
<1>1. /\ dOutputs # << >> /\ dOutputs' = Tail(dOutputs)
      /\ dReq' = [r \in Request |->
                    IF r \notin out.recvd THEN status[r]
                    ELSE IF status[r] = "loading" THEN "received" ELSE "gone"]
      /\ crashed' = (\E r \in out.recvd : status[r] \notin {"loading", "aborting"})
      /\ UNCHANGED <<pSched, pPipe, pWorker, needRecv, dSteps, dRunning, handshakeVars, dWorker,
                     history>>
    BY Zenon DEF DUpdate, LoadingAborted
<1>2. /\ out = dOutputs[1] /\ out \in DOutput /\ 1 \in DOMAIN dOutputs /\ dOutputs' \in Seq(DOutput)
      /\ Len(dOutputs') = Len(dOutputs) - 1 /\ Len(dOutputs) \in Nat
      /\ \A i \in DOMAIN dOutputs' :
            i \in Nat /\ i >= 1 /\ i + 1 \in DOMAIN dOutputs /\ dOutputs'[i] = dOutputs[i + 1]
    <2>1. dOutputs \in Seq(DOutput)
        BY Zenon, <1>0 DEF DTypes
    <2> QED BY ZenonT(60), <1>1, <2>1, TailEntries
<1>3. ASSUME NEW r \in Request
      PROVE  /\ status[r] = IF r \in out.invalid /\ dReq[r] = "loading" THEN "aborting" ELSE dReq[r]
             /\ r \in out.recvd => dReq[r] \in {"loading", "aborting"}
    BY Zenon, <1>0, <1>2 DEF Set, DInv, Holds
<1>4. out.recvd \subseteq Request /\ out.invalid \subseteq Request
    BY Zenon, <1>2 DEF DOutput
<1> HIDE DEF out, status
<1>5. ~crashed'
    BY Zenon, <1>1, <1>3, <1>4
<1>6. ASSUME NEW r \in Request
      PROVE  /\ r \in out.recvd /\ r \notin out.invalid /\ dReq[r] = "loading" => dReq'[r] = "received"
             /\ r \in out.recvd /\ (r \in out.invalid \/ dReq[r] # "loading") => dReq'[r] = "gone"
             /\ r \notin out.recvd /\ r \in out.invalid /\ dReq[r] = "loading" => dReq'[r] = "aborting"
             /\ r \notin out.recvd /\ (r \notin out.invalid \/ dReq[r] # "loading") => dReq'[r] = dReq[r]
    BY Zenon, <1>1, <1>3
<1>7. PTypes' /\ \A r \in Request : PInv(r)' /\ FreedInv(r)'
    <2>1. \A r \in Request : dReq'[r] = "none" <=> dReq[r] = "none"
        BY Zenon, <1>3, <1>6
    <2>2. UNCHANGED <<pSched, pPipe, pWorker, expired>> /\ good \subseteq good'
        BY Zenon, <1>1 DEF history
    <2> QED BY Zenon, <2>1, <2>2, DStepKeepsP
<1>8. DTypes' /\ DSets'
    <2>1. dReq' \in [Request -> {"none", "arrived", "loading", "aborting", "received",
                                 "running", "gone"}]
        <3>1. ASSUME NEW r \in Request
              PROVE  dReq'[r] \in {"none", "arrived", "loading", "aborting", "received",
                                   "running", "gone"}
            <4>1. dReq[r] \in {"none", "arrived", "loading", "aborting", "received",
                               "running", "gone"}
                BY Zenon, <1>0 DEF DTypes
            <4>2. dReq'[r] \in {"received", "gone", "aborting", dReq[r]}
                BY Zenon, <1>6
            <4> QED BY Zenon, <4>1, <4>2
        <3> QED BY Zenon, <1>1, <3>1
    <2>2. Len(dSteps') + Len(dRunning') + Len(dOutputs') <= DDepth
        <3>1. dSteps \in Seq(DStep) /\ dRunning \in Seq(DStep)
            BY Zenon, <1>0 DEF DTypes
        <3>2. Len(dSteps) \in Nat /\ Len(dRunning) \in Nat
            BY SMTT(120), <3>1
        <3>3. Len(dSteps) + Len(dRunning) + Len(dOutputs) <= DDepth
            BY Zenon, <1>0 DEF DTypes
        <3> QED BY SMTT(120), <1>1, <1>2, <3>2, <3>3, HandoffAssumption
    <2> QED BY Zenon, <1>0, <1>1, <1>2, <2>1, <2>2 DEF DTypes, DSets, handshakeVars, dWorker, history
<1>9. ASSUME NEW r \in Request PROVE DInv(r)' /\ ValidInv(r)'
    <2>1. /\ DInv(r) /\ ValidInv(r) /\ ReadOrExpired(r)' = ReadOrExpired(r)
          /\ Collected(r)' = Collected(r)
          /\ UNCHANGED <<dSteps, handshake, callbacks, ready, xfer, good, recvMeta, invalid>>
        BY Zenon, <1>0, <1>1 DEF ReadOrExpired, Collected, handshakeVars, dWorker, history
    <2>2. \A i \in DOMAIN dOutputs' : r \in dOutputs'[i].recvd => r \notin out.recvd
        <3>1. \A i \in DOMAIN dOutputs' : i + 1 # 1
            BY SMTT(120), <1>2
        <3>2. \A i, j \in DOMAIN dOutputs :
                r \in dOutputs[i].recvd /\ r \in dOutputs[j].recvd => i = j
            BY Zenon, <2>1 DEF DInv
        <3> QED BY Zenon, <1>2, <3>1, <3>2
    <2>3. \A i, j \in DOMAIN dOutputs' : r \in dOutputs'[i].recvd /\ r \in dOutputs'[j].recvd => i = j
        <3>1. \A i, j \in DOMAIN dOutputs :
                r \in dOutputs[i].recvd /\ r \in dOutputs[j].recvd => i = j
            BY ZenonT(120), <2>1 DEF DInv
        <3>2. \A i, j \in DOMAIN dOutputs' : i + 1 = j + 1 => i = j
            BY SMTT(120), <1>2
        <3> QED BY Zenon, <1>2, <3>1, <3>2
    <2>4. \A i \in DOMAIN dOutputs' : r \in dOutputs'[i].recvd =>
              \E j \in DOMAIN dOutputs : r \in dOutputs[j].recvd
        BY Zenon, <1>2
    <2>5. /\ r \in out.recvd => r \notin recvMeta /\ \A i \in DOMAIN dSteps : ~InStep(r, i)
          /\ r \notin out.recvd => (Holds(r)' <=> Holds(r))
        BY Zenon, <1>2, <1>6, <2>1 DEF DInv, Holds
    <2>6. DInv(r)'
        <3>1. CASE r \in out.recvd
            BY Zenon, <2>1, <2>2, <2>5, <3>1 DEF DInv, InStep
        <3>2. CASE r \notin out.recvd
            BY ZenonT(60), <2>1, <2>3, <2>4, <2>5, <3>2 DEF DInv, InStep
        <3> QED BY Zenon, <3>1, <3>2
    <2>7. Collected(r) \/ callbacks[r] # "none" => r \notin out.recvd /\ Holds(r)
        BY Zenon, <2>1, <2>5 DEF DInv
    <2>8. ASSUME Holds(r), r \notin out.recvd, FailureKnown(r) PROVE FailureKnown(r)'
        <3>1. CASE dReq[r] = "aborting" \/ r \in invalid \/ r \in out.invalid
            <4>1. dReq[r] = "aborting" \/ r \in out.invalid => dReq'[r] = "aborting"
                BY Zenon, <1>6, <2>8 DEF Holds
            <4>2. invalid' = invalid
                BY Zenon, <2>1
            <4> QED BY Zenon, <3>1, <4>1, <4>2 DEF FailureKnown
        <3>2. ASSUME NEW j \in DOMAIN dOutputs, j # 1, r \in dOutputs[j].invalid
              PROVE  \E i \in DOMAIN dOutputs' : r \in dOutputs'[i].invalid
            <4>1. dOutputs \in Seq(DOutput)
                BY Zenon, <1>0 DEF DTypes
            <4>2. j - 1 \in DOMAIN dOutputs' /\ (j - 1) + 1 = j
                BY SMTT(120), <1>2, <3>2, <4>1
            <4> QED BY Zenon, <1>2, <3>2, <4>2
        <3> QED BY Zenon, <1>2, <2>8, <3>1, <3>2 DEF FailureKnown
    <2>9. ASSUME NEW k \in DOMAIN dOutputs', r \in dOutputs'[k].recvd
          PROVE  \/ ReadOrExpired(r)' \/ dReq'[r] = "aborting"
                 \/ \E j \in 1 .. k : r \in dOutputs'[j].invalid
        <3>1. /\ k \in Nat /\ k + 1 \in DOMAIN dOutputs /\ r \in dOutputs[k + 1].recvd
              /\ r \notin out.recvd
            BY Zenon, <1>2, <2>2, <2>9
        <3>2. /\ Holds(r)
              /\ \/ ReadOrExpired(r) \/ dReq[r] = "aborting"
                 \/ \E j \in 1 .. k + 1 : r \in dOutputs[j].invalid
            BY Zenon, <2>1, <3>1 DEF DInv, ValidInv
        <3>3. CASE dReq[r] = "aborting" \/ r \in out.invalid
            BY Zenon, <1>6, <3>1, <3>2, <3>3 DEF Holds
        <3>4. ASSUME NEW j \in 1 .. k + 1, j # 1, r \in dOutputs[j].invalid
              PROVE  \E i \in 1 .. k : r \in dOutputs'[i].invalid
            <4>1. j - 1 \in 1 .. k /\ j - 1 \in DOMAIN dOutputs' /\ (j - 1) + 1 = j
                BY SMTT(120), <1>2, <2>9, <3>1, <3>4
            <4> QED BY Zenon, <1>2, <3>4, <4>1
        <3> QED BY Zenon, <1>2, <2>1, <3>2, <3>3, <3>4
    <2>10. dReq'[r] \in {"received", "running"} => ReadOrExpired(r)
        <3>1. CASE r \in out.recvd
            <4>1. dReq'[r] = "received" => r \notin out.invalid /\ dReq[r] = "loading"
                BY Zenon, <1>3, <1>6, <3>1
            <4>2. \/ ReadOrExpired(r) \/ dReq[r] = "aborting"
                  \/ \E j \in 1 .. 1 : r \in dOutputs[j].invalid
                BY Zenon, <1>2, <2>1, <3>1 DEF ValidInv
            <4>3. \A j \in 1 .. 1 : j = 1
                OBVIOUS
            <4> QED BY Zenon, <1>2, <1>3, <1>6, <3>1, <4>1, <4>2, <4>3
        <3>2. CASE r \notin out.recvd
            BY Zenon, <1>6, <2>1, <3>2 DEF ValidInv
        <3> QED BY Zenon, <3>1, <3>2
    <2>11. r \in good => dReq'[r] \notin {"none", "arrived"}
        BY Zenon, <1>3, <1>6, <2>1 DEF ValidInv
    <2>12. ValidInv(r)'
        BY Zenon, <2>1, <2>7, <2>8, <2>9, <2>10, <2>11 DEF ValidInv, InStep
    <2> QED BY Zenon, <2>6, <2>12
<1> QED BY Zenon, <1>5, <1>7, <1>8, <1>9 DEF HandoffInv

-----------------------------------------------------------------------------
(* The theorems *)

LEMMA HandoffInvInit == HandoffInit => HandoffInv
<1> SUFFICES ASSUME HandoffInit PROVE HandoffInv
    BY Zenon
<1>1. PTypes
    BY SMTT(120), HandoffAssumption DEF HandoffInit, PTypes
<1>2. DTypes /\ DSets
    BY SMTT(120), HandoffAssumption DEF HandoffInit, DTypes, DSets, NoOne
<1>3. ASSUME NEW r \in Request PROVE PInv(r) /\ FreedInv(r) /\ DInv(r) /\ ValidInv(r)
    <2>1. PInv(r)
        BY SMTT(120) DEF HandoffInit, PInv, HandedOver, NoOne
    <2>2. FreedInv(r)
        BY SMTT(120) DEF HandoffInit, FreedInv, HandedOver, NoOne
    <2>3. /\ dReq[r] = "none" /\ callbacks[r] = "none" /\ xfer[r] = "none"
          /\ r \notin recvMeta /\ r \notin handshake /\ r \notin ready /\ r \notin good
        BY Zenon DEF HandoffInit, NoOne
    <2>4. DOMAIN dSteps = {} /\ DOMAIN dOutputs = {}
        BY SMTT(120) DEF HandoffInit
    <2>5. ~Collected(r)
        BY Zenon DEF HandoffInit, Collected
    <2>6. DInv(r)
        BY Zenon, <2>3, <2>4, <2>5 DEF DInv
    <2>7. ValidInv(r)
        BY Zenon, <2>3, <2>4, <2>5 DEF ValidInv
    <2> QED BY Zenon, <2>1, <2>2, <2>6, <2>7
<1> QED BY Zenon, <1>1, <1>2, <1>3 DEF HandoffInv, HandoffInit

LEMMA HandoffInvStep == ASSUME ~MayAbortEarly PROVE HandoffInv /\ [HandoffNext]_vars => HandoffInv'
<1> SUFFICES ASSUME HandoffInv, [HandoffNext]_vars PROVE HandoffInv'
    BY Zenon
<1>1. CASE PSchedule
    BY Zenon, <1>1, PScheduleKeeps
<1>2. CASE PStartLoad
    BY SMTT(120), <1>2, PStartLoadKeeps
<1>3. CASE PGetFinished
    BY SMTT(120), <1>3, PGetFinishedKeeps
<1>4. CASE PUpdate
    BY <1>4, PUpdateKeeps
<1>5. ASSUME NEW r \in Request, PAbort(r) \/ Timeout(r) PROVE HandoffInv'
    BY Zenon, <1>5, PAbortKeeps, TimeoutKeeps
<1>6. CASE DSchedule
    BY <1>6, DScheduleKeeps
<1>7. CASE DStartLoad
    BY <1>7, DStartLoadKeeps
<1>8. CASE HandshakeDone
    BY <1>8, HandshakeDoneKeeps
<1>9. CASE DCollect
    BY <1>9, DCollectKeeps
<1>10. CASE DGetFinished
    BY <1>10, DGetFinishedKeeps
<1>11. CASE DUpdate
    BY <1>11, DUpdateKeeps
<1>12. ASSUME NEW r \in Request, DAbort(r) \/ Callback(r) \/ ReadEnds(r) PROVE HandoffInv'
    BY Zenon, <1>12, DAbortKeeps, CallbackKeeps, ReadEndsKeeps
<1>14. CASE RegisterEngine
    <2>1. UNCHANGED <<pSched, pPipe, pWorker, dSched, dPipe, agents, handshake, callbacks, ready,
                      dWorker, crashed, history>>
        BY Zenon, <1>14 DEF RegisterEngine
    <2>2. PTypes' /\ \A r \in Request : PInv(r)' /\ FreedInv(r)'
        BY Zenon, <2>1, DStepKeepsP DEF dSched, history
    <2>3. DTypes' /\ DSets' /\ \A r \in Request : DInv(r)' /\ ValidInv(r)'
        BY Zenon, <2>1, SameDecoder DEF history
    <2>4. ~crashed'
        BY Zenon, <2>1 DEF HandoffInv
    <2> QED BY Zenon, <2>2, <2>3, <2>4 DEF HandoffInv
<1>13. CASE UNCHANGED vars
    <2>1. UNCHANGED <<pSched, pPipe, pWorker, dSched, dPipe, handshakeVars, dWorker, crashed, history>>
        BY Zenon, <1>13 DEF vars
    <2>2. PTypes' /\ \A r \in Request : PInv(r)' /\ FreedInv(r)'
        BY Zenon, <2>1, DStepKeepsP DEF dSched, history
    <2>3. DTypes' /\ DSets' /\ \A r \in Request : DInv(r)' /\ ValidInv(r)'
        BY Zenon, <2>1, PStepKeepsD DEF history
    <2>4. ~crashed'
        BY Zenon, <2>1 DEF HandoffInv
    <2> QED BY Zenon, <2>2, <2>3, <2>4 DEF HandoffInv
<1> QED BY Zenon, <1>1, <1>2, <1>3, <1>4, <1>5, <1>6, <1>7, <1>8, <1>9, <1>10, <1>11, <1>12,
           <1>13, <1>14 DEF HandoffNext, PNext, DNext

-----------------------------------------------------------------------------
(* The engine of P *)

\* D handles a request beyond its handshake only when P's engine is registered,
\* or when the handshake has failed
EngineInv ==
    /\ agents \/ ready # {} \/ good # {} => registered
    /\ \A r \in Request : callbacks[r] = "put ready" \/ xfer[r] # "none" => registered
    /\ \A r \in Request : callbacks[r] # "none" \/ Collected(r) => registered \/ HandshakeMayFail
    /\ unknownEngine => ~registered /\ HandshakeMayFail

\* A step that touches none of these variables keeps EngineInv.
LEMMA SameEngine ==
    ASSUME EngineInv,
           UNCHANGED <<agents, callbacks, ready, registered, unknownEngine, xfer, failedRecv,
                       collected, good>>
    PROVE  EngineInv'
BY Zenon DEF EngineInv, Collected

\* A READ is posted only for a request of a handshake that succeeded.
LEMMA DStartLoadEngine == ASSUME HandoffInv, EngineInv, DStartLoad PROVE EngineInv'
<1> DEFINE step == Head(dSteps)
           new == {e[1] : e \in step}
           post == ready \cup (IF agents THEN new ELSE {})
<1>1. PICK fail \in SUBSET post :
          /\ xfer' = Set(xfer, post \ fail, "posted")
          /\ failedRecv' = failedRecv \cup fail
    BY Zenon DEF DStartLoad, PostFails
<1>2. /\ ready' = {}
      /\ UNCHANGED <<agents, callbacks, registered, unknownEngine, collected, good>>
    BY Zenon DEF DStartLoad, engineVars, history
<1>3. post # {} => registered
    BY Zenon DEF EngineInv
<1> HIDE DEF post
<1>4. \A r \in Request : xfer'[r] # "none" => xfer[r] # "none" \/ r \in post
    BY Zenon, <1>1 DEF Set
<1>5. \A r \in Request : Collected(r)' => Collected(r) \/ r \in post
    BY Zenon, <1>1, <1>2 DEF Collected
<1> QED BY Zenon, <1>2, <1>3, <1>4, <1>5 DEF EngineInv

\* A handshake succeeds only after it has registered the engine.
LEMMA HandshakeDoneEngine == ASSUME HandoffInv, EngineInv, HandshakeDone PROVE EngineInv'
<1>1. PICK ok \in {TRUE} \cup {~HandshakeMayFail} :
          /\ ok => registered
          /\ agents' = ok
          /\ callbacks' = Set(callbacks, handshake, IF ok THEN "put ready" ELSE "mark invalid")
    BY Zenon DEF HandshakeDone
<1>2. UNCHANGED <<ready, registered, unknownEngine, xfer, failedRecv, collected, good>>
    BY Zenon DEF HandshakeDone, engineVars, dWorker, history
<1>3. \A r \in Request : Collected(r)' = Collected(r)
    BY Zenon, <1>2 DEF Collected
<1>4. CASE ok
    <2>1. registered /\ UNCHANGED registered /\ (unknownEngine' => unknownEngine)
        BY Zenon, <1>1, <1>2, <1>4
    <2> QED BY Zenon, <2>1 DEF EngineInv
<1>5. CASE ~ok
    <2>1. HandshakeMayFail /\ ~agents'
        BY Zenon, <1>1, <1>5
    <2>2. \A r \in Request : callbacks'[r] = "put ready" => callbacks[r] = "put ready"
        BY Zenon, <1>1, <1>5 DEF Set
    <2> QED BY Zenon, <1>2, <2>1, <2>2 DEF EngineInv
<1> QED BY Zenon, <1>4, <1>5

LEMMA CallbackEngine ==
    ASSUME HandoffInv, EngineInv, NEW q \in Request, Callback(q) PROVE EngineInv'
<1>1. UNCHANGED <<agents, registered, unknownEngine, xfer, collected, good>>
    BY Zenon DEF Callback, engineVars, history
<1>2. callbacks \in [Request -> {"none", "put ready", "mark invalid", "add failed"}]
    BY Zenon DEF HandoffInv, DTypes
<1>3. CASE callbacks[q] = "put ready"
    <2>1. registered
        BY Zenon, <1>3 DEF EngineInv
    <2> QED BY Zenon, <1>1, <2>1 DEF EngineInv
<1>4. CASE callbacks[q] # "put ready"
    <2>1. callbacks[q] # "none" /\ ready' = ready /\ failedRecv' \subseteq failedRecv \cup {q}
          /\ (callbacks' = [callbacks EXCEPT ![q] = "none"]
              \/ callbacks' = [callbacks EXCEPT ![q] = "add failed"])
        BY Zenon, <1>4 DEF Callback, RequestReady
    <2>2. registered \/ HandshakeMayFail
        BY Zenon, <2>1 DEF EngineInv
    <2>3. \A r \in Request : callbacks'[r] = "put ready" => callbacks[r] = "put ready"
        BY ZenonT(60), <1>2, <2>1
    <2> QED BY Zenon, <1>1, <2>1, <2>2, <2>3 DEF EngineInv
<1> QED BY Zenon, <1>3, <1>4

LEMMA ReadEndsEngine ==
    ASSUME HandoffInv, EngineInv, NEW q \in Request, ReadEnds(q) PROVE EngineInv'
<1>1. registered
    BY Zenon DEF EngineInv, ReadEnds
<1>2. UNCHANGED <<registered, unknownEngine>>
    BY Zenon DEF ReadEnds, handshakeVars, engineVars
<1> QED BY Zenon, <1>1, <1>2 DEF EngineInv

LEMMA DCollectEngine == ASSUME HandoffInv, EngineInv, DCollect PROVE EngineInv'
<1>1. /\ collected' = <<Ended \cup failedRecv>>
      /\ xfer' = Set(xfer, Ended, "none")
      /\ UNCHANGED <<agents, callbacks, ready, registered, unknownEngine, failedRecv, good>>
    BY Zenon DEF DCollect, handshakeVars, engineVars, history
<1>2. \A r \in Request : xfer'[r] # "none" => xfer[r] # "none"
    BY Zenon, <1>1 DEF Set
<1>3. \A r \in Request : Collected(r)' => r \in failedRecv \/ xfer[r] # "none"
    <2>1. collected'[1] = Ended \cup failedRecv
        BY SMTT(60), <1>1
    <2> QED BY Zenon, <1>1, <2>1 DEF Collected, Ended
<1> QED BY Zenon, <1>1, <1>2, <1>3 DEF EngineInv, Collected

\* get_finished raises for a request that failed without a registered engine.
LEMMA DGetFinishedEngine == ASSUME HandoffInv, EngineInv, DGetFinished PROVE EngineInv'
<1>1. /\ collected # << >> /\ collected' = << >> /\ failedRecv' = {}
      /\ unknownEngine' = (collected[1] # {} /\ ~registered)
      /\ UNCHANGED <<agents, callbacks, ready, registered, xfer, good>>
    BY Zenon DEF DGetFinished, history
<1>2. \A r \in Request : ~Collected(r)'
    BY Zenon, <1>1 DEF Collected
<1>3. collected[1] \subseteq Request
    <2>1. collected \in Seq(SUBSET Request)
        BY Zenon DEF HandoffInv, DTypes
    <2>2. collected[1] \in SUBSET Request
        BY Zenon, <1>1, <2>1, TailEntries
    <2> QED BY Zenon, <2>2
<1>4. unknownEngine' => ~registered /\ HandshakeMayFail
    BY Zenon, <1>1, <1>3 DEF EngineInv, Collected
<1> QED BY Zenon, <1>1, <1>2, <1>4 DEF EngineInv

\* EngineInv is kept by every step.
LEMMA EngineInvStep == HandoffInv /\ EngineInv /\ [HandoffNext]_vars => EngineInv'
<1> SUFFICES ASSUME HandoffInv, EngineInv, [HandoffNext]_vars PROVE EngineInv'
    BY Zenon
<1>1. CASE PSchedule \/ PStartLoad \/ PGetFinished \/ PUpdate \/ DSchedule \/ DUpdate
           \/ UNCHANGED vars
    <2>1. UNCHANGED <<handshakeVars, dWorker, good>>
        BY Zenon, <1>1 DEF PSchedule, PStartLoad, PGetFinished, PUpdate, DSchedule, DUpdate, vars,
           history
    <2> QED BY Zenon, <2>1, SameEngine DEF handshakeVars, engineVars, dWorker
<1>2. ASSUME NEW r \in Request, PAbort(r) \/ Timeout(r) \/ DAbort(r) PROVE EngineInv'
    <2>1. UNCHANGED <<handshakeVars, dWorker, good>>
        BY Zenon, <1>2 DEF PAbort, Timeout, DAbort, history
    <2> QED BY Zenon, <2>1, SameEngine DEF handshakeVars, engineVars, dWorker
<1>3. CASE RegisterEngine /\ ~unknownEngine
    <2>1. registered' /\ ~unknownEngine'
        BY Zenon, <1>3 DEF RegisterEngine
    <2> QED BY Zenon, <2>1 DEF EngineInv
<1>4. CASE DStartLoad
    BY Zenon, <1>4, DStartLoadEngine
<1>5. CASE HandshakeDone
    BY Zenon, <1>5, HandshakeDoneEngine
<1>6. CASE DCollect
    BY Zenon, <1>6, DCollectEngine
<1>7. CASE DGetFinished
    BY Zenon, <1>7, DGetFinishedEngine
<1>8. ASSUME NEW r \in Request, Callback(r) \/ ReadEnds(r) PROVE EngineInv'
    BY Zenon, <1>8, CallbackEngine, ReadEndsEngine
<1> QED BY Zenon, <1>1, <1>2, <1>3, <1>4, <1>5, <1>6, <1>7, <1>8 DEF HandoffNext, PNext, DNext

LEMMA EngineInvInit == HandoffInit => EngineInv
BY Zenon DEF HandoffInit, EngineInv, Collected, NoOne

\* Both invariants hold at all times.
LEMMA HandoffInvariant == ASSUME ~MayAbortEarly PROVE HandoffSpec => [](HandoffInv /\ EngineInv)
BY HandoffInvInit, HandoffInvStep, EngineInvInit, EngineInvStep, PTL DEF HandoffSpec

-----------------------------------------------------------------------------
(* Theorems *)

\* No assertion or lookup of the connector and the two schedulers fails, in any
\* order of notifications, timers, aborts, failures and late outputs, but for one:
\* get_finished raises when the handshake failed before it registered P's engine,
\* and then nothing has been read from P.
THEOREM HandoffCrashesOnlyUnregistered ==
    ASSUME ~MayAbortEarly PROVE HandoffSpec => []NoTransferCrash
<1>1. HandoffInv /\ EngineInv => NoTransferCrash
    BY Zenon DEF HandoffInv, EngineInv, NoTransferCrash
<1> QED BY HandoffInvariant, <1>1, PTL

\* When handshakes do not fail, no assertion or lookup fails at all.
THEOREM HandoffNeverCrashes ==
    ASSUME ~MayAbortEarly, ~HandshakeMayFail
    PROVE  HandoffSpec => [](~crashed /\ ~unknownEngine)
<1>1. HandoffInv /\ EngineInv => ~crashed /\ ~unknownEngine
    BY Zenon DEF HandoffInv, EngineInv
<1> QED BY HandoffInvariant, <1>1, PTL

\* While a READ is under way D holds the blocks it writes, and P the blocks it
\* reads unless P's timer has run out (Holds and FreedInv).
THEOREM ReadsAreSafe == ASSUME ~MayAbortEarly PROVE HandoffSpec => []ReadKeepsBlocks
<1>1. HandoffInv => ReadKeepsBlocks
    <2> SUFFICES ASSUME HandoffInv, NEW r \in Request, xfer[r] = "posted"
                 PROVE  /\ dReq[r] \in {"loading", "aborting"}
                        /\ pReq[r] = "sending" \/ r \in expired
        BY Zenon DEF ReadKeepsBlocks
    <2>1. PInv(r) /\ FreedInv(r) /\ DInv(r) /\ ValidInv(r)
        BY Zenon DEF HandoffInv
    <2>2. Holds(r) /\ r \notin good
        BY Zenon, <2>1 DEF DInv, ValidInv
    <2>3. HandedOver(r)
        BY Zenon, <2>2 DEF HandedOver, Holds
    <2>4. /\ pReq[r] \in {"sending", "gone"}
          /\ pReq[r] = "gone" => ReadOrExpired(r)
        BY Zenon, <2>1, <2>3 DEF PInv, FreedInv
    <2> QED BY Zenon, <2>2, <2>4 DEF Holds, ReadOrExpired
<1> QED BY HandoffInvInit, HandoffInvStep, <1>1, PTL DEF HandoffSpec

\* A request that D decodes has its KV, unless P's timer ran out before it was
\* read: no failure of a handshake or a READ is taken for a load.
THEOREM LoadsAreValid == ASSUME ~MayAbortEarly PROVE HandoffSpec => []LoadedIsValid
<1>1. HandoffInv => LoadedIsValid
    BY Zenon DEF HandoffInv, LoadedIsValid, ValidInv, ReadOrExpired
<1> QED BY HandoffInvInit, HandoffInvStep, <1>1, PTL DEF HandoffSpec

\* Statuses and transfers have the values of the code, and no more steps are
\* under way than a side may queue.
THEOREM HandoffTypeCorrect == ASSUME ~MayAbortEarly PROVE HandoffSpec => []HandoffTypeOK
<1>1. HandoffInv => HandoffTypeOK
    <2> SUFFICES ASSUME HandoffInv PROVE HandoffTypeOK
        BY Zenon
    <2>1. PTypes /\ DTypes
        BY Zenon DEF HandoffInv
    <2>2. Len(pSteps) + Len(pRunning) + Len(pOutputs) \in 0 .. PDepth
        <3>1. Len(pSteps) \in Nat /\ Len(pRunning) \in Nat /\ Len(pOutputs) \in Nat
            BY SMTT(120), <2>1 DEF PTypes
        <3> QED BY SMTT(120), <2>1, <3>1, HandoffAssumption DEF PTypes
    <2>3. Len(dSteps) + Len(dRunning) + Len(dOutputs) \in 0 .. DDepth
        <3>1. dSteps \in Seq(DStep) /\ dRunning \in Seq(DStep) /\ dOutputs \in Seq(DOutput)
            BY Zenon, <2>1 DEF DTypes
        <3>2. Len(dSteps) \in Nat /\ Len(dRunning) \in Nat /\ Len(dOutputs) \in Nat
            BY SMTT(120), <3>1
        <3>3. Len(dSteps) + Len(dRunning) + Len(dOutputs) <= DDepth
            BY Zenon, <2>1 DEF DTypes
        <3> QED BY SMTT(120), <3>2, <3>3, HandoffAssumption
    <2> QED BY Zenon, <2>1, <2>2, <2>3 DEF HandoffTypeOK, PTypes, DTypes
<1> QED BY HandoffInvInit, HandoffInvStep, <1>1, PTL DEF HandoffSpec
=============================================================================
