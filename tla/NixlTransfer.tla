---------------------------- MODULE NixlTransfer ----------------------------
(***************************************************************************)
(* The hand-off of KV blocks from the prefiller P to the decoder D by the  *)
(* NIXL connector (distributed/kv_transfer/kv_connector/v1/nixl/), with    *)
(* the parts of the two schedulers that hold and free the blocks.          *)
(*                                                                         *)
(* On either side the engine schedules steps, the worker runs them, and    *)
(* the scheduler applies their outputs later: a number of steps are under  *)
(* way at once.  D's READ is one-sided, so P's worker learns of it only    *)
(* from a notification, which may come before the step that tells it that  *)
(* the request is to be sent.  One worker per side; prefix caching is off; *)
(* kv_load_failure_policy is "fail".                                       *)
(***************************************************************************)
EXTENDS Integers, Sequences, FiniteSets

CONSTANTS Request,           \* requests, under the same name on both sides
          PDepth, DDepth,    \* max_concurrent_batches of P and of D
          ReadMayFail,       \* a READ may fail when posted or later
          HandshakeMayFail,  \* the handshake with P may fail
          MayAbortEarly      \* a request may be aborted before D schedules it

ASSUME HandoffAssumption ==
    /\ PDepth \in Nat \ {0} /\ DDepth \in Nat \ {0}
    /\ ReadMayFail \in BOOLEAN /\ HandshakeMayFail \in BOOLEAN /\ MayAbortEarly \in BOOLEAN

VARIABLES \* Prefiller, scheduler
          pReq,          \* status; a "sending" request is finished and holds its blocks
          notProcessed,  \* _reqs_not_processed
          needSend,      \* _reqs_need_send
          \* Prefiller, worker
          pSteps,        \* steps scheduled
          pRunning,      \* the step between start_load_kv and get_finished, if any
          pOutputs,      \* outputs on their way to the scheduler
          toProcess,     \* _reqs_to_process
          toSend,        \* the keys of _reqs_to_send
          overdue,       \* requests of toSend whose time has run out
          notifs,        \* NIXL notifications that P has not read
          \* Decoder, scheduler
          dReq,          \* status; an "aborting" request is finished and holds its blocks
          needRecv,      \* _reqs_need_recv
          dSteps, dRunning, dOutputs,
          \* Decoder, worker
          recvMeta,      \* the keys of _recving_metadata
          agents,        \* the agent of P is in _remote_agents
          handshake,     \* requests waiting on the handshake future
          callbacks,     \* what request_ready has still to do for a request
          ready,         \* _ready_requests
          registered,    \* the engine of P is in transfer_topo
          unknownEngine, \* get_finished has raised, since it is not there
          xfer,          \* the READ of each request
          failedRecv,    \* _failed_recv_reqs
          invalid,       \* requests whose blocks are in _invalid_block_ids
          collected,     \* get_finished between reading and clearing _failed_recv_reqs
          \* Both sides
          crashed,       \* another assertion or exception has ended an engine
          \* History
          expired,       \* requests whose blocks P has released on its timer
          good           \* requests whose READ ended while P held the blocks

pSched == <<pReq, notProcessed, needSend>>
pPipe == <<pSteps, pRunning, pOutputs>>
pWorker == <<toProcess, toSend, overdue, notifs>>
dSched == <<dReq, needRecv>>
dPipe == <<dSteps, dRunning, dOutputs>>
engineVars == <<registered, unknownEngine>>
handshakeVars == <<agents, handshake, callbacks, ready, engineVars>>
dWorker == <<recvMeta, xfer, failedRecv, invalid, collected>>
history == <<expired, good>>
vars == <<pSched, pPipe, pWorker, dSched, dPipe, handshakeVars, dWorker, crashed, history>>

NoOne == [r \in Request |-> "none"]

HandoffInit ==
    /\ pReq = [r \in Request |-> "new"]
    /\ dReq = NoOne
    /\ notProcessed = {} /\ needSend = {} /\ toProcess = {} /\ toSend = {}
    /\ overdue = {} /\ notifs = {} /\ needRecv = {} /\ recvMeta = {}
    /\ pSteps = << >> /\ pRunning = << >> /\ pOutputs = << >>
    /\ dSteps = << >> /\ dRunning = << >> /\ dOutputs = << >>
    /\ agents = FALSE /\ handshake = {} /\ callbacks = NoOne /\ ready = {}
    /\ registered = FALSE /\ unknownEngine = FALSE
    /\ xfer = NoOne
    /\ failedRecv = {} /\ invalid = {} /\ collected = << >>
    /\ crashed = FALSE /\ expired = {} /\ good = {}

\* step_with_batch_queue: the queue of batches is not full
Room(steps, running, outputs, depth) == Len(steps) + Len(running) + Len(outputs) < depth

Set(f, S, v) == [r \in Request |-> IF r \in S THEN v ELSE f[r]]

-----------------------------------------------------------------------------
(* Prefiller *)

\* schedule, with update_state_after_alloc and build_connector_meta
PSchedule ==
    /\ Room(pSteps, pRunning, pOutputs, PDepth)
    /\ \E batch \in SUBSET {r \in Request : pReq[r] = "new"} :
        /\ pReq' = Set(pReq, batch, "running")
        /\ pSteps' = Append(pSteps, [inBatch |-> batch,
                                     notProcessed |-> notProcessed,
                                     toSend |-> needSend,
                                     ran |-> {r \in Request : pReq'[r] = "running"}])
    /\ notProcessed' = {} /\ needSend' = {}
    /\ UNCHANGED <<pRunning, pOutputs, pWorker, dSched, dPipe, handshakeVars, dWorker,
                   crashed, history>>

\* finish_requests: the client gives up, P frees the blocks at once
PAbort(r) ==
    /\ pReq[r] \in {"new", "running"}
    /\ pReq' = [pReq EXCEPT ![r] = "gone"]
    /\ notProcessed' = notProcessed \cup {r}
    /\ UNCHANGED <<needSend, pPipe, pWorker, dSched, dPipe, handshakeVars, dWorker,
                   crashed, history>>

\* Mutant: sets a timer for a request that D may have read already
ToSendAlways(step, known) == step.toSend

\* Mutant: looks the request up in the batch of the step
ToSendOfBatch(step, known) == step.toSend \cap step.inBatch

\* The requests of a step that P's worker starts to track as waiting to be read
ToSendNow(step, known) == step.toSend \cap known

\* start_load_kv
PStartLoad ==
    /\ pSteps # << >> /\ pRunning = << >>
    /\ LET step == Head(pSteps)
           known == (toProcess \cup step.inBatch) \ step.notProcessed
       IN  /\ pRunning' = <<step>>
           /\ toProcess' = known
           /\ toSend' = toSend \cup ToSendNow(step, known)
           /\ crashed' = (step.notProcessed \cap toSend # {})
    /\ pSteps' = Tail(pSteps)
    /\ UNCHANGED <<pSched, pOutputs, overdue, notifs, dSched, dPipe, handshakeVars,
                   dWorker, history>>

\* The time of a request runs out (VLLM_NIXL_ABORT_REQUEST_TIMEOUT)
Timeout(r) ==
    /\ r \in toSend \ overdue
    /\ overdue' = overdue \cup {r}
    /\ UNCHANGED <<pSched, pPipe, toProcess, toSend, notifs, dSched, dPipe, handshakeVars,
                   dWorker, crashed, history>>

\* Mutant: a request counts as read as soon as it has a timer
NotifiedAtOnce == toSend \cup (notifs \cap toProcess)

\* _get_new_notifs: notifications of requests P's worker does not know are dropped
Notified == notifs \cap (toSend \cup toProcess)

\* _get_new_notifs and the expiry loop of get_finished; both remove the request
\* from _reqs_to_process, which raises if it is not there
PGetFinished ==
    /\ pRunning # << >>
    /\ LET known == Notified
           late == (toSend \ known) \cap overdue
       IN  /\ toProcess' = toProcess \ (known \cup late)
           /\ toSend' = toSend \ (known \cup late)
           /\ overdue' = overdue \ (known \cup late)
           /\ crashed' = ~ (known \cup late \subseteq toProcess)
           /\ expired' = expired \cup late
           /\ pOutputs' = Append(pOutputs, [sent |-> known \cup late, ran |-> pRunning[1].ran])
    /\ notifs' = {}
    /\ pRunning' = << >>
    /\ UNCHANGED <<pSched, pSteps, dSched, dPipe, handshakeVars, dWorker, good>>

\* update_from_output: the prompts that are done are finished with
\* LENGTH_CAPPED and keep their blocks (request_finished), and their parameters
\* go to D; then _update_from_kv_xfer_finished frees what was sent
PUpdate ==
    /\ pOutputs # << >>
    /\ LET out == Head(pOutputs)
       IN  \E done \in SUBSET {r \in out.ran : pReq[r] = "running"} :
              /\ pReq' = Set(Set(pReq, done, "sending"), out.sent, "gone")
              /\ dReq' = Set(dReq, done, "arrived")
              /\ needSend' = needSend \cup done
              /\ crashed' = (\E r \in out.sent : pReq[r] = "gone")
    /\ pOutputs' = Tail(pOutputs)
    /\ UNCHANGED <<notProcessed, pSteps, pRunning, pWorker, needRecv, dPipe, handshakeVars,
                   dWorker, history>>

-----------------------------------------------------------------------------
(* Decoder *)

Blocks == "blocks"
NoBlocks == "no blocks"

\* schedule: update_state_after_alloc for the requests that get their blocks,
\* promotion of the ones whose blocks have come, build_connector_meta
DSchedule ==
    /\ Room(dSteps, dRunning, dOutputs, DDepth)
    /\ \E load \in SUBSET {r \in Request : dReq[r] = "arrived"} :
        /\ dReq' = Set(Set(dReq, load, "loading"),
                       {r \in Request : dReq[r] = "received"}, "running")
        /\ dSteps' = Append(dSteps, needRecv \cup (load \X {Blocks}))
    /\ needRecv' = {}
    /\ UNCHANGED <<pSched, pPipe, pWorker, dRunning, dOutputs, handshakeVars, dWorker,
                   crashed, history>>

\* finish_requests: a request that is still loading keeps its blocks
LoadingAborted == "aborting"

\* finish_requests for a client that gives up, in every state of the request;
\* one that D has not scheduled yet has P's blocks released (request_finished)
DAbort(r) ==
    /\ \/ /\ dReq[r] = "arrived" /\ MayAbortEarly
          /\ dReq' = [dReq EXCEPT ![r] = "gone"]
          /\ needRecv' = needRecv \cup {<<r, NoBlocks>>}
       \/ /\ dReq[r] = "loading"
          /\ dReq' = [dReq EXCEPT ![r] = LoadingAborted]
          /\ needRecv' = needRecv
       \/ /\ dReq[r] \in {"received", "running"}
          /\ dReq' = [dReq EXCEPT ![r] = "gone"]
          /\ needRecv' = needRecv
    /\ UNCHANGED <<pSched, pPipe, pWorker, dPipe, handshakeVars, dWorker, crashed, history>>

\* Mutant: a READ that cannot be posted is only logged
PostFailureLogged(fail) == UNCHANGED <<failedRecv, invalid>>

\* _read_blocks: the READs in fail could not be posted
PostFails(fail) ==
    /\ failedRecv' = failedRecv \cup fail
    /\ invalid' = invalid \cup fail

\* start_load_kv: requests go to the handshake or their READ is posted
\* (_read_blocks), which may fail.  The length of the first block group is
\* taken before anything else, so an empty list of groups raises.
DStartLoad ==
    /\ dSteps # << >> /\ dRunning = << >>
    /\ LET step == Head(dSteps)
           new == {e[1] : e \in step}
           post == ready \cup (IF agents THEN new ELSE {})
       IN  /\ crashed' = (\E e \in step : e[2] = NoBlocks)
           /\ recvMeta' = recvMeta \cup new
           /\ handshake' = IF agents THEN handshake ELSE handshake \cup new
           /\ \E fail \in SUBSET post :
                /\ fail # {} => ReadMayFail
                /\ xfer' = Set(xfer, post \ fail, "posted")
                /\ PostFails(fail)
           /\ dRunning' = <<step>>
    /\ dSteps' = Tail(dSteps)
    /\ ready' = {}
    /\ UNCHANGED <<pSched, pPipe, pWorker, dSched, dOutputs, agents, callbacks, engineVars,
                   collected, history>>

\* add_remote_agent, in the thread of the handshake: the first time it registers
\* P's engine, for good, and then goes on to checks that may fail
RegisterEngine ==
    /\ handshake # {}
    /\ ~registered
    /\ registered' = TRUE
    /\ UNCHANGED <<pSched, pPipe, pWorker, dSched, dPipe, agents, handshake, callbacks, ready,
                   unknownEngine, dWorker, crashed, history>>

\* done_callback of _background_nixl_handshake: the handshake may fail before or
\* after the engine is registered
HandshakeDone ==
    /\ handshake # {}
    /\ \E ok \in {TRUE} \cup {~ HandshakeMayFail} :
        /\ ok => registered
        /\ agents' = ok
        /\ callbacks' = Set(callbacks, handshake, IF ok THEN "put ready" ELSE "mark invalid")
    /\ handshake' = {}
    /\ UNCHANGED <<pSched, pPipe, pWorker, dSched, dPipe, ready, engineVars, dWorker, crashed,
                   history>>

\* Mutant: reports the failure before the blocks are marked
MarkLast(r) ==
    \/ /\ callbacks[r] = "put ready"
       /\ callbacks' = [callbacks EXCEPT ![r] = "none"]
       /\ ready' = ready \cup {r}
       /\ UNCHANGED <<failedRecv, invalid>>
    \/ /\ callbacks[r] = "mark invalid"
       /\ callbacks' = [callbacks EXCEPT ![r] = "add failed"]
       /\ failedRecv' = failedRecv \cup {r}
       /\ UNCHANGED <<invalid, ready>>
    \/ /\ callbacks[r] = "add failed"
       /\ callbacks' = [callbacks EXCEPT ![r] = "none"]
       /\ invalid' = invalid \cup {r}
       /\ UNCHANGED <<failedRecv, ready>>

\* request_ready, in the thread of the handshake
RequestReady(r) ==
    \/ /\ callbacks[r] = "put ready"
       /\ callbacks' = [callbacks EXCEPT ![r] = "none"]
       /\ ready' = ready \cup {r}
       /\ UNCHANGED <<failedRecv, invalid>>
    \/ /\ callbacks[r] = "mark invalid"
       /\ callbacks' = [callbacks EXCEPT ![r] = "add failed"]
       /\ invalid' = invalid \cup {r}
       /\ UNCHANGED <<failedRecv, ready>>
    \/ /\ callbacks[r] = "add failed"
       /\ callbacks' = [callbacks EXCEPT ![r] = "none"]
       /\ failedRecv' = failedRecv \cup {r}
       /\ UNCHANGED <<invalid, ready>>

Callback(r) ==
    /\ RequestReady(r)
    /\ UNCHANGED <<pSched, pPipe, pWorker, dSched, dPipe, agents, handshake, engineVars, recvMeta,
                   xfer, collected, crashed, history>>

\* NIXL: the READ ends, and P is notified if it succeeds
ReadEnds(r) ==
    /\ xfer[r] = "posted"
    /\ \/ /\ xfer' = [xfer EXCEPT ![r] = "done"]
          /\ notifs' = notifs \cup {r}
          /\ good' = IF pReq[r] = "sending" THEN good \cup {r} ELSE good
       \/ /\ ReadMayFail
          /\ xfer' = [xfer EXCEPT ![r] = "error"]
          /\ UNCHANGED <<notifs, good>>
    /\ UNCHANGED <<pSched, pPipe, toProcess, toSend, overdue, dSched, dPipe, handshakeVars,
                   recvMeta, failedRecv, invalid, collected, crashed, expired>>

\* The READs that _pop_done_transfers pops
Ended == {r \in Request : xfer[r] \in {"done", "error"}}

\* get_finished up to the update of done_recving: _pop_done_transfers, with
\* _handle_failed_transfer for a READ that failed, and _failed_recv_reqs
DCollect ==
    /\ dRunning # << >> /\ collected = << >>
    /\ collected' = <<Ended \cup failedRecv>>
    /\ invalid' = invalid \cup {r \in recvMeta : xfer[r] = "error"}
    /\ xfer' = Set(xfer, Ended, "none")
    /\ UNCHANGED <<pSched, pPipe, pWorker, dSched, dPipe, handshakeVars, recvMeta, failedRecv,
                   crashed, history>>

\* The rest of get_finished, which looks up the engine of every request it
\* reports, and get_block_ids_with_load_errors
DGetFinished ==
    /\ collected # << >>
    /\ failedRecv' = {}
    /\ recvMeta' = recvMeta \ collected[1]
    /\ crashed' = ~ (collected[1] \subseteq recvMeta)
    /\ unknownEngine' = (collected[1] # {} /\ ~registered)
    /\ dOutputs' = Append(dOutputs, [recvd |-> collected[1], invalid |-> invalid])
    /\ invalid' = {}
    /\ collected' = << >>
    /\ dRunning' = << >>
    /\ UNCHANGED <<pSched, pPipe, pWorker, dSched, dSteps, agents, handshake, callbacks, ready,
                   registered, xfer, history>>

\* update_from_output: requests with invalid blocks are finished with an error,
\* then _update_from_kv_xfer_finished
DUpdate ==
    /\ dOutputs # << >>
    /\ LET out == Head(dOutputs)
           failed == {r \in out.invalid : dReq[r] = "loading"}
           status == Set(dReq, failed, LoadingAborted)
       IN  /\ dReq' = [r \in Request |->
                         IF r \notin out.recvd THEN status[r]
                         ELSE IF status[r] = "loading" THEN "received" ELSE "gone"]
           /\ crashed' = (\E r \in out.recvd : status[r] \notin {"loading", "aborting"})
    /\ dOutputs' = Tail(dOutputs)
    /\ UNCHANGED <<pSched, pPipe, pWorker, needRecv, dSteps, dRunning, handshakeVars, dWorker,
                   history>>

-----------------------------------------------------------------------------

PNext == PSchedule \/ PStartLoad \/ PGetFinished \/ PUpdate
         \/ \E r \in Request : PAbort(r) \/ Timeout(r)

DNext == DSchedule \/ DStartLoad \/ RegisterEngine \/ HandshakeDone
         \/ DCollect \/ DGetFinished \/ DUpdate
         \/ \E r \in Request : DAbort(r) \/ Callback(r) \/ ReadEnds(r)

HandoffNext == ~crashed /\ ~unknownEngine /\ (PNext \/ DNext)

\* Workers run the steps they are given, outputs are applied, READs, time-outs
\* and handshakes end.  The engine of D schedules as long as a request is
\* loading, since it counts as unfinished; a "sending" or "aborting" request
\* does not, so for it nothing makes an engine schedule.
HandoffFairness ==
    /\ WF_vars(PStartLoad) /\ WF_vars(PGetFinished) /\ WF_vars(PUpdate)
    /\ WF_vars(DStartLoad) /\ WF_vars(DCollect) /\ WF_vars(DGetFinished)
    /\ WF_vars(DUpdate) /\ WF_vars(RegisterEngine) /\ WF_vars(HandshakeDone)
    /\ WF_vars(DSchedule /\ \E r \in Request : dReq[r] = "loading")
    /\ \A r \in Request : WF_vars(Timeout(r)) /\ WF_vars(Callback(r)) /\ WF_vars(ReadEnds(r))

HandoffSpec == HandoffInit /\ [][HandoffNext]_vars
FairHandoffSpec == HandoffSpec /\ HandoffFairness

-----------------------------------------------------------------------------
(* Properties *)

\* Statuses are the ones of the two schedulers, no more steps than a side
\* can queue are under way, and only requests with a timer run out of time.
HandoffTypeOK ==
    /\ pReq \in [Request -> {"new", "running", "sending", "gone"}]
    /\ dReq \in [Request -> {"none", "arrived", "loading", "aborting", "received",
                             "running", "gone"}]
    /\ xfer \in [Request -> {"none", "posted", "done", "error"}]
    /\ callbacks \in [Request -> {"none", "put ready", "mark invalid", "add failed"}]
    /\ Len(pSteps) + Len(pRunning) + Len(pOutputs) \in 0 .. PDepth
    /\ Len(dSteps) + Len(dRunning) + Len(dOutputs) \in 0 .. DDepth
    /\ overdue \subseteq toSend

\* No assertion of the connector or the schedulers fails and no key is missing:
\* in particular P never frees a request twice, whether the notification, the
\* timer or the abort comes first.  There is one exception: get_finished looks up
\* P's engine for a failed request too, and raises if the handshake failed before
\* it registered the engine; D has then read nothing from P.
NoTransferCrash ==
    /\ ~crashed
    /\ unknownEngine => HandshakeMayFail /\ ~agents /\ good = {}

\* A READ under way writes into blocks D still holds for the request, and reads
\* blocks P still holds unless P's timer has released them.
ReadKeepsBlocks ==
    \A r \in Request : xfer[r] = "posted" =>
        /\ dReq[r] \in {"loading", "aborting"}
        /\ pReq[r] = "sending" \/ r \in expired

\* A request that D decodes has its KV: its READ ended well while P held the
\* blocks, unless P's timer ran out first.  So no failure, of the handshake, of
\* posting or of the READ, reaches the scheduler as a loaded request.
LoadedIsValid ==
    \A r \in Request : dReq[r] \in {"received", "running"} => r \in good \cup expired

\* Every load ends: get_finished reports every request that starts to load,
\* also one that fails, unless it raises for an engine that was not registered.
EveryLoadEnds ==
    \A r \in Request : dReq[r] = "loading" ~> dReq[r] # "loading" \/ unknownEngine

\* While P's engine keeps scheduling, a finished request gives its blocks back,
\* when they are read or when its time runs out.
SentBlocksReturn ==
    []<><<PSchedule>>_vars => \A r \in Request : pReq[r] = "sending" ~> pReq[r] = "gone"

\* While D's engine keeps scheduling, a request that is aborted or whose READ
\* fails while it loads gives its blocks back: get_finished adds every request
\* that was started and did not transfer to done_recving.  It may lose a request
\* whose handshake fails while it clears _failed_recv_reqs.
AbortedBlocksReturn ==
    \A r \in Request :
        []<><<DSchedule>>_vars /\ [](callbacks[r] # "mark invalid") =>
            (dReq[r] = "aborting" ~> dReq[r] = "gone")

\* The blocks of both sides come back.
BlocksReturn == SentBlocksReturn /\ AbortedBlocksReturn
=============================================================================
