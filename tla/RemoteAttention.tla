-------------------------- MODULE RemoteAttention ---------------------------
(***************************************************************************)
(* Attention over the offloaded KV: the decoder D asks the prefiller P in  *)
(* every layer of a decode step (gpu_model_runner.py,                      *)
(* _schedule_remote_attention; llama.py, forward), over one TCP connection *)
(* (rpc_kv/client.py, server.py).  P answers from its CPU buffers          *)
(* (nelssa/cpu_attention.py, handle_batch) on the thread of its RPC        *)
(* server, while its main thread prefills new requests.                    *)
(*                                                                         *)
(* D has one worker thread for these calls, so one call is under way at a  *)
(* time.  A connection is a pair of message queues.  A call is known by    *)
(* its number and the result for a request by the buffer it was computed   *)
(* from.                                                                   *)
(***************************************************************************)
EXTENDS Integers, Sequences, FiniteSets

CONSTANTS Request,       \* long requests, by the id that P gave them
          Uuid,          \* Uuid[r]: the part of the id that _resolve_buffer_key compares
          MaxCalls,      \* bound: calls of the model
          MayTimeout,    \* a connection or an answer takes longer than config.timeout
          MayBreak,      \* a connection is lost
          None

ASSUME RemoteAssumption ==
    /\ MaxCalls \in Nat
    /\ MayTimeout \in BOOLEAN /\ MayBreak \in BOOLEAN
    /\ None \notin Request

VARIABLES known,      \* P: _request_id_to_buffer_key in insertion order
          buffers,    \* P: the requests in _sparse_kv_cpu_buffers
          serving,    \* P: the message in handle_batch and the keys when its loop began, or None
          active,     \* D: the long requests that decode
          finished,   \* D: those that have ended
          call,       \* D: number of the call
          batch,      \* D: its requests
          result,     \* D: buffer used for each request, with the number of the call; or None
          wpc,        \* the worker thread of D
          tries,      \* calls of connect in this call
          conn,       \* the connection of _reader and _writer, 0 at first
          connected,  \* _connected
          conns       \* the connections, old ones included

rpcVars == <<known, buffers, serving, active, finished, call, batch, result, wpc, tries,
             conn, connected, conns>>
pVars == <<known, buffers, serving>>
dVars == <<active, finished, call, batch>>

Message == [kind : {"heartbeat"}] \cup
           [kind : {"attention"}, call : 1 .. MaxCalls, reqs : SUBSET Request]
KnownSet == {known[i] : i \in DOMAIN known}

RpcTypeOK ==
    /\ buffers \subseteq KnownSet
    /\ active \subseteq buffers
    /\ finished \subseteq Request /\ finished \cap active = {}
    /\ call \in 0 .. MaxCalls
    /\ batch \subseteq active
    /\ wpc \in {"idle", "check", "open", "heartbeat", "send", "receive", "done"}
    /\ tries \in 0 .. 2
    /\ conn \in 0 .. Len(conns)
    /\ connected => conn > 0
    /\ \A i \in DOMAIN conns : \A j \in DOMAIN conns[i].requests :
          conns[i].requests[j] \in Message

RpcInit ==
    /\ known = << >> /\ buffers = {} /\ serving = None
    /\ active = {} /\ finished = {} /\ call = 0 /\ batch = {} /\ result = None
    /\ wpc = "idle" /\ tries = 0
    /\ conn = 0 /\ connected = FALSE /\ conns = << >>

-----------------------------------------------------------------------------
(* P's main thread, and the hand-over to D *)

\* _setup_sparse_kv_offloading for a new long request
PSetup(r) ==
    /\ r \notin KnownSet
    /\ known' = Append(known, r)
    /\ buffers' = buffers \cup {r}
    /\ UNCHANGED <<serving, active, finished, call, batch, result, wpc, tries,
                   conn, connected, conns>>

\* The prefill is done and D decodes the request
DActivate(r) ==
    /\ wpc = "idle"
    /\ r \in buffers \ (active \cup finished)
    /\ active' = active \cup {r}
    /\ UNCHANGED <<pVars, finished, call, batch, result, wpc, tries, conn, connected, conns>>

\* The request ends on D; _cleanup_sparse_kv_cache of D frees nothing of P
DFinish(r) ==
    /\ wpc = "idle"
    /\ r \in active
    /\ active' = active \ {r}
    /\ finished' = finished \cup {r}
    /\ UNCHANGED <<pVars, call, batch, result, wpc, tries, conn, connected, conns>>

-----------------------------------------------------------------------------
(* D: one layer *)

\* _schedule_remote_attention submits the call for the long requests of the batch
Submit ==
    \E b \in SUBSET active \ {{}} :
        /\ wpc = "idle"
        /\ call < MaxCalls
        /\ call' = call + 1
        /\ batch' = b
        /\ wpc' = "check"
        /\ tries' = 0
        /\ result' = None
        /\ UNCHANGED <<pVars, active, finished, conn, connected, conns>>

\* future.result() and the merge, or the GPU's result alone
Merge ==
    /\ wpc = "done"
    /\ wpc' = "idle"
    /\ batch' = {}
    /\ result' = None
    /\ UNCHANGED <<pVars, active, finished, call, tries, conn, connected, conns>>

\* send_sparse_attention_batch tests the connection twice, before and after it
\* has built its message
NeedsConnect == ~connected /\ tries < 2

CheckConnected ==
    /\ wpc = "check"
    /\ wpc' = IF NeedsConnect THEN "open" ELSE "send"
    /\ UNCHANGED <<pVars, dVars, result, tries, conn, connected, conns>>

\* connect: a new connection and a heartbeat on it
Connect ==
    /\ wpc = "open"
    /\ conns' = Append(conns, [requests |-> <<[kind |-> "heartbeat"]>>,
                               answers |-> << >>, up |-> TRUE])
    /\ conn' = Len(conns) + 1
    /\ connected' = TRUE
    /\ tries' = tries + 1
    /\ wpc' = "heartbeat"
    /\ UNCHANGED <<pVars, dVars, result>>

\* connect raises ConnectionError, which batch_rpc_wrapper turns into None
ConnectFails ==
    /\ wpc = "open"
    /\ MayTimeout
    /\ wpc' = "done"
    /\ UNCHANGED <<pVars, dVars, result, tries, conn, connected, conns>>

Send ==
    /\ wpc = "send"
    /\ IF connected
       THEN /\ wpc' = "receive"
            /\ conns' = [conns EXCEPT ![conn].requests =
                            Append(@, [kind |-> "attention", call |-> call, reqs |-> batch])]
       ELSE wpc' = "done" /\ UNCHANGED conns
    /\ UNCHANGED <<pVars, dVars, result, tries, conn, connected>>

\* The next answer on the connection; an error answer gives no result.  The
\* heartbeat takes whatever comes.
Receive ==
    /\ wpc \in {"heartbeat", "receive"}
    /\ conns[conn].up
    /\ conns[conn].answers # << >>
    /\ wpc' = IF wpc = "heartbeat" THEN "check" ELSE "done"
    /\ result' = IF wpc = "heartbeat" THEN None ELSE Head(conns[conn].answers)
    /\ conns' = [conns EXCEPT ![conn].answers = Tail(@)]
    /\ UNCHANGED <<pVars, dVars, tries, conn, connected>>

\* Mutant: only the heartbeat has a timeout
OnlyHeartbeatTimesOut == wpc = "heartbeat" /\ MayTimeout

\* asyncio.wait_for ends the wait for an answer
TimesOut == wpc \in {"heartbeat", "receive"} /\ MayTimeout

\* Mutant: the connection is used again after a timeout
ConnectedAfterFailure == connected

\* The exception handlers of _send_receive
AfterFailure == FALSE

\* No answer in time, or the connection is lost
ReceiveFails ==
    /\ \/ TimesOut
       \/ wpc \in {"heartbeat", "receive"} /\ ~conns[conn].up
    /\ connected' = AfterFailure
    /\ wpc' = IF wpc = "heartbeat" THEN "check" ELSE "done"
    /\ UNCHANGED <<pVars, dVars, result, tries, conn, conns>>

\* The connection in use is lost
Break ==
    /\ MayBreak
    /\ connected
    /\ conns[conn].up
    /\ conns' = [conns EXCEPT ![conn].up = FALSE]
    /\ UNCHANGED <<pVars, dVars, result, wpc, tries, conn, connected>>

-----------------------------------------------------------------------------
(* P's RPC server: one event loop, no await while a message is handled *)

\* _handle_client reads the next message; handle_batch begins to resolve its ids
ServeBegin(c) ==
    /\ serving = None
    /\ conns[c].up
    /\ conns[c].requests # << >>
    /\ serving' = [conn |-> c, msg |-> Head(conns[c].requests), keys |-> Len(known)]
    /\ conns' = [conns EXCEPT ![c].requests = Tail(@)]
    /\ UNCHANGED <<known, buffers, dVars, result, wpc, tries, conn, connected>>

\* _resolve_buffer_key: the first id with the same uuid
ResolveBufferKey(r) ==
    LET same == {i \in DOMAIN known : Uuid[known[i]] = Uuid[r]}
    IN  IF same = {} THEN r ELSE known[CHOOSE i \in same : \A j \in same : i <= j]

\* handle_batch: a dict that has grown since its loop began raises, and so does
\* a request without a buffer; an error is answered with success=False
Answer(msg, keys) ==
    CASE msg.kind = "heartbeat" -> [call |-> 0, kv |-> << >>]
      [] msg.kind = "attention" /\ keys # Len(known) -> None
      [] msg.kind = "attention" /\ \E r \in msg.reqs : ResolveBufferKey(r) \notin buffers -> None
      [] OTHER -> [call |-> msg.call, kv |-> [r \in msg.reqs |-> ResolveBufferKey(r)]]

ServeEnd ==
    /\ serving # None
    /\ serving' = None
    /\ conns' = [conns EXCEPT ![serving.conn].answers =
                    Append(@, Answer(serving.msg, serving.keys))]
    /\ UNCHANGED <<known, buffers, dVars, result, wpc, tries, conn, connected>>

-----------------------------------------------------------------------------
WorkerNext == Merge \/ CheckConnected \/ Connect \/ ConnectFails \/ Send \/ Receive \/ ReceiveFails

RpcNext ==
    \/ \E r \in Request : PSetup(r) \/ DActivate(r) \/ DFinish(r)
    \/ Submit
    \/ WorkerNext
    \/ Break
    \/ \E c \in DOMAIN conns : ServeBegin(c)
    \/ ServeEnd

\* D's threads run and the timers of asyncio.wait_for fire; nothing is assumed
\* of P
RpcFairness == WF_rpcVars(WorkerNext) /\ \A r \in Request : WF_rpcVars(DFinish(r))

RpcSpec == RpcInit /\ [][RpcNext]_rpcVars /\ RpcFairness

-----------------------------------------------------------------------------
(* Properties *)

\* What D merges into a layer was computed for this layer, from the buffer of
\* each request itself: neither a late answer to an earlier call nor the
\* buffer of another request.
OwnResult ==
    wpc = "done" /\ result # None =>
        result.call = call /\ \A r \in batch : result.kv[r] = r

\* A decode step never hangs on P: the main thread waits for the future without
\* a timeout, and every wait of the worker has one.
CallEnds == wpc = "check" ~> wpc = "idle"

\* Without a network failure every call has a result: P keeps the buffers of
\* the requests that D decodes.
AlwaysMerged == wpc = "done" => result # None

\* The buffers of a request that has ended on D are given back on P.
BuffersReleased == \A r \in Request : r \in finished ~> r \notin buffers
=============================================================================
