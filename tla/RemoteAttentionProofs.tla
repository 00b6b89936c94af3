----------------------- MODULE RemoteAttentionProofs ------------------------
(***************************************************************************)
(* Theorems about RemoteAttention, for any requests, any number of calls   *)
(* and connections, and whatever times out or breaks.                      *)
(***************************************************************************)
EXTENDS RemoteAttention, SequenceTheorems, WellFoundedInduction, TLAPS

Reply == {None} \cup [call : 0 .. MaxCalls,
                      kv : {<< >>} \cup UNION {[S -> Request] : S \in SUBSET Request}]
Conn == [requests : Seq(Message), answers : Seq(Reply), up : BOOLEAN]

RpcTypes ==
    /\ RpcTypeOK
    /\ known \in Seq(Request)
    /\ conns \in Seq(Conn)
    /\ serving = None \/ serving \in [conn : 1 .. Len(conns), msg : Message, keys : Nat]

Waits == wpc \in {"heartbeat", "receive"}

\* What the program counter of D's worker says
WorkerInv ==
    /\ wpc = "idle" => batch = {}
    /\ wpc # "idle" => call > 0
    /\ wpc = "open" => tries < 2
    /\ Waits => connected
    /\ wpc # "done" => result = None

\* P is serving a message of the connection that D uses
Serving == serving # None /\ serving.conn = conn

\* A connection in use carries nothing but what D's worker waits for: one
\* message, in one of three places.  So an answer that comes late finds its
\* connection abandoned.
OnePending ==
    LET c == conns[conn]
    IN  connected =>
          \/ c.requests = << >> /\ c.answers = << >> /\ ~Serving
          \/ Waits /\ Len(c.requests) = 1 /\ c.answers = << >> /\ ~Serving
          \/ Waits /\ c.requests = << >> /\ c.answers = << >> /\ Serving
          \/ Waits /\ c.requests = << >> /\ Len(c.answers) = 1 /\ ~Serving

\* No two requests of the model have the same uuid, as the ids of the API server do
\* unless one call has several prompts.
UuidsDiffer == \A r, s \in Request : Uuid[r] = Uuid[s] => r = s

OwnMessage == [kind |-> "attention", call |-> call, reqs |-> batch]
OwnReply(a) ==
    a # None => a.call = call /\ (UuidsDiffer => \A r \in batch : a.kv[r] = r)
OwnMerged == wpc = "done" => OwnReply(result)

\* While D's worker waits for the answer to its call, that is the call's own
\* message or the answer to it.
OwnPending ==
    LET c == conns[conn]
    IN  wpc = "receive" =>
          /\ Len(c.requests) = 1 => c.requests[1] = OwnMessage
          /\ Serving => serving.msg = OwnMessage
          /\ Len(c.answers) = 1 => OwnReply(c.answers[1])

RpcInv == RpcTypes /\ WorkerInv /\ OnePending /\ OwnPending /\ OwnMerged

-----------------------------------------------------------------------------
(* The operators *)

\* A set of naturals has a least element.
LEMMA Smallest ==
    ASSUME NEW S, S \subseteq Nat, S # {}
    PROVE  \E i \in S : \A j \in S : i <= j
<1> DEFINE R == {ss \in Nat \X Nat : ss[1] < ss[2]}
<1>1. IsWellFoundedOn(R, Nat)
    BY Zenon, NatLessThanWellFounded DEF OpToRel
<1> HIDE DEF R
<1>2. PICK i \in S : \A j \in S : ~ (<<j, i>> \in R)
    BY Zenon, <1>1, WFMin
<1>3. \A j \in S : i <= j
    <2> SUFFICES ASSUME NEW j \in S, j < i PROVE FALSE
        OBVIOUS
    <2>1. <<j, i>> \in R
        BY Zenon DEF R
    <2> QED BY Zenon, <1>2, <2>1
<1> QED BY Zenon, <1>3

\* _resolve_buffer_key finds a key with the uuid of the request, if there is one
LEMMA ResolveFacts ==
    ASSUME known \in Seq(Request), NEW r \in Request
    PROVE  /\ ResolveBufferKey(r) \in Request
           /\ UuidsDiffer => ResolveBufferKey(r) = r
<1> DEFINE same == {i \in DOMAIN known : Uuid[known[i]] = Uuid[r]}
           first == CHOOSE i \in same : \A j \in same : i <= j
<1>1. CASE same = {}
    BY Zenon, <1>1 DEF ResolveBufferKey
<1>2. CASE same # {}
    <2>1. same \subseteq Nat
        OBVIOUS
    <2>2. \E i \in same : \A j \in same : i <= j
        BY Zenon, <1>2, <2>1, Smallest
    <2>3. first \in same
        BY Zenon, <2>2
    <2>4. known[first] \in Request /\ Uuid[known[first]] = Uuid[r]
        BY SMTT(120), <2>3
    <2>5. ResolveBufferKey(r) = known[first]
        BY Zenon, <1>2 DEF ResolveBufferKey
    <2> QED BY Zenon, <2>4, <2>5 DEF UuidsDiffer
<1> QED BY Zenon, <1>1, <1>2

\* handle_batch answers with a reply, to its own message with its own
LEMMA AnswerFacts ==
    ASSUME RpcTypes, NEW msg \in Message, NEW keys \in Nat
    PROVE  /\ Answer(msg, keys) \in Reply
           /\ msg = OwnMessage => OwnReply(Answer(msg, keys))
<1>0. known \in Seq(Request) /\ 0 \in 0 .. MaxCalls
    BY SMTT(120), RemoteAssumption DEF RpcTypes
<1>1. CASE msg.kind = "heartbeat"
    <2>1. Answer(msg, keys) = [call |-> 0, kv |-> << >>]
        BY Zenon, <1>1 DEF Answer
    <2>2. msg # OwnMessage
        BY SMTT(120), <1>1 DEF OwnMessage
    <2> QED BY SMTT(120), <1>0, <2>1, <2>2 DEF Reply
<1>2. CASE msg.kind = "attention"
    <2>1. msg.reqs \in SUBSET Request /\ msg.call \in 0 .. MaxCalls
        BY SMTT(120), <1>2 DEF Message
    <2> DEFINE kv == [r \in msg.reqs |-> ResolveBufferKey(r)]
    <2>2. kv \in [msg.reqs -> Request]
        BY Zenon, <1>0, <2>1, ResolveFacts
    <2>3. kv \in UNION {[S -> Request] : S \in SUBSET Request}
        BY Zenon, <2>1, <2>2
    <2>4. Answer(msg, keys) = None \/ Answer(msg, keys) = [call |-> msg.call, kv |-> kv]
        BY Zenon, <1>2 DEF Answer
    <2>5. Answer(msg, keys) \in Reply
        BY SMTT(120), <2>1, <2>3, <2>4 DEF Reply
    <2>6. ASSUME msg = OwnMessage PROVE OwnReply(Answer(msg, keys))
        <3>1. msg.call = call /\ msg.reqs = batch
            BY Zenon, <2>6 DEF OwnMessage
        <3>2. UuidsDiffer => \A r \in batch : kv[r] = r
            BY Zenon, <1>0, <2>1, <2>6, <3>1, ResolveFacts
        <3> QED BY SMTT(120), <2>4, <3>1, <3>2 DEF OwnReply
    <2> QED BY Zenon, <2>5, <2>6
<1> QED BY Zenon, <1>1, <1>2 DEF Message

-----------------------------------------------------------------------------
(* The steps.  The queues of a connection change in three ways. *)

LEMMA RequestsChange ==
    ASSUME conns \in Seq(Conn), NEW c \in 1 .. Len(conns), NEW q \in Seq(Message),
           conns' = [conns EXCEPT ![c].requests = q]
    PROVE  /\ conns' \in Seq(Conn) /\ Len(conns') = Len(conns)
           /\ \A i \in 1 .. Len(conns) : i # c => conns'[i] = conns[i]
           /\ conns'[c].requests = q /\ conns'[c].answers = conns[c].answers
<1>1. conns[c] \in Conn
    OBVIOUS
<1>2. [conns[c] EXCEPT !.requests = q] \in Conn
    BY Zenon, <1>1 DEF Conn
<1>3. conns' = [conns EXCEPT ![c] = [conns[c] EXCEPT !.requests = q]]
    BY Zenon
<1>4. conns'[c] = [conns[c] EXCEPT !.requests = q]
    BY SMTT(120), <1>2, <1>3, ExceptSeq
<1> QED BY SMTT(120), <1>1, <1>2, <1>3, <1>4, ExceptSeq DEF Conn

LEMMA AnswersChange ==
    ASSUME conns \in Seq(Conn), NEW c \in 1 .. Len(conns), NEW q \in Seq(Reply),
           conns' = [conns EXCEPT ![c].answers = q]
    PROVE  /\ conns' \in Seq(Conn) /\ Len(conns') = Len(conns)
           /\ \A i \in 1 .. Len(conns) : i # c => conns'[i] = conns[i]
           /\ conns'[c].answers = q /\ conns'[c].requests = conns[c].requests
<1>1. conns[c] \in Conn
    OBVIOUS
<1>2. [conns[c] EXCEPT !.answers = q] \in Conn
    BY Zenon, <1>1 DEF Conn
<1>3. conns' = [conns EXCEPT ![c] = [conns[c] EXCEPT !.answers = q]]
    BY Zenon
<1>4. conns'[c] = [conns[c] EXCEPT !.answers = q]
    BY SMTT(120), <1>2, <1>3, ExceptSeq
<1> QED BY SMTT(120), <1>1, <1>2, <1>3, <1>4, ExceptSeq DEF Conn

\* A sequence of one element
LEMMA OneElement ==
    ASSUME NEW S, NEW q \in Seq(S), Len(q) = 1
    PROVE  Tail(q) = << >> /\ Head(q) = q[1]
<1>1. q # << >>
    OBVIOUS
<1>2. Tail(q) \in Seq(S)
    BY <1>1
<1>3. Len(Tail(q)) = 0
    <2>1. Len(Tail(q)) = Len(q) - 1
        BY Zenon, <1>1, HeadTailProperties
    <2> QED BY <2>1
<1>4. Tail(q) = << >>
    <2> DEFINE t == Tail(q)
    <2>1. t \in Seq(S) /\ Len(t) = 0
        BY Zenon, <1>2, <1>3
    <2> HIDE DEF t
    <2>2. t = << >>
        BY SMTT(120), <2>1
    <2> QED BY Zenon, <2>2 DEF t
<1>5. Head(q) = q[1]
    BY SMTT(120), <1>1
<1> QED BY Zenon, <1>4, <1>5

\* What P reads from a connection is a message
LEMMA RequestsAreMessages ==
    ASSUME NEW cs \in Seq(Conn), NEW i \in DOMAIN cs, NEW j \in DOMAIN cs[i].requests
    PROVE  cs[i].requests[j] \in Message
<1>1. cs[i] \in Conn
    OBVIOUS
<1>2. cs[i].requests \in Seq(Message)
    BY Zenon, <1>1 DEF Conn
<1> QED BY SMTT(120), <1>2

\* The invariant holds before the first request.
LEMMA RpcInvInit == RpcInit => RpcInv
<1> SUFFICES ASSUME RpcInit PROVE RpcInv
    BY Zenon
<1>1. RpcTypes
    BY SMTT(120), RemoteAssumption DEF RpcInit, RpcTypes, RpcTypeOK, KnownSet
<1>2. WorkerInv /\ OnePending /\ OwnPending /\ OwnMerged
    BY Zenon DEF RpcInit, WorkerInv, Waits, OnePending, OwnPending, OwnMerged, OwnReply
<1> QED BY Zenon, <1>1, <1>2 DEF RpcInv

\* P's main thread and the batch of D: nothing is on its way for D's worker
LEMMA RequestStepKeeps ==
    ASSUME RpcInv, NEW r \in Request, PSetup(r) \/ DActivate(r) \/ DFinish(r)
    PROVE  RpcInv'
<1> USE DEF RpcInv
<1>1. UNCHANGED <<serving, call, batch, result, wpc, tries, conn, connected, conns>>
    BY Zenon DEF PSetup, DActivate, DFinish, pVars
<1>2. known' \in Seq(Request) /\ KnownSet \subseteq KnownSet'
    <2>1. CASE PSetup(r)
        <3>1. known \in Seq(Request) /\ known' = Append(known, r)
            BY Zenon, <2>1 DEF PSetup, RpcTypes
        <3>2. \A i \in DOMAIN known : i \in DOMAIN known' /\ known'[i] = known[i]
            BY SMTT(120), <3>1
        <3> QED BY SMTT(120), <3>1, <3>2 DEF KnownSet
    <2>2. CASE ~PSetup(r)
        <3>1. known' = known
            BY Zenon, <2>2 DEF DActivate, DFinish, pVars
        <3> QED BY Zenon, <3>1 DEF RpcTypes, KnownSet
    <2> QED BY Zenon, <2>1, <2>2
<1>3. buffers' \subseteq KnownSet'
    <2>1. CASE PSetup(r)
        <3>1. known' = Append(known, r) /\ known \in Seq(Request) /\ buffers' = buffers \cup {r}
            BY Zenon, <2>1 DEF PSetup, RpcTypes
        <3>2. known'[Len(known) + 1] = r /\ Len(known) + 1 \in DOMAIN known'
            BY SMTT(120), <3>1
        <3> QED BY Zenon, <1>2, <3>1, <3>2 DEF KnownSet, RpcTypes, RpcTypeOK
    <2>2. CASE ~PSetup(r)
        BY Zenon, <1>2, <2>2 DEF DActivate, DFinish, pVars, RpcTypes, RpcTypeOK
    <2> QED BY Zenon, <2>1, <2>2
<1>4. /\ active' \subseteq buffers' /\ batch' \subseteq active'
      /\ finished' \subseteq Request /\ finished' \cap active' = {}
    BY SMTT(120) DEF PSetup, DActivate, DFinish, pVars, RpcTypes, RpcTypeOK, WorkerInv
<1>5. RpcTypes'
    BY ZenonT(60), <1>1, <1>2, <1>3, <1>4 DEF RpcTypes, RpcTypeOK
<1>6. WorkerInv' /\ OnePending' /\ OwnPending' /\ OwnMerged'
    BY ZenonT(60), <1>1 DEF WorkerInv, Waits, OnePending, Serving, OwnPending, OwnMessage, OwnMerged, OwnReply
<1> QED BY Zenon, <1>5, <1>6

\* Steps of D that leave the connections alone
LEMMA LocalStepKeeps ==
    ASSUME RpcInv, Submit \/ Merge \/ CheckConnected \/ ConnectFails \/ ReceiveFails
    PROVE  RpcInv'
<1> USE DEF RpcInv

<1>1. UNCHANGED <<pVars, active, finished, conn, conns>> /\ (connected' => connected /\ ~Waits)
    BY SMTT(120) DEF Submit, Merge, CheckConnected, ConnectFails, ReceiveFails, AfterFailure, dVars, Waits
<1>2. /\ wpc' \in {"idle", "check", "open", "send", "done"}
      /\ tries' \in 0 .. 2 /\ call' \in 0 .. MaxCalls /\ batch' \subseteq active
      /\ wpc' = "idle" => batch' = {}
      /\ wpc' # "idle" => call' > 0
      /\ wpc' = "open" => tries' < 2
      /\ result' = None
    BY SMTT(120), RemoteAssumption
       DEF Submit, Merge, CheckConnected, ConnectFails, ReceiveFails, dVars, RpcTypes,
           RpcTypeOK, WorkerInv, NeedsConnect, TimesOut
<1>3. RpcTypes'
    BY ZenonT(60), <1>1, <1>2 DEF RpcTypes, RpcTypeOK, KnownSet, pVars
<1>4. WorkerInv' /\ OwnPending' /\ OwnMerged'
    BY Zenon, <1>1, <1>2 DEF WorkerInv, Waits, OwnPending, OwnMerged, OwnReply
<1>5. OnePending'
    BY Zenon, <1>1, <1>2 DEF OnePending, Waits, Serving, pVars
<1> QED BY Zenon, <1>3, <1>4, <1>5

\* A new connection carries only the heartbeat
LEMMA ConnectKeeps == ASSUME RpcInv, Connect PROVE RpcInv'
<1> USE DEF RpcInv
<1> DEFINE new == [requests |-> <<[kind |-> "heartbeat"]>>, answers |-> << >>, up |-> TRUE]
<1>1. /\ wpc = "open" /\ wpc' = "heartbeat" /\ connected' /\ tries' = tries + 1
      /\ conns' = Append(conns, new) /\ conn' = Len(conns) + 1
      /\ UNCHANGED <<pVars, dVars, result>>
    BY Zenon DEF Connect
<1>2. new \in Conn
    BY SMTT(120) DEF Conn, Message
<1>3. /\ conns' \in Seq(Conn) /\ Len(conns') = Len(conns) + 1
      /\ conns'[conn'] = new /\ \A i \in 1 .. Len(conns) : conns'[i] = conns[i]
    BY SMTT(120), <1>1, <1>2 DEF RpcTypes
<1>4. \A i \in DOMAIN conns' : \A j \in DOMAIN conns'[i].requests :
          conns'[i].requests[j] \in Message
    BY Zenon, <1>3, RequestsAreMessages
<1>5. RpcTypes'
    BY SMTT(120), <1>1, <1>3, <1>4 DEF RpcTypes, RpcTypeOK, KnownSet, pVars, dVars, WorkerInv
<1>6. ~Serving'
    BY SMTT(120), <1>1 DEF Serving, RpcTypes, pVars
<1>7. WorkerInv' /\ OwnPending' /\ OwnMerged'
    BY Zenon, <1>1 DEF WorkerInv, Waits, OwnPending, OwnMerged, OwnReply, dVars
<1>8. OnePending'
    BY SMTT(120), <1>1, <1>3, <1>6 DEF OnePending, Waits
<1> QED BY Zenon, <1>5, <1>7, <1>8

\* The call goes onto a connection that carries nothing else
LEMMA SendKeeps == ASSUME RpcInv, Send PROVE RpcInv'
<1> USE DEF RpcInv
<1>1. wpc = "send" /\ UNCHANGED <<pVars, dVars, result, tries, conn, connected>>
    BY Zenon DEF Send
<1>2. CASE ~connected
    <2>1. wpc' = "done" /\ conns' = conns
        BY Zenon, <1>2 DEF Send
    <2> QED BY Zenon, <1>1, <1>2, <2>1 DEF RpcTypes, RpcTypeOK, KnownSet, WorkerInv, Waits, OnePending,
                Serving, OwnPending, OwnMerged, OwnReply, pVars, dVars
<1>3. CASE connected
    <2> DEFINE q == Append(conns[conn].requests, OwnMessage)
    <2>1. wpc' = "receive" /\ conns' = [conns EXCEPT ![conn].requests = q]
        BY Zenon, <1>3 DEF Send, OwnMessage
    <2>2. conn \in 1 .. Len(conns) /\ conns[conn] \in Conn
        BY SMTT(120), <1>3 DEF RpcTypes, RpcTypeOK
    <2>3. batch \subseteq Request
        BY SMTT(120) DEF RpcTypes, RpcTypeOK, KnownSet
    <2>4. OwnMessage \in Message
        BY SMTT(120), <1>1, <2>3 DEF OwnMessage, Message, RpcTypes, RpcTypeOK, WorkerInv
    <2>5. conns[conn].requests = << >> /\ conns[conn].answers = << >> /\ ~Serving
        BY Zenon, <1>1, <1>3 DEF OnePending, Waits
    <2>6. q = <<OwnMessage>> /\ q \in Seq(Message) /\ Len(q) = 1 /\ q[1] = OwnMessage
        BY SMTT(120), <2>4, <2>5
    <2> HIDE DEF q
    <2>7. /\ conns' \in Seq(Conn) /\ Len(conns') = Len(conns)
          /\ conns'[conn].requests = q /\ conns'[conn].answers = << >>
        BY ZenonT(60), <2>1, <2>2, <2>5, <2>6, RequestsChange DEF RpcTypes
    <2>8. \A i \in DOMAIN conns' : \A j \in DOMAIN conns'[i].requests :
              conns'[i].requests[j] \in Message
        BY Zenon, <2>7, RequestsAreMessages
    <2>9. RpcTypes'
        BY ZenonT(60), <1>1, <2>1, <2>7, <2>8 DEF RpcTypes, RpcTypeOK, KnownSet, pVars, dVars
    <2>10. ~Serving' /\ OwnMessage' = OwnMessage
        BY Zenon, <1>1, <2>5 DEF Serving, OwnMessage, pVars, dVars
    <2>11. WorkerInv' /\ OwnMerged'
        BY Zenon, <1>1, <1>3, <2>1 DEF WorkerInv, Waits, OwnMerged, OwnReply, dVars
    <2>12. OnePending'
        BY Zenon, <1>1, <2>1, <2>6, <2>7, <2>10 DEF OnePending, Waits
    <2>13. OwnPending'
        BY SMTT(120), <1>1, <2>1, <2>6, <2>7, <2>10 DEF OwnPending
    <2> QED BY Zenon, <2>9, <2>11, <2>12, <2>13
<1> QED BY Zenon, <1>2, <1>3

\* The one answer on the connection is taken
LEMMA ReceiveKeeps == ASSUME RpcInv, Receive PROVE RpcInv'
<1> USE DEF RpcInv
<1> DEFINE a == conns[conn].answers
<1>1. /\ Waits /\ a # << >> /\ conns' = [conns EXCEPT ![conn].answers = Tail(a)]
      /\ wpc' = IF wpc = "heartbeat" THEN "check" ELSE "done"
      /\ result' = IF wpc = "heartbeat" THEN None ELSE Head(a)
      /\ UNCHANGED <<pVars, dVars, tries, conn, connected>>
    BY Zenon DEF Receive, Waits
<1>2. connected /\ conn \in 1 .. Len(conns) /\ conns[conn] \in Conn
    BY SMTT(120), <1>1 DEF WorkerInv, RpcTypes, RpcTypeOK
<1>3. conns[conn].requests = << >> /\ Len(a) = 1 /\ ~Serving
    BY Zenon, <1>1, <1>2 DEF OnePending
<1>4. a \in Seq(Reply) /\ Tail(a) = << >> /\ Head(a) = a[1]
    <2>1. a \in Seq(Reply)
        BY Zenon, <1>2 DEF Conn
    <2>2. Len(a) = 1
        BY Zenon, <1>3
    <2> HIDE DEF a
    <2> QED BY Zenon, <2>1, <2>2, OneElement
<1> HIDE DEF a
<1>5. /\ conns' \in Seq(Conn) /\ Len(conns') = Len(conns)
      /\ conns'[conn].requests = << >> /\ conns'[conn].answers = << >>
    <2>1. << >> \in Seq(Reply) /\ conns' = [conns EXCEPT ![conn].answers = << >>]
        BY Zenon, <1>1, <1>4, EmptySeq
    <2>2. conns \in Seq(Conn)
        BY Zenon DEF RpcTypes
    <2> QED BY Zenon, <1>2, <1>3, <2>1, <2>2, AnswersChange
<1>6. \A i \in DOMAIN conns' : \A j \in DOMAIN conns'[i].requests :
          conns'[i].requests[j] \in Message
    BY Zenon, <1>5, RequestsAreMessages
<1>7. RpcTypes'
    BY ZenonT(60), <1>1, <1>5, <1>6 DEF RpcTypes, RpcTypeOK, KnownSet, pVars, dVars
<1>8. OnePending' /\ OwnPending'
    BY Zenon, <1>1, <1>3, <1>5 DEF OnePending, OwnPending, Serving, pVars
<1>9. WorkerInv'
    BY Zenon, <1>1 DEF WorkerInv, Waits, dVars
<1>10. OwnMerged'
    <2>1. CASE wpc = "heartbeat"
        BY Zenon, <1>1, <2>1 DEF OwnMerged, OwnReply
    <2>2. CASE wpc = "receive"
        <3>1. OwnReply(a[1])
            BY Zenon, <1>3, <2>2 DEF OwnPending, a
        <3> QED BY Zenon, <1>1, <1>4, <2>2, <3>1 DEF OwnMerged, OwnReply, dVars
    <2> QED BY Zenon, <1>1, <2>1, <2>2 DEF Waits
<1> QED BY Zenon, <1>7, <1>8, <1>9, <1>10

\* A lost connection keeps what it carries
LEMMA BreakKeeps == ASSUME RpcInv, Break PROVE RpcInv'
<1> USE DEF RpcInv
<1>1. /\ connected /\ conns' = [conns EXCEPT ![conn].up = FALSE]
      /\ UNCHANGED <<pVars, dVars, result, wpc, tries, conn, connected>>
    BY Zenon DEF Break
<1>2. conn \in 1 .. Len(conns) /\ conns[conn] \in Conn /\ conns \in Seq(Conn)
    BY SMTT(120), <1>1 DEF RpcTypes, RpcTypeOK
<1> DEFINE new == [conns[conn] EXCEPT !.up = FALSE]
<1>3. /\ new \in Conn /\ new.requests = conns[conn].requests
      /\ new.answers = conns[conn].answers
    BY Zenon, <1>2 DEF Conn
<1>4. conns' = [conns EXCEPT ![conn] = new]
    BY Zenon, <1>1
<1> HIDE DEF new
<1>5. conns' \in Seq(Conn) /\ Len(conns') = Len(conns) /\ conns'[conn] = new
    BY SMTT(120), <1>2, <1>3, <1>4, ExceptSeq
<1>6. \A i \in DOMAIN conns' : \A j \in DOMAIN conns'[i].requests :
          conns'[i].requests[j] \in Message
    BY Zenon, <1>5, RequestsAreMessages
<1>7. RpcTypes'
    BY Zenon, <1>1, <1>5, <1>6 DEF RpcTypes, RpcTypeOK, KnownSet, pVars, dVars
<1>8. Serving' = Serving /\ OwnMessage' = OwnMessage /\ \A a : OwnReply(a)' = OwnReply(a)
    BY Zenon, <1>1 DEF Serving, OwnMessage, OwnReply, pVars, dVars
<1>9. WorkerInv' /\ OwnMerged'
    BY Zenon, <1>1 DEF WorkerInv, Waits, OwnMerged, OwnReply, dVars
<1>10. OnePending'
    BY Zenon, <1>1, <1>3, <1>5, <1>8 DEF OnePending, Waits
<1>11. OwnPending'
    BY SMTT(120), <1>1, <1>3, <1>5 DEF OwnPending, Serving, OwnMessage, OwnReply, pVars, dVars
<1> QED BY SMTT(120), <1>7, <1>9, <1>10, <1>11

\* P takes a message: from the connection in use, the one that D waits for
LEMMA ServeBeginKeeps ==
    ASSUME RpcInv, NEW c \in DOMAIN conns, ServeBegin(c) PROVE RpcInv'
<1> USE DEF RpcInv
<1> DEFINE q == conns[c].requests
<1>1. /\ serving = None /\ q # << >>
      /\ serving' = [conn |-> c, msg |-> Head(q), keys |-> Len(known)]
      /\ conns' = [conns EXCEPT ![c].requests = Tail(q)]
      /\ UNCHANGED <<known, buffers, dVars, result, wpc, tries, conn, connected>>
    BY Zenon DEF ServeBegin
<1>2. c \in 1 .. Len(conns) /\ conns[c] \in Conn /\ conns \in Seq(Conn)
    BY SMTT(120) DEF RpcTypes
<1>3. q \in Seq(Message)
    BY Zenon, <1>2 DEF Conn
<1>4. Head(q) \in Message /\ Tail(q) \in Seq(Message)
    BY SMTT(120), <1>1, <1>3
<1>5. /\ conns' \in Seq(Conn) /\ Len(conns') = Len(conns)
      /\ \A i \in 1 .. Len(conns) : i # c => conns'[i] = conns[i]
      /\ conns'[c].requests = Tail(q) /\ conns'[c].answers = conns[c].answers
    BY Zenon, <1>1, <1>2, <1>4, RequestsChange
<1>6. \A i \in DOMAIN conns' : \A j \in DOMAIN conns'[i].requests :
          conns'[i].requests[j] \in Message
    BY Zenon, <1>5, RequestsAreMessages
<1>7. RpcTypes'
    <2>1. serving' \in [conn : 1 .. Len(conns'), msg : Message, keys : Nat]
        BY SMTT(120), <1>1, <1>2, <1>4, <1>5 DEF RpcTypes
    <2> QED BY SMTT(120), <1>1, <1>5, <1>6, <2>1 DEF RpcTypes, RpcTypeOK, KnownSet, dVars
<1>8. WorkerInv' /\ OwnMerged'
    BY Zenon, <1>1 DEF WorkerInv, Waits, OwnMerged, OwnReply, dVars
<1>9. OwnMessage' = OwnMessage /\ ~Serving /\ (Waits' <=> Waits)
    BY Zenon, <1>1 DEF OwnMessage, Serving, Waits, dVars
<1>10. CASE ~connected
    <2>1. wpc # "receive"
        BY Zenon, <1>10 DEF WorkerInv, Waits
    <2> QED BY Zenon, <1>1, <1>7, <1>8, <1>10, <2>1 DEF OnePending, OwnPending
<1>11. CASE connected /\ c # conn
    <2>1. conn \in 1 .. Len(conns)
        BY SMTT(120), <1>11 DEF RpcTypes, RpcTypeOK
    <2>2. ~Serving' /\ conns'[conn] = conns[conn]
        BY Zenon, <1>1, <1>5, <1>11, <2>1 DEF Serving
    <2>3. OnePending'
        BY Zenon, <1>1, <1>9, <2>2 DEF OnePending
    <2>4. OwnPending'
        BY ZenonT(60), <1>1, <2>2 DEF OwnPending, OwnMessage, OwnReply, dVars
    <2> QED BY Zenon, <1>7, <1>8, <2>3, <2>4
<1>12. CASE connected /\ c = conn
    <2>1. Waits /\ Len(q) = 1 /\ conns[c].answers = << >>
        BY Zenon, <1>1, <1>12 DEF OnePending
    <2> HIDE DEF q
    <2>2. Tail(q) = << >> /\ Head(q) = q[1]
        BY Zenon, <1>3, <2>1, OneElement
    <2>3. /\ conns'[conn'].requests = << >> /\ conns'[conn'].answers = << >>
        BY Zenon, <1>1, <1>5, <1>12, <2>1, <2>2
    <2>4. OnePending'
        BY Zenon, <1>1, <1>9, <2>1, <2>3 DEF OnePending
    <2>5. wpc = "receive" => Head(q) = OwnMessage
        BY Zenon, <1>12, <2>1, <2>2 DEF OwnPending, q
    <2>6. wpc' = "receive" => serving'.msg = OwnMessage'
        BY Zenon, <1>1, <1>9, <2>5
    <2>7. Len(conns'[conn'].requests) # 1 /\ Len(conns'[conn'].answers) # 1
        BY SMTT(120), <2>3
    <2>8. OwnPending'
        BY Zenon, <2>6, <2>7 DEF OwnPending
    <2> QED BY <1>7, <1>8, <2>4, <2>8
<1> QED BY Zenon, <1>10, <1>11, <1>12

\* P answers
LEMMA ServeEndKeeps == ASSUME RpcInv, ServeEnd PROVE RpcInv'
<1> USE DEF RpcInv
<1> DEFINE c == serving.conn
           reply == Answer(serving.msg, serving.keys)
           q == Append(conns[c].answers, reply)
<1>1. /\ serving # None /\ serving' = None
      /\ conns' = [conns EXCEPT ![c].answers = q]
      /\ UNCHANGED <<known, buffers, dVars, result, wpc, tries, conn, connected>>
    BY Zenon DEF ServeEnd
<1>2. /\ c \in 1 .. Len(conns) /\ conns[c] \in Conn /\ conns \in Seq(Conn)
      /\ serving.msg \in Message /\ serving.keys \in Nat
    BY SMTT(120), <1>1 DEF RpcTypes
<1>3. /\ reply \in Reply
      /\ serving.msg = OwnMessage => OwnReply(reply)
    BY Zenon, <1>2, AnswerFacts
<1> HIDE DEF reply
<1>4. conns[c].answers \in Seq(Reply) /\ q \in Seq(Reply)
    BY SMTT(120), <1>2, <1>3 DEF Conn
<1>5. /\ conns' \in Seq(Conn) /\ Len(conns') = Len(conns)
      /\ \A i \in 1 .. Len(conns) : i # c => conns'[i] = conns[i]
      /\ conns'[c].answers = q /\ conns'[c].requests = conns[c].requests
    <2> HIDE DEF c, q
    <2> QED BY Zenon, <1>1, <1>2, <1>4, AnswersChange
<1>6. \A i \in DOMAIN conns' : \A j \in DOMAIN conns'[i].requests :
          conns'[i].requests[j] \in Message
    BY Zenon, <1>5, RequestsAreMessages
<1>7. RpcTypes'
    BY SMTT(120), <1>1, <1>5, <1>6 DEF RpcTypes, RpcTypeOK, KnownSet, dVars
<1>8. WorkerInv' /\ OwnMerged'
    BY Zenon, <1>1 DEF WorkerInv, Waits, OwnMerged, OwnReply, dVars
<1>9. OwnMessage' = OwnMessage /\ ~Serving' /\ (Waits' <=> Waits)
    BY Zenon, <1>1 DEF OwnMessage, Serving, Waits, dVars
<1>10. CASE ~connected
    <2>1. wpc # "receive"
        BY Zenon, <1>10 DEF WorkerInv, Waits
    <2> QED BY Zenon, <1>1, <1>7, <1>8, <1>10, <2>1 DEF OnePending, OwnPending
<1>11. CASE connected /\ c # conn
    <2>1. conn \in 1 .. Len(conns)
        BY SMTT(120), <1>11 DEF RpcTypes, RpcTypeOK
    <2>2. ~Serving /\ conns'[conn] = conns[conn]
        BY Zenon, <1>1, <1>5, <1>11, <2>1 DEF Serving
    <2>3. OnePending'
        BY Zenon, <1>1, <1>9, <2>2 DEF OnePending
    <2>4. OwnPending'
        BY ZenonT(120), <1>1, <1>9, <2>2 DEF OwnPending, OwnMessage, OwnReply, dVars
    <2> QED BY Zenon, <1>7, <1>8, <2>3, <2>4
<1>12. CASE connected /\ c = conn
    <2>1. Serving /\ Waits /\ conns[c].requests = << >> /\ conns[c].answers = << >>
        BY Zenon, <1>1, <1>12 DEF OnePending, Serving
    <2>2. q = <<reply>> /\ Len(q) = 1 /\ q[1] = reply
        BY <1>3, <2>1
    <2> HIDE DEF q
    <2>3. conns'[conn'].requests = << >> /\ conns'[conn'].answers = q
        BY Zenon, <1>1, <1>5, <1>12, <2>1
    <2>4. OnePending'
        BY Zenon, <1>1, <1>9, <2>1, <2>2, <2>3 DEF OnePending
    <2>5. wpc = "receive" => OwnReply(reply)
        BY Zenon, <1>3, <2>1 DEF OwnPending
    <2>6. OwnPending'
        BY SMTT(120), <1>1, <1>9, <2>2, <2>3, <2>5 DEF OwnPending, OwnReply, dVars
    <2> QED BY <1>7, <1>8, <2>4, <2>6
<1> QED BY Zenon, <1>10, <1>11, <1>12

\* Every step keeps the invariant.
LEMMA RpcInvStep == RpcInv /\ [RpcNext]_rpcVars => RpcInv'
<1> SUFFICES ASSUME RpcInv, [RpcNext]_rpcVars PROVE RpcInv'
    BY Zenon
<1>1. ASSUME NEW r \in Request, PSetup(r) \/ DActivate(r) \/ DFinish(r) PROVE RpcInv'
    BY Zenon, <1>1, RequestStepKeeps
<1>2. CASE Submit
    BY Zenon, <1>2, LocalStepKeeps
<1>3. CASE WorkerNext
    BY Zenon, <1>3, LocalStepKeeps, ConnectKeeps, SendKeeps, ReceiveKeeps DEF WorkerNext
<1>4. CASE Break
    BY Zenon, <1>4, BreakKeeps
<1>5. ASSUME NEW c \in DOMAIN conns, ServeBegin(c) PROVE RpcInv'
    BY Zenon, <1>5, ServeBeginKeeps
<1>6. CASE ServeEnd
    BY SMTT(120), <1>6, ServeEndKeeps
<1>7. CASE UNCHANGED rpcVars
    <2>1. /\ UNCHANGED <<known, buffers, serving, active, finished, call, batch>>
          /\ UNCHANGED <<result, wpc, tries, conn, connected, conns>>
        BY Zenon, <1>7 DEF rpcVars
    <2>2. RpcTypes'
        BY Zenon, <2>1 DEF RpcInv, RpcTypes, RpcTypeOK, KnownSet
    <2>3. WorkerInv'
        BY Zenon, <2>1 DEF RpcInv, WorkerInv, Waits
    <2>4. OnePending'
        BY Zenon, <2>1 DEF RpcInv, OnePending, Serving, Waits
    <2>5. OwnPending' /\ OwnMerged'
        BY Zenon, <2>1 DEF RpcInv, OwnPending, OwnMessage, OwnReply, Serving, OwnMerged, Waits
    <2> QED BY Zenon, <2>2, <2>3, <2>4, <2>5 DEF RpcInv
<1> QED BY Zenon, <1>1, <1>2, <1>3, <1>4, <1>5, <1>6, <1>7 DEF RpcNext

-----------------------------------------------------------------------------
(* The theorems *)

\* Whatever D merges into a layer is the answer to the call of this layer, for
\* each request from its own buffer: with any timeouts, lost connections and
\* late answers, as long as no two requests share a uuid (_send_receive drops
\* its connection after every failure).
THEOREM ResultsAreOwn == ASSUME UuidsDiffer PROVE RpcSpec => []OwnResult
<1>1. RpcInv => OwnResult
    BY Zenon DEF RpcInv, OwnMerged, OwnReply, OwnResult
<1> QED BY RpcInvInit, RpcInvStep, <1>1, PTL DEF RpcSpec

\* A connection in use carries at most the one message that D's worker waits
\* for, in one of three places, and nothing when it waits for none; so what it
\* merges answers the call under way, even when uuids are shared.  This is why
\* dropping the connection after a failure is enough to lose late answers.
THEOREM OneMessagePerConnection == RpcSpec => [](RpcTypeOK /\ OnePending /\ OwnMerged)
<1>1. RpcInv => RpcTypeOK /\ OnePending /\ OwnMerged
    BY Zenon DEF RpcInv, RpcTypes
<1> QED BY RpcInvInit, RpcInvStep, <1>1, PTL DEF RpcSpec
=============================================================================
