---------------------------- MODULE ShmRingBuffer ----------------------------
(***************************************************************************)
(* MessageQueue over ShmRingBuffer (vllm/distributed/device_communicators/ *)
(* shm_broadcast.py): one writer and its local readers share a ring of     *)
(* max_chunks chunks, each with a written flag and one read flag a reader, *)
(* and no lock.  A message too large for a chunk leaves a marker in the    *)
(* chunk and goes through a socket.  Readers that find nothing wait for a  *)
(* ping of SpinCondition.                                                  *)
(*                                                                         *)
(* Every access to a shared flag is a step; memory_fence() orders them.    *)
(* dequeue is called without a timeout, as worker_busy_loop does.          *)
(***************************************************************************)
EXTENDS Integers, Sequences, FiniteSets

CONSTANTS NReaders,     \* buffer.n_reader
          MaxChunks,    \* buffer.max_chunks
          MaxMessages   \* bound: messages the writer sends

ASSUME RingAssumption ==
    /\ NReaders \in Nat
    /\ MaxChunks \in Nat \ {0}
    /\ MaxMessages \in Nat

Reader == 1 .. NReaders
Chunk == 0 .. MaxChunks - 1

\* A message and whether it overflows max_chunk_bytes
Message == [id : 1 .. MaxMessages, overflow : BOOLEAN]
NoMessage == [id |-> 0, overflow |-> FALSE]

VARIABLES written,   \* metadata_buffer[0] of each chunk
          readFlag,  \* the readers whose read flag is 1
          data,      \* the content of each chunk
          wpc,       \* where the writer is in enqueue
          wIdx,      \* current_idx of the writer
          sending,   \* the message being enqueued
          rpc,       \* where each reader is in dequeue
          rIdx,      \* current_idx of the readers
          seen,      \* read_flag as a reader last saw it
          buf,       \* what a reader took out of its chunk
          socket,    \* local_socket of each reader
          pinged,    \* local_notify_socket of each reader; CONFLATE keeps one ping
          log,       \* history: the messages published
          out        \* history: the messages each reader returned

writerVars == <<wpc, wIdx, sending, log>>
readerVars == <<rpc, rIdx, seen, buf, out>>
ringVars == <<written, readFlag, data, writerVars, readerVars, socket, pinged>>

RingTypeOK ==
    /\ written \in [Chunk -> BOOLEAN]
    /\ readFlag \in [Chunk -> SUBSET Reader]
    /\ data \in [Chunk -> Message \cup {NoMessage}]
    /\ wpc \in {"acquire", "fill", "reset", "publish", "payload", "notify"}
    /\ wIdx \in Chunk
    /\ sending \in Message \cup {NoMessage}
    /\ rpc \in [Reader -> {"readFlag", "writtenFlag", "wait", "read", "setFlag", "payload"}]
    /\ rIdx \in [Reader -> Chunk]
    /\ seen \in [Reader -> BOOLEAN]
    /\ buf \in [Reader -> Message \cup {NoMessage}]
    /\ socket \in [Reader -> Seq(Message)]
    /\ pinged \in [Reader -> BOOLEAN]
    /\ log \in Seq(Message)
    /\ out \in [Reader -> Seq(Message)]

RingInit ==
    /\ written = [c \in Chunk |-> FALSE]
    /\ readFlag = [c \in Chunk |-> {}]
    /\ data = [c \in Chunk |-> NoMessage]
    /\ wpc = "acquire" /\ wIdx = 0 /\ sending = NoMessage
    /\ rpc = [r \in Reader |-> "readFlag"]
    /\ rIdx = [r \in Reader |-> 0]
    /\ seen = [r \in Reader |-> FALSE]
    /\ buf = [r \in Reader |-> NoMessage]
    /\ socket = [r \in Reader |-> << >>]
    /\ pinged = [r \in Reader |-> FALSE]
    /\ log = << >>
    /\ out = [r \in Reader |-> << >>]

NextIdx(i) == (i + 1) % MaxChunks

-----------------------------------------------------------------------------
(* The writer: enqueue, acquire_write                                      *)

\* Mutant: one reader is enough
AnyReaderDone(c) == written[c] => readFlag[c] # {}

ReadByAll(c) == written[c] => readFlag[c] = Reader

\* The chunk is free: mark it as not written and let the caller have it
AcquireWrite ==
    /\ wpc = "acquire" /\ Len(log) < MaxMessages
    /\ ReadByAll(wIdx)
    /\ written' = [written EXCEPT ![wIdx] = FALSE]
    /\ \E big \in BOOLEAN : sending' = [id |-> Len(log) + 1, overflow |-> big]
    /\ wpc' = "fill"
    /\ UNCHANGED <<readFlag, data, wIdx, log, readerVars, socket, pinged>>

Fill ==
    /\ wpc = "fill"
    /\ data' = [data EXCEPT ![wIdx] = sending]
    /\ wpc' = "reset"
    /\ UNCHANGED <<written, readFlag, wIdx, sending, log, readerVars, socket, pinged>>

\* The read flags are reset one by one, then the chunk is published
ResetReadFlag ==
    /\ wpc = "reset"
    /\ IF readFlag[wIdx] = {}
       THEN wpc' = "publish" /\ UNCHANGED readFlag
       ELSE LET first == CHOOSE r \in readFlag[wIdx] : \A s \in readFlag[wIdx] : r <= s
            IN  /\ readFlag' = [readFlag EXCEPT ![wIdx] = @ \ {first}]
                /\ UNCHANGED wpc
    /\ UNCHANGED <<written, data, wIdx, sending, log, readerVars, socket, pinged>>

Publish ==
    /\ wpc = "publish"
    /\ written' = [written EXCEPT ![wIdx] = TRUE]
    /\ wIdx' = NextIdx(wIdx)
    /\ log' = Append(log, sending)
    /\ wpc' = IF sending.overflow THEN "payload" ELSE "notify"
    /\ UNCHANGED <<readFlag, data, sending, readerVars, socket, pinged>>

SendPayload ==
    /\ wpc = "payload"
    /\ socket' = [r \in Reader |-> Append(socket[r], sending)]
    /\ wpc' = "notify"
    /\ UNCHANGED <<written, readFlag, data, wIdx, sending, log, readerVars, pinged>>

Notify ==
    /\ wpc = "notify"
    /\ pinged' = [r \in Reader |-> TRUE]
    /\ wpc' = "acquire"
    /\ UNCHANGED <<written, readFlag, data, wIdx, sending, log, readerVars, socket>>

Writer == AcquireWrite \/ Fill \/ ResetReadFlag \/ Publish \/ SendPayload \/ Notify

-----------------------------------------------------------------------------
(* A reader: dequeue, acquire_read, SpinCondition.wait                     *)

\* read_flag is loaded before written_flag, in two loads
CheckReadFlag(r) ==
    /\ rpc[r] = "readFlag"
    /\ seen' = [seen EXCEPT ![r] = r \in readFlag[rIdx[r]]]
    /\ rpc' = [rpc EXCEPT ![r] = "writtenFlag"]
    /\ UNCHANGED <<written, readFlag, data, writerVars, rIdx, buf, out, socket, pinged>>

\* Mutant: whatever is written is read
NotReadyWithoutFlag(r) == ~written[rIdx[r]]

NotReady(r) == ~written[rIdx[r]] \/ seen[r]

\* Mutant: a ping that is already there is taken for an old one
CheckWrittenDrains(r) ==
    /\ rpc[r] = "writtenFlag"
    /\ rpc' = [rpc EXCEPT ![r] = IF NotReady(r) THEN "wait" ELSE "read"]
    /\ pinged' = [pinged EXCEPT ![r] = FALSE]
    /\ UNCHANGED <<written, readFlag, data, writerVars, rIdx, seen, buf, out, socket>>

CheckWritten(r) ==
    /\ rpc[r] = "writtenFlag"
    /\ rpc' = [rpc EXCEPT ![r] = IF NotReady(r) THEN "wait" ELSE "read"]
    /\ UNCHANGED <<written, readFlag, data, writerVars, rIdx, seen, buf, out, socket, pinged>>

\* Less than busy_loop_s since the last read: look again at once
Spin(r) ==
    /\ rpc[r] = "wait"
    /\ rpc' = [rpc EXCEPT ![r] = "readFlag"]
    /\ UNCHANGED <<written, readFlag, data, writerVars, rIdx, seen, buf, out, socket, pinged>>

\* Idle mode: poll the notification socket without a timeout
AwaitPing(r) ==
    /\ rpc[r] = "wait" /\ pinged[r]
    /\ pinged' = [pinged EXCEPT ![r] = FALSE]
    /\ rpc' = [rpc EXCEPT ![r] = "readFlag"]
    /\ UNCHANGED <<written, readFlag, data, writerVars, rIdx, seen, buf, out, socket>>

ReadChunk(r) ==
    /\ rpc[r] = "read"
    /\ buf' = [buf EXCEPT ![r] = data[rIdx[r]]]
    /\ rpc' = [rpc EXCEPT ![r] = "setFlag"]
    /\ UNCHANGED <<written, readFlag, data, writerVars, rIdx, seen, out, socket, pinged>>

SetReadFlag(r) ==
    /\ rpc[r] = "setFlag"
    /\ readFlag' = [readFlag EXCEPT ![rIdx[r]] = @ \cup {r}]
    /\ rIdx' = [rIdx EXCEPT ![r] = NextIdx(@)]
    /\ rpc' = [rpc EXCEPT ![r] = IF buf[r].overflow THEN "payload" ELSE "readFlag"]
    /\ out' = IF buf[r].overflow THEN out ELSE [out EXCEPT ![r] = Append(@, buf[r])]
    /\ UNCHANGED <<written, data, writerVars, seen, buf, socket, pinged>>

\* MessageQueue.recv
ReceivePayload(r) ==
    /\ rpc[r] = "payload" /\ socket[r] # << >>
    /\ out' = [out EXCEPT ![r] = Append(@, Head(socket[r]))]
    /\ socket' = [socket EXCEPT ![r] = Tail(@)]
    /\ rpc' = [rpc EXCEPT ![r] = "readFlag"]
    /\ UNCHANGED <<written, readFlag, data, writerVars, rIdx, seen, buf, pinged>>

ReaderStep(r) ==
    \/ CheckReadFlag(r) \/ CheckWritten(r) \/ AwaitPing(r)
    \/ ReadChunk(r) \/ SetReadFlag(r) \/ ReceivePayload(r)

-----------------------------------------------------------------------------
RingNext == Writer \/ \E r \in Reader : ReaderStep(r) \/ Spin(r)

RingSpec == RingInit /\ [][RingNext]_ringVars

\* Both sides run; no reader is assumed to find itself in the busy loop, and
\* the caller may stop sending
FairRingSpec ==
    /\ RingSpec
    /\ WF_ringVars(Writer)
    /\ \A r \in Reader : WF_ringVars(ReaderStep(r))

\* No torn message: while the writer has a chunk (acquire_write up to the
\* written flag), no reader is between its check of that chunk's flags and its
\* read flag.  There is no lock; only the order of the flag accesses and the
\* wait for all read flags prevent it.
NoTornRead ==
    wpc \in {"fill", "reset", "publish"} =>
        \A r \in Reader : rpc[r] \in {"read", "setFlag"} => rIdx[r] # wIdx

\* The ring is a broadcast queue: every reader returns the messages of enqueue
\* in their order, none twice and none left out, those that overflow included.
\* The writer is at most the ring ahead of a reader, and one message more when
\* the reader has given back the chunk of a message whose payload it awaits.
Queue == INSTANCE BroadcastQueue WITH Capacity <- MaxChunks + 1
RingIsBroadcastQueue == Queue!Spec

\* No ping is lost: a published message reaches every reader although a reader
\* in idle mode sleeps until it is pinged (SpinCondition).
EveryMessageArrives ==
    \A n \in 1 .. MaxMessages, r \in Reader : Len(log) >= n ~> Len(out[r]) >= n
=============================================================================
