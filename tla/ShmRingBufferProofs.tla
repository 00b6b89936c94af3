------------------------- MODULE ShmRingBufferProofs -------------------------
(* Theorems about ShmRingBuffer, for any number of readers and chunks.     *)
EXTENDS ShmRingBuffer, TLAPS

\* The flags that guard a chunk.  A reader that has found its chunk ready has
\* not set its read flag, so the chunk stays written until it does.
FlagsGuardChunks ==
    /\ wpc \in {"fill", "reset", "publish"} => ~written[wIdx]
    /\ \A r \in Reader : rpc[r] = "writtenFlag" /\ ~seen[r] => r \notin readFlag[rIdx[r]]
    /\ \A r \in Reader :
            rpc[r] \in {"read", "setFlag"} => written[rIdx[r]] /\ r \notin readFlag[rIdx[r]]

\* What is written was sent
ChunksHoldMessages ==
    /\ wpc # "acquire" => sending \in Message
    /\ wpc \in {"reset", "publish"} => data[wIdx] \in Message
    /\ \A c \in Chunk : written[c] => data[c] \in Message
    /\ \A r \in Reader : rpc[r] = "setFlag" => buf[r] \in Message

RingInv == RingTypeOK /\ FlagsGuardChunks /\ ChunksHoldMessages

\* current_idx stays inside the ring
LEMMA NextIdxInRing == ASSUME NEW i \in Chunk PROVE NextIdx(i) \in Chunk
BY RingAssumption DEF Chunk, NextIdx

\* The invariant holds when the queue is created
LEMMA RingInvInit == RingInit => RingInv
<1> SUFFICES ASSUME RingInit PROVE RingInv
    BY Zenon
<1>1. 0 \in Chunk
    BY SMTT(120), RingAssumption DEF Chunk
<1>2. RingTypeOK
    BY <1>1 DEF RingInit, RingTypeOK
<1>3. FlagsGuardChunks
    BY Zenon DEF RingInit, FlagsGuardChunks
<1>4. ChunksHoldMessages
    BY Zenon DEF RingInit, ChunksHoldMessages
<1> QED BY Zenon, <1>2, <1>3, <1>4 DEF RingInv

\* A step of the writer keeps the invariant
LEMMA WriterKeepsInv == RingInv /\ Writer => RingInv'
<1> SUFFICES ASSUME RingInv, Writer PROVE RingInv'
    BY Zenon
<1> USE DEF RingInv
<1>1. CASE AcquireWrite
    <2>1. Len(log) + 1 \in 1 .. MaxMessages
        BY SMTT(120), <1>1, RingAssumption DEF AcquireWrite, RingTypeOK
    <2>2. sending' \in Message
        BY <1>1, <2>1 DEF AcquireWrite, Message
    <2>3. RingTypeOK'
        BY Zenon, <1>1, <2>2 DEF AcquireWrite, RingTypeOK, readerVars
    <2>4. ASSUME NEW r \in Reader, rpc[r] \in {"read", "setFlag"} PROVE rIdx[r] # wIdx
        BY Zenon, <1>1, <2>4 DEF AcquireWrite, ReadByAll, FlagsGuardChunks
    <2>5. FlagsGuardChunks'
        BY ZenonT(60), <1>1, <2>4 DEF AcquireWrite, RingTypeOK, FlagsGuardChunks, readerVars
    <2>6. ChunksHoldMessages'
        BY ZenonT(60), <1>1, <2>2 DEF AcquireWrite, RingTypeOK, ChunksHoldMessages, readerVars
    <2> QED BY Zenon, <2>3, <2>5, <2>6
<1>2. CASE Fill
    <2>1. RingTypeOK'
        BY Zenon, <1>2 DEF Fill, RingTypeOK, readerVars
    <2>2. FlagsGuardChunks'
        BY Zenon, <1>2 DEF Fill, RingTypeOK, FlagsGuardChunks, readerVars
    <2>3. ChunksHoldMessages'
        BY ZenonT(60), <1>2 DEF Fill, RingTypeOK, ChunksHoldMessages, readerVars
    <2> QED BY <2>1, <2>2, <2>3
<1>3. CASE ResetReadFlag
    <2>0. PICK first : readFlag' \in {readFlag, [readFlag EXCEPT ![wIdx] = @ \ {first}]}
        BY Zenon, <1>3 DEF ResetReadFlag
    <2>1. readFlag' \in [Chunk -> SUBSET Reader]
          /\ \A c \in Chunk : readFlag'[c] \subseteq readFlag[c]
        <3>1. readFlag \in [Chunk -> SUBSET Reader]
            BY Zenon DEF RingTypeOK
        <3>2. CASE readFlag' = readFlag
            BY Zenon, <3>1, <3>2
        <3>3. CASE readFlag' = [readFlag EXCEPT ![wIdx] = @ \ {first}]
            <4>1. readFlag[wIdx] \ {first} \in SUBSET Reader
                BY Zenon, <3>1 DEF RingTypeOK
            <4> QED BY Zenon, <3>1, <3>3, <4>1
        <3> QED BY Zenon, <2>0, <3>2, <3>3
    <2>2. RingTypeOK'
        BY Zenon, <1>3, <2>1 DEF ResetReadFlag, RingTypeOK, readerVars
    <2>3. FlagsGuardChunks'
        BY Zenon, <1>3, <2>1 DEF ResetReadFlag, RingTypeOK, FlagsGuardChunks, readerVars
    <2>4. ChunksHoldMessages'
        BY Zenon, <1>3 DEF ResetReadFlag, ChunksHoldMessages, readerVars
    <2> QED BY <2>2, <2>3, <2>4
<1>4. CASE Publish
    <2>1. NextIdx(wIdx) \in Chunk
        BY Zenon, NextIdxInRing DEF RingTypeOK
    <2>2. sending \in Message
        BY Zenon, <1>4 DEF Publish, ChunksHoldMessages
    <2>3. RingTypeOK'
        BY SMTT(120), <1>4, <2>1, <2>2 DEF Publish, RingTypeOK, readerVars
    <2>4. FlagsGuardChunks'
        BY Zenon, <1>4 DEF Publish, RingTypeOK, FlagsGuardChunks, readerVars
    <2>5. ChunksHoldMessages'
        BY ZenonT(60), <1>4 DEF Publish, RingTypeOK, ChunksHoldMessages, readerVars
    <2> QED BY <2>3, <2>4, <2>5
<1>5. CASE SendPayload
    <2>1. sending \in Message
        BY Zenon, <1>5 DEF SendPayload, ChunksHoldMessages
    <2>2. RingTypeOK'
        BY <1>5, <2>1 DEF SendPayload, RingTypeOK, readerVars
    <2>3. FlagsGuardChunks' /\ ChunksHoldMessages'
        BY Zenon, <1>5 DEF SendPayload, FlagsGuardChunks, ChunksHoldMessages, readerVars
    <2> QED BY Zenon, <2>2, <2>3
<1>6. CASE Notify
    <2>1. RingTypeOK'
        BY Zenon, <1>6 DEF Notify, RingTypeOK, readerVars
    <2>2. FlagsGuardChunks' /\ ChunksHoldMessages'
        BY Zenon, <1>6 DEF Notify, FlagsGuardChunks, ChunksHoldMessages, readerVars
    <2> QED BY <2>1, <2>2
<1> QED BY Zenon, <1>1, <1>2, <1>3, <1>4, <1>5, <1>6 DEF Writer

\* A step of a reader keeps the invariant
LEMMA ReaderKeepsInv ==
    ASSUME NEW r \in Reader, RingInv, ReaderStep(r) \/ Spin(r) PROVE RingInv'
<1> USE DEF RingInv
<1>1. CASE CheckReadFlag(r)
    <2>1. RingTypeOK'
        BY <1>1 DEF CheckReadFlag, RingTypeOK, writerVars
    <2>2. FlagsGuardChunks'
        BY ZenonT(60), <1>1 DEF CheckReadFlag, RingTypeOK, FlagsGuardChunks, writerVars
    <2>3. ChunksHoldMessages'
        BY Zenon, <1>1 DEF CheckReadFlag, RingTypeOK, ChunksHoldMessages, writerVars
    <2> QED BY Zenon, <2>1, <2>2, <2>3
<1>2. CASE CheckWritten(r)
    <2>1. RingTypeOK'
        BY Zenon, <1>2 DEF CheckWritten, RingTypeOK, writerVars
    <2>2. FlagsGuardChunks'
        BY ZenonT(60), <1>2 DEF CheckWritten, NotReady, RingTypeOK, FlagsGuardChunks, writerVars
    <2>3. ChunksHoldMessages'
        BY Zenon, <1>2 DEF CheckWritten, RingTypeOK, ChunksHoldMessages, writerVars
    <2> QED BY <2>1, <2>2, <2>3
<1>3. CASE AwaitPing(r) \/ Spin(r)
    <2>1. RingTypeOK'
        BY ZenonT(60), <1>3 DEF AwaitPing, Spin, RingTypeOK, writerVars
    <2>2. FlagsGuardChunks'
        BY <1>3 DEF AwaitPing, Spin, RingTypeOK, FlagsGuardChunks, writerVars
    <2>3. ChunksHoldMessages'
        BY <1>3 DEF AwaitPing, Spin, RingTypeOK, ChunksHoldMessages, writerVars
    <2> QED BY <2>1, <2>2, <2>3
<1>4. CASE ReadChunk(r)
    <2>1. RingTypeOK'
        BY Zenon, <1>4 DEF ReadChunk, RingTypeOK, writerVars
    <2>2. FlagsGuardChunks'
        BY ZenonT(60), <1>4 DEF ReadChunk, RingTypeOK, FlagsGuardChunks, writerVars
    <2>3. ChunksHoldMessages'
        BY ZenonT(60), <1>4 DEF ReadChunk, RingTypeOK, FlagsGuardChunks, ChunksHoldMessages, writerVars
    <2> QED BY <2>1, <2>2, <2>3
<1>5. CASE SetReadFlag(r)
    <2>1. NextIdx(rIdx[r]) \in Chunk
        BY Zenon, NextIdxInRing DEF RingTypeOK
    <2>2. buf[r] \in Message
        BY Zenon, <1>5 DEF SetReadFlag, ChunksHoldMessages
    <2>3. out' \in [Reader -> Seq(Message)]
        BY SMTT(120), <1>5, <2>2 DEF SetReadFlag, RingTypeOK
    <2>4. RingTypeOK'
        BY <1>5, <2>1, <2>3 DEF SetReadFlag, RingTypeOK, writerVars
    <2>5. FlagsGuardChunks'
        BY ZenonT(60), <1>5, <2>1 DEF SetReadFlag, RingTypeOK, FlagsGuardChunks, writerVars
    <2>6. ChunksHoldMessages'
        BY Zenon, <1>5 DEF SetReadFlag, RingTypeOK, ChunksHoldMessages, writerVars
    <2> QED BY <2>4, <2>5, <2>6
<1>6. CASE ReceivePayload(r)
    <2>1. Head(socket[r]) \in Message /\ Tail(socket[r]) \in Seq(Message)
        BY <1>6 DEF ReceivePayload, RingTypeOK
    <2>2. RingTypeOK'
        BY <1>6, <2>1 DEF ReceivePayload, RingTypeOK, writerVars
    <2>3. FlagsGuardChunks'
        BY ZenonT(60), <1>6 DEF ReceivePayload, RingTypeOK, FlagsGuardChunks, writerVars
    <2>4. ChunksHoldMessages'
        BY Zenon, <1>6 DEF ReceivePayload, RingTypeOK, ChunksHoldMessages, writerVars
    <2> QED BY <2>2, <2>3, <2>4
<1> QED BY Zenon, <1>1, <1>2, <1>3, <1>4, <1>5, <1>6 DEF ReaderStep

\* The invariant is inductive
LEMMA RingInvInductive == RingSpec => []RingInv
<1>1. RingInv /\ [RingNext]_ringVars => RingInv'
    <2> SUFFICES ASSUME RingInv, [RingNext]_ringVars PROVE RingInv'
        BY Zenon
    <2>1. CASE Writer
        BY Zenon, <2>1, WriterKeepsInv
    <2>2. CASE \E r \in Reader : ReaderStep(r) \/ Spin(r)
        BY Zenon, <2>2, ReaderKeepsInv
    <2>3. CASE UNCHANGED ringVars
        BY ZenonT(60), <2>3 DEF ringVars, writerVars, readerVars, RingInv, RingTypeOK, FlagsGuardChunks,
                    ChunksHoldMessages
    <2> QED BY Zenon, <2>1, <2>2, <2>3 DEF RingNext
<1> QED BY <1>1, RingInvInit, PTL DEF RingSpec

\* Flags, indices and messages keep their types: no index leaves the ring and
\* nothing but a sent message is ever returned by dequeue.
THEOREM RingTypeCorrect == RingSpec => []RingTypeOK
BY RingInvInductive, PTL DEF RingInv

\* The writer never has a chunk that a reader is reading, for any number of
\* readers and chunks and without any lock.
THEOREM ChunksAreExclusive == RingSpec => []NoTornRead
<1>1. RingInv => NoTornRead
    BY Zenon DEF RingInv, FlagsGuardChunks, NoTornRead
<1> QED BY <1>1, RingInvInductive, PTL

-----------------------------------------------------------------------------
(* The ring implements BroadcastQueue.  Message n of the log is in chunk   *)
(* (n - 1) % MaxChunks until message n + MaxChunks takes its place.        *)

\* The writer has a chunk
Writing == wpc \in {"fill", "reset", "publish"}

\* The chunks a reader has given back: one more than it has returned messages
\* while it waits for a payload
Taken(r) == Len(out[r]) + (IF rpc[r] = "payload" THEN 1 ELSE 0)

\* The messages whose payload, if they have one, is in the sockets
Sent == IF wpc = "payload" THEN Len(log) - 1 ELSE Len(log)

\* The chunk of a position in the log, counted from 0, and of a message of it
Slot(a) == a % MaxChunks
ChunkOf(n) == Slot(n - 1)

\* Where the writer and a reader are in the log; the writer is at most a ring
\* ahead of the reader
PositionsAgree ==
    /\ wIdx = Slot(Len(log))
    /\ \A r \in Reader :
            /\ rIdx[r] = Slot(Taken(r))
            /\ Taken(r) <= Len(log)
            /\ Len(out[r]) <= Sent
            /\ Len(log) <= Taken(r) + MaxChunks
            /\ Writing => Len(log) < Taken(r) + MaxChunks

\* The message in the writer's hands is the next of the log, then its last
SendingIsLast ==
    /\ Writing => sending.id = Len(log) + 1
    /\ wpc \in {"reset", "publish"} => data[wIdx] = sending
    /\ wpc = "publish" => readFlag[wIdx] = {}
    /\ wpc \in {"payload", "notify"} => Len(log) > 0 /\ sending = log[Len(log)]
    /\ wpc = "payload" => sending.overflow
    /\ \A n \in 1 .. Len(log) : log[n].id = n

\* The chunk of each of the last MaxChunks messages holds it, with the read
\* flags of those readers that are past it; a chunk not used yet is not written
ChunkHolds(n) ==
    /\ (ChunkOf(n) = wIdx /\ Writing) \/ written[ChunkOf(n)]
    /\ written[ChunkOf(n)] =>
        /\ data[ChunkOf(n)] = log[n]
        /\ \A r \in Reader : r \in readFlag[ChunkOf(n)] <=> n <= Taken(r)

ChunksHoldLog ==
    /\ \A n \in 1 .. Len(log) : Len(log) < n + MaxChunks => ChunkHolds(n)
    /\ \A c \in Chunk : Len(log) <= c => ~written[c]

\* A reader that has found its chunk ready reads the next message it lacks
ReaderHasNext(r) ==
    /\ rpc[r] \in {"read", "setFlag"} => Taken(r) < Len(log)
    /\ rpc[r] = "setFlag" => buf[r] = log[Taken(r) + 1]
    /\ rpc[r] = "payload" => log[Taken(r)].overflow

\* A reader's socket holds, in order, the payloads of the messages it lacks
SocketHoldsPayloads(r) ==
    /\ \A i, j \in 1 .. Len(socket[r]) : i < j => socket[r][i].id < socket[r][j].id
    /\ \A i \in 1 .. Len(socket[r]) :
            \E n \in Len(out[r]) + 1 .. Sent : socket[r][i] = log[n] /\ log[n].overflow
    /\ \A n \in Len(out[r]) + 1 .. Sent :
            log[n].overflow => \E i \in 1 .. Len(socket[r]) : socket[r][i] = log[n]

LogInv ==
    /\ RingInv
    /\ PositionsAgree
    /\ SendingIsLast
    /\ ChunksHoldLog
    /\ \A r \in Reader : ReaderHasNext(r) /\ SocketHoldsPayloads(r)

\* A remainder is what is left after the quotient
LEMMA DivMod ==
    ASSUME NEW a \in Nat
    PROVE  /\ a = MaxChunks * (a \div MaxChunks) + (a % MaxChunks)
           /\ a \div MaxChunks \in Nat
           /\ a % MaxChunks \in 0 .. MaxChunks - 1
BY RingAssumption

LEMMA TimesPositive == ASSUME NEW n \in Nat, NEW d \in Int, d >= 1 PROVE n * d >= n
OBVIOUS

LEMMA TimesNegative == ASSUME NEW n \in Nat, NEW d \in Int, d <= 0 PROVE n * d <= 0
OBVIOUS

LEMMA SlotIsRemainder ==
    ASSUME NEW q \in Nat, NEW c \in Chunk PROVE Slot(MaxChunks * q + c) = c
BY RingAssumption DEF Slot, Chunk

\* Slots are chunks, and current_idx moves on from one to the next
LEMMA SlotNext ==
    ASSUME NEW a \in Nat
    PROVE  Slot(a) \in Chunk /\ Slot(a + 1) \in Chunk /\ NextIdx(Slot(a)) = Slot(a + 1)
<1> DEFINE q == a \div MaxChunks
           c == a % MaxChunks
<1>1. a = MaxChunks * q + c /\ q \in Nat /\ c \in 0 .. MaxChunks - 1
    BY Zenon, DivMod
<1>2. Slot(a) = c
    BY Zenon DEF Slot
<1> HIDE DEF q, c
<1>3. CASE c + 1 < MaxChunks
    <2>1. a + 1 = MaxChunks * q + (c + 1) /\ c + 1 \in Chunk
        BY <1>1, <1>3, RingAssumption DEF Chunk
    <2>2. Slot(a + 1) = c + 1
        BY ZenonT(60), <2>1, <1>1, SlotIsRemainder
    <2>3. NextIdx(c) = c + 1
        BY <1>1, <1>3, RingAssumption DEF NextIdx
    <2> QED BY Zenon, <1>1, <1>2, <2>1, <2>2, <2>3 DEF Chunk
<1>4. CASE c + 1 = MaxChunks
    <2>1. a + 1 = MaxChunks * (q + 1) + 0 /\ 0 \in Chunk /\ q + 1 \in Nat
        BY <1>1, <1>4, RingAssumption DEF Chunk
    <2>2. Slot(a + 1) = 0
        BY Zenon, <2>1, SlotIsRemainder
    <2>3. NextIdx(c) = 0
        BY SMTT(120), <1>4, RingAssumption DEF NextIdx
    <2> QED BY Zenon, <1>1, <1>2, <2>1, <2>2, <2>3 DEF Chunk
<1> QED BY SMTT(120), <1>1, <1>3, <1>4, RingAssumption

\* Two positions less than a ring apart are in different chunks
LEMMA SlotsDiffer ==
    ASSUME NEW a \in Nat, NEW b \in Nat, a < b, b < a + MaxChunks PROVE Slot(a) # Slot(b)
<1> DEFINE d == (b \div MaxChunks) - (a \div MaxChunks)
<1>1. SUFFICES ASSUME Slot(a) = Slot(b) PROVE FALSE
    BY Zenon
<1>2. d \in Int /\ b - a = MaxChunks * d
    BY SMTT(120), <1>1, DivMod, RingAssumption DEF Slot
<1> HIDE DEF d
<1>3. CASE d >= 1
    BY SMTT(120), <1>2, <1>3, TimesPositive, RingAssumption
<1>4. CASE d <= 0
    BY SMTT(120), <1>2, <1>4, TimesNegative, RingAssumption
<1> QED BY <1>2, <1>3, <1>4

\* A lap of the ring ends where it began; the first lap counts the chunks
LEMMA SlotLap ==
    ASSUME NEW a \in Nat
    PROVE  /\ MaxChunks <= a => Slot(a - MaxChunks) = Slot(a)
           /\ a < MaxChunks => Slot(a) = a
<1>1. ASSUME MaxChunks <= a PROVE Slot(a - MaxChunks) = Slot(a)
    <2> DEFINE b == a - MaxChunks
               q == b \div MaxChunks
               c == b % MaxChunks
    <2>1. b \in Nat /\ a = b + MaxChunks
        BY <1>1, RingAssumption
    <2> HIDE DEF b
    <2>2. b = MaxChunks * q + c /\ q \in Nat /\ c \in Chunk /\ Slot(b) = c
        BY Zenon, <2>1, DivMod DEF Chunk, Slot
    <2> HIDE DEF q, c
    <2>3. a = MaxChunks * (q + 1) + c /\ q + 1 \in Nat
        BY <2>1, <2>2, RingAssumption DEF Chunk
    <2>4. Slot(a) = c
        BY Zenon, <2>2, <2>3, SlotIsRemainder
    <2> QED BY Zenon, <2>2, <2>4 DEF b
<1>2. ASSUME a < MaxChunks PROVE Slot(a) = a
    BY SMTT(120), <1>2, RingAssumption DEF Slot
<1> QED BY Zenon, <1>1, <1>2

LEMMA CountsAreNaturals ==
    ASSUME RingTypeOK
    PROVE  /\ Len(log) \in Nat
           /\ \A r \in Reader : Len(out[r]) \in Nat /\ Len(socket[r]) \in Nat /\ Taken(r) \in Nat
<1>1. log \in Seq(Message) /\ out \in [Reader -> Seq(Message)] /\ socket \in [Reader -> Seq(Message)]
    BY Zenon DEF RingTypeOK
<1>2. ASSUME NEW r \in Reader PROVE Len(out[r]) \in Nat /\ Len(socket[r]) \in Nat
    BY SMTT(120), <1>1
<1> QED BY <1>1, <1>2 DEF Taken

\* What a reader has to read depends on the log and on its own state
LEMMA SocketUntouched ==
    ASSUME NEW r \in Reader, SocketHoldsPayloads(r),
           log' = log, Sent' = Sent, out'[r] = out[r], socket'[r] = socket[r]
    PROVE  SocketHoldsPayloads(r)'
<1>1. \A i, j \in 1 .. Len(socket'[r]) : i < j => socket'[r][i].id < socket'[r][j].id
    BY Zenon DEF SocketHoldsPayloads
<1>2. ASSUME NEW i \in 1 .. Len(socket'[r])
      PROVE  \E n \in Len(out'[r]) + 1 .. Sent' : socket'[r][i] = log'[n] /\ log'[n].overflow
    <2>1. PICK n \in Len(out[r]) + 1 .. Sent : socket[r][i] = log[n] /\ log[n].overflow
        BY Zenon DEF SocketHoldsPayloads
    <2> QED BY Zenon, <2>1
<1>3. ASSUME NEW n \in Len(out'[r]) + 1 .. Sent', log'[n].overflow
      PROVE  \E i \in 1 .. Len(socket'[r]) : socket'[r][i] = log'[n]
    <2>1. PICK i \in 1 .. Len(socket[r]) : socket[r][i] = log[n]
        BY Zenon, <1>3 DEF SocketHoldsPayloads
    <2> QED BY Zenon, <2>1
<1> QED BY Zenon, <1>1, <1>2, <1>3 DEF SocketHoldsPayloads

LEMMA ReaderUntouched ==
    ASSUME NEW r \in Reader, ReaderHasNext(r), SocketHoldsPayloads(r),
           log' = log, Sent' = Sent, Taken(r)' = Taken(r), out'[r] = out[r],
           socket'[r] = socket[r], buf'[r] = buf[r], rpc'[r] = rpc[r]
    PROVE  ReaderHasNext(r)' /\ SocketHoldsPayloads(r)'
<1>1. ReaderHasNext(r)'
    BY Zenon DEF ReaderHasNext
<1> QED BY Zenon, <1>1, SocketUntouched

LEMMA LogInvInit == RingInit => LogInv
<1> SUFFICES ASSUME RingInit PROVE LogInv
    BY Zenon
<1>1. RingInv
    BY Zenon, RingInvInit
<1>2. Slot(0) = 0
    BY SlotLap, RingAssumption
<1>3. Len(log) = 0 /\ Sent = 0
    BY Zenon DEF RingInit, Sent
<1>4. ASSUME NEW r \in Reader PROVE Taken(r) = 0 /\ Len(out[r]) = 0 /\ Len(socket[r]) = 0
    BY SMTT(120) DEF RingInit, Taken
<1>5. PositionsAgree
    BY SMTT(120), <1>2, <1>3, <1>4, RingAssumption DEF PositionsAgree, RingInit, Writing
<1>6. SendingIsLast
    BY SMTT(120), <1>3 DEF SendingIsLast, RingInit, Writing
<1>7. ChunksHoldLog
    BY SMTT(120), <1>3 DEF ChunksHoldLog, RingInit
<1>8. ASSUME NEW r \in Reader PROVE ReaderHasNext(r) /\ SocketHoldsPayloads(r)
    BY <1>3, <1>4 DEF RingInit, ReaderHasNext, SocketHoldsPayloads
<1> QED BY Zenon, <1>1, <1>5, <1>6, <1>7, <1>8 DEF LogInv

\* acquire_write waits for the readers of the message a lap ago
LEMMA AcquireKeepsLog == ASSUME LogInv, AcquireWrite, RingInv' PROVE LogInv'
<1>0. RingTypeOK /\ RingTypeOK'
    BY Zenon DEF LogInv, RingInv
<1>1. Len(log) \in Nat /\ \A r \in Reader : Len(out[r]) \in Nat /\ Taken(r) \in Nat
    BY Zenon, <1>0, CountsAreNaturals
<1>2. log' = log /\ ~Writing /\ Writing' /\ Sent' = Sent /\ wIdx' = wIdx /\ socket' = socket
      /\ readFlag' = readFlag /\ data' = data /\ rIdx' = rIdx /\ out' = out /\ buf' = buf /\ rpc' = rpc
    BY Zenon DEF AcquireWrite, Writing, Sent, readerVars
<1>3. \A r : Taken(r)' = Taken(r)
    BY Zenon, <1>2 DEF Taken
<1>4. written' = [written EXCEPT ![wIdx] = FALSE] /\ wIdx \in Chunk /\ written \in [Chunk -> BOOLEAN]
    BY Zenon, <1>0 DEF AcquireWrite, RingTypeOK
<1>5. ASSUME NEW r \in Reader PROVE Len(log) < Taken(r) + MaxChunks
    <2>1. CASE Len(log) < MaxChunks
        BY SMTT(120), <1>1, <2>1, RingAssumption
    <2>2. CASE MaxChunks <= Len(log)
        <3> DEFINE n == Len(log) + 1 - MaxChunks
        <3>1. n \in 1 .. Len(log) /\ Len(log) < n + MaxChunks /\ n - 1 = Len(log) - MaxChunks
            BY <1>1, <2>2, RingAssumption
        <3>2. ChunkOf(n) = wIdx
            BY Zenon, <1>1, <2>2, <3>1, SlotLap DEF ChunkOf, LogInv, PositionsAgree
        <3>3. ChunkHolds(n)
            BY Zenon, <3>1 DEF LogInv, ChunksHoldLog
        <3>4. n <= Taken(r)
            BY Zenon, <1>2, <3>2, <3>3 DEF ChunkHolds, AcquireWrite, ReadByAll
        <3> QED BY SMTT(120), <1>1, <3>4, RingAssumption
    <2> QED BY SMTT(120), <1>1, <2>1, <2>2, RingAssumption
<1>6. PositionsAgree'
    BY Zenon, <1>2, <1>3, <1>5 DEF LogInv, PositionsAgree
<1>7. SendingIsLast'
    <2>1. sending'.id = Len(log) + 1 /\ wpc' = "fill"
        BY DEF AcquireWrite
    <2> QED BY Zenon, <1>2, <2>1 DEF LogInv, SendingIsLast
<1>8. ChunksHoldLog'
    <2>1. ASSUME NEW n \in 1 .. Len(log), Len(log) < n + MaxChunks PROVE ChunkHolds(n)'
        <3>1. ChunkHolds(n) /\ ChunkOf(n) \in Chunk
            BY <1>1, <2>1, SlotNext DEF LogInv, ChunksHoldLog, ChunkOf
        <3>2. ChunkOf(n)' = ChunkOf(n)
            BY Zenon DEF ChunkOf, Slot
        <3>3. CASE ChunkOf(n) = wIdx
            BY Zenon, <1>2, <1>4, <3>2, <3>3 DEF ChunkHolds
        <3>4. CASE ChunkOf(n) # wIdx
            BY Zenon, <1>2, <1>3, <1>4, <3>1, <3>2, <3>4 DEF ChunkHolds
        <3> QED BY Zenon, <3>3, <3>4
    <2>2. ASSUME NEW c \in Chunk, Len(log) <= c PROVE ~written'[c]
        BY Zenon, <1>4, <2>2 DEF LogInv, ChunksHoldLog
    <2> QED BY Zenon, <1>2, <2>1, <2>2 DEF ChunksHoldLog, Chunk
<1>9. ASSUME NEW r \in Reader PROVE ReaderHasNext(r)' /\ SocketHoldsPayloads(r)'
    BY Zenon, <1>2, <1>3, ReaderUntouched DEF LogInv
<1> QED BY Zenon, <1>6, <1>7, <1>8, <1>9 DEF LogInv, Reader

\* The chunk is filled and its flags are reset while it is not written
LEMMA FillKeepsLog == ASSUME LogInv, Fill \/ ResetReadFlag, RingInv' PROVE LogInv'
<1>0. RingTypeOK /\ RingTypeOK'
    BY Zenon DEF LogInv, RingInv
<1>1. Len(log) \in Nat /\ \A r \in Reader : Len(out[r]) \in Nat /\ Taken(r) \in Nat
    BY Zenon, <1>0, CountsAreNaturals
<1>2. log' = log /\ Writing /\ Writing' /\ Sent' = Sent /\ wIdx' = wIdx /\ socket' = socket
      /\ written' = written /\ rIdx' = rIdx /\ out' = out /\ buf' = buf /\ rpc' = rpc
      /\ sending' = sending
    BY Zenon DEF Fill, ResetReadFlag, Writing, Sent, readerVars
<1>3. \A r : Taken(r)' = Taken(r)
    BY Zenon, <1>2 DEF Taken
<1>4. ~written[wIdx] /\ wIdx \in Chunk
    BY Zenon, <1>0, <1>2 DEF LogInv, RingInv, FlagsGuardChunks, Writing, RingTypeOK
<1>5. ASSUME NEW c \in Chunk, c # wIdx PROVE data'[c] = data[c] /\ readFlag'[c] = readFlag[c]
    BY ZenonT(60), <1>0, <1>5 DEF Fill, ResetReadFlag, RingTypeOK
<1>6. PositionsAgree'
    BY Zenon, <1>2, <1>3 DEF LogInv, PositionsAgree
<1>7. SendingIsLast'
    <2>1. CASE Fill
        BY SMTT(120), <1>0, <1>2, <2>1 DEF Fill, LogInv, SendingIsLast, RingTypeOK
    <2>2. CASE ResetReadFlag
        <3>1. wpc' = "publish" => readFlag'[wIdx] = {}
            BY Zenon, <2>2 DEF ResetReadFlag
        <3>2. wpc = "reset" /\ data' = data /\ wpc' \in {"reset", "publish"}
            BY Zenon, <2>2 DEF ResetReadFlag
        <3> QED BY Zenon, <1>2, <3>1, <3>2 DEF LogInv, SendingIsLast
    <2> QED BY Zenon, <2>1, <2>2
<1>8. ChunksHoldLog'
    <2>1. ASSUME NEW n \in 1 .. Len(log), Len(log) < n + MaxChunks PROVE ChunkHolds(n)'
        <3>1. ChunkHolds(n) /\ ChunkOf(n) \in Chunk
            BY SMTT(120), <1>1, <2>1, SlotNext DEF LogInv, ChunksHoldLog, ChunkOf
        <3>2. ChunkOf(n)' = ChunkOf(n)
            BY Zenon DEF ChunkOf, Slot
        <3>3. CASE ChunkOf(n) = wIdx
            BY Zenon, <1>2, <1>4, <3>2, <3>3 DEF ChunkHolds
        <3>4. CASE ChunkOf(n) # wIdx
            BY Zenon, <1>2, <1>3, <1>5, <3>1, <3>2, <3>4 DEF ChunkHolds
        <3> QED BY Zenon, <3>3, <3>4
    <2> QED BY Zenon, <1>2, <2>1 DEF LogInv, ChunksHoldLog, Chunk
<1>9. ASSUME NEW r \in Reader PROVE ReaderHasNext(r)' /\ SocketHoldsPayloads(r)'
    BY Zenon, <1>2, <1>3, ReaderUntouched DEF LogInv
<1> QED BY Zenon, <1>6, <1>7, <1>8, <1>9 DEF LogInv, Reader

\* The message gets the next chunk, which no message of this lap has
LEMMA PublishKeepsLog == ASSUME LogInv, Publish, RingInv' PROVE LogInv'
<1>0. RingTypeOK /\ RingTypeOK' /\ log \in Seq(Message) /\ sending \in Message
    BY Zenon DEF LogInv, RingInv, RingTypeOK, ChunksHoldMessages, Publish
<1>1. Len(log) \in Nat /\ \A r \in Reader : Len(out[r]) \in Nat /\ Taken(r) \in Nat
    BY Zenon, <1>0, CountsAreNaturals
<1>2. Writing /\ ~Writing' /\ wIdx' = NextIdx(wIdx) /\ socket' = socket /\ sending' = sending
      /\ readFlag' = readFlag /\ data' = data /\ rIdx' = rIdx /\ out' = out /\ buf' = buf /\ rpc' = rpc
    BY Zenon DEF Publish, Writing, readerVars
<1>3. \A r : Taken(r)' = Taken(r)
    BY Zenon, <1>2 DEF Taken
<1>4. written' = [written EXCEPT ![wIdx] = TRUE] /\ wIdx \in Chunk /\ written \in [Chunk -> BOOLEAN]
    BY Zenon, <1>0 DEF Publish, RingTypeOK
<1>5. /\ Len(log') = Len(log) + 1
      /\ log'[Len(log) + 1] = sending
      /\ \A n \in 1 .. Len(log) : log'[n] = log[n]
    BY SMTT(120), <1>0, <1>1 DEF Publish
<1>6. /\ Sent = Len(log)
      /\ sending.overflow => Sent' = Len(log)
      /\ ~sending.overflow => Sent' = Len(log) + 1
    BY SMTT(120), <1>1, <1>5 DEF Publish, Sent
<1>7. PositionsAgree'
    <2>1. wIdx' = Slot(Len(log) + 1)
        BY Zenon, <1>1, <1>2, SlotNext DEF LogInv, PositionsAgree
    <2>2. ASSUME NEW r \in Reader
          PROVE  /\ rIdx'[r] = Slot(Taken(r)) /\ Taken(r) <= Len(log) + 1 /\ Len(out[r]) <= Sent'
                 /\ Len(log) + 1 <= Taken(r) + MaxChunks
        BY SMTT(120), <1>1, <1>2, <1>6, RingAssumption DEF LogInv, PositionsAgree
    <2> QED BY Zenon, <1>2, <1>3, <1>5, <2>1, <2>2 DEF PositionsAgree, Slot
<1>8. SendingIsLast'
    <2>1. sending.id = Len(log) + 1
        BY Zenon, <1>2 DEF LogInv, SendingIsLast
    <2>2. ASSUME NEW n \in 1 .. Len(log) + 1 PROVE log'[n].id = n
        BY SMTT(120), <1>1, <1>5, <2>1 DEF LogInv, SendingIsLast
    <2>3. wpc' = IF sending.overflow THEN "payload" ELSE "notify"
        BY Zenon DEF Publish
    <2> QED BY SMTT(120), <1>1, <1>2, <1>5, <2>2, <2>3 DEF SendingIsLast
<1>9. ChunksHoldLog'
    <2>1. ASSUME NEW n \in 1 .. Len(log) + 1, Len(log) + 1 < n + MaxChunks PROVE ChunkHolds(n)'
        <3>1. ChunkOf(n)' = ChunkOf(n) /\ ChunkOf(n) \in Chunk
            BY SMTT(120), <1>1, SlotNext DEF ChunkOf, Slot
        <3>2. CASE n = Len(log) + 1
            <4>1. ChunkOf(n) = wIdx
                BY SMTT(120), <1>1, <3>2 DEF ChunkOf, LogInv, PositionsAgree
            <4>2. data[wIdx] = sending /\ readFlag[wIdx] = {}
                BY Zenon DEF LogInv, SendingIsLast, Publish
            <4>3. \A r \in Reader : ~(n <= Taken(r))
                BY SMTT(120), <1>1, <3>2 DEF LogInv, PositionsAgree
            <4> QED BY Zenon, <1>2, <1>3, <1>4, <1>5, <3>1, <3>2, <4>1, <4>2, <4>3 DEF ChunkHolds
        <3>3. CASE n <= Len(log)
            <4>1. Slot(n - 1) # Slot(Len(log))
                BY SMTT(120), <1>1, <2>1, <3>3, SlotsDiffer, RingAssumption
            <4>2. ChunkOf(n) # wIdx
                BY Zenon, <4>1 DEF ChunkOf, LogInv, PositionsAgree
            <4>3. ChunkHolds(n)
                BY SMTT(120), <1>1, <2>1, <3>3, RingAssumption DEF LogInv, ChunksHoldLog
            <4>4. log'[n] = log[n]
                BY SMTT(120), <1>1, <1>5, <3>3
            <4> QED BY Zenon, <1>2, <1>3, <1>4, <3>1, <4>2, <4>3, <4>4 DEF ChunkHolds
        <3> QED BY SMTT(120), <1>1, <3>2, <3>3
    <2>2. ASSUME NEW c \in Chunk, Len(log) + 1 <= c PROVE ~written'[c]
        <3>1. c \in Int /\ Len(log) < MaxChunks
            BY SMTT(120), <1>1, <2>2, RingAssumption DEF Chunk
        <3>2. wIdx = Len(log)
            BY Zenon, <1>1, <3>1, SlotLap DEF LogInv, PositionsAgree
        <3> QED BY SMTT(120), <1>1, <1>4, <2>2, <3>1, <3>2 DEF LogInv, ChunksHoldLog
    <2> QED BY Zenon, <1>5, <2>1, <2>2 DEF ChunksHoldLog, Chunk
<1>10. ASSUME NEW r \in Reader PROVE ReaderHasNext(r)' /\ SocketHoldsPayloads(r)'
    <2>0. ReaderHasNext(r) /\ SocketHoldsPayloads(r) /\ Taken(r) \in Nat /\ Taken(r) <= Len(log)
          /\ Len(out[r]) \in Nat
        BY Zenon, <1>1 DEF LogInv, PositionsAgree
    <2>1. ReaderHasNext(r)'
        <3>1. rpc[r] = "payload" => Taken(r) \in 1 .. Len(log)
            BY <1>1, <2>0 DEF Taken
        <3> QED BY SMTT(120), <1>1, <1>2, <1>3, <1>5, <2>0, <3>1 DEF ReaderHasNext
    <2>2. ASSUME NEW i \in 1 .. Len(socket[r])
          PROVE  \E n \in Len(out[r]) + 1 .. Sent' : socket[r][i] = log'[n] /\ log'[n].overflow
        <3>1. PICK n \in Len(out[r]) + 1 .. Sent : socket[r][i] = log[n] /\ log[n].overflow
            BY Zenon, <2>0 DEF SocketHoldsPayloads
        <3>2. n \in Len(out[r]) + 1 .. Sent' /\ log'[n] = log[n]
            BY SMTT(120), <1>1, <1>5, <1>6, <2>0
        <3> QED BY Zenon, <3>1, <3>2
    <2>3. ASSUME NEW n \in Len(out[r]) + 1 .. Sent', log'[n].overflow
          PROVE  \E i \in 1 .. Len(socket[r]) : socket[r][i] = log'[n]
        <3>1. n \in Len(out[r]) + 1 .. Sent /\ log'[n] = log[n]
            <4>1. CASE sending.overflow
                BY SMTT(120), <1>1, <1>5, <1>6, <2>0, <4>1
            <4>2. CASE ~sending.overflow
                BY SMTT(120), <1>1, <1>5, <1>6, <2>0, <2>3, <4>2
            <4> QED BY Zenon, <4>1, <4>2
        <3> QED BY ZenonT(60), <2>0, <2>3, <3>1 DEF SocketHoldsPayloads
    <2>4. \A i, j \in 1 .. Len(socket[r]) : i < j => socket[r][i].id < socket[r][j].id
        BY Zenon, <2>0 DEF SocketHoldsPayloads
    <2>5. SocketHoldsPayloads(r)'
        BY ZenonT(60), <1>2, <2>2, <2>3, <2>4 DEF SocketHoldsPayloads
    <2> QED BY Zenon, <2>1, <2>5
<1> QED BY SMTT(120), <1>7, <1>8, <1>9, <1>10 DEF LogInv, Reader

LEMMA AppendEntries ==
    ASSUME NEW S, NEW q \in Seq(S), NEW e \in S
    PROVE  /\ Len(Append(q, e)) = Len(q) + 1
           /\ Append(q, e)[Len(q) + 1] = e
           /\ \A i \in 1 .. Len(q) : Append(q, e)[i] = q[i]
OBVIOUS

\* The payload joins the queue of every reader, none of which is past it
LEMMA SendPayloadKeepsLog == ASSUME LogInv, SendPayload, RingInv' PROVE LogInv'
<1>0. RingTypeOK /\ RingTypeOK' /\ log \in Seq(Message) /\ sending \in Message
      /\ socket \in [Reader -> Seq(Message)]
    BY Zenon DEF LogInv, RingInv, RingTypeOK, ChunksHoldMessages, SendPayload
<1>1. Len(log) \in Nat
      /\ \A r \in Reader : Len(out[r]) \in Nat /\ Len(socket[r]) \in Nat /\ Taken(r) \in Nat
    BY Zenon, <1>0, CountsAreNaturals
<1>2. log' = log /\ ~Writing /\ ~Writing' /\ wIdx' = wIdx /\ sending' = sending /\ written' = written
      /\ readFlag' = readFlag /\ data' = data /\ rIdx' = rIdx /\ out' = out /\ buf' = buf /\ rpc' = rpc
    BY Zenon DEF SendPayload, Writing, readerVars
<1>3. \A r : Taken(r)' = Taken(r)
    BY Zenon, <1>2 DEF Taken
<1>4. Sent = Len(log) - 1 /\ Sent' = Len(log)
    BY Zenon, <1>2 DEF SendPayload, Sent
<1>5. sending = log[Len(log)] /\ sending.overflow /\ Len(log) > 0 /\ \A n \in 1 .. Len(log) : log[n].id = n
    BY Zenon DEF SendPayload, LogInv, SendingIsLast
<1>6. PositionsAgree'
    <2>1. \A r \in Reader : Len(out[r]) <= Sent'
        BY SMTT(120), <1>1, <1>4 DEF LogInv, PositionsAgree
    <2> QED BY Zenon, <1>2, <1>3, <2>1 DEF LogInv, PositionsAgree
<1>7. SendingIsLast'
    BY Zenon, <1>2 DEF LogInv, SendingIsLast, SendPayload
<1>8. ChunksHoldLog'
    BY Zenon, <1>2, <1>3 DEF LogInv, ChunksHoldLog, ChunkHolds, ChunkOf, Slot, Chunk
<1>9. ASSUME NEW r \in Reader PROVE ReaderHasNext(r)' /\ SocketHoldsPayloads(r)'
    <2> DEFINE q == socket[r]
               p == socket'[r]
    <2>0. ReaderHasNext(r) /\ SocketHoldsPayloads(r) /\ Len(out[r]) \in Nat /\ Len(out[r]) <= Sent
        BY Zenon, <1>1 DEF LogInv, PositionsAgree
    <2>1. ReaderHasNext(r)'
        BY Zenon, <1>2, <1>3, <2>0 DEF ReaderHasNext
    <2>2. q \in Seq(Message) /\ p = Append(q, sending) /\ Len(q) \in Nat
        BY Zenon, <1>0, <1>1 DEF SendPayload
    <2>3. Len(p) = Len(q) + 1 /\ p[Len(q) + 1] = sending /\ \A i \in 1 .. Len(q) : p[i] = q[i]
        BY SMTT(120), <1>0, <2>2, AppendEntries
    <2>4. /\ \A i, j \in 1 .. Len(q) : i < j => q[i].id < q[j].id
          /\ \A i \in 1 .. Len(q) : \E n \in Len(out[r]) + 1 .. Sent : q[i] = log[n] /\ log[n].overflow
          /\ \A n \in Len(out[r]) + 1 .. Sent : log[n].overflow => \E i \in 1 .. Len(q) : q[i] = log[n]
        BY Zenon, <2>0 DEF SocketHoldsPayloads
    <2> HIDE DEF p, q
    <2>5. ASSUME NEW i \in 1 .. Len(p), NEW j \in 1 .. Len(p), i < j PROVE p[i].id < p[j].id
        <3>1. i \in 1 .. Len(q)
            BY SMTT(120), <2>2, <2>3, <2>5
        <3>2. CASE j \in 1 .. Len(q)
            BY Zenon, <2>3, <2>4, <2>5, <3>1, <3>2
        <3>3. CASE j = Len(q) + 1
            <4>1. PICK n \in Len(out[r]) + 1 .. Sent : q[i] = log[n]
                BY Zenon, <2>4, <3>1
            <4>2. n \in 1 .. Len(log) /\ n < Len(log)
                BY SMTT(120), <1>1, <1>4, <2>0
            <4>3. p[i].id = n /\ p[j].id = Len(log)
                BY SMTT(120), <1>1, <1>5, <2>3, <3>1, <3>3, <4>1, <4>2
            <4> QED BY Zenon, <4>2, <4>3
        <3> QED BY SMTT(120), <2>2, <2>3, <3>2, <3>3
    <2>6. ASSUME NEW i \in 1 .. Len(p)
          PROVE  \E n \in Len(out[r]) + 1 .. Sent' : p[i] = log[n] /\ log[n].overflow
        <3>1. CASE i \in 1 .. Len(q)
            <4>1. PICK n \in Len(out[r]) + 1 .. Sent : q[i] = log[n] /\ log[n].overflow
                BY Zenon, <2>4, <3>1
            <4>2. n \in Len(out[r]) + 1 .. Sent'
                BY SMTT(120), <1>1, <1>4, <2>0
            <4> QED BY Zenon, <2>3, <3>1, <4>1, <4>2
        <3>2. CASE i = Len(q) + 1
            <4>1. Len(log) \in Len(out[r]) + 1 .. Sent'
                BY SMTT(120), <1>1, <1>4, <2>0
            <4> QED BY Zenon, <1>5, <2>3, <3>2, <4>1
        <3> QED BY SMTT(120), <2>2, <2>3, <3>1, <3>2
    <2>7. ASSUME NEW n \in Len(out[r]) + 1 .. Sent', log[n].overflow
          PROVE  \E i \in 1 .. Len(p) : p[i] = log[n]
        <3>1. CASE n \in Len(out[r]) + 1 .. Sent
            <4>1. PICK i \in 1 .. Len(q) : q[i] = log[n]
                BY Zenon, <2>4, <2>7, <3>1
            <4>2. i \in 1 .. Len(p) /\ p[i] = q[i]
                BY SMTT(120), <2>2, <2>3
            <4> QED BY Zenon, <4>1, <4>2
        <3>2. CASE n = Len(log)
            <4>1. Len(q) + 1 \in 1 .. Len(p)
                BY SMTT(120), <2>2, <2>3
            <4> QED BY Zenon, <1>5, <2>3, <3>2, <4>1
        <3> QED BY SMTT(120), <1>1, <1>4, <2>0, <3>1, <3>2
    <2>8. SocketHoldsPayloads(r)'
        BY Zenon, <1>2, <2>5, <2>6, <2>7 DEF SocketHoldsPayloads, p
    <2> QED BY Zenon, <2>1, <2>8
<1> QED BY Zenon, <1>6, <1>7, <1>8, <1>9 DEF LogInv, Reader

\* Pings and looks at the flags leave the log and the chunks alone; a reader
\* that finds a chunk written and its own flag not set has a message to read
LEMMA LookKeepsLog ==
    ASSUME LogInv, RingInv',
           \/ Notify
           \/ \E r \in Reader : CheckReadFlag(r) \/ CheckWritten(r) \/ Spin(r) \/ AwaitPing(r)
    PROVE  LogInv'
<1>0. RingTypeOK /\ RingTypeOK'
    BY Zenon DEF LogInv, RingInv
<1>1. /\ log' = log /\ wIdx' = wIdx /\ sending' = sending /\ written' = written
      /\ readFlag' = readFlag /\ data' = data /\ rIdx' = rIdx /\ out' = out /\ buf' = buf
      /\ socket' = socket
    BY Zenon DEF Notify, CheckReadFlag, CheckWritten, Spin, AwaitPing, readerVars, writerVars
<1>2. \/ wpc' = wpc
      \/ wpc = "notify" /\ wpc' = "acquire"
    BY Zenon DEF Notify, CheckReadFlag, CheckWritten, Spin, AwaitPing, readerVars, writerVars
<1>3. /\ Writing' <=> Writing
      /\ Sent' = Sent
    BY Zenon, <1>1, <1>2 DEF Writing, Sent
<1>4. ASSUME NEW r \in Reader, rpc'[r] # rpc[r]
      PROVE  /\ rpc[r] \notin {"setFlag", "payload"}
             /\ \/ rpc'[r] \notin {"read", "setFlag", "payload"}
                \/ CheckWritten(r) /\ rpc'[r] = "read"
    <2>1. rpc \in [Reader -> {"readFlag", "writtenFlag", "wait", "read", "setFlag", "payload"}]
        BY Zenon, <1>0 DEF RingTypeOK
    <2>2. ~Notify
        BY Zenon, <1>4 DEF Notify, readerVars
    <2>3. PICK s \in Reader : CheckReadFlag(s) \/ CheckWritten(s) \/ Spin(s) \/ AwaitPing(s)
        BY Zenon, <2>2
    <2>4. s = r
        BY ZenonT(60), <1>4, <2>1, <2>3 DEF CheckReadFlag, CheckWritten, Spin, AwaitPing
    <2> QED BY ZenonT(60), <2>1, <2>3, <2>4 DEF CheckReadFlag, CheckWritten, Spin, AwaitPing
<1>5. \A r \in Reader : Taken(r)' = Taken(r)
    BY Zenon, <1>1, <1>4 DEF Taken
<1>6. PositionsAgree'
    BY Zenon, <1>1, <1>3, <1>5 DEF LogInv, PositionsAgree, Slot, Reader
<1>7. SendingIsLast'
    BY Zenon, <1>1, <1>2, <1>3 DEF LogInv, SendingIsLast
<1>8. ChunksHoldLog'
    BY ZenonT(60), <1>1, <1>3, <1>5 DEF LogInv, ChunksHoldLog, ChunkHolds, ChunkOf, Slot, Chunk, Reader
<1>9. ASSUME NEW r \in Reader PROVE ReaderHasNext(r)' /\ SocketHoldsPayloads(r)'
    <2>0. ReaderHasNext(r) /\ SocketHoldsPayloads(r) /\ Taken(r) \in Nat /\ Len(log) \in Nat
        BY Zenon, <1>0, CountsAreNaturals DEF LogInv
    <2>1. CASE rpc'[r] = rpc[r]
        BY Zenon, <1>1, <1>3, <1>5, <2>0, <2>1, ReaderUntouched
    <2>2. CASE rpc'[r] # rpc[r]
        <3>1. \/ rpc'[r] \notin {"read", "setFlag", "payload"}
              \/ CheckWritten(r) /\ rpc'[r] = "read"
            BY Zenon, <1>4, <2>2
        <3>2. ASSUME CheckWritten(r), rpc'[r] = "read" PROVE Taken(r) < Len(log)
            <4>1. written[rIdx[r]] /\ r \notin readFlag[rIdx[r]]
                BY Zenon, <1>0, <3>2 DEF CheckWritten, NotReady, LogInv, RingInv, FlagsGuardChunks, RingTypeOK
            <4>2. SUFFICES ASSUME Taken(r) = Len(log) PROVE FALSE
                BY SMTT(120), <2>0 DEF LogInv, PositionsAgree
            <4>3. rIdx[r] = wIdx /\ wIdx = Slot(Len(log)) /\ wIdx \in Chunk
                BY Zenon, <1>0, <4>2 DEF LogInv, PositionsAgree, RingTypeOK
            <4>4. ~Writing
                BY Zenon, <4>1, <4>3 DEF LogInv, RingInv, FlagsGuardChunks, Writing
            <4>5. CASE Len(log) < MaxChunks
                BY SMTT(120), <2>0, <4>1, <4>3, <4>5, SlotLap DEF LogInv, ChunksHoldLog
            <4>6. CASE MaxChunks <= Len(log)
                <5> DEFINE n == Len(log) + 1 - MaxChunks
                <5>1. n \in 1 .. Len(log) /\ Len(log) < n + MaxChunks /\ n - 1 = Len(log) - MaxChunks
                    BY SMTT(120), <2>0, <4>6, RingAssumption
                <5>2. ChunkOf(n) = wIdx
                    BY Zenon, <2>0, <4>3, <4>6, <5>1, SlotLap DEF ChunkOf
                <5>3. ChunkHolds(n)
                    BY Zenon, <5>1 DEF LogInv, ChunksHoldLog
                <5>4. n <= Taken(r)
                    BY SMTT(120), <2>0, <4>2, <5>1
                <5> QED BY Zenon, <4>1, <4>3, <5>2, <5>3, <5>4 DEF ChunkHolds
            <4> QED BY SMTT(120), <2>0, <4>5, <4>6, RingAssumption
        <3>3. ReaderHasNext(r)'
            BY Zenon, <1>1, <1>5, <3>1, <3>2 DEF ReaderHasNext
        <3>4. SocketHoldsPayloads(r)'
            BY Zenon, <1>1, <1>3, <2>0, SocketUntouched
        <3> QED BY Zenon, <3>3, <3>4
    <2> QED BY Zenon, <2>1, <2>2
<1> QED BY Zenon, <1>6, <1>7, <1>8, <1>9 DEF LogInv, Reader

\* What a reader copies out of its chunk is the next message it lacks
LEMMA ReadChunkKeepsLog == ASSUME LogInv, NEW r \in Reader, ReadChunk(r), RingInv' PROVE LogInv'
<1>0. RingTypeOK /\ RingTypeOK'
    BY Zenon DEF LogInv, RingInv
<1>1. /\ log' = log /\ wIdx' = wIdx /\ sending' = sending /\ written' = written /\ wpc' = wpc
      /\ readFlag' = readFlag /\ data' = data /\ rIdx' = rIdx /\ out' = out /\ socket' = socket
    BY Zenon DEF ReadChunk, writerVars
<1>2. /\ Writing' <=> Writing
      /\ Sent' = Sent
    BY Zenon, <1>1 DEF Writing, Sent
<1>3. /\ rpc[r] = "read" /\ rpc'[r] = "setFlag" /\ buf'[r] = data[rIdx[r]]
      /\ \A s \in Reader \ {r} : rpc'[s] = rpc[s] /\ buf'[s] = buf[s]
    BY ZenonT(60), <1>0 DEF ReadChunk, RingTypeOK
<1>4. \A s \in Reader : Taken(s)' = Taken(s)
    BY Zenon, <1>1, <1>3 DEF Taken
<1>5. Taken(r) \in Nat /\ Len(log) \in Nat /\ Taken(r) < Len(log) /\ Len(log) <= Taken(r) + MaxChunks
    BY Zenon, <1>0, <1>3, CountsAreNaturals DEF LogInv, PositionsAgree, ReaderHasNext
<1>6. data[rIdx[r]] = log[Taken(r) + 1]
    <2> DEFINE n == Taken(r) + 1
    <2>1. n \in 1 .. Len(log) /\ Len(log) < n + MaxChunks /\ n - 1 = Taken(r)
        BY <1>5, RingAssumption
    <2>2. ChunkHolds(n)
        BY Zenon, <2>1 DEF LogInv, ChunksHoldLog
    <2>3. ChunkOf(n) = rIdx[r]
        BY Zenon, <2>1 DEF ChunkOf, LogInv, PositionsAgree
    <2>4. written[rIdx[r]]
        BY Zenon, <1>3 DEF LogInv, RingInv, FlagsGuardChunks
    <2> QED BY Zenon, <2>2, <2>3, <2>4 DEF ChunkHolds
<1>7. PositionsAgree'
    BY Zenon, <1>1, <1>2, <1>4 DEF LogInv, PositionsAgree, Slot, Reader
<1>8. SendingIsLast'
    BY Zenon, <1>1, <1>2 DEF LogInv, SendingIsLast
<1>9. ChunksHoldLog'
    BY ZenonT(60), <1>1, <1>2, <1>4 DEF LogInv, ChunksHoldLog, ChunkHolds, ChunkOf, Slot, Chunk, Reader
<1>10. ASSUME NEW s \in Reader PROVE ReaderHasNext(s)' /\ SocketHoldsPayloads(s)'
    <2>1. CASE s = r
        <3>1. ReaderHasNext(r)'
            BY Zenon, <1>1, <1>3, <1>4, <1>5, <1>6 DEF ReaderHasNext
        <3>2. SocketHoldsPayloads(r)'
            BY Zenon, <1>1, <1>2, SocketUntouched DEF LogInv
        <3> QED BY Zenon, <2>1, <3>1, <3>2
    <2>2. CASE s # r
        BY Zenon, <1>1, <1>2, <1>3, <1>4, <2>2, ReaderUntouched DEF LogInv
    <2> QED BY Zenon, <2>1, <2>2
<1> QED BY Zenon, <1>7, <1>8, <1>9, <1>10 DEF LogInv, Reader

\* The read flag that a reader sets is that of the message it has just read
LEMMA SetReadFlagKeepsLog == ASSUME LogInv, NEW r \in Reader, SetReadFlag(r), RingInv' PROVE LogInv'
<1> DEFINE k == Taken(r)
<1>0. RingTypeOK /\ RingTypeOK' /\ out \in [Reader -> Seq(Message)] /\ buf[r] \in Message
    BY Zenon DEF LogInv, RingInv, RingTypeOK, ChunksHoldMessages, SetReadFlag
<1>1. /\ log' = log /\ wIdx' = wIdx /\ sending' = sending /\ written' = written /\ wpc' = wpc
      /\ data' = data /\ buf' = buf /\ socket' = socket
    BY Zenon DEF SetReadFlag, writerVars
<1>2. /\ Writing' <=> Writing
      /\ Sent' = Sent
    BY Zenon, <1>1 DEF Writing, Sent
<1>3. /\ rpc[r] = "setFlag" /\ rIdx'[r] = NextIdx(rIdx[r])
      /\ \A s \in Reader \ {r} : rpc'[s] = rpc[s] /\ rIdx'[s] = rIdx[s] /\ out'[s] = out[s]
      /\ buf[r].overflow => rpc'[r] = "payload" /\ out'[r] = out[r]
      /\ ~buf[r].overflow => rpc'[r] = "readFlag" /\ out'[r] = Append(out[r], buf[r])
    BY SMTT(120), <1>0 DEF SetReadFlag, RingTypeOK
<1>4. /\ \A s \in Reader \ {r} : Taken(s)' = Taken(s)
      /\ k = Len(out[r])
    <2>1. Len(out[r]) \in Nat
        BY SMTT(120), <1>0
    <2>2. k = Len(out[r])
        BY SMTT(120), <1>3, <2>1 DEF Taken
    <2> QED BY Zenon, <1>3, <2>2 DEF Taken
<1>5. /\ k \in Nat /\ Len(log) \in Nat /\ k < Len(log) /\ Len(log) <= k + MaxChunks
      /\ k <= Sent /\ buf[r] = log[k + 1] /\ rIdx[r] = Slot(k)
      /\ Writing => Len(log) < k + MaxChunks
    <2>1. /\ k <= Len(log) /\ Len(log) <= k + MaxChunks /\ Len(out[r]) <= Sent
          /\ rIdx[r] = Slot(k) /\ (Writing => Len(log) < k + MaxChunks)
        BY Zenon DEF LogInv, PositionsAgree
    <2>2. ReaderHasNext(r)
        BY Zenon DEF LogInv
    <2>3. k < Len(log) /\ buf[r] = log[k + 1]
        BY Zenon, <1>3, <2>2 DEF ReaderHasNext
    <2>4. k \in Nat /\ Len(log) \in Nat
        BY Zenon, <1>0, CountsAreNaturals
    <2> QED BY Zenon, <1>4, <2>1, <2>3, <2>4
<1>6. ~buf[r].overflow => Len(out'[r]) = k + 1
    <2>1. out[r] \in Seq(Message)
        BY Zenon, <1>0
    <2>2. Len(Append(out[r], buf[r])) = Len(out[r]) + 1
        BY SMTT(120), <1>0, <2>1, AppendEntries
    <2> QED BY Zenon, <1>3, <1>4, <2>2
<1> HIDE DEF k
<1>7. Taken(r)' = k + 1
    <2>1. CASE buf[r].overflow
        BY Zenon, <1>3, <1>4, <2>1 DEF Taken
    <2>2. CASE ~buf[r].overflow
        <3>1. Taken(r)' = Len(out'[r]) + 0
            BY Zenon, <1>3, <2>2 DEF Taken
        <3> QED BY SMTT(120), <1>5, <1>6, <2>2, <3>1
    <2> QED BY Zenon, <2>1, <2>2
<1>8. Len(out'[r]) <= Sent
    <2>1. CASE buf[r].overflow
        BY Zenon, <1>3, <1>4, <1>5, <2>1
    <2>2. CASE ~buf[r].overflow
        <3>1. wpc = "payload" => k + 1 # Len(log)
            BY Zenon, <1>5, <2>2 DEF LogInv, SendingIsLast
        <3> QED BY SMTT(120), <1>5, <1>6, <2>2, <3>1 DEF Sent
    <2> QED BY Zenon, <2>1, <2>2
<1>9. PositionsAgree'
    <2>1. rIdx'[r] = Slot(k + 1)
        BY ZenonT(60), <1>3, <1>5, SlotNext
    <2>2. k + 1 <= Len(log) /\ Len(log) <= k + 1 + MaxChunks /\ (Writing => Len(log) < k + 1 + MaxChunks)
        BY SMTT(120), <1>5, RingAssumption
    <2>3. ASSUME NEW s \in Reader
          PROVE  /\ rIdx'[s] = Slot(Taken(s)')
                 /\ Taken(s)' <= Len(log)
                 /\ Len(out'[s]) <= Sent
                 /\ Len(log) <= Taken(s)' + MaxChunks
                 /\ Writing => Len(log) < Taken(s)' + MaxChunks
        <3>1. CASE s = r
            BY Zenon, <1>7, <1>8, <2>1, <2>2, <3>1
        <3>2. CASE s # r
            BY ZenonT(60), <1>3, <1>4, <3>2 DEF LogInv, PositionsAgree
        <3> QED BY Zenon, <3>1, <3>2
    <2> QED BY Zenon, <1>1, <1>2, <2>3 DEF LogInv, PositionsAgree, Slot, Reader
<1>10. SendingIsLast'
    <2>1. wpc = "publish" => readFlag'[wIdx] = readFlag[wIdx]
        <3>1. Writing => rIdx[r] # wIdx
            BY ZenonT(60), <1>3 DEF LogInv, RingInv, FlagsGuardChunks, Writing
        <3> QED BY ZenonT(60), <1>0, <3>1 DEF SetReadFlag, Writing, RingTypeOK
    <2> QED BY Zenon, <1>1, <1>2, <2>1 DEF LogInv, SendingIsLast
<1>11. ChunksHoldLog'
    <2>1. ASSUME NEW n \in 1 .. Len(log), Len(log) < n + MaxChunks PROVE ChunkHolds(n)'
        <3>1. ChunkHolds(n) /\ ChunkOf(n) \in Chunk /\ ChunkOf(n)' = ChunkOf(n)
            BY SMTT(120), <1>5, <2>1, SlotNext DEF LogInv, ChunksHoldLog, ChunkOf, Slot
        <3>2. ASSUME NEW s \in Reader, written[ChunkOf(n)]
              PROVE  s \in readFlag'[ChunkOf(n)] <=> n <= Taken(s)'
            <4>0. s \in readFlag[ChunkOf(n)] <=> n <= Taken(s)
                BY Zenon, <3>1, <3>2 DEF ChunkHolds
            <4>1. CASE s # r
                BY SMTT(120), <1>0, <1>4, <3>1, <4>0, <4>1 DEF SetReadFlag, RingTypeOK
            <4>2. CASE s = r /\ n = k + 1
                <5>1. ChunkOf(n) = rIdx[r]
                    BY SMTT(120), <1>5, <4>2 DEF ChunkOf
                <5> QED BY SMTT(120), <1>0, <1>5, <1>7, <3>1, <4>2, <5>1 DEF SetReadFlag, RingTypeOK
            <4>3. CASE s = r /\ n # k + 1
                <5>1. Slot(n - 1) # Slot(k)
                    <6>1. CASE n - 1 < k
                        BY SMTT(120), <1>5, <2>1, <6>1, SlotsDiffer, RingAssumption
                    <6>2. CASE k < n - 1
                        BY SMTT(120), <1>5, <2>1, <6>2, SlotsDiffer, RingAssumption
                    <6> QED BY SMTT(120), <1>5, <4>3, <6>1, <6>2
                <5>2. ChunkOf(n) # rIdx[r]
                    BY Zenon, <1>5, <5>1 DEF ChunkOf
                <5>3. readFlag'[ChunkOf(n)] = readFlag[ChunkOf(n)]
                    BY ZenonT(60), <1>0, <3>1, <5>2 DEF SetReadFlag, RingTypeOK
                <5>4. n <= k + 1 <=> n <= k
                    BY SMTT(120), <1>5, <4>3
                <5> QED BY Zenon, <1>7, <4>0, <4>3, <5>3, <5>4 DEF k
            <4> QED BY Zenon, <4>1, <4>2, <4>3
        <3> QED BY Zenon, <1>1, <1>2, <3>1, <3>2 DEF ChunkHolds, Reader
    <2> QED BY Zenon, <1>1, <2>1 DEF LogInv, ChunksHoldLog, Chunk
<1>12. ASSUME NEW s \in Reader PROVE ReaderHasNext(s)' /\ SocketHoldsPayloads(s)'
    <2>1. CASE s # r
        BY Zenon, <1>1, <1>2, <1>3, <1>4, <2>1, ReaderUntouched DEF LogInv
    <2>2. CASE s = r /\ buf[r].overflow
        <3>1. ReaderHasNext(r)'
            BY Zenon, <1>1, <1>3, <1>5, <1>7, <2>2 DEF ReaderHasNext
        <3>2. SocketHoldsPayloads(r)'
            BY Zenon, <1>1, <1>2, <1>3, <2>2, SocketUntouched DEF LogInv
        <3> QED BY Zenon, <2>2, <3>1, <3>2
    <2>3. CASE s = r /\ ~buf[r].overflow
        <3>1. ReaderHasNext(r)'
            BY Zenon, <1>3, <2>3 DEF ReaderHasNext
        <3>0. SocketHoldsPayloads(r) /\ Len(out[r]) + 1 = k + 1 /\ ~log[k + 1].overflow
              /\ Len(out'[r]) + 1 = k + 2
            BY SMTT(120), <1>4, <1>5, <1>6, <2>3 DEF LogInv
        <3>2. ASSUME NEW i \in 1 .. Len(socket[r])
              PROVE  \E n \in k + 2 .. Sent : socket[r][i] = log[n] /\ log[n].overflow
            <4>1. PICK n \in k + 1 .. Sent : socket[r][i] = log[n] /\ log[n].overflow
                BY Zenon, <3>0 DEF SocketHoldsPayloads
            <4>2. n # k + 1
                BY Zenon, <3>0, <4>1
            <4> QED BY SMTT(120), <1>5, <4>1, <4>2
        <3>3. ASSUME NEW n \in k + 2 .. Sent, log[n].overflow
              PROVE  \E i \in 1 .. Len(socket[r]) : socket[r][i] = log[n]
            BY SMTT(120), <1>5, <3>0, <3>3 DEF SocketHoldsPayloads
        <3>4. \A i, j \in 1 .. Len(socket[r]) : i < j => socket[r][i].id < socket[r][j].id
            BY Zenon, <3>0 DEF SocketHoldsPayloads
        <3>5. SocketHoldsPayloads(r)'
            BY ZenonT(60), <1>1, <1>2, <3>0, <3>2, <3>3, <3>4 DEF SocketHoldsPayloads
        <3> QED BY Zenon, <2>3, <3>1, <3>5
    <2> QED BY Zenon, <2>1, <2>2, <2>3
<1> QED BY SMTT(120), <1>9, <1>10, <1>11, <1>12 DEF LogInv, Reader

LEMMA TailEntries ==
    ASSUME NEW S, NEW q \in Seq(S), q # << >>
    PROVE  /\ Len(q) \in Nat \ {0} /\ Tail(q) \in Seq(S) /\ Len(Tail(q)) = Len(q) - 1
           /\ Head(q) = q[1]
           /\ \A i \in 1 .. Len(q) - 1 : Tail(q)[i] = q[i + 1]
OBVIOUS

\* The payload at the head of a reader's socket is that of the marker it read
LEMMA PayloadIsNext ==
    ASSUME LogInv, NEW r \in Reader, ReceivePayload(r)
    PROVE  /\ Len(out[r]) + 1 \in 1 .. Sent
           /\ Len(out[r]) + 1 \in 1 .. Len(log)
           /\ Head(socket[r]) = log[Len(out[r]) + 1]
<1> DEFINE q == socket[r]
           k == Len(out[r]) + 1
<1>1. /\ RingTypeOK /\ socket \in [Reader -> Seq(Message)]
      /\ rpc[r] = "payload" /\ q # << >>
    BY Zenon DEF LogInv, RingInv, RingTypeOK, ReceivePayload
<1>2. Len(out[r]) \in Nat /\ Taken(r) = k /\ k \in Nat /\ k <= Len(log) /\ Len(log) \in Nat
    BY Zenon, <1>1, CountsAreNaturals DEF LogInv, PositionsAgree, Taken
<1>3. /\ \A i, j \in 1 .. Len(q) : i < j => q[i].id < q[j].id
      /\ \A i \in 1 .. Len(q) : \E n \in k .. Sent : q[i] = log[n] /\ log[n].overflow
      /\ \A n \in k .. Sent : log[n].overflow => \E i \in 1 .. Len(q) : q[i] = log[n]
    BY ZenonT(60) DEF LogInv, SocketHoldsPayloads
<1>4. log[k].overflow /\ \A n \in 1 .. Len(log) : log[n].id = n
    BY Zenon, <1>1, <1>2 DEF LogInv, ReaderHasNext, SendingIsLast
<1>5. Len(q) \in Nat \ {0} /\ Head(q) = q[1]
    BY Zenon, <1>1, TailEntries
<1>6. Sent \in Int /\ Sent <= Len(log)
    BY SMTT(120), <1>2 DEF Sent
<1> HIDE DEF q, k
<1>7. PICK m \in k .. Sent : q[1] = log[m]
    BY SMTT(120), <1>3, <1>5
<1>8. k \in 1 .. Sent /\ k \in 1 .. Len(log) /\ m \in 1 .. Len(log)
    BY <1>2, <1>6, <1>7 DEF k
<1>9. PICK i \in 1 .. Len(q) : q[i] = log[k]
    BY <1>2, <1>3, <1>4, <1>6, <1>8
<1>10. q[1].id = m /\ q[i].id = k
    BY Zenon, <1>4, <1>7, <1>8, <1>9
<1>11. CASE i = 1
    BY Zenon, <1>5, <1>8, <1>9, <1>11 DEF q, k
<1>12. CASE 1 < i
    <2>1. 1 \in 1 .. Len(q)
        BY SMTT(120), <1>5
    <2>2. q[1].id < q[i].id
        BY Zenon, <1>3, <1>9, <1>12, <2>1
    <2>3. m < k
        BY Zenon, <1>10, <2>2
    <2> QED BY <1>7, <1>8, <2>3
<1> QED BY SMTT(120), <1>5, <1>9, <1>11, <1>12

\* With its payload a marker is returned, and the payloads after it stay
LEMMA ReceiveKeepsLog == ASSUME LogInv, NEW r \in Reader, ReceivePayload(r), RingInv' PROVE LogInv'
<1> DEFINE q == socket[r]
           p == socket'[r]
           k == Len(out[r]) + 1
<1>0. /\ RingTypeOK /\ RingTypeOK' /\ out \in [Reader -> Seq(Message)]
      /\ socket \in [Reader -> Seq(Message)] /\ q \in Seq(Message) /\ q # << >>
    BY Zenon DEF LogInv, RingInv, RingTypeOK, ReceivePayload
<1>1. /\ log' = log /\ wIdx' = wIdx /\ sending' = sending /\ written' = written /\ wpc' = wpc
      /\ data' = data /\ buf' = buf /\ readFlag' = readFlag /\ rIdx' = rIdx
    BY Zenon DEF ReceivePayload, writerVars
<1>2. /\ Writing' <=> Writing
      /\ Sent' = Sent
    BY Zenon, <1>1 DEF Writing, Sent
<1>3. /\ rpc[r] = "payload" /\ rpc'[r] = "readFlag" /\ p = Tail(q) /\ out'[r] = Append(out[r], Head(q))
      /\ \A s \in Reader \ {r} : rpc'[s] = rpc[s] /\ out'[s] = out[s] /\ socket'[s] = socket[s]
    BY SMTT(120), <1>0 DEF ReceivePayload, RingTypeOK
<1>4. /\ k \in 1 .. Sent /\ k \in 1 .. Len(log) /\ Head(q) = log[k]
      /\ Len(log) \in Nat /\ Sent \in Int /\ Sent <= Len(log)
    <2>1. Len(log) \in Nat
        BY Zenon, <1>0, CountsAreNaturals
    <2> QED BY <2>1, PayloadIsNext DEF Sent
<1>5. /\ Len(q) \in Nat \ {0} /\ Len(p) = Len(q) - 1 /\ q[1] = log[k]
      /\ \A i \in 1 .. Len(p) : i + 1 \in 1 .. Len(q) /\ p[i] = q[i + 1]
    <2>1. /\ Len(q) \in Nat \ {0} /\ Len(Tail(q)) = Len(q) - 1 /\ Head(q) = q[1]
          /\ \A i \in 1 .. Len(q) - 1 : Tail(q)[i] = q[i + 1]
        BY Zenon, <1>0, TailEntries
    <2> HIDE DEF q, p
    <2> QED BY SMTT(120), <1>3, <1>4, <2>1
<1>6. Len(out'[r]) = k /\ k \in Nat
    <2>1. out[r] \in Seq(Message) /\ Head(q) \in Message
        BY SMTT(120), <1>0
    <2> QED BY SMTT(120), <1>3, <2>1, AppendEntries
<1>7. /\ Taken(r) = k /\ Taken(r)' = k
      /\ \A s \in Reader \ {r} : Taken(s)' = Taken(s)
    <2>1. Taken(r) = k /\ Taken(r)' = Len(out'[r]) + 0
        BY Zenon, <1>3 DEF Taken
    <2>2. ASSUME NEW s \in Reader \ {r} PROVE Taken(s)' = Taken(s)
        BY Zenon, <1>3 DEF Taken
    <2> QED BY SMTT(120), <1>6, <2>1, <2>2
<1>8. /\ \A i, j \in 1 .. Len(q) : i < j => q[i].id < q[j].id
      /\ \A i \in 1 .. Len(q) : \E n \in k .. Sent : q[i] = log[n] /\ log[n].overflow
      /\ \A n \in k .. Sent : log[n].overflow => \E i \in 1 .. Len(q) : q[i] = log[n]
    BY Zenon DEF LogInv, SocketHoldsPayloads
<1> HIDE DEF q, p, k
<1>9. PositionsAgree'
    <2>1. ASSUME NEW s \in Reader
          PROVE  /\ Taken(s)' = Taken(s)
                 /\ Len(out'[s]) <= Sent
        <3>1. CASE s = r
            BY SMTT(120), <1>4, <1>6, <1>7, <3>1
        <3>2. CASE s # r
            BY Zenon, <1>3, <1>7, <3>2 DEF LogInv, PositionsAgree
        <3> QED BY Zenon, <3>1, <3>2
    <2> QED BY Zenon, <1>1, <1>2, <2>1 DEF LogInv, PositionsAgree, Slot, Reader
<1>10. SendingIsLast'
    BY Zenon, <1>1, <1>2 DEF LogInv, SendingIsLast
<1>11. ChunksHoldLog'
    <2>1. \A s \in Reader : Taken(s)' = Taken(s)
        BY Zenon, <1>7
    <2> QED BY ZenonT(60), <1>1, <1>2, <2>1 DEF LogInv, ChunksHoldLog, ChunkHolds, ChunkOf, Slot, Chunk, Reader
<1>12. ASSUME NEW s \in Reader PROVE ReaderHasNext(s)' /\ SocketHoldsPayloads(s)'
    <2>1. CASE s # r
        BY Zenon, <1>1, <1>2, <1>3, <1>7, <2>1, ReaderUntouched DEF LogInv
    <2>2. CASE s = r
        <3>1. ReaderHasNext(r)'
            BY Zenon, <1>3 DEF ReaderHasNext
        <3>2. ASSUME NEW i \in 1 .. Len(p), NEW j \in 1 .. Len(p), i < j PROVE p[i].id < p[j].id
            <4>1. i + 1 \in 1 .. Len(q) /\ j + 1 \in 1 .. Len(q) /\ i + 1 < j + 1
                BY SMTT(120), <1>5, <3>2
            <4>2. q[i + 1].id < q[j + 1].id
                BY Zenon, <1>8, <4>1
            <4> QED BY Zenon, <1>5, <4>2
        <3>3. \A n \in 1 .. Len(log) : log[n].id = n
            BY Zenon DEF LogInv, SendingIsLast
        <3>4. ASSUME NEW i \in 1 .. Len(p)
              PROVE  \E n \in k + 1 .. Sent : p[i] = log[n] /\ log[n].overflow
            <4>1. i + 1 \in 1 .. Len(q) /\ p[i] = q[i + 1] /\ 1 \in 1 .. Len(q) /\ 1 < i + 1
                BY SMTT(120), <1>5
            <4>2. PICK n \in k .. Sent : p[i] = log[n] /\ log[n].overflow
                BY ZenonT(60), <1>8, <4>1
            <4>3. n \in 1 .. Len(log)
                BY SMTT(120), <1>4, <1>6
            <4>4. q[1].id < p[i].id
                BY ZenonT(60), <1>8, <4>1
            <4>5. k < n
                BY ZenonT(60), <1>4, <1>5, <3>3, <4>2, <4>3, <4>4
            <4> QED BY SMTT(120), <1>6, <4>2, <4>5
        <3>5. ASSUME NEW n \in k + 1 .. Sent, log[n].overflow
              PROVE  \E i \in 1 .. Len(p) : p[i] = log[n]
            <4>1. n \in k .. Sent /\ n \in 1 .. Len(log) /\ n # k
                BY SMTT(120), <1>4, <1>6
            <4>2. PICK i \in 1 .. Len(q) : q[i] = log[n]
                BY Zenon, <1>8, <3>5, <4>1
            <4>3. i # 1
                BY ZenonT(60), <1>4, <1>5, <3>3, <4>1, <4>2
            <4>4. i - 1 \in 1 .. Len(p) /\ p[i - 1] = q[i]
                BY SMTT(120), <1>5, <4>2, <4>3
            <4> QED BY Zenon, <4>2, <4>4
        <3>6. SocketHoldsPayloads(r)'
            BY ZenonT(60), <1>1, <1>2, <1>6, <3>2, <3>4, <3>5 DEF SocketHoldsPayloads, p
        <3> QED BY Zenon, <2>2, <3>1, <3>6
    <2> QED BY Zenon, <2>1, <2>2
<1> QED BY Zenon, <1>9, <1>10, <1>11, <1>12 DEF LogInv, Reader

\* The invariant is kept by every step
LEMMA StepKeepsLog == ASSUME LogInv, [RingNext]_ringVars, RingInv' PROVE LogInv'
<1>1. CASE Writer
    BY Zenon, <1>1, AcquireKeepsLog, FillKeepsLog, PublishKeepsLog, SendPayloadKeepsLog, LookKeepsLog
       DEF Writer
<1>2. ASSUME NEW r \in Reader, ReaderStep(r) \/ Spin(r) PROVE LogInv'
    BY Zenon, <1>2, LookKeepsLog, ReadChunkKeepsLog, SetReadFlagKeepsLog, ReceiveKeepsLog DEF ReaderStep
<1>3. CASE UNCHANGED ringVars
    <2>1. /\ log' = log /\ wIdx' = wIdx /\ sending' = sending /\ written' = written /\ wpc' = wpc
          /\ data' = data /\ buf' = buf /\ readFlag' = readFlag /\ rIdx' = rIdx /\ out' = out
          /\ socket' = socket /\ rpc' = rpc
        BY Zenon, <1>3 DEF ringVars, writerVars, readerVars
    <2>2. /\ Writing' <=> Writing
          /\ Sent' = Sent
          /\ \A r \in Reader : Taken(r)' = Taken(r)
        BY Zenon, <2>1 DEF Writing, Sent, Taken
    <2>3. PositionsAgree' /\ SendingIsLast'
        BY Zenon, <2>1, <2>2 DEF LogInv, PositionsAgree, SendingIsLast, Slot, Reader
    <2>4. ChunksHoldLog'
        BY ZenonT(60), <2>1, <2>2 DEF LogInv, ChunksHoldLog, ChunkHolds, ChunkOf, Slot, Chunk, Reader
    <2>5. ASSUME NEW r \in Reader PROVE ReaderHasNext(r)' /\ SocketHoldsPayloads(r)'
        BY Zenon, <2>1, <2>2, ReaderUntouched DEF LogInv
    <2> QED BY Zenon, <2>3, <2>4, <2>5 DEF LogInv, Reader
<1> QED BY Zenon, <1>1, <1>2, <1>3 DEF RingNext

LEMMA LogInvInductive == RingSpec => []LogInv
<1>1. LogInv /\ [RingNext]_ringVars /\ RingInv' => LogInv'
    BY Zenon, StepKeepsLog
<1> QED BY <1>1, LogInvInit, RingInvInductive, PTL DEF RingSpec

\* Publishing is Enqueue, returning a message is Dequeue, the rest is not seen
LEMMA StepIsQueueStep ==
    ASSUME LogInv, [RingNext]_ringVars PROVE [Queue!Next]_(Queue!vars)
<1>0. /\ RingTypeOK /\ Len(log) \in Nat
      /\ \A r \in Reader : Len(out[r]) \in Nat /\ Taken(r) \in Nat
    BY Zenon, CountsAreNaturals DEF LogInv, RingInv
<1>1. CASE Publish
    <2>1. sending \in Message /\ log' = Append(log, sending) /\ out' = out /\ Writing
        BY Zenon, <1>1 DEF Publish, LogInv, RingInv, ChunksHoldMessages, readerVars, Writing
    <2>2. ASSUME NEW r \in Reader PROVE Len(log) - Len(out[r]) < MaxChunks + 1
        <3>1. Len(log) < Taken(r) + MaxChunks
            BY Zenon, <2>1 DEF LogInv, PositionsAgree
        <3>2. Taken(r) <= Len(out[r]) + 1
            BY <1>0 DEF Taken
        <3> QED BY SMTT(120), <1>0, <3>1, <3>2, RingAssumption
    <2>3. Queue!Enqueue(sending)
        BY Zenon, <2>1, <2>2 DEF Queue!Enqueue
    <2> QED BY Zenon, <2>1, <2>3 DEF Queue!Next
<1>2. ASSUME NEW r \in Reader, SetReadFlag(r) PROVE [Queue!Next]_(Queue!vars)
    <2>1. CASE buf[r].overflow
        BY Zenon, <1>2, <2>1 DEF SetReadFlag, writerVars, Queue!vars
    <2>2. CASE ~buf[r].overflow
        <3>1. Taken(r) = Len(out[r]) /\ rpc[r] = "setFlag"
            BY SMTT(120), <1>0, <1>2 DEF SetReadFlag, Taken
        <3>2. Len(out[r]) < Len(log) /\ buf[r] = log[Len(out[r]) + 1]
            BY Zenon, <3>1 DEF LogInv, ReaderHasNext
        <3>3. out' = [out EXCEPT ![r] = Append(out[r], buf[r])] /\ log' = log
            BY Zenon, <1>2, <2>2 DEF SetReadFlag, writerVars
        <3>4. Queue!Dequeue(r)
            BY Zenon, <3>2, <3>3 DEF Queue!Dequeue
        <3> QED BY Zenon, <3>4 DEF Queue!Next
    <2> QED BY Zenon, <2>1, <2>2
<1>3. ASSUME NEW r \in Reader, ReceivePayload(r) PROVE [Queue!Next]_(Queue!vars)
    <2>1. Len(out[r]) + 1 \in 1 .. Len(log) /\ Head(socket[r]) = log[Len(out[r]) + 1]
        BY Zenon, <1>3, PayloadIsNext
    <2>2. out' = [out EXCEPT ![r] = Append(out[r], Head(socket[r]))] /\ log' = log
        BY Zenon, <1>3 DEF ReceivePayload, writerVars
    <2>3. Len(out[r]) < Len(log)
        BY SMTT(120), <1>0, <2>1
    <2>4. out' = [out EXCEPT ![r] = Append(out[r], log[Len(out[r]) + 1])]
        BY Zenon, <2>1, <2>2
    <2>5. Queue!Dequeue(r)
        BY Zenon, <2>2, <2>3, <2>4 DEF Queue!Dequeue
    <2> QED BY SMTT(120), <2>5 DEF Queue!Next
<1>4. CASE AcquireWrite \/ Fill \/ ResetReadFlag \/ SendPayload \/ Notify
    BY Zenon, <1>4 DEF AcquireWrite, Fill, ResetReadFlag, SendPayload, Notify, readerVars, Queue!vars
<1>5. ASSUME NEW r \in Reader,
             CheckReadFlag(r) \/ CheckWritten(r) \/ Spin(r) \/ AwaitPing(r) \/ ReadChunk(r)
      PROVE  UNCHANGED <<log, out>>
    BY Zenon, <1>5 DEF CheckReadFlag, CheckWritten, Spin, AwaitPing, ReadChunk, writerVars
<1>6. CASE UNCHANGED ringVars
    BY Zenon, <1>6 DEF ringVars, writerVars, readerVars, Queue!vars
<1> QED BY Zenon, <1>1, <1>2, <1>3, <1>4, <1>5, <1>6 DEF RingNext, Writer, ReaderStep, Queue!vars

\* Every reader returns the messages of enqueue in order, none twice and none
\* left out, with the writer at most a ring ahead, however many readers and
\* chunks there are: the lock-free ring with its sockets implements the
\* broadcast queue.
THEOREM RingImplementsQueue == RingSpec => RingIsBroadcastQueue
<1>1. RingInit => Queue!Init
    BY Zenon DEF RingInit, Queue!Init
<1>2. LogInv /\ [RingNext]_ringVars => [Queue!Next]_(Queue!vars)
    BY Zenon, StepIsQueueStep
<1> QED BY <1>1, <1>2, LogInvInductive, PTL DEF RingSpec, RingIsBroadcastQueue, Queue!Spec
=============================================================================
