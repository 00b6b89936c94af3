-------------------- MODULE FreeKVCacheBlockQueueProofs --------------------
(* Theorems about FreeKVCacheBlockQueue, for any pool of blocks.           *)
EXTENDS FreeKVCacheBlockQueue, SequenceTheorems, TLAPS

Distinct(q) == \A i, j \in 1 .. Len(q) : q[i] = q[j] => i = j

\* The links between the nodes lo and hi + 1 of the chain of q
Linked(q, lo, hi) ==
    \A i \in lo .. hi :
        nextFree[At(q, i)] = At(q, i + 1) /\ prevFree[At(q, i + 1)] = At(q, i)

\* Inside popleft_n: ret is the popped front of the queue, curr the node after
\* it, and the links behind curr are intact
PopInv ==
    /\ todo + Len(ret) <= Len(queue)
    /\ numFree + todo + Len(ret) = Len(queue)
    /\ curr = At(queue, Len(ret) + 1)
    /\ \A i \in 1 .. Len(ret) : ret[i] = queue[i]
    /\ Linked(queue, Len(ret) + 1, Len(queue))
    /\ \A i \in 1 .. Len(ret) : Detached(queue[i])
    /\ \A b \in Block : ~In(queue, b) => Detached(b)

\* Inside append_n: the links run through the queue and the blocks appended so
\* far, and the rest of the list is not linked
AppendInv ==
    LET all == queue \o ret
    IN  /\ numFree = Len(queue)
        /\ Distinct(all \o list)
        /\ curr = At(all, Len(all))
        /\ Linked(all, 0, Len(all) - 1)
        /\ \A b \in Block : ~In(all, b) => Detached(b)

QueueInv ==
    /\ QueueTypeOK
    /\ Distinct(queue)
    /\ NoQueueError
    /\ LinksMatchQueue
    /\ pc = "pop" => PopInv
    /\ pc = "append" => AppendInv

-----------------------------------------------------------------------------
(* Chains of nodes *)

\* Every node of a chain is a block or a fake node, and it occurs once
LEMMA ChainNodes ==
    ASSUME NEW q \in Seq(Block), Distinct(q)
    PROVE  /\ \A i \in 0 .. Len(q) + 1 : At(q, i) \in Node /\ At(q, i) # None
           /\ \A i \in 1 .. Len(q) : At(q, i) = q[i] /\ q[i] \in Block
           /\ \A i, j \in 0 .. Len(q) + 1 : At(q, i) = At(q, j) => i = j
<1>1. Len(q) \in Nat /\ \A i \in 1 .. Len(q) : q[i] \in Block
    OBVIOUS
<1>2. \A i \in 1 .. Len(q) : At(q, i) = q[i]
    BY <1>1 DEF At
<1>3. At(q, 0) = FakeHead /\ At(q, Len(q) + 1) = FakeTail
    BY <1>1 DEF At
<1>4. \A i \in 0 .. Len(q) + 1 : i = 0 \/ i = Len(q) + 1 \/ i \in 1 .. Len(q)
    BY <1>1
<1>5. \A i, j \in 0 .. Len(q) + 1 : At(q, i) = At(q, j) => i = j
    <2> SUFFICES ASSUME NEW i \in 0 .. Len(q) + 1, NEW j \in 0 .. Len(q) + 1,
                        At(q, i) = At(q, j)
                 PROVE  i = j
        BY Zenon
    <2>1. CASE i \in 1 .. Len(q) /\ j \in 1 .. Len(q)
        BY Zenon, <2>1, <1>2 DEF Distinct
    <2> QED BY ZenonT(60), <2>1, <1>1, <1>2, <1>3, <1>4, QueueAssumption
<1> QED BY SMTT(120), <1>1, <1>2, <1>3, <1>4, <1>5, QueueAssumption DEF Node

\* The chain that is left when the first k blocks are dropped
LEMMA DropFront ==
    ASSUME NEW q \in Seq(Block), Distinct(q), NEW k \in 0 .. Len(q)
    PROVE  LET s == SubSeq(q, k + 1, Len(q))
           IN  /\ s \in Seq(Block) /\ Distinct(s) /\ Len(s) = Len(q) - k
               /\ \A i \in 1 .. Len(s) + 1 : At(s, i) = At(q, i + k)
               /\ \A b : In(s, b) <=> \E i \in k + 1 .. Len(q) : q[i] = b
<1> DEFINE s == SubSeq(q, k + 1, Len(q))
<1>1. Len(q) \in Nat /\ k + 1 \in Int /\ \A i \in k + 1 .. Len(q) : q[i] \in Block
    OBVIOUS
<1>2. /\ s \in Seq(Block)
      /\ Len(s) = IF k + 1 <= Len(q) THEN Len(q) - (k + 1) + 1 ELSE 0
      /\ \A i \in 1 .. Len(q) - (k + 1) + 1 : s[i] = q[(k + 1) + i - 1]
    BY SMTT(120), <1>1, SubSeqProperties
<1>3. Len(s) = Len(q) - k /\ \A i \in 1 .. Len(s) : s[i] = q[i + k]
    BY SMTT(120), <1>1, <1>2
<1> HIDE DEF s
<1>4. \A i \in 1 .. Len(s) + 1 : At(s, i) = At(q, i + k)
    <2> SUFFICES ASSUME NEW i \in 1 .. Len(s) + 1 PROVE At(s, i) = At(q, i + k)
        BY Zenon
    <2>1. CASE i = Len(s) + 1
        <3>1. i # 0 /\ i + k # 0 /\ i + k = Len(q) + 1
            BY SMTT(120), <1>1, <1>3, <2>1
        <3> QED BY Zenon, <2>1, <3>1 DEF At
    <2>2. CASE i \in 1 .. Len(s)
        <3>1. i # 0 /\ i # Len(s) + 1 /\ i + k # 0 /\ i + k # Len(q) + 1
            BY SMTT(120), <1>1, <1>3, <2>2
        <3>2. s[i] = q[i + k]
            BY Zenon, <1>3, <2>2
        <3> QED BY Zenon, <3>1, <3>2 DEF At
    <2>3. i = Len(s) + 1 \/ i \in 1 .. Len(s)
        BY SMTT(120), <1>1, <1>3
    <2> QED BY Zenon, <2>1, <2>2, <2>3
<1>5. Distinct(s)
    BY SMTT(120), <1>1, <1>3 DEF Distinct
<1>6. \A b : In(s, b) <=> \E i \in k + 1 .. Len(q) : q[i] = b
    <2> SUFFICES ASSUME NEW b PROVE In(s, b) <=> \E i \in k + 1 .. Len(q) : q[i] = b
        BY Zenon
    <2>1. ASSUME NEW i \in k + 1 .. Len(q), q[i] = b PROVE In(s, b)
        <3>1. i - k \in 1 .. Len(s) /\ s[i - k] = q[i]
            BY SMTT(120), <1>1, <1>3
        <3> QED BY Zenon, <2>1, <3>1 DEF In
    <2>2. ASSUME NEW i \in 1 .. Len(s), s[i] = b PROVE \E j \in k + 1 .. Len(q) : q[j] = b
        <3>1. i + k \in k + 1 .. Len(q) /\ q[i + k] = b
            BY SMTT(120), <1>1, <1>3, <2>2
        <3> QED BY Zenon, <3>1
    <2> QED BY Zenon, <2>1, <2>2 DEF In
<1> QED BY Zenon, <1>2, <1>3, <1>4, <1>5, <1>6 DEF s

\* The chain without its node p
LEMMA DropMiddle ==
    ASSUME NEW q \in Seq(Block), Distinct(q), NEW p \in 1 .. Len(q)
    PROVE  LET s == SubSeq(q, 1, p - 1) \o SubSeq(q, p + 1, Len(q))
           IN  /\ s \in Seq(Block) /\ Distinct(s) /\ Len(s) = Len(q) - 1
               /\ \A i \in 0 .. Len(s) + 1 : At(s, i) = IF i < p THEN At(q, i) ELSE At(q, i + 1)
               /\ \A b : In(q, b) /\ b # q[p] => In(s, b)
<1> DEFINE f == SubSeq(q, 1, p - 1)
           t == SubSeq(q, p + 1, Len(q))
           s == f \o t
<1>1. Len(q) \in Nat /\ \A i \in 1 .. Len(q) : q[i] \in Block
    OBVIOUS
<1>2. /\ f \in Seq(Block) /\ Len(f) = p - 1
      /\ \A i \in 1 .. p - 1 : f[i] = q[i]
    BY SMTT(120), <1>1, SubSeqProperties
<1>3. /\ t \in Seq(Block) /\ Len(t) = Len(q) - p
      /\ \A i \in 1 .. Len(q) - p : t[i] = q[p + i]
    <2>1. /\ t \in Seq(Block)
          /\ Len(t) = IF p + 1 <= Len(q) THEN Len(q) - (p + 1) + 1 ELSE 0
          /\ \A i \in 1 .. Len(q) - (p + 1) + 1 : t[i] = q[(p + 1) + i - 1]
        BY SMTT(120), <1>1, SubSeqProperties
    <2> HIDE DEF t
    <2> QED BY SMTT(120), <1>1, <2>1
<1> HIDE DEF f, t
<1>4. /\ s \in Seq(Block) /\ Len(s) = Len(f) + Len(t)
      /\ \A i \in 1 .. Len(f) + Len(t) : s[i] = IF i <= Len(f) THEN f[i] ELSE t[i - Len(f)]
    BY ZenonT(60), <1>2, <1>3, ConcatProperties
<1> HIDE DEF s
<1>5. Len(s) = Len(q) - 1
    BY <1>1, <1>2, <1>3, <1>4
<1>6. \A i \in 1 .. Len(s) : s[i] = IF i < p THEN q[i] ELSE q[i + 1]
    <2> SUFFICES ASSUME NEW i \in 1 .. Len(s) PROVE s[i] = IF i < p THEN q[i] ELSE q[i + 1]
        BY Zenon
    <2>1. CASE i < p
        <3>1. i \in 1 .. Len(f) + Len(t) /\ i <= Len(f) /\ i \in 1 .. p - 1
            BY SMTT(120), <1>1, <1>2, <1>3, <1>4, <1>5, <2>1
        <3>2. s[i] = f[i]
            BY Zenon, <1>4, <3>1
        <3>3. f[i] = q[i]
            BY Zenon, <1>2, <3>1
        <3> QED BY Zenon, <2>1, <3>2, <3>3
    <2>2. CASE ~(i < p)
        <3>1. i - (p - 1) \in 1 .. Len(q) - p /\ p + (i - (p - 1)) = i + 1
            BY SMTT(120), <1>1, <1>5, <2>2
        <3>2. s[i] = t[i - (p - 1)]
            BY SMTT(120), <1>1, <1>2, <1>3, <1>4, <1>5, <2>2
        <3> QED BY Zenon, <1>3, <2>2, <3>1, <3>2
    <2> QED BY Zenon, <2>1, <2>2
<1>7. \A i \in 0 .. Len(s) + 1 : At(s, i) = IF i < p THEN At(q, i) ELSE At(q, i + 1)
    BY SMTT(120), <1>1, <1>5, <1>6 DEF At
<1>8. Distinct(s)
    BY SMTT(120), <1>1, <1>5, <1>6 DEF Distinct
<1>9. \A b : In(q, b) /\ b # q[p] => In(s, b)
    <2> SUFFICES ASSUME NEW b, NEW j \in 1 .. Len(q), q[j] = b, j # p PROVE In(s, b)
        BY Zenon DEF In
    <2>1. CASE j < p
        <3>1. j \in 1 .. Len(s) /\ s[j] = b
            BY SMTT(120), <1>1, <1>5, <1>6, <2>1
        <3> QED BY Zenon, <3>1 DEF In
    <2>2. CASE j > p
        <3>1. j - 1 \in 1 .. Len(s) /\ s[j - 1] = b
            BY SMTT(120), <1>1, <1>5, <1>6, <2>2
        <3> QED BY Zenon, <3>1 DEF In
    <2> QED BY SMTT(120), <2>1, <2>2
<1> QED BY Zenon, <1>4, <1>5, <1>7, <1>8, <1>9 DEF s, f, t

\* The chain with one more block at its end
LEMMA ChainAppend ==
    ASSUME NEW q \in Seq(Block), Distinct(q), NEW b \in Block, ~In(q, b)
    PROVE  LET s == Append(q, b)
           IN  /\ s \in Seq(Block) /\ Distinct(s) /\ Len(s) = Len(q) + 1
               /\ \A i \in 0 .. Len(q) : At(s, i) = At(q, i)
               /\ At(s, Len(q) + 1) = b /\ At(s, Len(q) + 2) = FakeTail
               /\ \A c : In(s, c) <=> In(q, c) \/ c = b
<1> DEFINE s == Append(q, b)
<1>1. /\ Len(q) \in Nat /\ s \in Seq(Block) /\ Len(s) = Len(q) + 1
      /\ \A i \in 1 .. Len(q) : s[i] = q[i]
      /\ s[Len(q) + 1] = b
    BY SMTT(120), AppendProperties
<1> HIDE DEF s
<1>2. /\ \A i \in 0 .. Len(q) : At(s, i) = At(q, i)
      /\ At(s, Len(q) + 1) = b /\ At(s, Len(q) + 2) = FakeTail
    BY SMTT(120), <1>1 DEF At
<1>3. Distinct(s)
    <2> SUFFICES ASSUME NEW i \in 1 .. Len(s), NEW j \in 1 .. Len(s), s[i] = s[j] PROVE i = j
        BY Zenon DEF Distinct
    <2>1. CASE i = Len(q) + 1 \/ j = Len(q) + 1
        BY SMTT(120), <1>1, <2>1 DEF In
    <2>2. CASE i \in 1 .. Len(q) /\ j \in 1 .. Len(q)
        BY Zenon, <1>1, <2>2 DEF Distinct
    <2> QED BY SMTT(120), <1>1, <2>1, <2>2
<1>4. \A c : In(s, c) <=> In(q, c) \/ c = b
    BY SMTT(120), <1>1 DEF In
<1> QED BY Zenon, <1>1, <1>2, <1>3, <1>4 DEF s

-----------------------------------------------------------------------------
(* The calls *)

\* The list that __init__ builds
LEMMA QueueInvInit == QueueInit => QueueInv
<1> SUFFICES ASSUME QueueInit PROVE QueueInv
    BY Zenon
<1>1. Blocks \in Seq(Block) /\ Distinct(Blocks) /\ Len(Blocks) \in Nat
    BY QueueAssumption DEF Distinct
<1>2. ASSUME NEW i \in 0 .. Len(Blocks)
      PROVE  nextFree[At(Blocks, i)] = At(Blocks, i + 1)
    <2>1. At(Blocks, i) \in Node
        BY SMTT(120), <1>1, ChainNodes
    <2>2. i = CHOOSE j \in 0 .. Len(Blocks) : At(Blocks, j) = At(Blocks, i)
        BY SMTT(120), <1>1, ChainNodes
    <2> QED BY Zenon, <2>1, <2>2 DEF QueueInit, NextIn
<1>3. ASSUME NEW i \in 0 .. Len(Blocks)
      PROVE  prevFree[At(Blocks, i + 1)] = At(Blocks, i)
    <2>1. At(Blocks, i + 1) \in Node /\ i + 1 \in 1 .. Len(Blocks) + 1
        BY SMTT(120), <1>1, ChainNodes
    <2>2. i + 1 = CHOOSE j \in 1 .. Len(Blocks) + 1 : At(Blocks, j) = At(Blocks, i + 1)
        BY SMTT(120), <1>1, <2>1, ChainNodes
    <2>3. (i + 1) - 1 = i
        OBVIOUS
    <2> QED BY Zenon, <2>1, <2>2, <2>3 DEF QueueInit, PrevIn
<1>4. ASSUME NEW b \in Block, ~In(Blocks, b) PROVE Detached(b)
    <2>1. \A i \in 0 .. Len(Blocks) + 1 : At(Blocks, i) # b
        BY SMTT(120), <1>1, <1>4, QueueAssumption DEF At, In
    <2> QED BY SMTT(120), <1>1, <2>1 DEF QueueInit, NextIn, PrevIn, Detached, Node
<1>5. LinksMatchQueue
    BY ZenonT(60), <1>2, <1>3, <1>4 DEF QueueInit, LinksMatchQueue
<1>6. \A x \in Node : NextIn(Blocks, x) \in Link /\ PrevIn(Blocks, x) \in Link
    <2> SUFFICES ASSUME NEW x \in Node PROVE NextIn(Blocks, x) \in Link /\ PrevIn(Blocks, x) \in Link
        BY Zenon
    <2>1. NextIn(Blocks, x) \in Link
        <3>1. ASSUME NEW i \in 0 .. Len(Blocks) PROVE At(Blocks, i + 1) \in Link
            BY SMTT(120), <1>1, ChainNodes DEF Link
        <3> QED BY Zenon, <3>1 DEF NextIn, Link
    <2>2. PrevIn(Blocks, x) \in Link
        <3>1. ASSUME NEW i \in 1 .. Len(Blocks) + 1 PROVE At(Blocks, i - 1) \in Link
            BY SMTT(120), <1>1, ChainNodes DEF Link
        <3> QED BY Zenon, <3>1 DEF PrevIn, Link
    <2> QED BY Zenon, <2>1, <2>2
<1>7. QueueTypeOK
    BY SMTT(120), <1>1, <1>6 DEF QueueInit, QueueTypeOK, Link
<1> QED BY Zenon, <1>1, <1>5, <1>7 DEF QueueInit, QueueInv, NoQueueError

\* What the invariant says between two calls
LEMMA IdleFacts ==
    ASSUME QueueInv, pc = "idle"
    PROVE  /\ queue \in Seq(Block) /\ Distinct(queue) /\ Len(queue) \in Nat
           /\ numFree = Len(queue)
           /\ Linked(queue, 0, Len(queue))
           /\ \A b \in Block : ~In(queue, b) => Detached(b)
BY Zenon DEF QueueInv, LinksMatchQueue, Linked, QueueTypeOK

\* An idle state whose links run through a queue satisfies the invariant
LEMMA IdleInv ==
    ASSUME NEW q \in Seq(Block), Distinct(q),
           QueueTypeOK', pc' = "idle", queue' = q, numFree' = Len(q),
           \A i \in 0 .. Len(q) : nextFree'[At(q, i)] = At(q, i + 1)
                                  /\ prevFree'[At(q, i + 1)] = At(q, i),
           \A b \in Block : ~In(q, b) => nextFree'[b] = None /\ prevFree'[b] = None
    PROVE  QueueInv'
<1>1. LinksMatchQueue'
    BY ZenonT(60) DEF LinksMatchQueue, At, In, Detached
<1>2. Distinct(queue)' /\ NoQueueError'
    BY ZenonT(60) DEF Distinct, NoQueueError
<1> QED BY Zenon, <1>1, <1>2 DEF QueueInv

\* popleft takes the first block of the queue
LEMMA PopLeftCorrect ==
    ASSUME QueueInv, PopLeft
    PROVE  QueueInv' /\ \E n \in 0 .. Len(queue) : Queue!PopLeft(n)
<1> DEFINE first == nextFree[FakeHead]
<1>1. pc = "idle"
    BY Zenon DEF PopLeft, Empty
<1>2. /\ queue \in Seq(Block) /\ Distinct(queue) /\ Len(queue) \in Nat
      /\ numFree = Len(queue) /\ Linked(queue, 0, Len(queue))
      /\ \A b \in Block : ~In(queue, b) => Detached(b)
    BY Zenon, <1>1, IdleFacts
<1>3. first = At(queue, 1)
    <2>1. 0 \in 0 .. Len(queue) /\ At(queue, 0) = FakeHead
        BY SMTT(120), <1>2 DEF At
    <2> QED BY SMTT(120), <1>2, <2>1 DEF Linked
<1>4. CASE Len(queue) = 0
    <2>1. first = FakeTail
        BY SMTT(120), <1>3, <1>4 DEF At
    <2>2. result' = << >> /\ UNCHANGED <<linkVars, loopVars, queue>>
        BY Zenon, <1>2, <1>4, <2>1 DEF PopLeft, Empty
    <2>3. QueueInv'
        <3>1. QueueTypeOK'
            BY SMTT(120), <2>2 DEF QueueInv, QueueTypeOK, linkVars, loopVars
        <3> QED BY Zenon, <1>1, <1>2, <2>2, <3>1, IdleInv DEF Linked, Detached, linkVars, loopVars
    <2>4. SubSeq(queue, 1, 0) = << >> /\ SubSeq(queue, 0 + 1, Len(queue)) = queue
        BY SMTT(120), <1>2, <1>4, SubSeqEmpty, SubSeqFull
    <2>5. Queue!PopLeft(0)
        BY SMTT(120), <1>2, <2>2, <2>4 DEF Queue!PopLeft
    <2> QED BY SMTT(120), <1>2, <2>3, <2>5
<1>5. CASE Len(queue) # 0
    <2> DEFINE s == SubSeq(queue, 1 + 1, Len(queue))
    <2>1. /\ s \in Seq(Block) /\ Distinct(s) /\ Len(s) = Len(queue) - 1
          /\ \A i \in 1 .. Len(s) + 1 : At(s, i) = At(queue, i + 1)
          /\ \A b : In(s, b) <=> \E i \in 1 + 1 .. Len(queue) : queue[i] = b
        BY SMTT(120), <1>2, <1>5, DropFront
    <2>2. first = queue[1] /\ first \in Block
        BY <1>2, <1>3, <1>5, ChainNodes
    <2>3. nextFree[first] = At(queue, 2) /\ At(queue, 2) \in Node /\ At(queue, 2) # None
        BY SMTT(120), <1>2, <1>3, <1>5, ChainNodes DEF Linked
    <2>4. /\ nextFree' = [nextFree EXCEPT ![FakeHead] = At(queue, 2), ![first] = None]
          /\ prevFree' = [prevFree EXCEPT ![At(queue, 2)] = FakeHead, ![first] = None]
          /\ numFree' = numFree - 1 /\ result' = <<first>> /\ queue' = s /\ UNCHANGED loopVars
        BY SMTT(120), <2>2, <2>3, QueueAssumption DEF PopLeft, Empty, UnlinkFirst
    <2> HIDE DEF s
    <2>5. \A i \in 0 .. Len(queue) + 1 : /\ At(queue, i) = FakeHead => i = 0
                                         /\ At(queue, i) = first => i = 1
                                         /\ At(queue, i) = At(queue, 2) => i = 2
        <3>1. /\ 0 \in 0 .. Len(queue) + 1 /\ 1 \in 0 .. Len(queue) + 1 /\ 2 \in 0 .. Len(queue) + 1
            BY SMTT(120), <1>2, <1>5
        <3>2. At(queue, 0) = FakeHead
            BY Zenon DEF At
        <3> QED BY SMTT(120), <1>2, <1>3, <3>1, <3>2, ChainNodes
    <2>6. nextFree \in [Node -> Link] /\ prevFree \in [Node -> Link] /\ FakeHead \in Node /\ first \in Node
        BY Zenon, <2>2 DEF QueueInv, QueueTypeOK, Node
    <2>7. ASSUME NEW i \in 0 .. Len(s)
          PROVE  nextFree'[At(s, i)] = At(s, i + 1) /\ prevFree'[At(s, i + 1)] = At(s, i)
        <3>1. At(s, i + 1) = At(queue, i + 2)
            BY SMTT(120), <2>1, <1>2, <1>5
        <3>2. CASE i = 0
            <4>1. At(s, i) = FakeHead
                BY Zenon, <3>2 DEF At
            <4>2. first # FakeHead /\ first # At(queue, 2)
                BY SMTT(120), <1>2, <1>5, <2>2, <2>5, QueueAssumption
            <4> QED BY SMTT(120), <2>3, <2>4, <2>6, <3>1, <3>2, <4>1, <4>2
        <3>3. CASE i # 0
            <4>1. At(s, i) = At(queue, i + 1) /\ i + 1 \in 2 .. Len(queue)
                BY SMTT(120), <1>2, <2>1, <3>3
            <4>2. nextFree[At(queue, i + 1)] = At(queue, i + 2) /\ prevFree[At(queue, i + 2)] = At(queue, i + 1)
                BY SMTT(120), <1>2, <4>1 DEF Linked
            <4>3. /\ At(queue, i + 1) # FakeHead /\ At(queue, i + 1) # first
                  /\ At(queue, i + 2) # At(queue, 2) /\ At(queue, i + 2) # first
                BY SMTT(120), <1>2, <2>5, <3>3, <4>1
            <4>4. At(queue, i + 1) \in Node /\ At(queue, i + 2) \in Node
                BY SMTT(120), <1>2, <4>1, ChainNodes
            <4> QED BY Zenon, <2>4, <2>6, <3>1, <4>1, <4>2, <4>3, <4>4
        <3> QED BY Zenon, <3>2, <3>3
    <2>8. ASSUME NEW b \in Block, ~In(s, b) PROVE nextFree'[b] = None /\ prevFree'[b] = None
        <3>1. b \in Node /\ b # FakeHead
            BY Zenon, QueueAssumption DEF Node
        <3>2. CASE b = first
            BY Zenon, <2>4, <2>6, <3>2
        <3>3. CASE b # first
            <4>1. ASSUME NEW i \in 1 .. Len(queue), queue[i] = b PROVE FALSE
                <5>1. i # 1
                    BY Zenon, <2>2, <3>3, <4>1
                <5>2. i \in 1 + 1 .. Len(queue)
                    BY SMTT(120), <1>2, <5>1
                <5> QED BY Zenon, <2>1, <2>8, <4>1, <5>2
            <4>2. b # At(queue, 2)
                BY SMTT(120), <1>2, <1>5, <4>1, QueueAssumption DEF At
            <4> QED BY Zenon, <1>2, <2>4, <2>6, <3>1, <3>3, <4>1, <4>2 DEF Detached, In
        <3> QED BY Zenon, <3>2, <3>3
    <2>9. QueueTypeOK'
        <3>1. None \in Link /\ FakeHead \in Link /\ At(queue, 2) \in Link
            BY Zenon, <2>3 DEF Link, Node
        <3>2. nextFree' \in [Node -> Link] /\ prevFree' \in [Node -> Link]
            BY Zenon, <2>4, <2>6, <3>1
        <3>3. numFree' \in Nat /\ result' \in Seq(Block)
            BY SMTT(120), <1>2, <1>5, <2>2, <2>4
        <3> QED BY Zenon, <2>1, <2>4, <3>2, <3>3 DEF QueueInv, QueueTypeOK, loopVars
    <2>10. QueueInv'
        BY Zenon, <1>1, <1>2, <2>1, <2>4, <2>7, <2>8, <2>9, IdleInv DEF loopVars
    <2>11. SubSeq(queue, 1, 1) = <<first>>
        <3>1. 1 \in 1 .. Len(queue) /\ 1 \in 1 .. Len(queue)
            BY SMTT(120), <1>2, <1>5
        <3>2. SubSeq(queue, 1, 1) = <<queue[1]>> \o SubSeq(queue, 1 + 1, 1)
            BY Zenon, <1>2, <3>1, SubSeqRecursiveFirst
        <3>3. SubSeq(queue, 1 + 1, 1) = << >>
            BY SMTT(120), SubSeqEmpty
        <3>4. <<first>> \in Seq(Block)
            BY SMTT(120), <2>2
        <3> QED BY Zenon, <2>2, <3>2, <3>3, <3>4, ConcatEmptySeq
    <2>12. Queue!PopLeft(1)
        <3>1. 1 <= Len(queue)
            BY SMTT(120), <1>2, <1>5
        <3> QED BY Zenon, <2>4, <2>11, <3>1 DEF Queue!PopLeft, s
    <2> QED BY SMTT(120), <1>2, <1>5, <2>10, <2>12
<1> QED BY Zenon, <1>4, <1>5

\* popleft_n enters its loop at the first node after the fake head
LEMMA PopLeftNCorrect ==
    ASSUME QueueInv, NEW n \in 1 .. numFree, PopLeftN(n)
    PROVE  QueueInv' /\ UNCHANGED Queue!vars
<1>1. pc = "idle"
    BY Zenon DEF PopLeftN
<1>2. /\ queue \in Seq(Block) /\ Distinct(queue) /\ Len(queue) \in Nat
      /\ numFree = Len(queue) /\ Linked(queue, 0, Len(queue))
      /\ \A b \in Block : ~In(queue, b) => Detached(b)
    BY Zenon, <1>1, IdleFacts
<1>3. nextFree[FakeHead] = At(queue, 1)
    <2>1. 0 \in 0 .. Len(queue) /\ At(queue, 0) = FakeHead
        BY SMTT(120), <1>2 DEF At
    <2> QED BY SMTT(120), <1>2, <2>1 DEF Linked
<1>4. At(queue, 1) \in Link
    BY SMTT(120), <1>2, ChainNodes DEF Link
<1>5. QueueTypeOK'
    BY SMTT(120), <1>2, <1>3, <1>4 DEF PopLeftN, QueueInv, QueueTypeOK
<1>6. PopInv'
    <2>1. Len(<< >>) = 0 /\ 0 + 1 = 1
        OBVIOUS
    <2>2. Linked(queue, 1, Len(queue))
        BY SMTT(120), <1>2 DEF Linked
    <2>3. n + 0 <= Len(queue) /\ (numFree - n) + n + 0 = Len(queue)
        BY SMTT(120), <1>2
    <2> QED BY SMTT(120), <1>2, <1>3, <2>1, <2>2, <2>3 DEF PopLeftN, PopInv, Linked, At, In, Detached
<1>7. QueueInv'
    BY ZenonT(60), <1>2, <1>5, <1>6 DEF PopLeftN, QueueInv, Distinct, NoQueueError, LinksMatchQueue
<1> QED BY Zenon, <1>7 DEF PopLeftN, Queue!vars

\* An iteration of popleft_n finds a block and keeps the chain behind it
LEMMA PopStepCorrect ==
    ASSUME QueueInv, PopStep
    PROVE  QueueInv' /\ UNCHANGED Queue!vars
<1> DEFINE k == Len(ret)
<1>1. pc = "pop" /\ todo > 0 /\ PopInv
    BY Zenon DEF PopStep, QueueInv
<1>2. /\ queue \in Seq(Block) /\ Distinct(queue) /\ Len(queue) \in Nat
      /\ ret \in Seq(Block) /\ k \in Nat /\ todo \in Nat
      /\ nextFree \in [Node -> Link] /\ prevFree \in [Node -> Link]
    BY SMTT(120) DEF QueueInv, QueueTypeOK
<1>3. k + 1 \in 1 .. Len(queue) /\ todo - 1 \in Nat /\ todo - 1 + (k + 1) = todo + k
    BY SMTT(120), <1>1, <1>2 DEF PopInv
<1>4. curr = queue[k + 1] /\ curr = At(queue, k + 1) /\ curr \in Block /\ curr \in Node /\ curr # None
    BY SMTT(120), <1>1, <1>2, <1>3, ChainNodes DEF PopInv, Node
<1>5. nextFree[curr] = At(queue, (k + 1) + 1) /\ At(queue, (k + 1) + 1) \in Link
    <2>1. k + 1 \in Len(ret) + 1 .. Len(queue) /\ (k + 1) + 1 \in 0 .. Len(queue) + 1
        BY SMTT(120), <1>2, <1>3
    <2>2. At(queue, (k + 1) + 1) \in Node
        BY Zenon, <1>2, <2>1, ChainNodes
    <2> QED BY Zenon, <1>1, <1>4, <2>1, <2>2 DEF PopInv, Linked, Link
<1>6. /\ ret' = Append(ret, curr) /\ curr' = At(queue, (k + 1) + 1)
      /\ nextFree' = [nextFree EXCEPT ![curr] = None]
      /\ prevFree' = [prevFree EXCEPT ![curr] = None]
      /\ todo' = todo - 1
      /\ UNCHANGED <<numFree, pc, list, queue, result>>
    BY Zenon, <1>4, <1>5 DEF PopStep
<1>7. /\ ret' \in Seq(Block) /\ Len(ret') = k + 1
      /\ \A i \in 1 .. k : ret'[i] = ret[i]
      /\ ret'[k + 1] = curr
    BY SMTT(120), <1>2, <1>4, <1>6, AppendProperties
<1> HIDE DEF k
<1>8. nextFree' \in [Node -> Link] /\ prevFree' \in [Node -> Link]
    BY Zenon, <1>2, <1>6 DEF Link
<1>9. QueueTypeOK'
    BY Zenon, <1>3, <1>5, <1>6, <1>7, <1>8 DEF QueueInv, QueueTypeOK
<1>10. ASSUME NEW i \in (k + 1) + 1 .. Len(queue)
       PROVE  nextFree'[At(queue, i)] = At(queue, i + 1) /\ prevFree'[At(queue, i + 1)] = At(queue, i)
    <2>1. /\ i \in k + 1 .. Len(queue) /\ i \in 0 .. Len(queue) + 1 /\ i + 1 \in 0 .. Len(queue) + 1
          /\ i # k + 1 /\ i + 1 # k + 1 /\ k + 1 \in 0 .. Len(queue) + 1
        BY SMTT(120), <1>2, <1>3
    <2>2. nextFree[At(queue, i)] = At(queue, i + 1) /\ prevFree[At(queue, i + 1)] = At(queue, i)
        BY Zenon, <1>1, <2>1 DEF PopInv, Linked, k
    <2>3. At(queue, i) # curr /\ At(queue, i + 1) # curr /\ At(queue, i) \in Node /\ At(queue, i + 1) \in Node
        BY ZenonT(60), <1>2, <1>4, <2>1, ChainNodes
    <2> QED BY Zenon, <1>2, <1>6, <2>2, <2>3
<1>11. ASSUME NEW i \in 1 .. k + 1 PROVE nextFree'[queue[i]] = None /\ prevFree'[queue[i]] = None
    <2>1. i \in 1 .. k \/ i = k + 1
        BY SMTT(120), <1>2 DEF k
    <2>2. queue[i] \in Node
        BY SMTT(120), <1>2, <1>3, ChainNodes DEF Node
    <2>3. CASE i \in 1 .. k
        BY Zenon, <1>1, <1>2, <1>6, <2>2, <2>3 DEF PopInv, Detached, k
    <2> QED BY Zenon, <1>2, <1>4, <1>6, <2>1, <2>2, <2>3
<1>12. ASSUME NEW b \in Block, ~In(queue, b) PROVE nextFree'[b] = None /\ prevFree'[b] = None
    BY Zenon, <1>1, <1>2, <1>6, <1>12 DEF PopInv, Detached, Node
<1>13. \A i \in 1 .. k + 1 : ret'[i] = queue[i]
    <2> SUFFICES ASSUME NEW i \in 1 .. k + 1 PROVE ret'[i] = queue[i]
        BY Zenon
    <2>1. i \in 1 .. k \/ i = k + 1
        BY <1>2 DEF k
    <2> QED BY Zenon, <1>1, <1>4, <1>7, <2>1 DEF PopInv, k
<1>14. PopInv'
    <2>1. todo + k <= Len(queue) /\ numFree + todo + k = Len(queue) /\ numFree \in Nat
        BY Zenon, <1>1 DEF PopInv, k, QueueInv, QueueTypeOK
    <2>2. todo' + Len(ret') <= Len(queue') /\ numFree' + todo' + Len(ret') = Len(queue')
        <3>1. Len(ret') = k + 1 /\ todo' = todo - 1 /\ numFree' = numFree /\ Len(queue') = Len(queue)
            BY Zenon, <1>6, <1>7
        <3> QED BY SMTT(120), <1>2, <1>3, <2>1, <3>1
    <2>3. curr' = At(queue, Len(ret') + 1)
        BY Zenon, <1>6, <1>7
    <2>4. Linked(queue, Len(ret) + 1, Len(queue))'
        <3>1. \A i \in Len(ret') + 1 .. Len(queue') :
                nextFree'[At(queue', i)] = At(queue', i + 1) /\ prevFree'[At(queue', i + 1)] = At(queue', i)
            BY ZenonT(60), <1>6, <1>7, <1>10
        <3> QED BY Zenon, <3>1 DEF Linked, At
    <2>5. \A i \in 1 .. Len(ret') : ret'[i] = queue'[i] /\ Detached(queue[i])'
        BY ZenonT(60), <1>6, <1>7, <1>11, <1>13 DEF Detached
    <2>6. \A b \in Block : ~In(queue, b)' => Detached(b)'
        BY Zenon, <1>6, <1>12 DEF In, Detached
    <2> QED BY Zenon, <1>6, <2>2, <2>3, <2>4, <2>5, <2>6 DEF PopInv, At
<1>15. QueueInv'
    BY ZenonT(60), <1>1, <1>2, <1>6, <1>9, <1>14 DEF QueueInv, Distinct, NoQueueError, LinksMatchQueue
<1> QED BY Zenon, <1>6, <1>15 DEF Queue!vars

\* popleft_n ends with the popped blocks, in order, and the rest of the queue
LEMMA PopEndCorrect ==
    ASSUME QueueInv, PopEnd
    PROVE  QueueInv' /\ \E n \in 0 .. Len(queue) : Queue!PopLeft(n)
<1> DEFINE k == Len(ret)
           s == SubSeq(queue, k + 1, Len(queue))
<1>1. pc = "pop" /\ todo = 0 /\ PopInv
    BY Zenon DEF PopEnd, QueueInv
<1>2. /\ queue \in Seq(Block) /\ Distinct(queue) /\ Len(queue) \in Nat
      /\ ret \in Seq(Block) /\ k \in Nat /\ numFree \in Nat
      /\ nextFree \in [Node -> Link] /\ prevFree \in [Node -> Link]
    BY SMTT(120) DEF QueueInv, QueueTypeOK
<1>3. k \in 0 .. Len(queue) /\ numFree = Len(queue) - k
    BY SMTT(120), <1>1, <1>2 DEF PopInv
<1>4. /\ s \in Seq(Block) /\ Distinct(s) /\ Len(s) = Len(queue) - k
      /\ \A i \in 1 .. Len(s) + 1 : At(s, i) = At(queue, i + k)
      /\ \A b : In(s, b) <=> \E i \in k + 1 .. Len(queue) : queue[i] = b
    BY Zenon, <1>2, <1>3, DropFront
<1>5. curr = At(queue, k + 1) /\ curr \in Node /\ curr # None
    BY SMTT(120), <1>1, <1>2, <1>3, ChainNodes DEF PopInv
<1>6. /\ nextFree' = [nextFree EXCEPT ![FakeHead] = curr]
      /\ prevFree' = [prevFree EXCEPT ![curr] = FakeHead]
      /\ pc' = "idle" /\ result' = ret /\ queue' = s
      /\ UNCHANGED <<numFree, curr, todo, list, ret>>
    BY Zenon, <1>5 DEF PopEnd, LinkHead
<1>7. QueueTypeOK'
    <2>1. FakeHead \in Node /\ FakeHead \in Link /\ curr \in Link
        BY Zenon, <1>5 DEF Node, Link
    <2>2. nextFree' \in [Node -> Link] /\ prevFree' \in [Node -> Link]
        BY Zenon, <1>2, <1>6, <2>1
    <2> QED BY Zenon, <1>4, <1>6, <2>2 DEF QueueInv, QueueTypeOK
<1> HIDE DEF s
<1>8. ASSUME NEW i \in 0 .. Len(s)
      PROVE  nextFree'[At(s, i)] = At(s, i + 1) /\ prevFree'[At(s, i + 1)] = At(s, i)
    <2>1. At(s, i + 1) = At(queue, (i + k) + 1) /\ (i + k) + 1 \in 0 .. Len(queue) + 1
        <3>1. i + 1 \in 1 .. Len(s) + 1 /\ (i + 1) + k = (i + k) + 1
            BY SMTT(120), <1>2, <1>3, <1>4
        <3> QED BY SMTT(120), <1>2, <1>3, <1>4, <3>1
    <2>2. CASE i = 0
        <3>1. At(s, i) = FakeHead /\ FakeHead \in Node /\ (i + k) + 1 = k + 1
            BY SMTT(120), <1>2, <2>2 DEF At, Node
        <3> QED BY Zenon, <1>2, <1>5, <1>6, <2>1, <3>1
    <2>3. CASE i # 0
        <3>1. /\ At(s, i) = At(queue, i + k) /\ i + k \in k + 1 .. Len(queue)
              /\ i + k \in 0 .. Len(queue) + 1 /\ i + k # 0 /\ (i + k) + 1 # k + 1
              /\ k + 1 \in 0 .. Len(queue) + 1 /\ 0 \in 0 .. Len(queue) + 1
            BY SMTT(120), <1>2, <1>3, <1>4, <2>3
        <3>2. nextFree[At(queue, i + k)] = At(queue, (i + k) + 1)
              /\ prevFree[At(queue, (i + k) + 1)] = At(queue, i + k)
            BY Zenon, <1>1, <3>1 DEF PopInv, Linked
        <3>3. At(queue, i + k) # At(queue, 0) /\ At(queue, (i + k) + 1) # At(queue, k + 1)
              /\ At(queue, i + k) \in Node /\ At(queue, (i + k) + 1) \in Node
            BY ZenonT(60), <1>2, <2>1, <3>1, ChainNodes
        <3>4. At(queue, 0) = FakeHead
            BY Zenon DEF At
        <3> QED BY Zenon, <1>2, <1>5, <1>6, <2>1, <3>1, <3>2, <3>3, <3>4
    <2> QED BY Zenon, <2>2, <2>3
<1>9. ASSUME NEW b \in Block, ~In(s, b) PROVE nextFree'[b] = None /\ prevFree'[b] = None
    <2>1. b \in Node /\ b # FakeHead /\ b # FakeTail
        BY Zenon, QueueAssumption DEF Node
    <2>2. Detached(b)
        <3>1. CASE In(queue, b)
            <4>1. PICK i \in 1 .. Len(queue) : queue[i] = b
                BY Zenon, <3>1 DEF In
            <4>2. i \in 1 .. k
                BY SMTT(120), <1>2, <1>3, <1>4, <1>9, <4>1
            <4> QED BY Zenon, <1>1, <4>1, <4>2 DEF PopInv
        <3>2. CASE ~In(queue, b)
            BY Zenon, <1>1, <3>2 DEF PopInv
        <3> QED BY Zenon, <3>1, <3>2
    <2>3. b # curr
        <3>1. ASSUME b = curr PROVE FALSE
            <4>1. k + 1 # Len(queue) + 1
                BY Zenon, <1>5, <2>1, <3>1 DEF At
            <4>2. k + 1 \in k + 1 .. Len(queue) /\ k + 1 \in 1 .. Len(queue)
                BY SMTT(120), <1>2, <1>3, <4>1
            <4>3. queue[k + 1] = b
                BY Zenon, <1>2, <1>5, <3>1, <4>2, ChainNodes
            <4> QED BY Zenon, <1>4, <1>9, <4>2, <4>3
        <3> QED BY Zenon, <3>1
    <2> QED BY Zenon, <1>2, <1>6, <2>1, <2>2, <2>3 DEF Detached
<1>10. QueueInv'
    BY Zenon, <1>3, <1>4, <1>6, <1>7, <1>8, <1>9, IdleInv
<1>11. SubSeq(queue, 1, k) = ret
    <2>1. /\ SubSeq(queue, 1, k) \in Seq(Block)
          /\ Len(SubSeq(queue, 1, k)) = IF 1 <= k THEN k - 1 + 1 ELSE 0
          /\ \A i \in 1 .. k - 1 + 1 : SubSeq(queue, 1, k)[i] = queue[1 + i - 1]
        <3>1. 1 \in Int /\ k \in Int /\ \A i \in 1 .. k : queue[i] \in Block
            BY SMTT(120), <1>2, <1>3
        <3> HIDE DEF k
        <3> QED BY SMTT(120), <3>1, SubSeqProperties
    <2>2. Len(SubSeq(queue, 1, k)) = k
        BY SMTT(120), <1>2, <2>1
    <2>3. \A i \in 1 .. k : SubSeq(queue, 1, k)[i] = ret[i]
        <3> SUFFICES ASSUME NEW i \in 1 .. k PROVE SubSeq(queue, 1, k)[i] = ret[i]
            BY Zenon
        <3>1. i \in 1 .. k - 1 + 1 /\ 1 + i - 1 = i
            BY SMTT(120), <1>2
        <3>2. SubSeq(queue, 1, k)[i] = queue[i]
            BY Zenon, <2>1, <3>1
        <3> QED BY Zenon, <1>1, <3>2 DEF PopInv
    <2> QED BY Zenon, <1>2, <2>1, <2>2, <2>3, SeqEqual
<1>12. Queue!PopLeft(k)
    BY SMTT(120), <1>2, <1>3, <1>6, <1>11 DEF Queue!PopLeft, s
<1> QED BY Zenon, <1>3, <1>10, <1>12

\* remove takes out its block wherever it is
LEMMA RemoveCorrect ==
    ASSUME QueueInv, NEW b \in Block, RemoveBlock(b)
    PROVE  QueueInv' /\ \E i \in 1 .. Len(queue) : Queue!Remove(i)
<1> DEFINE p == Place(b)
           s == SubSeq(queue, 1, p - 1) \o SubSeq(queue, p + 1, Len(queue))
<1>1. pc = "idle" /\ nextFree[b] # None
    BY Zenon DEF RemoveBlock
<1>2. /\ queue \in Seq(Block) /\ Distinct(queue) /\ Len(queue) \in Nat
      /\ numFree = Len(queue) /\ Linked(queue, 0, Len(queue))
      /\ \A c \in Block : ~In(queue, c) => Detached(c)
      /\ nextFree \in [Node -> Link] /\ prevFree \in [Node -> Link]
    BY Zenon, <1>1, IdleFacts DEF QueueInv, QueueTypeOK
<1>3. p \in 1 .. Len(queue) /\ queue[p] = b
    <2>1. In(queue, b)
        BY Zenon, <1>1, <1>2 DEF Detached
    <2> QED BY Zenon, <2>1 DEF In, Place
<1> HIDE DEF p
<1>4. /\ s \in Seq(Block) /\ Distinct(s) /\ Len(s) = Len(queue) - 1
      /\ \A i \in 0 .. Len(s) + 1 : At(s, i) = IF i < p THEN At(queue, i) ELSE At(queue, i + 1)
      /\ \A c : In(queue, c) /\ c # queue[p] => In(s, c)
    BY Zenon, <1>2, <1>3, DropMiddle
<1> DEFINE before == At(queue, p - 1)
           after == At(queue, p + 1)
<1>5. /\ b = At(queue, p) /\ b \in Node /\ before \in Node /\ after \in Node
      /\ before # None /\ after # None
    BY SMTT(120), <1>2, <1>3, ChainNodes
<1>6. prevFree[b] = before /\ nextFree[b] = after
    <2>1. p - 1 \in 0 .. Len(queue) /\ p \in 0 .. Len(queue) /\ (p - 1) + 1 = p
        BY SMTT(120), <1>2, <1>3
    <2> QED BY Zenon, <1>2, <1>5, <2>1 DEF Linked
<1>7. /\ nextFree' = [nextFree EXCEPT ![before] = after, ![b] = None]
      /\ prevFree' = [prevFree EXCEPT ![after] = before, ![b] = None]
      /\ numFree' = numFree - 1 /\ queue' = s /\ result' = << >> /\ UNCHANGED loopVars
    BY Zenon, <1>5, <1>6 DEF RemoveBlock, p
<1> HIDE DEF s
<1>8. QueueTypeOK'
    <2>1. before \in Link /\ after \in Link /\ None \in Link
        BY Zenon, <1>5 DEF Link
    <2>2. nextFree' \in [Node -> Link] /\ prevFree' \in [Node -> Link]
        BY Zenon, <1>2, <1>5, <1>7, <2>1
    <2>3. numFree' \in Nat
        BY SMTT(120), <1>2, <1>3, <1>7
    <2>4. queue' \in Seq(Block) /\ result' \in Seq(Block)
        BY SMTT(120), <1>4, <1>7
    <2>5. /\ pc' \in {"idle", "pop", "append", "AssertionError", "RuntimeError"} /\ curr' \in Link
          /\ todo' \in Nat /\ list' \in Seq(Block) /\ ret' \in Seq(Block)
        BY Zenon, <1>7 DEF QueueInv, QueueTypeOK, loopVars
    <2> QED BY Zenon, <2>2, <2>3, <2>4, <2>5 DEF QueueTypeOK, Node, Link
<1>9. ASSUME NEW i \in 0 .. Len(queue) + 1
      PROVE  /\ At(queue, i) = b => i = p
             /\ At(queue, i) = before => i = p - 1
             /\ At(queue, i) = after => i = p + 1
             /\ At(queue, i) \in Node
    <2>1. p \in 0 .. Len(queue) + 1 /\ p - 1 \in 0 .. Len(queue) + 1 /\ p + 1 \in 0 .. Len(queue) + 1
        BY SMTT(120), <1>2, <1>3
    <2> QED BY Zenon, <1>2, <1>5, <2>1, ChainNodes
<1>10. ASSUME NEW i \in 0 .. Len(s)
       PROVE  nextFree'[At(s, i)] = At(s, i + 1) /\ prevFree'[At(s, i + 1)] = At(s, i)
    <2>1. i \in 0 .. Len(s) + 1 /\ i + 1 \in 0 .. Len(s) + 1 /\ i \in 0 .. Len(queue)
        BY SMTT(120), <1>2, <1>3, <1>4
    <2>2. CASE i < p - 1
        <3>1. At(s, i) = At(queue, i) /\ At(s, i + 1) = At(queue, i + 1)
            BY SMTT(120), <1>2, <1>3, <1>4, <2>1, <2>2
        <3>2. nextFree[At(queue, i)] = At(queue, i + 1) /\ prevFree[At(queue, i + 1)] = At(queue, i)
            BY Zenon, <1>2, <2>1 DEF Linked
        <3>3. /\ At(queue, i) # b /\ At(queue, i) # before /\ At(queue, i) \in Node
              /\ At(queue, i + 1) # b /\ At(queue, i + 1) # after /\ At(queue, i + 1) \in Node
            <4>1. i \in 0 .. Len(queue) + 1 /\ i + 1 \in 0 .. Len(queue) + 1
                BY SMTT(120), <1>2, <2>1
            <4>2. i # p /\ i # p - 1 /\ i + 1 # p /\ i + 1 # p + 1
                BY SMTT(120), <1>2, <1>3, <2>1, <2>2
            <4> QED BY Zenon, <1>9, <4>1, <4>2
        <3> QED BY Zenon, <1>2, <1>5, <1>7, <3>1, <3>2, <3>3
    <2>3. CASE i = p - 1
        <3>1. At(s, i) = before /\ At(s, i + 1) = after
            <4>1. (p - 1) + 1 = p /\ ~(p < p) /\ p - 1 < p
                BY SMTT(120), <1>2, <1>3
            <4> QED BY Zenon, <1>4, <2>1, <2>3, <4>1
        <3>2. before # b /\ after # b
            <4>1. p - 1 \in 0 .. Len(queue) + 1 /\ p + 1 \in 0 .. Len(queue) + 1 /\ p - 1 # p /\ p + 1 # p
                BY SMTT(120), <1>2, <1>3
            <4> QED BY Zenon, <1>9, <4>1
        <3> QED BY Zenon, <1>2, <1>5, <1>7, <3>1, <3>2
    <2>4. CASE i > p - 1
        <3>1. At(s, i) = At(queue, i + 1) /\ At(s, i + 1) = At(queue, (i + 1) + 1)
            <4>1. ~(i < p) /\ ~(i + 1 < p)
                BY SMTT(120), <1>2, <1>3, <2>1, <2>4
            <4> QED BY Zenon, <1>4, <2>1, <4>1
        <3>2. i + 1 \in 0 .. Len(queue)
            BY SMTT(120), <1>2, <1>3, <1>4, <2>1
        <3>3. nextFree[At(queue, i + 1)] = At(queue, (i + 1) + 1) /\ prevFree[At(queue, (i + 1) + 1)] = At(queue, i + 1)
            BY Zenon, <1>2, <3>2 DEF Linked
        <3>4. /\ At(queue, i + 1) # b /\ At(queue, i + 1) # before /\ At(queue, i + 1) \in Node
              /\ At(queue, (i + 1) + 1) # b /\ At(queue, (i + 1) + 1) # after /\ At(queue, (i + 1) + 1) \in Node
            <4>1. i + 1 \in 0 .. Len(queue) + 1 /\ (i + 1) + 1 \in 0 .. Len(queue) + 1
                BY SMTT(120), <1>2, <3>2
            <4>2. i + 1 # p /\ i + 1 # p - 1 /\ (i + 1) + 1 # p /\ (i + 1) + 1 # p + 1
                BY SMTT(120), <1>2, <1>3, <2>1, <2>4
            <4> QED BY Zenon, <1>9, <4>1, <4>2
        <3> QED BY Zenon, <1>2, <1>5, <1>7, <3>1, <3>3, <3>4
    <2>5. i < p - 1 \/ i = p - 1 \/ i > p - 1
        BY SMTT(120), <1>2, <1>3
    <2> QED BY Zenon, <2>2, <2>3, <2>4, <2>5
<1>11. ASSUME NEW c \in Block, ~In(s, c) PROVE nextFree'[c] = None /\ prevFree'[c] = None
    <2>1. c \in Node
        BY Zenon DEF Node
    <2>2. CASE c = b
        BY Zenon, <1>2, <1>5, <1>7, <2>2
    <2>3. CASE c # b
        <3>1. ~In(queue, c)
            BY Zenon, <1>3, <1>4, <1>11, <2>3
        <3>2. \A i \in 0 .. Len(queue) + 1 : At(queue, i) # c
            BY SMTT(120), <1>2, <3>1, QueueAssumption DEF At, In
        <3>3. c # before /\ c # after
            BY SMTT(120), <1>2, <1>3, <3>2
        <3> QED BY Zenon, <1>2, <1>5, <1>7, <2>1, <2>3, <3>1, <3>3 DEF Detached
    <2> QED BY Zenon, <2>2, <2>3
<1>12. numFree' = Len(s) /\ pc' = "idle"
    BY Zenon, <1>1, <1>2, <1>4, <1>7 DEF loopVars
<1>13. QueueInv'
    BY Zenon, <1>4, <1>7, <1>8, <1>10, <1>11, <1>12, IdleInv
<1>14. Queue!Remove(p)
    BY Zenon, <1>3, <1>7 DEF Queue!Remove, s
<1> QED BY Zenon, <1>3, <1>13, <1>14

\* A block without links is not in the queue
LEMMA NotQueued ==
    ASSUME QueueInv, pc = "idle", NEW b \in Block, Detached(b)
    PROVE  ~In(queue, b)
<1>1. queue \in Seq(Block) /\ Distinct(queue) /\ Len(queue) \in Nat /\ Linked(queue, 0, Len(queue))
    BY Zenon, IdleFacts
<1>2. ASSUME NEW i \in 1 .. Len(queue), queue[i] = b PROVE FALSE
    <2>1. nextFree[At(queue, i)] = At(queue, i + 1) /\ i \in 0 .. Len(queue) /\ i + 1 \in 0 .. Len(queue) + 1
        BY SMTT(120), <1>1 DEF Linked
    <2> QED BY ZenonT(60), <1>1, <1>2, <2>1, ChainNodes DEF Detached
<1> QED BY Zenon, <1>2 DEF In

\* A queue that has grown by a list of new blocks is a step of the promise
LEMMA ExtendStep ==
    ASSUME NEW new \in Seq(Block), queue \in Seq(Block), Distinct(new),
           \A i \in 1 .. Len(new) : ~In(queue, new[i]),
           queue' = queue \o new, result' = << >>
    PROVE  Queue!ExtendBySome
<1>1. Len(queue) \in Nat /\ Len(new) \in Nat
    OBVIOUS
<1>2. /\ queue' \in Seq(Block) /\ Len(queue') = Len(queue) + Len(new)
      /\ \A i \in 1 .. Len(queue') : queue'[i] = IF i <= Len(queue) THEN queue[i] ELSE new[i - Len(queue)]
    BY SMTT(120), ConcatProperties
<1> DEFINE t == SubSeq(queue', Len(queue) + 1, Len(queue'))
<1>3. /\ t \in Seq(Block)
      /\ Len(t) = IF Len(queue) + 1 <= Len(queue') THEN Len(queue') - (Len(queue) + 1) + 1 ELSE 0
      /\ \A i \in 1 .. Len(queue') - (Len(queue) + 1) + 1 : t[i] = queue'[(Len(queue) + 1) + i - 1]
    <2>1. Len(queue) + 1 \in Int /\ Len(queue') \in Int
        BY SMTT(120), <1>1, <1>2
    <2>2. \A i \in Len(queue) + 1 .. Len(queue') : queue'[i] \in Block
        BY SMTT(120), <1>1, <1>2
    <2> QED BY SMTT(120), <1>2, <2>1, <2>2, SubSeqProperties
<1> HIDE DEF t
<1>4. Len(t) = Len(new)
    BY SMTT(120), <1>1, <1>2, <1>3
<1>5. \A i \in 1 .. Len(t) : t[i] = new[i]
    <2> SUFFICES ASSUME NEW i \in 1 .. Len(t) PROVE t[i] = new[i]
        BY Zenon
    <2>1. /\ i \in 1 .. Len(queue') - (Len(queue) + 1) + 1
          /\ (Len(queue) + 1) + i - 1 \in 1 .. Len(queue')
          /\ ~((Len(queue) + 1) + i - 1 <= Len(queue))
          /\ ((Len(queue) + 1) + i - 1) - Len(queue) = i
        BY SMTT(120), <1>1, <1>2, <1>4
    <2> QED BY Zenon, <1>2, <1>3, <2>1
<1>6. t = new
    BY Zenon, <1>3, <1>4, <1>5, SeqEqual
<1>7. Queue!Extend(new)
    BY Zenon DEF Queue!Extend, Queue!Distinct, Queue!In, Distinct, In
<1> QED BY Zenon, <1>6, <1>7 DEF Queue!ExtendBySome, t

\* append puts its block behind the last one
LEMMA AppendCorrect ==
    ASSUME QueueInv, NEW b \in Block, AppendBlock(b)
    PROVE  QueueInv' /\ Queue!ExtendBySome
<1> DEFINE n == Len(queue)
           s == Append(queue, b)
<1>1. pc = "idle" /\ Detached(b)
    BY Zenon DEF AppendBlock
<1>2. /\ queue \in Seq(Block) /\ Distinct(queue) /\ n \in Nat
      /\ numFree = n /\ Linked(queue, 0, n)
      /\ \A c \in Block : ~In(queue, c) => Detached(c)
      /\ nextFree \in [Node -> Link] /\ prevFree \in [Node -> Link]
    BY Zenon, <1>1, IdleFacts DEF QueueInv, QueueTypeOK
<1>3. ~In(queue, b)
    BY Zenon, <1>1, NotQueued
<1>4. /\ s \in Seq(Block) /\ Distinct(s) /\ Len(s) = n + 1
      /\ \A i \in 0 .. n : At(s, i) = At(queue, i)
      /\ At(s, n + 1) = b /\ At(s, n + 2) = FakeTail
      /\ \A c : In(s, c) <=> In(queue, c) \/ c = b
    BY Zenon, <1>2, <1>3, ChainAppend
<1> DEFINE last == At(queue, n)
<1>5. prevFree[FakeTail] = last /\ last \in Node /\ last # None /\ b \in Node /\ FakeTail \in Node
    <2>1. n \in 0 .. n /\ At(queue, n + 1) = FakeTail
        BY SMTT(120), <1>2 DEF At
    <2> QED BY SMTT(120), <1>2, <2>1, ChainNodes DEF Linked, Node
<1>6. /\ nextFree' = [nextFree EXCEPT ![last] = b, ![b] = FakeTail]
      /\ prevFree' = [prevFree EXCEPT ![b] = last, ![FakeTail] = b]
      /\ numFree' = numFree + 1 /\ queue' = s /\ result' = << >> /\ UNCHANGED loopVars
    BY Zenon, <1>5 DEF AppendBlock
<1> HIDE DEF s, n
<1>7. QueueTypeOK'
    <2>1. last \in Link /\ b \in Link /\ FakeTail \in Link
        BY Zenon, <1>5 DEF Link
    <2>2. nextFree' \in [Node -> Link] /\ prevFree' \in [Node -> Link]
        BY Zenon, <1>2, <1>5, <1>6, <2>1
    <2>3. queue' \in Seq(Block) /\ result' \in Seq(Block) /\ numFree' \in Nat
        BY SMTT(120), <1>2, <1>4, <1>6
    <2>4. /\ pc' \in {"idle", "pop", "append", "AssertionError", "RuntimeError"} /\ curr' \in Link
          /\ todo' \in Nat /\ list' \in Seq(Block) /\ ret' \in Seq(Block)
        BY Zenon, <1>6 DEF QueueInv, QueueTypeOK, loopVars
    <2> QED BY Zenon, <2>2, <2>3, <2>4 DEF QueueTypeOK, Node, Link
<1>8. \A i \in 0 .. n + 1 : At(queue, i) # b /\ (At(queue, i) = last => i = n) /\ At(queue, i) \in Node
    <2>1. b # FakeHead /\ b # FakeTail
        BY Zenon, QueueAssumption
    <2> QED BY SMTT(120), <1>2, <1>3, <2>1, ChainNodes DEF At, In, n
<1>9. ASSUME NEW i \in 0 .. Len(s)
      PROVE  nextFree'[At(s, i)] = At(s, i + 1) /\ prevFree'[At(s, i + 1)] = At(s, i)
    <2>1. CASE i \in 0 .. n - 1
        <3>1. i \in 0 .. n /\ i + 1 \in 0 .. n /\ i \in 0 .. n + 1 /\ i + 1 \in 0 .. n + 1 /\ i # n /\ i + 1 # n + 1
            BY SMTT(120), <1>2, <2>1
        <3>2. At(s, i) = At(queue, i) /\ At(s, i + 1) = At(queue, i + 1)
            BY Zenon, <1>4, <3>1
        <3>3. nextFree[At(queue, i)] = At(queue, i + 1) /\ prevFree[At(queue, i + 1)] = At(queue, i)
            BY Zenon, <1>2, <3>1 DEF Linked
        <3>4. At(queue, i + 1) # FakeTail
            <4>1. At(queue, n + 1) = FakeTail /\ n + 1 \in 0 .. n + 1
                BY SMTT(120), <1>2 DEF At, n
            <4> QED BY Zenon, <1>2, <3>1, <4>1, ChainNodes DEF n
        <3> QED BY Zenon, <1>2, <1>5, <1>6, <1>8, <3>1, <3>2, <3>3, <3>4
    <2>2. CASE i = n
        <3>1. At(s, i) = last /\ At(s, i + 1) = b /\ last # b /\ b # FakeTail
            <4>1. n \in 0 .. n /\ n \in 0 .. n + 1
                BY SMTT(120), <1>2
            <4> QED BY Zenon, <1>4, <1>8, <2>2, <4>1, QueueAssumption
        <3> QED BY Zenon, <1>2, <1>5, <1>6, <3>1
    <2>3. CASE i = n + 1
        <3>1. At(s, i) = b /\ At(s, i + 1) = FakeTail
            <4>1. (n + 1) + 1 = n + 2
                BY SMTT(120), <1>2
            <4> QED BY Zenon, <1>4, <2>3, <4>1
        <3> QED BY Zenon, <1>2, <1>5, <1>6, <3>1
    <2>4. i \in 0 .. n - 1 \/ i = n \/ i = n + 1
        BY SMTT(120), <1>2, <1>4
    <2> QED BY Zenon, <2>1, <2>2, <2>3, <2>4
<1>10. ASSUME NEW c \in Block, ~In(s, c) PROVE nextFree'[c] = None /\ prevFree'[c] = None
    <2>1. c # b /\ ~In(queue, c) /\ c \in Node /\ c # FakeTail
        BY Zenon, <1>4, <1>10, QueueAssumption DEF Node
    <2>2. c # last
        <3>1. c # FakeHead
            BY Zenon, QueueAssumption
        <3>2. n = 0 \/ n \in 1 .. n
            BY SMTT(120), <1>2
        <3> QED BY Zenon, <1>2, <2>1, <3>1, <3>2 DEF At, In, n
    <2> QED BY Zenon, <1>2, <1>5, <1>6, <2>1, <2>2 DEF Detached
<1>11. QueueInv'
    BY Zenon, <1>1, <1>2, <1>4, <1>6, <1>7, <1>9, <1>10, IdleInv DEF loopVars
<1>12. Queue!ExtendBySome
    <2>1. queue' = queue \o <<b>> /\ <<b>> \in Seq(Block)
        BY SMTT(120), <1>2, <1>6, AppendIsConcat DEF s
    <2>2. Distinct(<<b>>)
        BY SMTT(120) DEF Distinct
    <2>3. \A i \in 1 .. Len(<<b>>) : ~In(queue, <<b>>[i])
        BY SMTT(120), <1>3
    <2> QED BY Zenon, <1>2, <1>6, <2>1, <2>2, <2>3, ExtendStep
<1> QED BY Zenon, <1>11, <1>12

\* Two lists have different blocks throughout if and only if each has, and they
\* share none
LEMMA DistinctConcat ==
    ASSUME NEW q \in Seq(Block), NEW l \in Seq(Block)
    PROVE  Distinct(q \o l) <=> Distinct(q) /\ Distinct(l) /\ \A i \in 1 .. Len(l) : ~In(q, l[i])
<1> DEFINE s == q \o l
<1>1. Len(q) \in Nat /\ Len(l) \in Nat
    OBVIOUS
<1>2. /\ Len(s) = Len(q) + Len(l)
      /\ \A i \in 1 .. Len(s) : s[i] = IF i <= Len(q) THEN q[i] ELSE l[i - Len(q)]
    BY SMTT(120), ConcatProperties
<1> HIDE DEF s
<1>3. \A i \in 1 .. Len(q) : i \in 1 .. Len(s) /\ s[i] = q[i]
    BY SMTT(120), <1>1, <1>2
<1>4. \A i \in 1 .. Len(l) : i + Len(q) \in 1 .. Len(s) /\ s[i + Len(q)] = l[i]
    <2> SUFFICES ASSUME NEW i \in 1 .. Len(l)
                 PROVE  i + Len(q) \in 1 .. Len(s) /\ s[i + Len(q)] = l[i]
        BY Zenon
    <2>1. i + Len(q) \in 1 .. Len(s) /\ ~(i + Len(q) <= Len(q)) /\ (i + Len(q)) - Len(q) = i
        BY SMTT(120), <1>1, <1>2
    <2> QED BY Zenon, <1>2, <2>1
<1>5. ASSUME Distinct(s) PROVE Distinct(q)
    BY Zenon, <1>3, <1>5 DEF Distinct
<1>6. ASSUME Distinct(s) PROVE Distinct(l)
    <2> SUFFICES ASSUME NEW i \in 1 .. Len(l), NEW j \in 1 .. Len(l), l[i] = l[j] PROVE i = j
        BY Zenon DEF Distinct
    <2>1. i + Len(q) = j + Len(q)
        BY Zenon, <1>4, <1>6 DEF Distinct
    <2> QED BY SMTT(120), <1>1, <2>1
<1>7. ASSUME Distinct(s), NEW i \in 1 .. Len(l) PROVE ~In(q, l[i])
    <2>1. ASSUME NEW j \in 1 .. Len(q), q[j] = l[i] PROVE FALSE
        <3>1. j = i + Len(q)
            BY ZenonT(60), <1>3, <1>4, <1>7, <2>1 DEF Distinct
        <3> QED BY SMTT(120), <1>1, <3>1
    <2> QED BY Zenon, <2>1 DEF In
<1>8. ASSUME Distinct(q), Distinct(l), \A i \in 1 .. Len(l) : ~In(q, l[i]),
             NEW i \in 1 .. Len(s), NEW j \in 1 .. Len(s), s[i] = s[j]
      PROVE  i = j
    <2>1. \A k \in 1 .. Len(s) : \/ k \in 1 .. Len(q) /\ s[k] = q[k]
                                 \/ k - Len(q) \in 1 .. Len(l) /\ s[k] = l[k - Len(q)]
        BY SMTT(120), <1>1, <1>2
    <2>2. CASE i \in 1 .. Len(q) /\ s[i] = q[i]
        <3>1. CASE j \in 1 .. Len(q) /\ s[j] = q[j]
            BY Zenon, <1>8, <2>2, <3>1 DEF Distinct
        <3>2. CASE j - Len(q) \in 1 .. Len(l) /\ s[j] = l[j - Len(q)]
            BY Zenon, <1>8, <2>2, <3>2 DEF In
        <3> QED BY Zenon, <2>1, <3>1, <3>2
    <2>3. CASE i - Len(q) \in 1 .. Len(l) /\ s[i] = l[i - Len(q)]
        <3>1. CASE j \in 1 .. Len(q) /\ s[j] = q[j]
            BY Zenon, <1>8, <2>3, <3>1 DEF In
        <3>2. CASE j - Len(q) \in 1 .. Len(l) /\ s[j] = l[j - Len(q)]
            <4>1. i - Len(q) = j - Len(q)
                BY Zenon, <1>8, <2>3, <3>2 DEF Distinct
            <4> QED BY SMTT(120), <1>1, <4>1
        <3> QED BY SMTT(120), <2>1, <3>1, <3>2
    <2> QED BY Zenon, <2>1, <2>2, <2>3
<1>9. Distinct(s) <=> Distinct(q) /\ Distinct(l) /\ \A i \in 1 .. Len(l) : ~In(q, l[i])
    <2>1. ASSUME Distinct(q), Distinct(l), \A i \in 1 .. Len(l) : ~In(q, l[i]) PROVE Distinct(s)
        BY Zenon, <1>8, <2>1 DEF Distinct
    <2> QED BY Zenon, <1>5, <1>6, <1>7, <2>1
<1> QED BY Zenon, <1>9 DEF s

\* append_n starts behind the last block of the queue
LEMMA AppendNCorrect ==
    ASSUME QueueInv, NEW blocks \in BlockLists, AppendN(blocks)
    PROVE  QueueInv' /\ UNCHANGED Queue!vars
<1>1. pc = "idle" /\ blocks \in Seq(Block) /\ Distinct(blocks)
    <2>1. Cardinality(Block) \in Nat
        BY Zenon, QueueAssumption
    <2>2. PICK n \in 0 .. Cardinality(Block) : blocks \in [1 .. n -> Block]
        BY Zenon DEF BlockLists
    <2>3. blocks \in Seq(Block)
        <3>1. n \in Nat
            BY SMTT(120), <2>1
        <3> QED BY SMTT(120), <2>2, <3>1
    <2> QED BY Zenon, <2>3 DEF AppendN, Distinct
<1>2. /\ queue \in Seq(Block) /\ Distinct(queue) /\ Len(queue) \in Nat
      /\ numFree = Len(queue) /\ Linked(queue, 0, Len(queue))
      /\ \A b \in Block : ~In(queue, b) => Detached(b)
    BY Zenon, <1>1, IdleFacts
<1>3. prevFree[FakeTail] = At(queue, Len(queue)) /\ At(queue, Len(queue)) \in Node /\ At(queue, Len(queue)) # None
    <2>1. Len(queue) \in 0 .. Len(queue) /\ At(queue, Len(queue) + 1) = FakeTail
        BY SMTT(120), <1>2 DEF At
    <2> QED BY SMTT(120), <1>2, <2>1, ChainNodes DEF Linked
<1>4. /\ curr' = At(queue, Len(queue)) /\ list' = blocks /\ ret' = << >> /\ pc' = "append"
      /\ UNCHANGED <<linkVars, todo, queue, result>>
    BY Zenon, <1>3 DEF AppendN
<1>5. QueueTypeOK'
    <2>1. curr' \in Link /\ ret' \in Seq(Block) /\ list' \in Seq(Block)
        BY SMTT(120), <1>1, <1>3, <1>4 DEF Link
    <2> QED BY Zenon, <1>4, <2>1 DEF QueueInv, QueueTypeOK, linkVars, Link, Node
<1>6. queue' \o ret' = queue /\ queue' \o ret' \o list' = queue \o blocks
    BY Zenon, <1>2, <1>4, ConcatEmptySeq
<1>7. Distinct(queue \o blocks)
    <2>1. \A i \in 1 .. Len(blocks) : ~In(queue, blocks[i])
        BY SMTT(120), <1>1, NotQueued DEF AppendN
    <2> QED BY Zenon, <1>1, <1>2, <2>1, DistinctConcat
<1>8. Linked(queue, 0, Len(queue) - 1)
    BY SMTT(120), <1>2 DEF Linked
<1>9. AppendInv'
    BY SMTT(120), <1>2, <1>4, <1>6, <1>7, <1>8 DEF AppendInv, Linked, At, In, Detached, Distinct, linkVars
<1>10. QueueInv'
    BY ZenonT(60), <1>2, <1>4, <1>5, <1>9 DEF QueueInv, Distinct, NoQueueError, LinksMatchQueue
<1> QED BY Zenon, <1>4, <1>10 DEF Queue!vars

\* Moving the head of a list to the end of the one before it
LEMMA ShiftHead ==
    ASSUME NEW q \in Seq(Block), NEW l \in Seq(Block), l # << >>
    PROVE  /\ Head(l) \in Block /\ Tail(l) \in Seq(Block) /\ Head(l) = l[1] /\ 1 \in 1 .. Len(l)
           /\ Append(q, Head(l)) \o Tail(l) = q \o l
<1> DEFINE h == Head(l)
           t == Tail(l)
<1>1. /\ h \in Block /\ t \in Seq(Block) /\ Len(t) = Len(l) - 1
      /\ \A i \in 1 .. Len(t) : t[i] = l[i + 1]
    BY Zenon, HeadTailProperties
<1>2. h = l[1] /\ 1 \in 1 .. Len(l) /\ Len(l) \in Nat
    OBVIOUS
<1> HIDE DEF h, t
<1>3. <<h>> \in Seq(Block) /\ Len(<<h>>) = 1 /\ <<h>>[1] = h
    BY SMTT(120), <1>1
<1>4. <<h>> \o t = l
    <2> DEFINE u == <<h>> \o t
    <2>1. /\ u \in Seq(Block) /\ Len(u) = 1 + Len(t)
          /\ \A i \in 1 .. Len(u) : u[i] = IF i <= 1 THEN <<h>>[i] ELSE t[i - 1]
        BY SMTT(120), <1>1, <1>3, ConcatProperties
    <2> HIDE DEF u
    <2>2. Len(u) = Len(l)
        BY SMTT(120), <1>1, <1>2, <2>1
    <2>3. ASSUME NEW i \in 1 .. Len(u) PROVE u[i] = l[i]
        <3>1. CASE i = 1
            BY SMTT(120), <1>2, <1>3, <2>1, <3>1
        <3>2. CASE i # 1
            <4>1. ~(i <= 1) /\ i - 1 \in 1 .. Len(t) /\ (i - 1) + 1 = i
                BY SMTT(120), <1>1, <1>2, <2>2, <3>2
            <4> QED BY Zenon, <1>1, <2>1, <4>1
        <3> QED BY Zenon, <3>1, <3>2
    <2>4. u = l
        BY Zenon, <2>1, <2>2, <2>3, SeqEqual
    <2> QED BY Zenon, <2>4 DEF u
<1>5. Append(q, h) \o t = q \o l
    <2>1. Append(q, h) = q \o <<h>>
        BY Zenon, <1>1, AppendIsConcat
    <2>2. (q \o <<h>>) \o t = q \o (<<h>> \o t)
        BY SMTT(120), <1>1, <1>3, ConcatAssociative
    <2> QED BY Zenon, <1>4, <2>1, <2>2
<1> QED BY Zenon, <1>1, <1>2, <1>5 DEF h, t

\* An iteration of append_n makes the chain one block longer
LEMMA AppendStepCorrect ==
    ASSUME QueueInv, AppendStep
    PROVE  QueueInv' /\ UNCHANGED Queue!vars
<1> DEFINE all == queue \o ret
           n == Len(all)
           h == Head(list)
           s == Append(all, h)
<1>1. pc = "append" /\ list # << >> /\ AppendInv
    BY Zenon DEF AppendStep, QueueInv
<1>2. /\ queue \in Seq(Block) /\ Distinct(queue) /\ ret \in Seq(Block) /\ list \in Seq(Block)
      /\ nextFree \in [Node -> Link] /\ prevFree \in [Node -> Link]
    BY Zenon DEF QueueInv, QueueTypeOK
<1>3. all \in Seq(Block) /\ n \in Nat
    BY <1>2, ConcatProperties
<1>4. /\ numFree = Len(queue) /\ Distinct(all \o list) /\ curr = At(all, n)
      /\ Linked(all, 0, n - 1) /\ \A b \in Block : ~In(all, b) => Detached(b)
    BY Zenon, <1>1 DEF AppendInv
<1>5. /\ ret' = Append(ret, h) /\ list' = Tail(list) /\ curr' = h
      /\ prevFree' = [prevFree EXCEPT ![h] = curr] /\ nextFree' = [nextFree EXCEPT ![curr] = h]
      /\ UNCHANGED <<numFree, pc, todo, queue, result>>
    BY Zenon DEF AppendStep
<1>6. queue \o Append(ret, h) = s
    <2>1. h \in Block /\ <<h>> \in Seq(Block)
        BY <1>1, <1>2, ShiftHead
    <2>2. Append(ret, h) = ret \o <<h>> /\ s = all \o <<h>>
        BY ZenonT(60), <1>2, <1>3, <2>1, AppendIsConcat
    <2> QED BY SMTT(120), <1>2, <2>1, <2>2, ConcatAssociative
<1> HIDE DEF all
<1>7. /\ h \in Block /\ Tail(list) \in Seq(Block) /\ h = list[1] /\ 1 \in 1 .. Len(list)
      /\ s \o Tail(list) = all \o list
    BY Zenon, <1>1, <1>2, <1>3, ShiftHead
<1>8. Distinct(all) /\ ~In(all, h)
    BY Zenon, <1>2, <1>3, <1>4, <1>7, DistinctConcat
<1> HIDE DEF h
<1>9. /\ s \in Seq(Block) /\ Distinct(s) /\ Len(s) = n + 1
      /\ \A i \in 0 .. n : At(s, i) = At(all, i)
      /\ At(s, n + 1) = h /\ At(s, n + 2) = FakeTail
      /\ \A c : In(s, c) <=> In(all, c) \/ c = h
    BY SMTT(120), <1>3, <1>7, <1>8, ChainAppend
<1> HIDE DEF s
<1>10. curr \in Node /\ h \in Node /\ h \in Link /\ curr \in Link
    BY SMTT(120), <1>3, <1>4, <1>7, <1>8, ChainNodes DEF Node, Link
<1>11. QueueTypeOK'
    <2>1. nextFree' \in [Node -> Link] /\ prevFree' \in [Node -> Link]
        BY Zenon, <1>2, <1>5, <1>10
    <2>2. ret' \in Seq(Block) /\ list' \in Seq(Block) /\ curr' \in Link
        BY Zenon, <1>2, <1>5, <1>7, <1>10, AppendProperties
    <2> QED BY Zenon, <1>5, <2>1, <2>2 DEF QueueInv, QueueTypeOK, Node, Link
<1> HIDE DEF n
<1>12. \A i \in 0 .. n : At(all, i) # h /\ (At(all, i) = curr => i = n) /\ At(all, i) \in Node
    <2>1. h # FakeHead /\ h # FakeTail
        BY Zenon, <1>7, QueueAssumption
    <2> QED BY SMTT(120), <1>3, <1>4, <1>8, <2>1, ChainNodes DEF At, In, n
<1>13. ASSUME NEW i \in 0 .. n
       PROVE  nextFree'[At(s, i)] = At(s, i + 1) /\ prevFree'[At(s, i + 1)] = At(s, i)
    <2>1. CASE i = n
        <3>1. At(s, i) = curr /\ At(s, i + 1) = h
            BY Zenon, <1>3, <1>4, <1>9, <2>1
        <3> QED BY Zenon, <1>2, <1>5, <1>10, <3>1
    <2>2. CASE i \in 0 .. n - 1
        <3>1. i \in 0 .. n /\ i + 1 \in 0 .. n /\ i # n
            BY SMTT(120), <1>3, <2>2
        <3>2. At(s, i) = At(all, i) /\ At(s, i + 1) = At(all, i + 1)
            BY Zenon, <1>9, <3>1
        <3>3. nextFree[At(all, i)] = At(all, i + 1) /\ prevFree[At(all, i + 1)] = At(all, i)
            BY Zenon, <1>4, <2>2 DEF Linked
        <3> QED BY Zenon, <1>2, <1>5, <1>12, <3>1, <3>2, <3>3
    <2>3. i = n \/ i \in 0 .. n - 1
        BY SMTT(120), <1>3
    <2> QED BY Zenon, <2>1, <2>2, <2>3
<1>14. ASSUME NEW c \in Block, ~In(s, c) PROVE nextFree'[c] = None /\ prevFree'[c] = None
    <2>1. c # h /\ ~In(all, c) /\ c \in Node
        BY Zenon, <1>9, <1>14 DEF Node
    <2>2. c # curr
        <3>1. c # FakeHead
            BY Zenon, QueueAssumption
        <3>2. n = 0 \/ n \in 1 .. n
            BY SMTT(120), <1>3
        <3> QED BY SMTT(120), <1>3, <1>4, <2>1, <3>1, <3>2 DEF At, In, n
    <2> QED BY Zenon, <1>2, <1>4, <1>5, <1>10, <2>1, <2>2 DEF Detached
<1>15. AppendInv'
    <2>1. queue' \o ret' = s /\ list' = Tail(list) /\ Len(s) - 1 = n
        BY <1>3, <1>5, <1>6, <1>9
    <2>2. numFree' = Len(queue') /\ Distinct(queue' \o ret' \o list')
        BY Zenon, <1>4, <1>5, <1>7, <2>1
    <2>3. curr' = At(s, Len(s))
        BY Zenon, <1>5, <1>9
    <2>4. /\ \A i \in 0 .. Len(s) - 1 :
                nextFree'[At(s, i)] = At(s, i + 1) /\ prevFree'[At(s, i + 1)] = At(s, i)
          /\ \A c \in Block : ~In(s, c) => nextFree'[c] = None /\ prevFree'[c] = None
        BY Zenon, <1>13, <1>14, <2>1
    <2> QED BY SMTT(120), <2>1, <2>2, <2>3, <2>4 DEF AppendInv, Linked, At, In, Detached, Distinct
<1>16. QueueInv'
    BY ZenonT(60), <1>1, <1>2, <1>5, <1>11, <1>15 DEF QueueInv, Distinct, NoQueueError, LinksMatchQueue
<1> QED BY Zenon, <1>5, <1>16 DEF Queue!vars

\* append_n ends with the whole list behind the queue
LEMMA AppendEndCorrect ==
    ASSUME QueueInv, AppendEnd
    PROVE  QueueInv' /\ Queue!ExtendBySome
<1> DEFINE all == queue \o ret
           n == Len(all)
<1>1. pc = "append" /\ list = << >> /\ AppendInv
    BY Zenon DEF AppendEnd, QueueInv
<1>2. /\ queue \in Seq(Block) /\ Distinct(queue) /\ ret \in Seq(Block)
      /\ Len(queue) \in Nat /\ Len(ret) \in Nat
      /\ nextFree \in [Node -> Link] /\ prevFree \in [Node -> Link]
    BY SMTT(120) DEF QueueInv, QueueTypeOK
<1>3. all \in Seq(Block) /\ n = Len(queue) + Len(ret) /\ n \in Nat
    BY SMTT(120), <1>2, ConcatProperties
<1>4. /\ numFree = Len(queue) /\ Distinct(all \o list) /\ curr = At(all, n)
      /\ Linked(all, 0, n - 1) /\ \A b \in Block : ~In(all, b) => Detached(b)
    BY Zenon, <1>1 DEF AppendInv
<1>5. Distinct(all)
    BY Zenon, <1>1, <1>3, <1>4, ConcatEmptySeq
<1>6. Distinct(ret) /\ \A i \in 1 .. Len(ret) : ~In(queue, ret[i])
    BY Zenon, <1>2, <1>5, DistinctConcat
<1>7. /\ nextFree' = [nextFree EXCEPT ![curr] = FakeTail]
      /\ prevFree' = [prevFree EXCEPT ![FakeTail] = curr]
      /\ numFree' = numFree + Len(ret) /\ pc' = "idle" /\ queue' = all /\ result' = << >>
      /\ UNCHANGED <<curr, todo, list, ret>>
    BY Zenon DEF AppendEnd
<1>8. Queue!ExtendBySome
    BY Zenon, <1>2, <1>6, <1>7, ExtendStep
<1> HIDE DEF all
<1>9. curr \in Node /\ curr \in Link /\ FakeTail \in Node /\ FakeTail \in Link
    BY SMTT(120), <1>3, <1>4, <1>5, ChainNodes DEF Node, Link
<1>10. QueueTypeOK'
    <2>1. nextFree' \in [Node -> Link] /\ prevFree' \in [Node -> Link]
        BY Zenon, <1>2, <1>7, <1>9
    <2>2. numFree' \in Nat /\ queue' \in Seq(Block) /\ result' \in Seq(Block)
        BY SMTT(120), <1>2, <1>3, <1>4, <1>7
    <2> QED BY Zenon, <1>7, <2>1, <2>2 DEF QueueInv, QueueTypeOK, Node, Link
<1> HIDE DEF n
<1>11. ASSUME NEW i \in 0 .. n
       PROVE  nextFree'[At(all, i)] = At(all, i + 1) /\ prevFree'[At(all, i + 1)] = At(all, i)
    <2>1. At(all, n + 1) = FakeTail
        BY SMTT(120), <1>3 DEF At, n
    <2>2. CASE i = n
        BY Zenon, <1>2, <1>4, <1>7, <1>9, <2>1, <2>2
    <2>3. CASE i \in 0 .. n - 1
        <3>1. /\ i \in 0 .. n + 1 /\ i + 1 \in 0 .. n + 1 /\ n \in 0 .. n + 1 /\ n + 1 \in 0 .. n + 1
              /\ i # n /\ i + 1 # n + 1
            BY SMTT(120), <1>3, <2>3
        <3>2. nextFree[At(all, i)] = At(all, i + 1) /\ prevFree[At(all, i + 1)] = At(all, i)
            BY SMTT(120), <1>4, <2>3 DEF Linked
        <3>3. At(all, i) # curr /\ At(all, i) \in Node /\ At(all, i + 1) # FakeTail /\ At(all, i + 1) \in Node
            BY ZenonT(60), <1>3, <1>4, <1>5, <2>1, <3>1, ChainNodes DEF n
        <3> QED BY Zenon, <1>2, <1>7, <3>2, <3>3
    <2>4. i = n \/ i \in 0 .. n - 1
        BY SMTT(120), <1>3
    <2> QED BY Zenon, <2>2, <2>3, <2>4
<1>12. ASSUME NEW c \in Block, ~In(all, c) PROVE nextFree'[c] = None /\ prevFree'[c] = None
    <2>1. c \in Node /\ c # FakeHead /\ c # FakeTail
        BY Zenon, QueueAssumption DEF Node
    <2>2. c # curr
        <3>1. n = 0 \/ n \in 1 .. n
            BY SMTT(120), <1>3
        <3> QED BY Zenon, <1>3, <1>4, <1>12, <2>1, <3>1 DEF At, In, n
    <2> QED BY Zenon, <1>2, <1>4, <1>7, <1>9, <1>12, <2>1, <2>2 DEF Detached
<1>13. numFree' = Len(all)
    BY Zenon, <1>3, <1>4, <1>7 DEF n
<1>14. QueueInv'
    BY Zenon, <1>3, <1>5, <1>7, <1>10, <1>11, <1>12, <1>13, IdleInv DEF n
<1> QED BY Zenon, <1>8, <1>14

-----------------------------------------------------------------------------
(* The theorems *)

\* Every step keeps the invariant, and is a step of the promised queue or none
LEMMA QueueStep ==
    ASSUME QueueInv, [QueueNext]_queueVars
    PROVE  QueueInv' /\ [Queue!Next]_(Queue!vars)
<1>1. CASE PopLeft
    BY Zenon, <1>1, PopLeftCorrect DEF Queue!Next
<1>2. ASSUME NEW n \in 1 .. numFree, PopLeftN(n) PROVE QueueInv' /\ [Queue!Next]_(Queue!vars)
    BY Zenon, <1>2, PopLeftNCorrect
<1>3. CASE PopStep
    BY Zenon, <1>3, PopStepCorrect
<1>4. CASE PopEnd
    BY SMTT(120), <1>4, PopEndCorrect DEF Queue!Next
<1>5. ASSUME NEW b \in Block, RemoveBlock(b) PROVE QueueInv' /\ [Queue!Next]_(Queue!vars)
    BY Zenon, <1>5, RemoveCorrect DEF Queue!Next
<1>6. ASSUME NEW b \in Block, AppendBlock(b) PROVE QueueInv' /\ [Queue!Next]_(Queue!vars)
    BY Zenon, <1>6, AppendCorrect DEF Queue!Next
<1>7. ASSUME NEW blocks \in BlockLists, AppendN(blocks) PROVE QueueInv' /\ [Queue!Next]_(Queue!vars)
    BY Zenon, <1>7, AppendNCorrect
<1>8. CASE AppendStep
    BY SMTT(120), <1>8, AppendStepCorrect
<1>9. CASE AppendEnd
    BY Zenon, <1>9, AppendEndCorrect DEF Queue!Next
<1>10. CASE UNCHANGED queueVars
    <2>1. /\ nextFree' = nextFree /\ prevFree' = prevFree /\ numFree' = numFree /\ pc' = pc
          /\ curr' = curr /\ todo' = todo /\ list' = list /\ ret' = ret
          /\ queue' = queue /\ result' = result
        BY Zenon, <1>10 DEF queueVars, linkVars, loopVars
    <2>2. QueueTypeOK' = QueueTypeOK
        BY Zenon, <2>1 DEF QueueTypeOK, Node, Link
    <2>3. Distinct(queue)' = Distinct(queue) /\ NoQueueError' = NoQueueError
        BY Zenon, <2>1 DEF Distinct, NoQueueError
    <2>4. LinksMatchQueue' = LinksMatchQueue
        BY SMTT(120), <2>1 DEF LinksMatchQueue, At, In, Detached
    <2>5. PopInv' = PopInv
        BY SMTT(120), <2>1 DEF PopInv, Linked, At, In, Detached
    <2>6. AppendInv' = AppendInv
        BY SMTT(120), <2>1 DEF AppendInv, Linked, At, In, Detached, Distinct
    <2> QED BY Zenon, <2>1, <2>2, <2>3, <2>4, <2>5, <2>6 DEF QueueInv, Queue!vars
<1> QED BY Zenon, <1>1, <1>2, <1>3, <1>4, <1>5, <1>6, <1>7, <1>8, <1>9, <1>10 DEF QueueNext

\* The inductive invariant holds in every reachable state
LEMMA QueueInvHolds == QueueSpec => []QueueInv
BY QueueInvInit, QueueStep, PTL DEF QueueSpec

\* For any pool: between calls the next and prev links of the list run through
\* exactly the free blocks, in the order they were freed, num_free_blocks counts
\* them, and none of the assertions and consistency checks of the class fires.
THEOREM ListIsConsistent == QueueSpec => []LinksConsistent
<1>1. QueueInv => LinksConsistent
    BY Zenon DEF QueueInv, LinksConsistent
<1> QED BY <1>1, QueueInvHolds, PTL

\* For any pool: the linked list, loops included, implements the abstract queue.
THEOREM LinkedListIsQueue == QueueSpec => ImplementsQueue
<1>1. QueueInit => Queue!Init
    BY Zenon DEF QueueInit, Queue!Init
<1>2. QueueInv /\ [QueueNext]_queueVars => [Queue!Next]_(Queue!vars)
    BY Zenon, QueueStep
<1> QED BY <1>1, <1>2, QueueInvHolds, PTL DEF QueueSpec, ImplementsQueue, Queue!Spec
=============================================================================
