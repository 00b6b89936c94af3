----------------------- MODULE FreeKVCacheBlockQueue -----------------------
(***************************************************************************)
(* FreeKVCacheBlockQueue (vllm/v1/core/kv_cache_utils.py): the free blocks *)
(* of a pool as a doubly linked list between a fake head and a fake tail.  *)
(* The links are fields of the blocks themselves, so no call allocates.    *)
(*                                                                         *)
(* The two calls with a loop take one step per iteration.  A failed        *)
(* assertion or consistency check ends in a pc that names it.  Callers      *)
(* append blocks that are in no list and remove blocks that are in it, as   *)
(* BlockPool does; a block with a next link is in the list.                *)
(***************************************************************************)
EXTENDS Integers, Sequences, FiniteSets

CONSTANTS Block,               \* KVCacheBlock objects
          Blocks,              \* the list given to __init__
          FakeHead, FakeTail,  \* fake_free_list_head, fake_free_list_tail
          None

ASSUME QueueAssumption ==
    /\ Cardinality(Block) \in Nat
    /\ Blocks \in Seq(Block)
    /\ \A i, j \in 1 .. Len(Blocks) : Blocks[i] = Blocks[j] => i = j
    /\ FakeHead \notin Block /\ FakeTail \notin Block /\ None \notin Block
    /\ FakeHead # FakeTail /\ FakeHead # None /\ FakeTail # None

Node == Block \cup {FakeHead, FakeTail}
Link == Node \cup {None}

VARIABLES nextFree,  \* next_free_block of every node
          prevFree,  \* prev_free_block of every node
          numFree,   \* num_free_blocks
          pc,        \* "idle", inside a loop, or the exception raised
          curr,      \* curr_block of popleft_n, last_block of append_n
          todo,      \* blocks popleft_n has still to pop
          list,      \* the blocks append_n has still to append
          ret,       \* the blocks moved so far by the running loop
          queue,     \* history: the blocks in the queue, in order
          result     \* history: what the last call returned

linkVars == <<nextFree, prevFree, numFree>>
loopVars == <<pc, curr, todo, list, ret>>
queueVars == <<linkVars, loopVars, queue, result>>

QueueTypeOK ==
    /\ nextFree \in [Node -> Link]
    /\ prevFree \in [Node -> Link]
    /\ numFree \in Nat
    /\ pc \in {"idle", "pop", "append", "AssertionError", "RuntimeError"}
    /\ curr \in Link
    /\ todo \in Nat
    /\ list \in Seq(Block)
    /\ ret \in Seq(Block)
    /\ queue \in Seq(Block)
    /\ result \in Seq(Block)

-----------------------------------------------------------------------------
(* A queue q as a chain of nodes: node 0 is the fake head, then its blocks, *)
(* then the fake tail.                                                     *)

At(q, i) == IF i = 0 THEN FakeHead ELSE IF i = Len(q) + 1 THEN FakeTail ELSE q[i]

In(q, b) == \E i \in 1 .. Len(q) : q[i] = b

\* The links of __init__
NextIn(q, x) ==
    IF \E i \in 0 .. Len(q) : At(q, i) = x
    THEN At(q, (CHOOSE i \in 0 .. Len(q) : At(q, i) = x) + 1) ELSE None
PrevIn(q, x) ==
    IF \E i \in 1 .. Len(q) + 1 : At(q, i) = x
    THEN At(q, (CHOOSE i \in 1 .. Len(q) + 1 : At(q, i) = x) - 1) ELSE None

QueueInit ==
    /\ nextFree = [x \in Node |-> NextIn(Blocks, x)]
    /\ prevFree = [x \in Node |-> PrevIn(Blocks, x)]
    /\ numFree = Len(Blocks)
    /\ pc = "idle" /\ curr = None /\ todo = 0 /\ list = << >> /\ ret = << >>
    /\ queue = Blocks /\ result = << >>

\* The call raises
Fail(error) ==
    /\ pc' = error
    /\ UNCHANGED <<linkVars, curr, todo, list, ret, queue, result>>

-----------------------------------------------------------------------------
(* popleft, popleft_n *)

\* Mutant: the second block keeps its link to the one popped
UnlinkFirstOneWay(first) ==
    /\ nextFree' = [nextFree EXCEPT ![FakeHead] = nextFree[first], ![first] = None]
    /\ prevFree' = [prevFree EXCEPT ![first] = None]

\* Connect the fake head to the second node and clear the links of the first
UnlinkFirst(first) ==
    /\ nextFree' = [nextFree EXCEPT ![FakeHead] = nextFree[first], ![first] = None]
    /\ prevFree' = [prevFree EXCEPT ![nextFree[first]] = FakeHead, ![first] = None]

Empty(first) == first \in {FakeTail, None}

PopLeft ==
    /\ pc = "idle"
    /\ LET first == nextFree[FakeHead]
       IN  IF Empty(first)
           THEN IF numFree # 0 THEN Fail("AssertionError")
                ELSE result' = << >> /\ UNCHANGED <<linkVars, loopVars, queue>>   \* ValueError
           ELSE IF nextFree[first] = None THEN Fail("RuntimeError")
                ELSE /\ UnlinkFirst(first)
                     /\ numFree' = numFree - 1
                     /\ result' = <<first>>
                     /\ queue' = SubSeq(queue, 2, Len(queue))
                     /\ UNCHANGED loopVars

\* get_new_blocks asks for no more blocks than there are
PopLeftN(n) ==
    /\ pc = "idle" /\ n \in 1 .. numFree
    /\ numFree' = numFree - n
    /\ curr' = nextFree[FakeHead]
    /\ todo' = n
    /\ ret' = << >>
    /\ pc' = "pop"
    /\ UNCHANGED <<nextFree, prevFree, list, queue, result>>

\* Mutant: the blocks are returned last first
PopStepReversed ==
    /\ pc = "pop" /\ todo > 0
    /\ IF curr = None THEN Fail("AssertionError")
       ELSE /\ ret' = <<curr>> \o ret
            /\ curr' = nextFree[curr]
            /\ nextFree' = [nextFree EXCEPT ![curr] = None]
            /\ prevFree' = [prevFree EXCEPT ![curr] = None]
            /\ todo' = todo - 1
            /\ UNCHANGED <<numFree, pc, list, queue, result>>

\* An iteration: take the block and clear its links
PopStep ==
    /\ pc = "pop" /\ todo > 0
    /\ IF curr = None THEN Fail("AssertionError")
       ELSE /\ ret' = Append(ret, curr)
            /\ curr' = nextFree[curr]
            /\ nextFree' = [nextFree EXCEPT ![curr] = None]
            /\ prevFree' = [prevFree EXCEPT ![curr] = None]
            /\ todo' = todo - 1
            /\ UNCHANGED <<numFree, pc, list, queue, result>>

\* Connect the fake head to what follows the last block popped
LinkHead ==
    /\ nextFree' = [nextFree EXCEPT ![FakeHead] = curr]
    /\ prevFree' = [prevFree EXCEPT ![curr] = FakeHead]

PopEnd ==
    /\ pc = "pop" /\ todo = 0
    /\ IF curr = None THEN UNCHANGED <<nextFree, prevFree>> ELSE LinkHead
    /\ pc' = "idle"
    /\ result' = ret
    /\ queue' = SubSeq(queue, Len(ret) + 1, Len(queue))
    /\ UNCHANGED <<numFree, curr, todo, list, ret>>

-----------------------------------------------------------------------------
(* remove *)

\* The place of a block in the history queue
Place(b) == CHOOSE i \in 1 .. Len(queue) : queue[i] = b

RemoveBlock(b) ==
    /\ pc = "idle" /\ nextFree[b] # None
    /\ IF prevFree[b] = None THEN Fail("RuntimeError")
       ELSE /\ nextFree' = [nextFree EXCEPT ![prevFree[b]] = nextFree[b], ![b] = None]
            /\ prevFree' = [prevFree EXCEPT ![nextFree[b]] = prevFree[b], ![b] = None]
            /\ numFree' = numFree - 1
            /\ queue' = SubSeq(queue, 1, Place(b) - 1) \o SubSeq(queue, Place(b) + 1, Len(queue))
            /\ result' = << >>
            /\ UNCHANGED loopVars

-----------------------------------------------------------------------------
(* append, append_n *)

Detached(b) == nextFree[b] = None /\ prevFree[b] = None

\* append: the block goes between the last one and the fake tail
AppendBlock(b) ==
    /\ pc = "idle" /\ Detached(b)
    /\ LET last == prevFree[FakeTail]
       IN  IF last = None THEN Fail("RuntimeError")
           ELSE /\ nextFree' = [nextFree EXCEPT ![last] = b, ![b] = FakeTail]
                /\ prevFree' = [prevFree EXCEPT ![b] = last, ![FakeTail] = b]
                /\ numFree' = numFree + 1
                /\ queue' = Append(queue, b)
                /\ result' = << >>
                /\ UNCHANGED loopVars

\* append_n of a list of different blocks
AppendN(blocks) ==
    /\ pc = "idle" /\ Len(blocks) > 0
    /\ \A i \in 1 .. Len(blocks) : Detached(blocks[i])
    /\ \A i, j \in 1 .. Len(blocks) : blocks[i] = blocks[j] => i = j
    /\ IF prevFree[FakeTail] = None THEN Fail("AssertionError")
       ELSE /\ curr' = prevFree[FakeTail]
            /\ list' = blocks
            /\ ret' = << >>
            /\ pc' = "append"
            /\ UNCHANGED <<linkVars, todo, queue, result>>

AppendStep ==
    /\ pc = "append" /\ list # << >>
    /\ prevFree' = [prevFree EXCEPT ![Head(list)] = curr]
    /\ nextFree' = [nextFree EXCEPT ![curr] = Head(list)]
    /\ curr' = Head(list)
    /\ list' = Tail(list)
    /\ ret' = Append(ret, Head(list))
    /\ UNCHANGED <<numFree, pc, todo, queue, result>>

AppendEnd ==
    /\ pc = "append" /\ list = << >>
    /\ nextFree' = [nextFree EXCEPT ![curr] = FakeTail]
    /\ prevFree' = [prevFree EXCEPT ![FakeTail] = curr]
    /\ numFree' = numFree + Len(ret)
    /\ pc' = "idle"
    /\ queue' = queue \o ret
    /\ result' = << >>
    /\ UNCHANGED <<curr, todo, list, ret>>

-----------------------------------------------------------------------------
\* The lists a caller may append
BlockLists == UNION {[1 .. n -> Block] : n \in 0 .. Cardinality(Block)}

QueueNext ==
    \/ PopLeft
    \/ \E n \in 1 .. numFree : PopLeftN(n)
    \/ PopStep \/ PopEnd
    \/ \E b \in Block : RemoveBlock(b) \/ AppendBlock(b)
    \/ \E blocks \in BlockLists : AppendN(blocks)
    \/ AppendStep \/ AppendEnd

QueueSpec == QueueInit /\ [][QueueNext]_queueVars

\* The linked list is the queue: between calls, the next links from the fake
\* head and the prev links from the fake tail run through the same blocks,
\* those of the queue and no others, num_free_blocks is their number, and
\* every other block has no links.
LinksMatchQueue ==
    pc = "idle" =>
        /\ numFree = Len(queue)
        /\ \A i \in 0 .. Len(queue) :
                /\ nextFree[At(queue, i)] = At(queue, i + 1)
                /\ prevFree[At(queue, i + 1)] = At(queue, i)
        /\ \A b \in Block : ~In(queue, b) => Detached(b)

\* The assertions and consistency checks of the class never fire ("the fake
\* head and tail are NEVER got popped", "should not happen if the block is from
\* the free list").
NoQueueError == pc \notin {"AssertionError", "RuntimeError"}

\* The list is consistent and its own checks agree.
LinksConsistent == QueueTypeOK /\ LinksMatchQueue /\ NoQueueError

\* Every sequence of calls behaves as on a queue of blocks: what popleft and
\* popleft_n return, and what remove and append leave behind.
Queue == INSTANCE FreeBlockQueue
ImplementsQueue == Queue!Spec
=============================================================================
