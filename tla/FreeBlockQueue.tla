--------------------------- MODULE FreeBlockQueue ---------------------------
(***************************************************************************)
(* What FreeKVCacheBlockQueue (vllm/v1/core/kv_cache_utils.py) promises:   *)
(* a queue of blocks with removal from the middle.  result is the list of  *)
(* blocks that the last call returned.                                     *)
(***************************************************************************)
EXTENDS Integers, Sequences

CONSTANTS Block, Blocks   \* the blocks, and the list the queue is made of

VARIABLES queue, result

vars == <<queue, result>>

In(q, b) == \E i \in 1 .. Len(q) : q[i] = b
Distinct(q) == \A i, j \in 1 .. Len(q) : q[i] = q[j] => i = j

Init == queue = Blocks /\ result = << >>

\* Pop the first n blocks; a popleft of an empty queue returns nothing
PopLeft(n) ==
    /\ n <= Len(queue)
    /\ result' = SubSeq(queue, 1, n)
    /\ queue' = SubSeq(queue, n + 1, Len(queue))

Remove(i) ==
    /\ i \in 1 .. Len(queue)
    /\ queue' = SubSeq(queue, 1, i - 1) \o SubSeq(queue, i + 1, Len(queue))
    /\ result' = << >>

Extend(list) ==
    /\ list \in Seq(Block) /\ Distinct(list)
    /\ \A i \in 1 .. Len(list) : ~In(queue, list[i])
    /\ queue' = queue \o list
    /\ result' = << >>

\* append and append_n; the list is whatever the queue has grown by
ExtendBySome == Extend(SubSeq(queue', Len(queue) + 1, Len(queue')))

Next ==
    \/ \E n \in 0 .. Len(queue) : PopLeft(n)
    \/ \E i \in 1 .. Len(queue) : Remove(i)
    \/ ExtendBySome

Spec == Init /\ [][Next]_vars
=============================================================================
