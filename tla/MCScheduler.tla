---------------------------- MODULE MCScheduler ----------------------------
(* Instances of Scheduler for TLC: requests 1, 2 and 3, which differ in the *)
(* lengths of their prompts and outputs, and pools of blocks of two tokens. *)
EXTENDS Scheduler

TwoRequests == {1, 2}
ThreeRequests == {1, 2, 3}

ThreeBlocks == 11 .. 13
FourBlocks == 11 .. 14
FiveBlocks == 11 .. 15
SixBlocks == 11 .. 16

\* A prompt that fills its last block and one that does not
ShortPrompts == [r \in Request |-> IF r = 1 THEN 3 ELSE 2]
\* Request 1 is long: head, two blocks between, tail; or a tail of two blocks
AlignedLongPrompt == [r \in Request |-> IF r = 1 THEN 8 ELSE 2]
LongPrompt == [r \in Request |-> IF r = 1 THEN 7 ELSE 2]
LongShortLong == [r \in Request |-> CASE r = 1 -> 8 [] r = 2 -> 3 [] r = 3 -> 7]
TwoLongPrompts == [r \in Request |-> CASE r = 1 -> 3 [] r = 2 -> 2 [] r = 3 -> 5]

OneOutput == [r \in Request |-> 1]
ShortOutputs == [r \in Request |-> IF r = 2 THEN 2 ELSE 3]
LongOutputs == [r \in Request |-> 8]

SamePriority == [r \in Request |-> 0]
LastIsUrgent == [r \in Request |-> IF r = 3 THEN 0 ELSE 1]
=============================================================================
