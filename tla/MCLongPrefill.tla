---------------------------- MODULE MCLongPrefill ---------------------------
EXTENDS LongPrefill

CONSTANTS r1, r2

\* Alignments of a prompt to blocks, on both sides of the threshold
PromptLengths == {129, 130, 139, 144}

\* The other request has one chunk
ManyAndOne == [r \in Request |-> IF r = r1 THEN 8 ELSE 1]
=============================================================================
