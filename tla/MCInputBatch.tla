--------------------------- MODULE MCInputBatch ----------------------------
(* A decoder, either with short requests that the scheduler finishes, leaves *)
(* out and preempts, or with one long request that stays in its row: the     *)
(* compaction of a row does not survive more.                                *)
EXTENDS InputBatch, TLC

CONSTANTS ShortSteps   \* bound on the steps with short requests

VARIABLE only          \* the requests of this behaviour

RequestSymmetry == Permutations(Short) \cup Permutations(Long)

StaysInRow(r) == known' = known => scheduled'[r] > 0 /\ computed'[r] >= computed[r]

MCInit == BatchInit /\ only \in {Short, Long}
MCNext ==
    /\ only = Short /\ pc = "idle" => steps < ShortSteps
    /\ BatchNext
    /\ only' = only /\ known' \subseteq only
    /\ only = Long => \A r \in Long : StaysInRow(r)
MCSpec == MCInit /\ [][MCNext]_<<batchVars, only>>
=============================================================================
