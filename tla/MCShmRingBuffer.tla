--------------------------- MODULE MCShmRingBuffer ---------------------------
(* Two readers and a ring of two chunks that is lapped.                    *)
EXTENDS ShmRingBuffer
=============================================================================
