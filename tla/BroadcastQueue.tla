--------------------------- MODULE BroadcastQueue ---------------------------
(***************************************************************************)
(* What MessageQueue (vllm/distributed/device_communicators/               *)
(* shm_broadcast.py) promises its callers: one writer, and readers that    *)
(* each receive every message once, in the order of enqueue, while the     *)
(* writer is never more than Capacity messages ahead of any of them.       *)
(***************************************************************************)
EXTENDS Integers, Sequences

CONSTANTS Reader, Capacity, Message

VARIABLES log,   \* the messages enqueued
          out    \* the messages each reader has received

vars == <<log, out>>

Init == log = << >> /\ out = [r \in Reader |-> << >>]

Enqueue(m) ==
    /\ \A r \in Reader : Len(log) - Len(out[r]) < Capacity
    /\ log' = Append(log, m)
    /\ UNCHANGED out

Dequeue(r) ==
    /\ Len(out[r]) < Len(log)
    /\ out' = [out EXCEPT ![r] = Append(@, log[Len(@) + 1])]
    /\ UNCHANGED log

Next == (\E m \in Message : Enqueue(m)) \/ (\E r \in Reader : Dequeue(r))

Spec == Init /\ [][Next]_vars
=============================================================================
