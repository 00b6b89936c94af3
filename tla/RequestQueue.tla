---------------------------- MODULE RequestQueue ----------------------------
(***************************************************************************)
(* The queues of the scheduler, vllm/v1/core/sched/request_queue.py: a     *)
(* deque under the FCFS policy, and under PRIORITY a heap, modelled as the *)
(* sequence that iterating over it yields.  Requests are numbers in the    *)
(* order of their arrival times.                                           *)
(***************************************************************************)
EXTENDS Integers, Sequences, FiniteSets, Functions

CONSTANTS Priority,   \* request.priority
          Policy      \* "fcfs" or "priority"

\* Request.__lt__
Before(r, s) == Priority[r] < Priority[s] \/ (Priority[r] = Priority[s] /\ r < s)

\* heapq.heappush
Push(queue, r) ==
    LET n == Cardinality({i \in DOMAIN queue : Before(queue[i], r)})
    IN  SubSeq(queue, 1, n) \o <<r>> \o SubSeq(queue, n + 1, Len(queue))

\* add_request and prepend_request
AddTo(queue, r) == IF Policy = "fcfs" THEN Append(queue, r) ELSE Push(queue, r)
PrependTo(queue, r) == IF Policy = "fcfs" THEN <<r>> \o queue ELSE Push(queue, r)

\* prepend_requests: extendleft of the others, or a push of each
PrependRequests(queue, others) ==
    LET Pushed[n \in 0 .. Len(others)] ==
            IF n = 0 THEN queue ELSE PrependTo(Pushed[n - 1], others[n])
    IN  Pushed[Len(others)]

\* remove_request and remove_requests; also the list comprehension of remove_all
RemoveAll(queue, gone) ==
    LET Kept[n \in 0 .. Len(queue)] ==
            IF n = 0 THEN << >>
            ELSE IF queue[n] \in gone THEN Kept[n - 1] ELSE Append(Kept[n - 1], queue[n])
    IN  Kept[Len(queue)]

-----------------------------------------------------------------------------
\* A queue of requests, none of them twice; the queue after a request joined it,
\* and after the requests in gone left it
IsQueue(queue) == queue \in Seq(Nat) /\ IsInjective(queue)
Joined(after, queue, r) == IsQueue(after) /\ Range(after) = Range(queue) \cup {r}
Left(after, queue, gone) == IsQueue(after) /\ Range(after) = Range(queue) \ gone
=============================================================================
