----------------------------- MODULE BoundedQueue -----------------------------
(***************************************************************************)
(* What a ring buffer promises: a first-in first-out queue of at most      *)
(* Capacity vectors.                                                       *)
(***************************************************************************)
EXTENDS Integers, Sequences

CONSTANTS Capacity, Vectors

VARIABLE queue

Init == queue = << >>

Enqueue(v) == Len(queue) < Capacity /\ queue' = Append(queue, v)

Dequeue == queue # << >> /\ queue' = Tail(queue)

Spec == Init /\ [][(\E v \in Vectors : Enqueue(v)) \/ Dequeue]_queue
===============================================================================
