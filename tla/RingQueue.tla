------------------------------ MODULE RingQueue ------------------------------
(***************************************************************************)
(* One RingBuf between its producer and its consumer.  A vector stands for *)
(* the allocation behind a std::vector: filling one keeps the allocation,  *)
(* push and pop swap the allocation of the caller with the one in the      *)
(* slot, so the same few allocations go round.                             *)
(***************************************************************************)
EXTENDS RingBuf, Sequences

CONSTANT Vectors \* allocations: one per slot, one per thread

VARIABLES ring,
          produced, \* the vector the producer fills
          consumed  \* the vector the consumer reads

ringVars == <<ring, produced, consumed>>

\* distinct allocations everywhere: each vector reserved its own
RingInit ==
  /\ ring \in [slot : [0 .. Capacity - 1 -> Vectors], r : {0}, w : {0}]
  /\ produced \in Vectors /\ consumed \in Vectors
  /\ produced # consumed
  /\ \A i, j \in 0 .. Capacity - 1 : i # j => ring.slot[i] # ring.slot[j]
  /\ \A i \in 0 .. Capacity - 1 : ring.slot[i] \notin {produced, consumed}

Produce ==
  /\ RingHasRoom(ring)
  /\ ring' = Pushed(ring, produced)
  /\ produced' = PushLeaves(ring)
  /\ UNCHANGED consumed

\* mutant: pop hands the vector out and leaves it in its slot
ConsumeCopies ==
  /\ ~RingIsEmpty(ring)
  /\ ring' = [ring EXCEPT !.r = (@ + 1) % Wrap]
  /\ consumed' = PopGives(ring)
  /\ UNCHANGED produced

Consume ==
  /\ ~RingIsEmpty(ring)
  /\ ring' = Popped(ring, consumed)
  /\ consumed' = PopGives(ring)
  /\ UNCHANGED produced

RingNext == Produce \/ Consume

RingSpec == RingInit /\ [][RingNext]_ringVars

-------------------------------------------------------------------------------
\* Type invariant: the two indices stay below twice the capacity and never drift
\* further apart than the capacity.
RingTypeOK ==
  /\ ring \in RingType(Vectors)
  /\ RingSize(ring) <= Capacity
  /\ produced \in Vectors /\ consumed \in Vectors

\* No allocation is in two places: while the consumer reads a vector, the producer
\* is never filling that one, whatever the ring has swapped so far (ringbuf_push and
\* ringbuf_pop).
NoVectorShared ==
  /\ produced # consumed
  /\ \A i \in 0 .. Capacity - 1 : ring.slot[i] \notin {produced, consumed}
  /\ \A i, j \in 0 .. Capacity - 1 : i # j => ring.slot[i] # ring.slot[j]

\* the vectors waiting in the ring, oldest first
Waiting == [i \in 1 .. RingSize(ring) |-> ring.slot[(ring.r + (i - 1)) % Capacity]]

\* The ring implements a first-in first-out queue of Capacity vectors: what ringbuf_pop
\* gives is what ringbuf_push took longest ago, across every wrap of the two indices.
Queue == INSTANCE BoundedQueue WITH queue <- Waiting
IsQueue == Queue!Spec
===============================================================================
