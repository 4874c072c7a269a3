------------------------------- MODULE RingBuf -------------------------------
(***************************************************************************)
(* The ring of ThreadBuffers that both transfer pipelines put between a    *)
(* producer and a consumer thread: RingBuf<2> in the generic engine,       *)
(* RingBuf<4> in the NCA installer.  Both indices count modulo twice the   *)
(* capacity, so that a full ring differs from an empty one; push and pop   *)
(* SWAP the caller's vector with the slot's and check nothing.             *)
(*                                                                         *)
(* A ring is a record [slot, r, w].                                        *)
(***************************************************************************)
EXTENDS Integers

CONSTANT Capacity

ASSUME CapacityAssumption == Capacity \in Nat \ {0}

\* mutant: the indices wrap at the capacity, so that a full ring looks empty
WrapAtCapacity == Capacity

Wrap == 2 * Capacity

NewRing(buffer) == [slot |-> [i \in 0 .. Capacity - 1 |-> buffer], r |-> 0, w |-> 0]

RingType(Buffer) == [slot : [0 .. Capacity - 1 -> Buffer], r : 0 .. Wrap - 1, w : 0 .. Wrap - 1]

RingSize(ring) == (ring.w - ring.r) % Wrap

\* unsigned subtraction: nonzero also after a pop of an empty ring
RingHasRoom(ring) == RingSize(ring) # Capacity

RingIsEmpty(ring) == RingSize(ring) = 0

\* the ring after ringbuf_push(buffer, _)
Pushed(ring, buffer) ==
  [slot |-> [ring.slot EXCEPT ![ring.w % Capacity] = buffer],
   r |-> ring.r, w |-> (ring.w + 1) % Wrap]

\* what the caller of ringbuf_push is left with: the vector the slot held
PushLeaves(ring) == ring.slot[ring.w % Capacity]

\* the ring after ringbuf_pop into a vector that held buffer
Popped(ring, buffer) ==
  [slot |-> [ring.slot EXCEPT ![ring.r % Capacity] = buffer],
   r |-> (ring.r + 1) % Wrap, w |-> ring.w]

PopGives(ring) == ring.slot[ring.r % Capacity]
==============================================================================
