----------------------------- MODULE StreamBuffer -----------------------------
(***************************************************************************)
(* The Stream between a transport that pushes a file and the installer     *)
(* that reads it.  Push paces the transport with one bounded wait and then *)
(* takes the data whatever the buffer holds; ReadChunk waits for data, for *)
(* the end, or for 15 seconds without either.                              *)
(***************************************************************************)
EXTENDS Sequences, Naturals

CONSTANT MaxBuffer \* MAX_BUFFER_SIZE, in chunks
ASSUME MaxBufferAssumption == MaxBuffer \in Nat \ {0}

\* no stream has been made for this file
NoStream == [active |-> FALSE, buffer |-> << >>]

NewStream == [active |-> TRUE, buffer |-> << >>]

\* Push waits once on can_write
MustWait(stream) == stream.active /\ Len(stream.buffer) >= MaxBuffer

Pushed(stream, chunk) == [stream EXCEPT !.buffer = Append(@, chunk)]

HasData(stream) == stream.buffer # << >>

Drained(stream) == [stream EXCEPT !.buffer = Tail(@)]

\* the buffer is empty and nothing more will come: ReadChunk returns zero bytes
AtEnd(stream) == ~stream.active /\ ~HasData(stream)

\* ReadChunk can wait on can_read, and give up after READ_STALL_TIMEOUT_NS
Stalls(stream) == stream.active /\ ~HasData(stream)

Disabled(stream) == [stream EXCEPT !.active = FALSE]
==============================================================================
