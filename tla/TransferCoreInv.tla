--------------------------- MODULE TransferCoreInv ---------------------------
(***************************************************************************)
(* The inductive invariants of TransferCore: where every unit between the  *)
(* source and the sink is, for every place the threads can be at; what a   *)
(* thread that left has used up; and who owns a mutex, or sleeps, and why. *)
(***************************************************************************)
EXTENDS TransferCore

\* labels of the writer with a popped buffer that it has not passed on yet
Holding == {"deliver", "plock", "prelock", "ppark", "pwait", "pput"}
\* labels of the writer between its loop test and WriterAdvance
Fetching == {"lock", "check", "park", "wait", "relock", "pop"}
PullLabels == {"plock", "prelock", "ppark", "pwait", "pput"}
\* labels of the reader with a buffer it has not pushed yet
Pushing == {"lock", "check", "park", "wait", "relock", "push"}
Left == {"exit", "result", "dead"}

ReaderLabels == {"idle", "loop", "read"} \cup Pushing \cup Left
WriterLabels == {"idle", "loop", "advance"} \cup Fetching \cup Holding \cup Left
StartLabels == {"start", "start2"}
SfuncLabels == {"sfunc", "plock", "prelock", "ppark", "pwait", "ptake"}
EndLabels == {"teardown", "result", "join", "done"}

InRing == RingSize(write_buffers)
First == PopGives(write_buffers)
Second == write_buffers.slot[(write_buffers.r + 1) % 2]

\* offsets along the way: passed on by the writer, popped, and at the ring's two ends
PassedOn == IF writer = "advance" THEN write_offset + writer_buf.len ELSE write_offset
PoppedTo == IF writer \in Holding THEN PassedOn + writer_buf.len ELSE PassedOn
PushedTo == CASE InRing = 0 -> PoppedTo
              [] InRing = 1 -> PoppedTo + First.len
              [] OTHER -> PoppedTo + First.len + Second.len

WriterAlive == write_running /\ writer # "exit"

(* Where the threads can be, given the flags. *)
Control ==
  /\ reader \in ReaderLabels /\ writer \in WriterLabels
  /\ main = "start" => reader = "idle" /\ read_running
  /\ main = "start2" => reader # "idle"
  /\ main # "start" /\ reader = "idle" => ~Healthy
  /\ main \in StartLabels \/ reader = "idle" => writer = "idle"
  /\ ~read_running => reader \in {"idle", "result", "dead"}
  /\ ~write_running => writer \in {"idle", "result", "dead"}
  /\ main \in StartLabels => write_running
  /\ writer \in {"result", "dead"} => ~write_running
  /\ reader # "dead" => read_result = "ok"
  /\ writer \notin {"idle", "dead"} \/ main \in StartLabels => write_result = "ok"
  /\ main \notin EndLabels => pull_result = "ok"
  /\ main \in SfuncLabels \/ writer \in PullLabels => pull
  /\ main = "waiting" => ~pull
  /\ writer = "idle" /\ main \notin StartLabels => write_result = "fail"

(* The units on their way lie between write_offset and read_offset without a gap, *)
(* as long as there is a writer to take them. *)
Flow ==
  /\ InRing \in 0 .. 2
  /\ reader = "read" => read_offset < Size
  /\ writer \in Fetching => write_offset < Size
  /\ PassedOn <= Size
  /\ WriterAlive =>
       /\ writer \in Holding => writer_buf.off = PassedOn /\ writer_buf.len > 0
       /\ InRing > 0 => First.off = PoppedTo /\ First.len > 0
       /\ InRing = 2 => Second.off = PoppedTo + First.len /\ Second.len > 0
       /\ PushedTo <= read_offset
       /\ reader \in Pushing =>
            /\ reader_buf.off = PushedTo /\ reader_buf.len > 0
            /\ read_offset = PushedTo + reader_buf.len
       /\ reader \in {"idle", "loop", "read"} => read_offset = PushedTo

(* pull_buffer holds what was put and not yet taken. *)
PullFlow ==
  /\ pull => taken + pull_buffer.len - pull_buffer_offset = PassedOn
  /\ IF pull_buffer.len = 0 THEN pull_buffer_offset = 0
     ELSE /\ pull_buffer_offset < pull_buffer.len
          /\ pull_buffer.off + pull_buffer_offset = taken
  /\ main \in {"prelock", "ptake"} => pull_buffer.len > 0
  /\ Healthy /\ writer \in {"prelock", "pput"} => pull_buffer.len = 0

ReaderThrough == reader \in Left \/ (reader = "loop" /\ read_offset = Size)

(* Why nobody is woken for nothing while nothing failed: once the caller is in its *)
(* teardown the data is through. *)
Wakes ==
  Healthy =>
    /\ reader \in {"relock", "push"} => InRing < 2
    /\ writer \in {"relock", "pop"} => InRing > 0
    /\ uevent_done => writer = "dead" /\ writer_rc = "ok"
    /\ pull => writer_rc = "ok"
    /\ writer \in Left /\ writer_rc = "ok" => ReaderThrough
    /\ main \in EndLabels =>
         /\ \/ writer \in Left /\ writer_rc = "ok"
            \/ writer \in {"advance", "loop"} /\ PassedOn = Size
         /\ ReaderThrough

Delivered == IF pull THEN taken ELSE PassedOn
Sink == sink = [i \in 0 .. Size - 1 |-> IF i < Delivered THEN i ELSE Empty]

\* The inductive invariant: together these facts survive every step of every thread.
IInv == TypeOK /\ Control /\ Flow /\ PullFlow /\ Wakes /\ Sink

\* the end of the source as the promise counts it, see Promise of TransferCore
PromisedEnd == IF reader_rc = "fail" THEN read_offset ELSE source_end
Ending == {"result", "join", "done"}

(* Nothing is passed on that the source does not hold; and what a transfer that is *)
(* about to report success has passed on is all of it.  A second invariant, on top *)
(* of IInv: the refinement of Delivery rests on both. *)
ThroughControl ==
  /\ reader_rc = "fail" => reader \in Left
  /\ main \in Ending => ~IsAnyRunning
  /\ returned # "none" <=> main \in {"join", "done"}

Through ==
  /\ ThroughControl
  /\ read_offset <= source_end
  /\ PassedOn <= read_offset
  /\ Healthy =>
       /\ reader \in Left /\ WriterAlive => PushedTo = read_offset
       /\ reader \in Left /\ reader_rc = "ok" => read_offset = source_end
       /\ writer \in Left /\ writer_rc = "ok" => PassedOn = PromisedEnd
       /\ pull /\ main \in EndLabels => taken = Size

(* The mutexes and the waits.  A mutex has the owner that its place says, except that *)
(* an early return of SetWriteBuf or GetWriteBuf leaves it locked. *)
Owners ==
  /\ mutex \in {"reader", "writer", Free} /\ pull_mutex \in {"writer", "main", Free}
  /\ mutex = "reader" => reader \in {"check", "park", "push"} \/ (~write_running /\ reader \notin {"wait", "relock"})
  /\ mutex = "writer" => writer \in {"check", "park", "pop"} \/ (~read_running /\ writer \in Left)
  /\ pull_mutex = "writer" => writer \in {"ppark", "pput"}
  /\ pull_mutex = "main" => main \in {"ppark", "ptake"}

(* Before the teardown unlocks what it does not own, a thread in a critical section is *)
(* alone there. *)
Alone ==
  main \notin EndLabels =>
    /\ reader \in {"check", "park", "push"} => mutex = "reader"
    /\ writer \in {"check", "park", "pop"} => mutex = "writer"
    /\ writer \in {"ppark", "pput"} => pull_mutex = "writer"
    /\ main \in {"ppark", "ptake"} => pull_mutex = "main"

(* So a thread that waits, or is about to, still has to. *)
Parked ==
  main \notin EndLabels =>
    /\ reader \in {"park", "wait"} => InRing = 2
    /\ writer \in {"park", "wait"} => InRing = 0
    /\ writer \in {"ppark", "pwait"} => pull_buffer.len > 0
    /\ main \in {"ppark", "pwait"} => pull_buffer.len = 0

(* A failure, and the end of the writer, are told to the caller of Transfer; the writer of *)
(* TransferPull fails only when somebody else did. *)
Reasons ==
  /\ main \in SfuncLabels \ {"sfunc"} => taken < Size
  /\ read_result = IF reader = "dead" THEN reader_rc ELSE "ok"
  /\ read_result = "fail" \/ write_result = "fail" \/ writer = "dead" => uevent_done
  /\ pull /\ (writer_rc = "fail" \/ write_result = "fail") =>
       cancelled \/ reader_rc = "fail" \/ main \in EndLabels

\* A third invariant, on top of the other two.
WInv == Owners /\ Alone /\ Parked /\ Reasons

\* Nobody can move: each thread has ended, waits to be woken, or for a mutex that is locked.
ReaderAsleep == reader \in {"idle", "wait", "dead"} \/ (reader \in {"lock", "relock"} /\ mutex # Free)
WriterAsleep ==
  \/ writer \in {"idle", "wait", "pwait", "dead"}
  \/ writer \in {"lock", "relock"} /\ mutex # Free
  \/ writer \in {"plock", "prelock"} /\ pull_mutex # Free
MainAsleep ==
  \/ main = "waiting" /\ ~uevent_progress /\ ~cancelled /\ ~uevent_done
  \/ main = "pwait"
  \/ main \in {"plock", "prelock"} /\ pull_mutex # Free
  \/ main = "join" /\ ~({reader, writer} \subseteq {"idle", "dead"})
NobodyStranded == ReaderAsleep /\ WriterAsleep /\ MainAsleep => Stuck
==============================================================================
