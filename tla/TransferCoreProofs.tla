-------------------------- MODULE TransferCoreProofs --------------------------
(***************************************************************************)
(* Proofs about TransferCore for every Size, BufSize, set of faults and    *)
(* both modes: IInv is inductive, and with it types, the justified waits   *)
(* and the order of delivery; Through is inductive next to it, and with    *)
(* both TransferInternal implements Delivery.  WInv, on top of the two,    *)
(* shows that the threads are never all asleep.                            *)
(***************************************************************************)
EXTENDS TransferCoreInv, TLAPS

USE SizeAssumption, BufSizeAssumption

-------------------------------------------------------------------------------
(* The ring *)

\* The two slots of a ring in the order they will be popped.
SecondOf(ring) == ring.slot[(ring.r + 1) % 2]

\* A push onto a ring with room keeps what is there and adds one behind it.
LEMMA RingPush ==
  ASSUME NEW B, NEW ring \in RingType(B), NEW b \in B, RingSize(ring) \in {0, 1}
  PROVE  /\ Pushed(ring, b) \in RingType(B)
         /\ PushLeaves(ring) \in B
         /\ RingSize(Pushed(ring, b)) = RingSize(ring) + 1
         /\ RingSize(ring) = 0 => PopGives(Pushed(ring, b)) = b
         /\ RingSize(ring) = 1 => /\ PopGives(Pushed(ring, b)) = PopGives(ring)
                                  /\ SecondOf(Pushed(ring, b)) = b
<1> DEFINE new == Pushed(ring, b)
<1>1. ring.r \in 0 .. 3 /\ ring.w \in 0 .. 3 /\ ring.slot \in [0 .. 1 -> B]
      /\ ring = [slot |-> ring.slot, r |-> ring.r, w |-> ring.w]
  BY DEF RingType, Wrap
<1>2. new = [slot |-> [ring.slot EXCEPT ![ring.w % 2] = b], r |-> ring.r, w |-> (ring.w + 1) % 4]
  BY <1>1 DEF Pushed, Wrap
<1>3. ring.w % 2 \in 0 .. 1 /\ (ring.w + 1) % 4 \in 0 .. 3
  BY <1>1
<1>4. new \in RingType(B) /\ PushLeaves(ring) \in B
  BY <1>1, <1>2, <1>3 DEF RingType, Wrap, PushLeaves
<1>5. RingSize(new) = RingSize(ring) + 1
  BY <1>1, <1>2 DEF RingSize, Wrap
<1>6. RingSize(ring) = 0 => PopGives(new) = b
  BY <1>1, <1>2 DEF RingSize, Wrap, PopGives
<1>7. RingSize(ring) = 1 => PopGives(new) = PopGives(ring) /\ SecondOf(new) = b
  BY <1>1, <1>2 DEF RingSize, Wrap, PopGives, SecondOf
<1> QED BY <1>4, <1>5, <1>6, <1>7

\* A pop from a ring with something in it moves the second buffer to the front.
LEMMA RingPop ==
  ASSUME NEW B, NEW ring \in RingType(B), NEW b \in B, RingSize(ring) \in {1, 2}
  PROVE  /\ Popped(ring, b) \in RingType(B)
         /\ PopGives(ring) \in B
         /\ RingSize(Popped(ring, b)) = RingSize(ring) - 1
         /\ RingSize(ring) = 2 => PopGives(Popped(ring, b)) = SecondOf(ring)
<1> DEFINE new == Popped(ring, b)
<1>1. ring.r \in 0 .. 3 /\ ring.w \in 0 .. 3 /\ ring.slot \in [0 .. 1 -> B]
      /\ ring = [slot |-> ring.slot, r |-> ring.r, w |-> ring.w]
  BY DEF RingType, Wrap
<1>2. new = [slot |-> [ring.slot EXCEPT ![ring.r % 2] = b], r |-> (ring.r + 1) % 4, w |-> ring.w]
  BY <1>1 DEF Popped, Wrap
<1>3. ring.r % 2 \in 0 .. 1 /\ (ring.r + 1) % 4 \in 0 .. 3
  BY <1>1
<1>4. new \in RingType(B) /\ PopGives(ring) \in B
  BY <1>1, <1>2, <1>3 DEF RingType, Wrap, PopGives
<1>5. RingSize(new) = RingSize(ring) - 1
  BY <1>1, <1>2 DEF RingSize, Wrap
<1>6. RingSize(ring) = 2 => PopGives(new) = SecondOf(ring)
  BY <1>1, <1>2 DEF RingSize, Wrap, PopGives, SecondOf
<1> QED BY <1>4, <1>5, <1>6

\* A ring's size and its front are within the types.
LEMMA RingTypes ==
  ASSUME NEW B, NEW ring \in RingType(B)
  PROVE  RingSize(ring) \in 0 .. 3 /\ PopGives(ring) \in B /\ SecondOf(ring) \in B
<1>1. ring.r \in 0 .. 3 /\ ring.w \in 0 .. 3 /\ ring.slot \in [0 .. 1 -> B]
  BY DEF RingType, Wrap
<1>2. ring.r % 2 \in 0 .. 1 /\ (ring.r + 1) % 2 \in 0 .. 1
  BY <1>1
<1> QED BY <1>1, <1>2 DEF RingSize, Wrap, PopGives, SecondOf

-------------------------------------------------------------------------------
(* The invariant's steps *)

\* What a state of the invariant says of the ring's front, typed for the provers.
LEMMA Fronts ==
  ASSUME TypeOK
  PROVE  /\ InRing \in 0 .. 3
         /\ First \in Buffer /\ First.off \in 0 .. Size /\ First.len \in 0 .. Size
         /\ Second \in Buffer /\ Second.off \in 0 .. Size /\ Second.len \in 0 .. Size
<1>1. write_buffers \in RingType(Buffer)
  BY DEF TypeOK
<1>2. InRing \in 0 .. 3 /\ First \in Buffer /\ Second \in Buffer
  BY <1>1, RingTypes DEF InRing, First, Second, SecondOf
<1> QED BY <1>2 DEF Buffer

\* The offsets along the way are numbers in ascending order.
LEMMA Chain ==
  ASSUME TypeOK
  PROVE  /\ writer_buf.len \in 0 .. Size /\ reader_buf.len \in 0 .. Size
         /\ writer_buf.off \in 0 .. Size /\ reader_buf.off \in 0 .. Size
         /\ PassedOn \in Nat /\ PoppedTo \in Nat /\ PushedTo \in Nat
         /\ write_offset <= PassedOn /\ PassedOn <= PoppedTo /\ PoppedTo <= PushedTo
         /\ writer # "advance" => PassedOn = write_offset
         /\ writer \in Holding => PoppedTo = PassedOn + writer_buf.len
         /\ InRing > 0 => PoppedTo + First.len <= PushedTo
<1>1. /\ writer_buf.len \in 0 .. Size /\ reader_buf.len \in 0 .. Size
      /\ writer_buf.off \in 0 .. Size /\ reader_buf.off \in 0 .. Size /\ write_offset \in 0 .. Size
  BY DEF TypeOK, Buffer
<1>2. PassedOn \in Nat /\ write_offset <= PassedOn /\ (writer # "advance" => PassedOn = write_offset)
  BY <1>1 DEF PassedOn
<1>3. PoppedTo \in Nat /\ PassedOn <= PoppedTo
      /\ (writer \in Holding => PoppedTo = PassedOn + writer_buf.len)
  BY <1>1, <1>2 DEF PoppedTo
<1>4. PushedTo \in Nat /\ PoppedTo <= PushedTo /\ (InRing > 0 => PoppedTo + First.len <= PushedTo)
  BY <1>3, Fronts DEF PushedTo
<1> QED BY <1>1, <1>2, <1>3, <1>4

\* Unlocking leaves a mutex with its owner or with nobody.
LEMMA Unlocks ==
  ASSUME NEW t, NEW owner \in Threads \cup {Free}, NEW m \in AfterUnlock(t, owner)
  PROVE  m \in Threads \cup {Free}
BY DEF AfterUnlock

LEMMA StepReaderLoop ==
  ASSUME IInv, ReaderLoop
  PROVE  IInv'
<1> USE DEF IInv, ReaderLoop, ReaderReturns, readerKeeps, environment, writerState, mainState, pullBuf, readerState
<1>1. TypeOK'
  BY Unlocks DEF TypeOK, Results, ThreadLabels, MainLabels, Threads, Free
<1>2. Control'
  BY DEF Control, Healthy, ReaderLabels, WriterLabels, Pushing, Left, Holding, Fetching,
         PullLabels, EndLabels, StartLabels, SfuncLabels
<1>3. Flow'
  BY Fronts DEF Flow, TypeOK, InRing, First, Second, PushedTo, PoppedTo, PassedOn,
         WriterAlive, Pushing, Left, Holding, Fetching
<1>4. PullFlow'
  BY DEF PullFlow, PassedOn, Healthy
<1>5. Wakes'
  BY DEF Wakes, Healthy, InRing, ReaderThrough, Left, PassedOn, EndLabels
<1>6. Sink'
  BY DEF Sink, Delivered, PassedOn
<1> QED BY <1>1, <1>2, <1>3, <1>4, <1>5, <1>6

LEMMA StepReaderRead ==
  ASSUME IInv, ReaderRead
  PROVE  IInv'
<1> USE DEF IInv, ReaderRead, ReaderReturns, readerKeeps, environment, writerState, mainState, pullBuf, readerState
<1>1. TypeOK'
  <2>1. CASE reader' = "exit" /\ UNCHANGED <<reader_buf, read_offset>> /\ reader_rc' \in Results
    BY <2>1 DEF TypeOK, ThreadLabels
  <2>2. ASSUME NEW n \in ReadLengths \ {0},
               reader_buf' = [off |-> read_offset, len |-> n],
               read_offset' = read_offset + n, reader' = "lock", UNCHANGED reader_rc
        PROVE  TypeOK'
    <3>1. n \in 1 .. Size /\ read_offset + n \in 0 .. Size
      BY <2>2 DEF ReadLengths, TypeOK
    <3>2. reader_buf' \in Buffer
      BY <2>2, <3>1 DEF TypeOK, Buffer
    <3> QED BY <2>2, <3>1, <3>2 DEF TypeOK, ThreadLabels
  <2> QED BY <2>1, <2>2 DEF Results
<1>2. Control'
  BY DEF Control, Healthy, ReaderLabels, WriterLabels, Pushing, Left, Holding, Fetching,
         PullLabels, EndLabels, StartLabels, SfuncLabels
<1>3. Flow'
  <2>1. CASE reader' = "exit" /\ UNCHANGED <<reader_buf, read_offset>> /\ reader_rc' \in Results
    BY <2>1, Chain DEF Flow, InRing, First, Second, PushedTo, PoppedTo, PassedOn, WriterAlive, Pushing
  <2>2. ASSUME NEW n \in ReadLengths \ {0},
               reader_buf' = [off |-> read_offset, len |-> n],
               read_offset' = read_offset + n, reader' = "lock", UNCHANGED reader_rc
        PROVE  Flow'
    <3>1. n \in 1 .. Size /\ read_offset \in 0 .. Size
      BY <2>2 DEF ReadLengths, TypeOK
    <3>2. PushedTo' = PushedTo /\ PoppedTo' = PoppedTo /\ PassedOn' = PassedOn /\ WriterAlive' = WriterAlive
          /\ InRing' = InRing /\ First' = First /\ Second' = Second
      BY DEF InRing, First, Second, PushedTo, PoppedTo, PassedOn, WriterAlive
    <3>3. reader_buf'.off = read_offset /\ reader_buf'.len = n
      BY <2>2
    <3> QED BY <2>2, <3>1, <3>2, <3>3, Chain DEF Flow, Pushing
  <2> QED BY <2>1, <2>2 DEF Results
<1>4. PullFlow'
  BY DEF PullFlow, PassedOn, Healthy
<1>5. Wakes'
  BY DEF Wakes, Healthy, InRing, ReaderThrough, Left, PassedOn, EndLabels
<1>6. Sink'
  BY DEF Sink, Delivered, PassedOn
<1> QED BY <1>1, <1>2, <1>3, <1>4, <1>5, <1>6

LEMMA StepReaderLock ==
  ASSUME IInv, ReaderLock
  PROVE  IInv'
<1> USE DEF IInv, ReaderLock, ReaderReturns, readerKeeps, environment, writerState, mainState, pullBuf, readerState
<1>1. TypeOK'
  BY Unlocks DEF TypeOK, Results, ThreadLabels, MainLabels, Threads, Free
<1>2. Control'
  BY DEF Control, Healthy, ReaderLabels, WriterLabels, Pushing, Left, Holding, Fetching,
         PullLabels, EndLabels, StartLabels, SfuncLabels
<1>3. Flow'
  BY Fronts DEF Flow, TypeOK, InRing, First, Second, PushedTo, PoppedTo, PassedOn,
         WriterAlive, Pushing, Left, Holding, Fetching
<1>4. PullFlow'
  BY DEF PullFlow, PassedOn, Healthy
<1>5. Wakes'
  BY DEF Wakes, Healthy, InRing, ReaderThrough, Left, PassedOn, EndLabels
<1>6. Sink'
  BY DEF Sink, Delivered, PassedOn
<1> QED BY <1>1, <1>2, <1>3, <1>4, <1>5, <1>6

LEMMA StepReaderCheck ==
  ASSUME IInv, ReaderCheck
  PROVE  IInv'
<1> USE DEF IInv, ReaderCheck, ReaderReturns, readerKeeps, environment, writerState, mainState, pullBuf, readerState
<1>1. TypeOK'
  BY Unlocks DEF TypeOK, Results, ThreadLabels, MainLabels, Threads, Free
<1>2. Control'
  BY DEF Control, Healthy, ReaderLabels, WriterLabels, Pushing, Left, Holding, Fetching,
         PullLabels, EndLabels, StartLabels, SfuncLabels
<1>3. Flow'
  BY Fronts DEF Flow, TypeOK, InRing, First, Second, PushedTo, PoppedTo, PassedOn,
         WriterAlive, Pushing, Left, Holding, Fetching
<1>4. PullFlow'
  BY DEF PullFlow, PassedOn, Healthy
<1>5. Wakes'
  BY DEF Wakes, Healthy, InRing, ReaderThrough, Left, PassedOn, EndLabels, RingHasRoom,
         Flow
<1>6. Sink'
  BY DEF Sink, Delivered, PassedOn
<1> QED BY <1>1, <1>2, <1>3, <1>4, <1>5, <1>6

LEMMA StepReaderPark ==
  ASSUME IInv, ReaderPark
  PROVE  IInv'
<1> USE DEF IInv, ReaderPark, ReaderReturns, readerKeeps, environment, writerState, mainState, pullBuf, readerState
<1>1. TypeOK'
  BY Unlocks DEF TypeOK, Results, ThreadLabels, MainLabels, Threads, Free
<1>2. Control'
  BY DEF Control, Healthy, ReaderLabels, WriterLabels, Pushing, Left, Holding, Fetching,
         PullLabels, EndLabels, StartLabels, SfuncLabels
<1>3. Flow'
  BY Fronts DEF Flow, TypeOK, InRing, First, Second, PushedTo, PoppedTo, PassedOn,
         WriterAlive, Pushing, Left, Holding, Fetching
<1>4. PullFlow'
  BY DEF PullFlow, PassedOn, Healthy
<1>5. Wakes'
  BY DEF Wakes, Healthy, InRing, ReaderThrough, Left, PassedOn, EndLabels
<1>6. Sink'
  BY DEF Sink, Delivered, PassedOn
<1> QED BY <1>1, <1>2, <1>3, <1>4, <1>5, <1>6

LEMMA StepReaderPush ==
  ASSUME IInv, ReaderPush
  PROVE  IInv'
<1> USE DEF IInv, ReaderPush, ReaderReturns, readerKeeps, environment, writerState, mainState, pullBuf, readerState
<1>0. Healthy => /\ write_buffers' \in RingType(Buffer) /\ reader_buf' \in Buffer
                 /\ InRing \in {0, 1} /\ InRing' = InRing + 1
                 /\ InRing = 0 => First' = reader_buf
                 /\ InRing = 1 => First' = First /\ Second' = reader_buf
  <2> SUFFICES ASSUME Healthy PROVE <1>0!2
    OBVIOUS
  <2>1. InRing \in {0, 1}
    BY DEF Wakes, Flow
  <2> QED BY <2>1, RingPush DEF TypeOK, InRing, First, Second, SecondOf
<1>00. ~Healthy => UNCHANGED <<write_buffers, reader_buf>>
  OBVIOUS
<1>1. TypeOK'
  BY Unlocks, <1>0, <1>00 DEF TypeOK, Results, ThreadLabels, MainLabels, Threads, Free
<1>2. Control'
  BY DEF Control, Healthy, ReaderLabels, WriterLabels, Pushing, Left, Holding, Fetching,
         PullLabels, EndLabels, StartLabels, SfuncLabels
<1>3. Flow'
  <2>1. CASE Healthy
    <3>1. InRing' \in 0 .. 2 /\ PassedOn' = PassedOn /\ PoppedTo' = PoppedTo
          /\ reader' = "loop" /\ WriterAlive' = WriterAlive
          /\ UNCHANGED <<read_offset, write_offset, writer_buf>>
          /\ (writer' \in Fetching => writer \in Fetching) /\ (writer' \in Holding => writer \in Holding)
      BY <2>1, <1>0 DEF PassedOn, PoppedTo, WriterAlive, Fetching, Holding
    <3>2. WriterAlive => /\ reader_buf.off = PushedTo /\ reader_buf.len > 0
                         /\ read_offset = PushedTo + reader_buf.len
      BY DEF Flow, Pushing
    <3>3. PoppedTo \in Int /\ reader_buf.len \in Int /\ First.len \in Int /\ Second.len \in Int
      <4>1. PoppedTo \in Nat /\ reader_buf.len \in 0 .. Size
        BY Chain
      <4>2. First.len \in 0 .. Size /\ Second.len \in 0 .. Size
        BY Fronts
      <4> QED BY <4>1, <4>2
    <3>4. WriterAlive => PushedTo' = PushedTo + reader_buf.len
      BY <2>1, <1>0, <3>1, <3>3 DEF PushedTo
    <3>5. WriterAlive => /\ InRing' > 0 => First'.off = PoppedTo /\ First'.len > 0
                         /\ InRing' = 2 => Second'.off = PoppedTo + First'.len /\ Second'.len > 0
      BY <2>1, <1>0, <3>1, <3>2, <3>3 DEF PushedTo, Flow
    <3> QED BY <3>1, <3>2, <3>4, <3>5, Fronts DEF Flow, TypeOK, Pushing
  <2>2. CASE ~Healthy
    BY <2>2, <1>00, Fronts DEF Flow, TypeOK, InRing, First, Second, PushedTo, PoppedTo, PassedOn,
       WriterAlive, Pushing, Left, Holding, Fetching
  <2> QED BY <2>1, <2>2
<1>4. PullFlow'
  BY DEF PullFlow, PassedOn, Healthy
<1>5. Wakes'
  BY <1>0, <1>00 DEF Wakes, Healthy, InRing, ReaderThrough, Left, PassedOn, EndLabels,
         Flow
<1>6. Sink'
  BY DEF Sink, Delivered, PassedOn
<1> QED BY <1>1, <1>2, <1>3, <1>4, <1>5, <1>6

LEMMA StepReaderExit ==
  ASSUME IInv, ReaderExit
  PROVE  IInv'
<1> USE DEF IInv, ReaderExit, ReaderReturns, readerKeeps, environment, writerState, mainState, pullBuf, readerState
<1>1. TypeOK'
  <2>1. read_running' \in BOOLEAN
    BY Zenon DEF TypeOK
  <2>2. reader' = "result" /\ UNCHANGED <<readerKeeps, writer, reader_buf, reader_rc, read_offset,
                                         read_result, mutex, write_buffers, uevent_done>>
    BY Zenon
  <2> HIDE DEF ReaderExit
  <2> QED BY <2>1, <2>2 DEF TypeOK, ThreadLabels
<1>2. Control'
  BY DEF Control, Healthy, ReaderLabels, WriterLabels, Pushing, Left, Holding, Fetching,
         PullLabels, EndLabels, StartLabels, SfuncLabels
<1>3. Flow'
  BY Fronts DEF Flow, TypeOK, InRing, First, Second, PushedTo, PoppedTo, PassedOn,
         WriterAlive, Pushing, Left, Holding, Fetching
<1>4. PullFlow'
  BY DEF PullFlow, PassedOn, Healthy
<1>5. Wakes'
  BY DEF Wakes, Healthy, InRing, ReaderThrough, Left, PassedOn, EndLabels
<1>6. Sink'
  BY DEF Sink, Delivered, PassedOn
<1> QED BY <1>1, <1>2, <1>3, <1>4, <1>5, <1>6

LEMMA StepReaderResult ==
  ASSUME IInv, ReaderResult
  PROVE  IInv'
<1> USE DEF IInv, ReaderResult, ReaderReturns, readerKeeps, environment, writerState, mainState, pullBuf, readerState
<1>1. TypeOK'
  BY Unlocks DEF TypeOK, Results, ThreadLabels, MainLabels, Threads, Free
<1>2. Control'
  BY DEF Control, Healthy, ReaderLabels, WriterLabels, Pushing, Left, Holding, Fetching,
         PullLabels, EndLabels, StartLabels, SfuncLabels
<1>3. Flow'
  BY Fronts DEF Flow, TypeOK, InRing, First, Second, PushedTo, PoppedTo, PassedOn,
         WriterAlive, Pushing, Left, Holding, Fetching
<1>4. PullFlow'
  BY DEF PullFlow, PassedOn, Healthy, Control, TypeOK, Results
<1>5. Wakes'
  BY DEF Wakes, Healthy, InRing, ReaderThrough, Left, PassedOn, EndLabels, Control,
         TypeOK, Results
<1>6. Sink'
  BY DEF Sink, Delivered, PassedOn
<1> QED BY <1>1, <1>2, <1>3, <1>4, <1>5, <1>6

LEMMA StepWriterLoop ==
  ASSUME IInv, WriterLoop
  PROVE  IInv'
<1> USE DEF IInv, WriterLoop, WriterReturns, writerKeeps, environment, readerState, writerState, mainState, pullBuf
<1>1. TypeOK'
  BY Unlocks DEF TypeOK, Results, ThreadLabels, MainLabels, Threads, Free
<1>2. Control'
  BY DEF Control, Healthy, ReaderLabels, WriterLabels, Pushing, Left, Holding, Fetching,
         PullLabels, EndLabels, StartLabels, SfuncLabels
<1>3. Flow'
  BY Fronts DEF Flow, TypeOK, InRing, First, Second, PushedTo, PoppedTo, PassedOn,
         WriterAlive, Pushing, Left, Holding, Fetching
<1>4. PullFlow'
  BY DEF PullFlow, PassedOn, Healthy
<1>5. Wakes'
  <2>1. CASE writer' = "exit" /\ Healthy
    <3>1. write_offset = Size /\ WriterAlive /\ writer \notin Holding
      BY <2>1 DEF TypeOK, Control, WriterAlive, Holding
    <3>2. PushedTo = Size /\ read_offset = Size
      BY <3>1, Chain DEF Flow, TypeOK
    <3>3. ReaderThrough
      BY <2>1, <3>1, <3>2, Chain DEF Flow, Control, ReaderLabels, ReaderThrough
    <3>4. writer' = "exit" /\ writer_rc' = "ok" /\ (uevent_done => writer = "dead") /\ ReaderThrough'
          /\ UNCHANGED <<reader, write_buffers, main, uevent_done>>
      BY <2>1, <3>3 DEF Wakes, ReaderThrough
    <3> QED BY <2>1, <3>4 DEF Wakes, Healthy, Left, InRing
  <2>2. CASE writer' = "lock" /\ Healthy
    BY <2>2 DEF Wakes, Healthy, InRing, ReaderThrough, Left, PassedOn, EndLabels, Flow, TypeOK
  <2>3. CASE ~Healthy
    BY <2>3 DEF Wakes, Healthy
  <2> QED BY <2>1, <2>2, <2>3
<1>6. Sink'
  BY DEF Sink, Delivered, PassedOn
<1> QED BY <1>1, <1>2, <1>3, <1>4, <1>5, <1>6

LEMMA StepWriterLock ==
  ASSUME IInv, WriterLock
  PROVE  IInv'
<1> USE DEF IInv, WriterLock, WriterReturns, writerKeeps, environment, readerState, writerState, mainState, pullBuf
<1>1. TypeOK'
  BY Unlocks DEF TypeOK, Results, ThreadLabels, MainLabels, Threads, Free
<1>2. Control'
  BY DEF Control, Healthy, ReaderLabels, WriterLabels, Pushing, Left, Holding, Fetching,
         PullLabels, EndLabels, StartLabels, SfuncLabels
<1>3. Flow'
  BY Fronts DEF Flow, TypeOK, InRing, First, Second, PushedTo, PoppedTo, PassedOn,
         WriterAlive, Pushing, Left, Holding, Fetching
<1>4. PullFlow'
  BY DEF PullFlow, PassedOn, Healthy
<1>5. Wakes'
  BY DEF Wakes, Healthy, InRing, ReaderThrough, Left, PassedOn, EndLabels
<1>6. Sink'
  BY DEF Sink, Delivered, PassedOn
<1> QED BY <1>1, <1>2, <1>3, <1>4, <1>5, <1>6

LEMMA StepWriterCheck ==
  ASSUME IInv, WriterCheck
  PROVE  IInv'
<1> USE DEF IInv, WriterCheck, WriterReturns, writerKeeps, environment, readerState, writerState, mainState, pullBuf
<1>1. TypeOK'
  BY Unlocks DEF TypeOK, Results, ThreadLabels, MainLabels, Threads, Free, Buffer,
         NoBuffer
<1>2. Control'
  BY DEF Control, Healthy, ReaderLabels, WriterLabels, Pushing, Left, Holding, Fetching,
         PullLabels, EndLabels, StartLabels, SfuncLabels
<1>3. Flow'
  BY Fronts DEF Flow, TypeOK, InRing, First, Second, PushedTo, PoppedTo, PassedOn,
         WriterAlive, Pushing, Left, Holding, Fetching
<1>4. PullFlow'
  BY DEF PullFlow, PassedOn, Healthy
<1>5. Wakes'
  BY DEF Wakes, Healthy, InRing, ReaderThrough, Left, PassedOn, EndLabels, RingIsEmpty,
         Flow, Control
<1>6. Sink'
  BY DEF Sink, Delivered, PassedOn
<1> QED BY <1>1, <1>2, <1>3, <1>4, <1>5, <1>6

LEMMA StepWriterPark ==
  ASSUME IInv, WriterPark
  PROVE  IInv'
<1> USE DEF IInv, WriterPark, WriterReturns, writerKeeps, environment, readerState, writerState, mainState, pullBuf
<1>1. TypeOK'
  BY Unlocks DEF TypeOK, Results, ThreadLabels, MainLabels, Threads, Free
<1>2. Control'
  BY DEF Control, Healthy, ReaderLabels, WriterLabels, Pushing, Left, Holding, Fetching,
         PullLabels, EndLabels, StartLabels, SfuncLabels
<1>3. Flow'
  BY Fronts DEF Flow, TypeOK, InRing, First, Second, PushedTo, PoppedTo, PassedOn,
         WriterAlive, Pushing, Left, Holding, Fetching
<1>4. PullFlow'
  BY DEF PullFlow, PassedOn, Healthy
<1>5. Wakes'
  BY DEF Wakes, Healthy, InRing, ReaderThrough, Left, PassedOn, EndLabels
<1>6. Sink'
  BY DEF Sink, Delivered, PassedOn
<1> QED BY <1>1, <1>2, <1>3, <1>4, <1>5, <1>6

\* A pop only changes hands: nothing between the source and the sink moves.
LEMMA PopMoves ==
  ASSUME IInv, WriterPop, Healthy
  PROVE  /\ PassedOn' = PassedOn /\ PushedTo' = PushedTo /\ writer' = "deliver"
         /\ WriterAlive /\ WriterAlive'
         /\ write_buffers' \in RingType(Buffer) /\ writer_buf' = First
         /\ InRing \in {1, 2} /\ InRing' = InRing - 1
         /\ InRing = 2 => First' = Second
<1> USE DEF IInv, WriterPop, WriterReturns, writerKeeps, environment, readerState, writerState,
         mainState, pullBuf
<1>0. /\ write_buffers' \in RingType(Buffer) /\ writer_buf' = First
      /\ InRing \in {1, 2} /\ InRing' = InRing - 1
      /\ InRing = 2 => First' = Second
  <2>1. InRing \in {1, 2}
    BY DEF Wakes, Flow
  <2> QED BY <2>1, RingPop DEF TypeOK, InRing, First, Second, SecondOf
<1>1. writer' = "deliver" /\ WriterAlive
  BY <1>0, Fronts DEF Flow, Control, WriterAlive, PoppedTo, Holding
<1>2. PassedOn' = PassedOn /\ PoppedTo = PassedOn /\ PoppedTo' = PassedOn + First.len /\ WriterAlive'
  BY <1>0, <1>1 DEF PassedOn, PoppedTo, WriterAlive, Holding
<1>3. PassedOn \in Int /\ First.len \in Int /\ Second.len \in Int
  BY Fronts, Chain
<1>4. PushedTo' = PushedTo
  BY <1>0, <1>2, <1>3 DEF PushedTo
<1> QED BY <1>0, <1>1, <1>2, <1>4

LEMMA StepWriterPop ==
  ASSUME IInv, WriterPop
  PROVE  IInv'
<1> USE DEF IInv, WriterPop, WriterReturns, writerKeeps, environment, readerState, writerState, mainState, pullBuf
<1>0. Healthy => /\ write_buffers' \in RingType(Buffer) /\ writer_buf' = First
                 /\ InRing \in {1, 2} /\ InRing' = InRing - 1
                 /\ InRing = 2 => First' = Second
  BY PopMoves
<1>00. ~Healthy => UNCHANGED <<write_buffers, writer_buf>>
  OBVIOUS
<1>000. Healthy => /\ writer' = "deliver" /\ WriterAlive /\ First.off = PassedOn /\ First.len > 0
                   /\ UNCHANGED writer_rc
  BY <1>0, Fronts DEF Flow, Control, WriterAlive, PoppedTo, Holding
<1>1. TypeOK'
  BY Unlocks, <1>0, <1>00, Fronts DEF TypeOK, Results, ThreadLabels, MainLabels,
         Threads, Free
<1>2. Control'
  BY DEF Control, Healthy, ReaderLabels, WriterLabels, Pushing, Left, Holding, Fetching,
         PullLabels, EndLabels, StartLabels, SfuncLabels
<1>3. Flow'
  <2>1. CASE Healthy
    <3>1. /\ PassedOn' = PassedOn /\ PoppedTo = PassedOn /\ PoppedTo' = PassedOn + First.len
          /\ WriterAlive' /\ UNCHANGED <<read_offset, write_offset, reader_buf>>
          /\ reader' = reader \/ (reader = "wait" /\ reader' = "relock")
          /\ write_offset < Size
      BY <2>1, <1>0, <1>000 DEF PassedOn, PoppedTo, WriterAlive, Fetching, Holding, Flow
    <3>2. Second.len \in Int /\ First.len \in Int
      BY Fronts
    <3>3. PushedTo' = PushedTo
      BY <2>1, PopMoves DEF IInv
    <3> HIDE DEF WriterPop
    <3> QED BY SMTT(20), <2>1, <1>0, <1>000, <3>1, <3>2, <3>3, Fronts DEF Flow, TypeOK, Pushing, Fetching, Holding
  <2>2. CASE ~Healthy
    BY <2>2, <1>00, Fronts DEF Flow, TypeOK, InRing, First, Second, PushedTo, PoppedTo, PassedOn,
       WriterAlive, Pushing, Left, Holding, Fetching
  <2> QED BY <2>1, <2>2
<1>4. PullFlow'
  BY DEF PullFlow, PassedOn, Healthy
<1>5. Wakes'
  BY <1>0, <1>00, <1>000 DEF Wakes, Healthy, InRing, ReaderThrough, Left, PassedOn,
         EndLabels, Flow, Control
<1>6. Sink'
  BY DEF Sink, Delivered, PassedOn
<1> QED BY <1>1, <1>2, <1>3, <1>4, <1>5, <1>6

LEMMA StepWriterDeliver ==
  ASSUME IInv, WriterDeliver
  PROVE  IInv'
<1> USE DEF IInv, WriterDeliver, WriterReturns, writerKeeps, environment, readerState, writerState, mainState, pullBuf
<1>0. writer_buf.off = PassedOn /\ PassedOn = write_offset /\ writer_buf.len \in 1 .. Size
      /\ write_offset + writer_buf.len <= read_offset /\ read_offset <= Size /\ WriterAlive
  <2>1. WriterAlive /\ writer \in Holding
    BY DEF Control, WriterAlive, Holding
  <2>2. writer_buf.off = PassedOn /\ writer_buf.len > 0 /\ writer_buf \in Buffer
    BY <2>1 DEF Flow, TypeOK
  <2>3. PassedOn = write_offset
    BY <2>1 DEF Control, PassedOn, TypeOK
  <2>4. write_offset + writer_buf.len <= read_offset /\ read_offset \in 0 .. Size /\ write_offset \in 0 .. Size
    BY <2>1, <2>2, <2>3, Chain DEF Flow, TypeOK
  <2>5. writer_buf.len \in 1 .. Size
    BY <2>2, <2>4 DEF Buffer
  <2> QED BY <2>1, <2>2, <2>3, <2>4, <2>5
<1>1. TypeOK'
  <2>1. sink' \in [0 .. Size - 1 -> 0 .. Size]
    <3>1. writer_buf.off + writer_buf.len <= Size /\ sink \in [0 .. Size - 1 -> 0 .. Size]
          /\ writer_buf.off = write_offset /\ write_offset \in 0 .. Size
      BY <1>0 DEF TypeOK
    <3>2. CASE UNCHANGED sink
      BY <3>1, <3>2
    <3>3. CASE Deliver(write_offset, writer_buf)
      BY <3>1, <3>3, <1>0 DEF Deliver
    <3> QED BY <3>2, <3>3
  <2> QED BY <2>1 DEF TypeOK, Results, ThreadLabels
<1>2. Control'
  BY DEF Control, Healthy, ReaderLabels, WriterLabels, Pushing, Left, Holding, Fetching,
         PullLabels, EndLabels, StartLabels, SfuncLabels
<1>3. Flow'
  <2>1. /\ InRing' = InRing /\ First' = First /\ Second' = Second /\ UNCHANGED writer_buf
        /\ UNCHANGED <<reader, reader_buf, read_offset, write_offset, write_running>>
        /\ writer' \in {"advance", "exit", "plock"}
    BY DEF InRing, First, Second
  <2>2. CASE writer' = "exit"
    BY <2>1, <2>2, Fronts, <1>0 DEF Flow, TypeOK, PassedOn, WriterAlive, Fetching
  <2>3. CASE writer' # "exit"
    <3>1. WriterAlive' /\ PassedOn' <= Size /\ writer' \notin Fetching
          /\ (writer' \in Holding => PassedOn' = PassedOn)
      BY <2>1, <2>3, <1>0 DEF TypeOK, PassedOn, WriterAlive, Fetching, Holding
    <3>2. PoppedTo' = PoppedTo
      BY <2>1, <2>3, <1>0 DEF PoppedTo, PassedOn, Holding
    <3>3. PushedTo' = PushedTo
      BY <2>1, <3>2 DEF PushedTo
    <3> QED BY <2>1, <2>3, <3>1, <3>2, <3>3, <1>0, Chain DEF Flow
  <2> QED BY <2>2, <2>3
<1>4. PullFlow'
  BY DEF PullFlow, PassedOn, Healthy
<1>5. Wakes'
  BY DEF Wakes, Healthy, InRing, ReaderThrough, Left, PassedOn, EndLabels
<1>6. Sink'
  <2>1. CASE pull
    BY <2>1 DEF Sink, Delivered
  <2>2. CASE ~pull /\ UNCHANGED sink /\ writer' = "exit"
    BY <2>2 DEF Sink, Delivered, PassedOn
  <2>3. CASE ~pull /\ Deliver(write_offset, writer_buf) /\ writer' = "advance"
    <3>1. Delivered = write_offset /\ Delivered' = write_offset + writer_buf.len
      BY <2>3, <1>0 DEF Delivered, PassedOn
    <3> QED BY <2>3, <3>1, <1>0 DEF Sink, Deliver, TypeOK, Empty
  <2> QED BY <2>1, <2>2, <2>3
<1> QED BY <1>1, <1>2, <1>3, <1>4, <1>5, <1>6

LEMMA StepWriterPullLock ==
  ASSUME IInv, WriterPullLock
  PROVE  IInv'
<1> USE DEF IInv, WriterPullLock, WriterReturns, writerKeeps, environment, readerState, writerState, mainState, pullBuf
<1>1. TypeOK'
  BY Unlocks DEF TypeOK, Results, ThreadLabels, MainLabels, Threads, Free
<1>2. Control'
  BY DEF Control, Healthy, ReaderLabels, WriterLabels, Pushing, Left, Holding, Fetching,
         PullLabels, EndLabels, StartLabels, SfuncLabels
<1>3. Flow'
  BY Fronts DEF Flow, TypeOK, InRing, First, Second, PushedTo, PoppedTo, PassedOn,
         WriterAlive, Pushing, Left, Holding, Fetching
<1>4. PullFlow'
  BY DEF PullFlow, PassedOn, Healthy
<1>5. Wakes'
  BY DEF Wakes, Healthy, InRing, ReaderThrough, Left, PassedOn, EndLabels
<1>6. Sink'
  BY DEF Sink, Delivered, PassedOn
<1> QED BY <1>1, <1>2, <1>3, <1>4, <1>5, <1>6

LEMMA StepWriterPullPark ==
  ASSUME IInv, WriterPullPark
  PROVE  IInv'
<1> USE DEF IInv, WriterPullPark, WriterReturns, writerKeeps, environment, readerState, writerState, mainState, pullBuf
<1>1. TypeOK'
  BY Unlocks DEF TypeOK, Results, ThreadLabels, MainLabels, Threads, Free
<1>2. Control'
  BY DEF Control, Healthy, ReaderLabels, WriterLabels, Pushing, Left, Holding, Fetching,
         PullLabels, EndLabels, StartLabels, SfuncLabels
<1>3. Flow'
  BY Fronts DEF Flow, TypeOK, InRing, First, Second, PushedTo, PoppedTo, PassedOn,
         WriterAlive, Pushing, Left, Holding, Fetching
<1>4. PullFlow'
  BY DEF PullFlow, PassedOn, Healthy
<1>5. Wakes'
  BY DEF Wakes, Healthy, InRing, ReaderThrough, Left, PassedOn, EndLabels
<1>6. Sink'
  BY DEF Sink, Delivered, PassedOn
<1> QED BY <1>1, <1>2, <1>3, <1>4, <1>5, <1>6

LEMMA StepWriterPullPut ==
  ASSUME IInv, WriterPullPut
  PROVE  IInv'
<1> USE DEF IInv, WriterPullPut, WriterReturns, writerKeeps, environment, readerState, writerState, mainState, pullBuf
<1>0. writer_buf.off = PassedOn /\ PassedOn = write_offset /\ writer_buf.len \in 1 .. Size
      /\ write_offset + writer_buf.len <= read_offset /\ read_offset <= Size /\ WriterAlive
  <2>1. WriterAlive /\ writer \in Holding /\ writer # "advance"
    BY DEF Control, WriterAlive, Holding
  <2>2. TypeOK /\ Flow
    OBVIOUS
  <2> HIDE DEF WriterPullPut, IInv
  <2> QED BY <2>1, <2>2, Chain DEF Flow, TypeOK
<1>1. TypeOK'
  BY Unlocks DEF TypeOK, Results, ThreadLabels, MainLabels, Threads, Free
<1>2. Control'
  BY DEF Control, Healthy, ReaderLabels, WriterLabels, Pushing, Left, Holding, Fetching,
         PullLabels, EndLabels, StartLabels, SfuncLabels
<1>3. Flow'
  <2>1. /\ InRing' = InRing /\ First' = First /\ Second' = Second /\ UNCHANGED writer_buf
        /\ UNCHANGED <<reader, reader_buf, read_offset, write_offset, write_running>>
        /\ writer' \in {"advance", "exit"}
    BY DEF InRing, First, Second
  <2>2. CASE writer' = "exit"
    BY <2>1, <2>2, Fronts, <1>0 DEF Flow, TypeOK, PassedOn, WriterAlive, Fetching
  <2>3. CASE writer' = "advance"
    <3>1. WriterAlive' /\ PoppedTo' = PoppedTo /\ PassedOn' <= Size
          /\ PushedTo' = PushedTo /\ writer' \notin Fetching \cup Holding
      BY <2>1, <2>3, <1>0, Fronts DEF TypeOK, Buffer, PassedOn, PoppedTo, PushedTo, WriterAlive, Fetching, Holding
    <3> QED BY <2>1, <2>3, <3>1, <1>0, Fronts DEF Flow, TypeOK, Pushing
  <2> QED BY <2>1, <2>2, <2>3
<1>4. PullFlow'
  <2>1. taken \in Int /\ pull_buffer.len \in Nat /\ pull_buffer_offset \in Nat
        /\ pull_buffer.off \in Nat /\ UNCHANGED <<taken, pull_buffer_offset, write_offset, writer_buf>>
    BY DEF TypeOK, Buffer
  <2>2. CASE ~Healthy
    BY <2>1, <2>2, <1>0 DEF PullFlow, PassedOn, Healthy
  <2>3. CASE Healthy
    <3>1. pull_buffer.len = 0 /\ pull_buffer_offset = 0 /\ pull_buffer' = writer_buf
          /\ writer' = "advance" /\ pull
      BY <2>1, <2>3 DEF PullFlow, Control, PullLabels
    <3>2. taken = PassedOn /\ PassedOn' = PassedOn + writer_buf.len
      BY <2>1, <3>1, <1>0 DEF PullFlow, PassedOn
    <3> QED BY <2>1, <3>1, <3>2, <1>0 DEF PullFlow
  <2> QED BY <2>2, <2>3
<1>5. Wakes'
  BY DEF Wakes, Healthy, InRing, ReaderThrough, Left, PassedOn, EndLabels
<1>6. Sink'
  BY DEF Sink, Delivered, PassedOn, Control, PullLabels
<1> QED BY <1>1, <1>2, <1>3, <1>4, <1>5, <1>6

LEMMA StepWriterAdvance ==
  ASSUME IInv, WriterAdvance
  PROVE  IInv'
<1> USE DEF IInv, WriterAdvance, WriterReturns, writerKeeps, environment, readerState, writerState, mainState, pullBuf
<1>1. TypeOK'
  BY Unlocks DEF TypeOK, Results, ThreadLabels, MainLabels, Threads, Free, Flow,
         PassedOn, Buffer
<1>2. Control'
  BY DEF Control, Healthy, ReaderLabels, WriterLabels, Pushing, Left, Holding, Fetching,
         PullLabels, EndLabels, StartLabels, SfuncLabels
<1>3. Flow'
  BY Fronts DEF Flow, TypeOK, InRing, First, Second, PushedTo, PoppedTo, PassedOn,
         WriterAlive, Pushing, Left, Holding, Fetching
<1>4. PullFlow'
  BY DEF PullFlow, PassedOn, Healthy
<1>5. Wakes'
  BY DEF Wakes, Healthy, InRing, ReaderThrough, Left, PassedOn, EndLabels
<1>6. Sink'
  BY DEF Sink, Delivered, PassedOn
<1> QED BY <1>1, <1>2, <1>3, <1>4, <1>5, <1>6

LEMMA StepWriterExit ==
  ASSUME IInv, WriterExit
  PROVE  IInv'
<1> USE DEF IInv, WriterExit, WriterReturns, writerKeeps, environment, readerState, writerState, mainState, pullBuf
<1>1. TypeOK'
  <2>1. write_running' \in BOOLEAN
    BY Zenon DEF TypeOK
  <2>2. writer' = "result" /\ UNCHANGED <<writerKeeps, reader, main, writer_buf, writer_rc,
                 write_offset, write_result, mutex, pull_mutex, write_buffers, pullBuf,
                 uevent_done, uevent_progress, sink>>
    BY Zenon
  <2> HIDE DEF WriterExit
  <2> QED BY <2>1, <2>2 DEF TypeOK, ThreadLabels
<1>2. Control'
  BY DEF Control, Healthy, ReaderLabels, WriterLabels, Pushing, Left, Holding, Fetching,
         PullLabels, EndLabels, StartLabels, SfuncLabels
<1>3. Flow'
  BY Fronts DEF Flow, TypeOK, InRing, First, Second, PushedTo, PoppedTo, PassedOn,
         WriterAlive, Pushing, Left, Holding, Fetching
<1>4. PullFlow'
  BY DEF PullFlow, PassedOn, Healthy
<1>5. Wakes'
  BY DEF Wakes, Healthy, InRing, ReaderThrough, Left, PassedOn, EndLabels
<1>6. Sink'
  BY DEF Sink, Delivered, PassedOn
<1> QED BY <1>1, <1>2, <1>3, <1>4, <1>5, <1>6

LEMMA StepWriterResult ==
  ASSUME IInv, WriterResult
  PROVE  IInv'
<1> USE DEF IInv, WriterResult, WriterReturns, writerKeeps, environment, readerState, writerState, mainState, pullBuf
<1>1. TypeOK'
  BY Unlocks DEF TypeOK, Results, ThreadLabels, MainLabels, Threads, Free
<1>2. Control'
  BY DEF Control, Healthy, ReaderLabels, WriterLabels, Pushing, Left, Holding, Fetching,
         PullLabels, EndLabels, StartLabels, SfuncLabels
<1>3. Flow'
  BY Fronts DEF Flow, TypeOK, InRing, First, Second, PushedTo, PoppedTo, PassedOn,
         WriterAlive, Pushing, Left, Holding, Fetching
<1>4. PullFlow'
  BY DEF PullFlow, PassedOn, Healthy
<1>5. Wakes'
  BY DEF Wakes, Healthy, InRing, ReaderThrough, Left, PassedOn, EndLabels, Control,
         TypeOK, Results
<1>6. Sink'
  BY DEF Sink, Delivered, PassedOn
<1> QED BY <1>1, <1>2, <1>3, <1>4, <1>5, <1>6

LEMMA StepMainStarts ==
  ASSUME IInv, MainStarts
  PROVE  IInv'
<1> USE DEF IInv, MainStarts, mainKeeps, environment, pullKeeps, pullBuf, mainState, MainStart, SfuncReturns
<1>0. \/ main = "start" /\ reader' = "loop" /\ main' = "start2" /\ writer' = writer
      \/ /\ main = "start2" /\ writer' = "loop" /\ reader' = reader
         /\ main' = IF pull THEN "sfunc" ELSE "waiting"
  OBVIOUS
<1>00. UNCHANGED <<mainKeeps, write_result, read_running, write_running, mainState, mutex,
                 pull_mutex, pullBuf, uevent_done, uevent_progress, sink>>
  OBVIOUS
<1>000. writer = "idle" /\ PassedOn' = PassedOn /\ PoppedTo' = PoppedTo /\ PushedTo' = PushedTo
        /\ InRing' = InRing /\ First' = First /\ Second' = Second /\ WriterAlive' = WriterAlive
        /\ Healthy' = Healthy
  BY <1>0, <1>00 DEF Control, StartLabels, PassedOn, PoppedTo, PushedTo, InRing, First, Second,
     WriterAlive, Holding, Healthy
<1> HIDE DEF MainStarts
<1>1. TypeOK'
  BY Unlocks, <1>0, <1>00 DEF TypeOK, Results, ThreadLabels, MainLabels, Threads, Free
<1>2. Control'
  BY <1>0, <1>00, <1>000 DEF Control, ReaderLabels, WriterLabels, Pushing, Left, Holding, Fetching,
     PullLabels, EndLabels, StartLabels, SfuncLabels
<1>3. Flow'
  BY <1>0, <1>00, <1>000 DEF Flow, Control, StartLabels, Holding, Fetching, Pushing
<1>4. PullFlow'
  BY <1>0, <1>00, <1>000 DEF PullFlow
<1>5. Wakes'
  BY <1>0, <1>00, <1>000 DEF Wakes, ReaderThrough, Left, EndLabels
<1>6. Sink'
  BY <1>00, <1>000 DEF Sink, Delivered
<1> QED BY <1>1, <1>2, <1>3, <1>4, <1>5, <1>6

LEMMA StepMainStartFails ==
  ASSUME IInv, MainStartFails
  PROVE  IInv'
<1> USE DEF IInv, MainStartFails, mainKeeps, environment, pullKeeps, pullBuf, mainState, MainStart, SfuncReturns
<1>1. TypeOK'
  <2>1. read_running' \in BOOLEAN /\ write_running' \in BOOLEAN /\ uevent_done' \in BOOLEAN
    BY Zenon DEF TypeOK
  <2>2. write_result' = "fail" /\ main' \in {"teardown", "waiting"} /\ pull_result' \in {"fail", pull_result}
        /\ UNCHANGED <<mainKeeps, reader, writer, taken, returned, mutex, pull_mutex,
                       pullBuf, uevent_progress, sink>>
    BY Zenon
  <2> HIDE DEF MainStartFails
  <2> QED BY <2>1, <2>2 DEF TypeOK, MainLabels, Results
<1>2. Control'
  BY DEF Control, Healthy, ReaderLabels, WriterLabels, Pushing, Left, Holding, Fetching,
         PullLabels, EndLabels, StartLabels, SfuncLabels
<1>3. Flow'
  BY Fronts DEF Flow, TypeOK, InRing, First, Second, PushedTo, PoppedTo, PassedOn,
         WriterAlive, Pushing, Left, Holding, Fetching
<1>4. PullFlow'
  BY DEF PullFlow, PassedOn, Healthy
<1>5. Wakes'
  BY DEF Wakes, Healthy, InRing, ReaderThrough, Left, PassedOn, EndLabels
<1>6. Sink'
  BY DEF Sink, Delivered, PassedOn
<1> QED BY <1>1, <1>2, <1>3, <1>4, <1>5, <1>6

LEMMA StepMainWaits ==
  ASSUME IInv, MainWaits
  PROVE  IInv'
<1> USE DEF IInv, MainWaits, mainKeeps, environment, pullKeeps, pullBuf, mainState, MainStart, SfuncReturns
<1>1. TypeOK'
  <2>1. uevent_progress' \in BOOLEAN
    BY Zenon DEF TypeOK
  <2>2. main' \in {main, "teardown"}
        /\ UNCHANGED <<mainKeeps, reader, writer, write_result, read_running, write_running,
                       pull_result, taken, returned, mutex, pull_mutex, pullBuf, uevent_done, sink>>
    BY Zenon
  <2> HIDE DEF MainWaits
  <2> QED BY <2>1, <2>2 DEF TypeOK, MainLabels
<1>2. Control'
  BY DEF Control, Healthy, ReaderLabels, WriterLabels, Pushing, Left, Holding, Fetching,
         PullLabels, EndLabels, StartLabels, SfuncLabels
<1>3. Flow'
  BY Fronts DEF Flow, TypeOK, InRing, First, Second, PushedTo, PoppedTo, PassedOn,
         WriterAlive, Pushing, Left, Holding, Fetching
<1>4. PullFlow'
  BY DEF PullFlow, PassedOn, Healthy
<1>5. Wakes'
  BY DEF Wakes, Healthy, InRing, ReaderThrough, Left, PassedOn, EndLabels
<1>6. Sink'
  BY DEF Sink, Delivered, PassedOn
<1> QED BY <1>1, <1>2, <1>3, <1>4, <1>5, <1>6

LEMMA StepMainSfunc ==
  ASSUME IInv, MainSfunc
  PROVE  IInv'
<1> USE DEF IInv, MainSfunc, mainKeeps, environment, pullKeeps, pullBuf, mainState, MainStart, SfuncReturns
<1>1. TypeOK'
  <2>1. uevent_done' \in BOOLEAN
    BY Zenon DEF TypeOK
  <2>2. main' \in {"plock", "teardown"} /\ pull_result' \in {pull_result, "ok", "fail"}
        /\ UNCHANGED <<pullKeeps, writer, taken, pull_mutex, pullBuf, sink>>
    BY Zenon
  <2> HIDE DEF MainSfunc
  <2> QED BY <2>1, <2>2 DEF TypeOK, MainLabels, Results
<1>2. Control'
  BY DEF Control, Healthy, ReaderLabels, WriterLabels, Pushing, Left, Holding, Fetching,
         PullLabels, EndLabels, StartLabels, SfuncLabels
<1>3. Flow'
  BY Fronts DEF Flow, TypeOK, InRing, First, Second, PushedTo, PoppedTo, PassedOn,
         WriterAlive, Pushing, Left, Holding, Fetching
<1>4. PullFlow'
  BY DEF PullFlow, PassedOn, Healthy, Control, EndLabels, StartLabels, SfuncLabels
<1>5. Wakes'
  <2>1. CASE main' = "plock" /\ UNCHANGED <<pull_result, uevent_done>>
    BY <2>1 DEF Wakes, Healthy, InRing, ReaderThrough, Left, PassedOn, EndLabels
  <2>2. CASE SfuncReturns("fail")
    BY <2>2 DEF Wakes, Healthy
  <2>3. CASE taken = Size /\ SfuncReturns("ok") /\ Healthy
    <3>1. pull /\ pull_result = "ok" /\ writer_rc = "ok" /\ writer # "idle" /\ reader # "idle"
      BY <2>3 DEF Control, EndLabels, StartLabels, SfuncLabels, Wakes, Healthy
    <3>2. PassedOn = Size
      <4>1. Size <= PassedOn /\ PassedOn <= Size
        BY <2>3, <3>1, Chain DEF PullFlow, Flow, TypeOK, Buffer
      <4> QED BY <4>1, Chain
    <3>3. CASE writer \in Left
      BY <2>3, <3>1, <3>3 DEF Wakes, Healthy, InRing, ReaderThrough, Left, EndLabels
    <3>4. CASE writer \notin Left
      <4>1. WriterAlive
        BY <3>1, <3>4 DEF Control, WriterAlive, Left
      <4>2. writer \in {"advance", "loop"}
        BY <3>1, <3>2, <3>4, <4>1, Chain DEF Flow, TypeOK, Control, WriterLabels
      <4>3. PushedTo = Size /\ read_offset = Size
        BY <3>2, <4>1, Chain DEF Flow, TypeOK
      <4>4. ReaderThrough
        BY <3>1, <4>1, <4>3, Chain DEF Flow, Control, ReaderLabels, ReaderThrough
      <4> QED BY <2>3, <3>1, <3>2, <3>4, <4>2, <4>4 DEF Wakes, Healthy, InRing, ReaderThrough, Left, EndLabels, PassedOn
    <3> QED BY <3>3, <3>4
  <2>4. CASE ~Healthy /\ SfuncReturns("ok")
    <3>1. ~Healthy'
      BY <2>4 DEF Healthy, Control, EndLabels
    <3> QED BY <3>1 DEF Wakes
  <2> QED BY <2>1, <2>2, <2>3, <2>4
<1>6. Sink'
  BY DEF Sink, Delivered, PassedOn
<1> QED BY <1>1, <1>2, <1>3, <1>4, <1>5, <1>6

LEMMA StepMainPullLock ==
  ASSUME IInv, MainPullLock
  PROVE  IInv'
<1> USE DEF IInv, MainPullLock, mainKeeps, environment, pullKeeps, pullBuf, mainState, MainStart, SfuncReturns
<1>1. TypeOK'
  BY Unlocks DEF TypeOK, Results, ThreadLabels, MainLabels, Threads, Free
<1>2. Control'
  BY DEF Control, Healthy, ReaderLabels, WriterLabels, Pushing, Left, Holding, Fetching,
         PullLabels, EndLabels, StartLabels, SfuncLabels
<1>3. Flow'
  BY Fronts DEF Flow, TypeOK, InRing, First, Second, PushedTo, PoppedTo, PassedOn,
         WriterAlive, Pushing, Left, Holding, Fetching
<1>4. PullFlow'
  BY DEF PullFlow, PassedOn, Healthy, TypeOK, Buffer
<1>5. Wakes'
  BY DEF Wakes, Healthy, InRing, ReaderThrough, Left, PassedOn, EndLabels
<1>6. Sink'
  BY DEF Sink, Delivered, PassedOn
<1> QED BY <1>1, <1>2, <1>3, <1>4, <1>5, <1>6

LEMMA StepMainPullPark ==
  ASSUME IInv, MainPullPark
  PROVE  IInv'
<1> USE DEF IInv, MainPullPark, mainKeeps, environment, pullKeeps, pullBuf, mainState, MainStart, SfuncReturns
<1>1. TypeOK'
  BY Unlocks DEF TypeOK, Results, ThreadLabels, MainLabels, Threads, Free
<1>2. Control'
  BY DEF Control, Healthy, ReaderLabels, WriterLabels, Pushing, Left, Holding, Fetching,
         PullLabels, EndLabels, StartLabels, SfuncLabels
<1>3. Flow'
  BY Fronts DEF Flow, TypeOK, InRing, First, Second, PushedTo, PoppedTo, PassedOn,
         WriterAlive, Pushing, Left, Holding, Fetching
<1>4. PullFlow'
  BY DEF PullFlow, PassedOn, Healthy
<1>5. Wakes'
  BY DEF Wakes, Healthy, InRing, ReaderThrough, Left, PassedOn, EndLabels
<1>6. Sink'
  BY DEF Sink, Delivered, PassedOn
<1> QED BY <1>1, <1>2, <1>3, <1>4, <1>5, <1>6

LEMMA StepMainPullTake ==
  ASSUME IInv, MainPullTake
  PROVE  IInv'
<1> USE DEF IInv, MainPullTake, mainKeeps, environment, pullKeeps, pullBuf, mainState, MainStart, SfuncReturns
<1>0. pull_mutex' \in Threads \cup {Free} /\ main = "ptake" /\ pull
  BY Unlocks DEF TypeOK, Control, SfuncLabels
<1>1a. taken \in 0 .. Size /\ pull_buffer.off \in 0 .. Size /\ pull_buffer.len \in 0 .. Size
       /\ pull_buffer_offset \in 0 .. Size /\ PassedOn <= Size /\ PassedOn \in Nat
       /\ sink \in [0 .. Size - 1 -> 0 .. Size] /\ pull_buffer \in Buffer
  BY Chain DEF TypeOK, Buffer, Flow
<1>1b. ASSUME ~Healthy, SfuncReturns("fail"), UNCHANGED <<writer, taken, pullBuf, sink>>
       PROVE  IInv'
  <2>1. uevent_done' \in BOOLEAN /\ main' = "teardown" /\ pull_result' = "fail" /\ ~Healthy'
    BY <1>1b, Zenon DEF Healthy
  <2> HIDE DEF MainPullTake, SfuncReturns
  <2>2. UNCHANGED pullKeeps
    BY DEF MainPullTake
  <2>3. TypeOK'
    BY <1>1b, <2>1, <2>2, <1>0 DEF TypeOK, MainLabels, Results
  <2>4. Control'
    BY <1>1b, <2>1, <2>2, <1>0 DEF Control, StartLabels, SfuncLabels, EndLabels, Healthy, ReaderLabels,
       WriterLabels, Pushing, Left, Holding, Fetching, PullLabels
  <2>5. Flow'
    BY <1>1b, <2>2 DEF Flow, InRing, First, Second, PushedTo, PoppedTo, PassedOn, WriterAlive
  <2>6. PullFlow' /\ Wakes' /\ Sink'
    BY <1>1b, <2>1, <2>2 DEF PullFlow, Wakes, Sink, Delivered, PassedOn
  <2> QED BY <2>3, <2>4, <2>5, <2>6
<1>1c. ASSUME NEW n \in 1 .. pull_buffer.len - pull_buffer_offset, PullTake(n), Healthy
       PROVE  IInv'
  <2>1. /\ pull_buffer.off + pull_buffer_offset = taken /\ n > 0 /\ n <= pull_buffer.len - pull_buffer_offset
        /\ taken + pull_buffer.len - pull_buffer_offset = PassedOn
        /\ taken + n \in 0 .. Size
    BY <1>0, <1>1a, <1>1c DEF PullFlow
  <2>2. /\ main' = "sfunc" /\ taken' = taken + n /\ UNCHANGED <<pullKeeps, pull_result, uevent_done>>
        /\ \/ writer' = writer
           \/ writer = "pwait" /\ writer' = "prelock" /\ n = pull_buffer.len - pull_buffer_offset
        /\ \/ n = pull_buffer.len - pull_buffer_offset /\ pull_buffer' = NoBuffer /\ pull_buffer_offset' = 0
           \/ n # pull_buffer.len - pull_buffer_offset /\ pull_buffer' = pull_buffer
              /\ pull_buffer_offset' = pull_buffer_offset + n /\ writer' = writer
    BY <1>1c DEF PullTake
  <2>3. sink' = [i \in DOMAIN sink |-> IF i \in taken .. taken + n - 1 THEN i ELSE sink[i]]
    BY <1>1a, <1>1c, <2>1 DEF PullTake, Deliver
  <2> HIDE DEF MainPullTake
  <2>4. PassedOn' = PassedOn /\ PoppedTo' = PoppedTo /\ PushedTo' = PushedTo
        /\ InRing' = InRing /\ First' = First /\ Second' = Second /\ WriterAlive' = WriterAlive
    BY <2>2 DEF PassedOn, PoppedTo, PushedTo, InRing, First, Second, WriterAlive, Holding
  <2>5. TypeOK'
    <3>1. pull_buffer' \in Buffer /\ pull_buffer_offset' \in 0 .. Size
      BY <1>1a, <2>1, <2>2 DEF Buffer, NoBuffer
    <3>2. sink' \in [0 .. Size - 1 -> 0 .. Size]
      BY <1>1a, <2>1, <2>3
    <3> QED BY <3>1, <3>2, <2>1, <2>2, <1>0 DEF TypeOK, MainLabels, ThreadLabels
  <2>6. Control'
    BY <2>2, <1>0 DEF Control, StartLabels, SfuncLabels, EndLabels, Healthy, ReaderLabels,
       WriterLabels, Pushing, Left, Holding, Fetching, PullLabels
  <2>7. Flow'
    BY <2>2, <2>4 DEF Flow, Holding, Fetching
  <2>8. PullFlow'
    <3>1. Healthy' = Healthy /\ main' = "sfunc"
      BY <2>2 DEF Healthy
    <3>2. CASE n = pull_buffer.len - pull_buffer_offset
      <4>1. pull_buffer'.len = 0 /\ pull_buffer_offset' = 0 /\ taken' = PassedOn
        BY <2>1, <2>2, <3>2, <1>1a DEF NoBuffer
      <4> QED BY <4>1, <3>1, <2>4, <1>1a DEF PullFlow
    <3>3. CASE n # pull_buffer.len - pull_buffer_offset
      <4>1. pull_buffer' = pull_buffer /\ pull_buffer_offset' = pull_buffer_offset + n /\ writer' = writer
        BY <2>2, <3>3
      <4>2. pull_buffer'.len = pull_buffer.len /\ pull_buffer'.off = pull_buffer.off
            /\ pull_buffer_offset' < pull_buffer.len /\ pull_buffer.len # 0
            /\ taken' + pull_buffer.len - pull_buffer_offset' = PassedOn
            /\ pull_buffer.off + pull_buffer_offset' = taken'
        <5>1. n \in Int /\ taken' = taken + n /\ n < pull_buffer.len - pull_buffer_offset
          BY <2>1, <2>2, <3>3, <1>1a
        <5>2. pull_buffer'.len = pull_buffer.len /\ pull_buffer'.off = pull_buffer.off
          BY <4>1
        <5>3. pull_buffer_offset' < pull_buffer.len /\ pull_buffer.len # 0
          BY <4>1, <5>1, <2>1, <1>1a
        <5>4. taken' + pull_buffer.len - pull_buffer_offset' = PassedOn
          BY <4>1, <5>1, <2>1, <1>1a
        <5>5. pull_buffer.off + pull_buffer_offset' = taken'
          <6>1. /\ pull_buffer_offset' = pull_buffer_offset + n
                /\ pull_buffer.off + pull_buffer_offset = taken
                /\ pull_buffer.off \in Int /\ pull_buffer_offset \in Int /\ taken \in Int
            BY <4>1, <2>1, <1>1a
          <6> HIDE DEF IInv
          <6> QED BY <6>1, <5>1
        <5> QED BY <5>2, <5>3, <5>4, <5>5
      <4>3. ~(Healthy /\ writer \in {"prelock", "pput"})
        BY <4>2 DEF PullFlow
      <4> QED BY <4>1, <4>2, <4>3, <3>1, <2>2, <2>4, <1>1a DEF PullFlow
    <3> QED BY <3>2, <3>3
  <2>9. Wakes'
    BY <1>0, <2>2, <2>4 DEF Wakes, Healthy, Left, ReaderThrough, EndLabels
  <2>10. Sink'
    BY <1>0, <1>1a, <2>1, <2>2, <2>3 DEF Sink, Delivered, Empty
  <2> QED BY <2>5, <2>6, <2>7, <2>8, <2>9, <2>10
<1> QED BY <1>1b, <1>1c

LEMMA StepMainTeardown ==
  ASSUME IInv, MainTeardown
  PROVE  IInv'
<1> USE DEF IInv, MainTeardown, mainKeeps, environment, pullKeeps, pullBuf, mainState, MainStart, SfuncReturns
<1>0. /\ \/ reader' = reader
         \/ reader = "wait" /\ reader' = "relock"
      /\ \/ writer' = writer
         \/ writer = "wait" /\ writer' = "relock"
         \/ writer = "pwait" /\ writer' = "prelock"
      /\ main = "teardown" /\ main' \in {"teardown", "result"}
      /\ mutex' \in Threads \cup {Free} /\ pull_mutex' \in Threads \cup {Free}
  <2>1. mutex \in Threads \cup {Free} /\ pull_mutex \in Threads \cup {Free}
    BY DEF TypeOK
  <2>2. reader # "pwait"
    BY DEF Control, ReaderLabels, Pushing, Left
  <2> QED BY <2>1, <2>2, Unlocks DEF Woken
<1>00. UNCHANGED <<mainKeeps, write_result, read_running, write_running, mainState, pullBuf,
                 uevent_done, uevent_progress, sink>>
  OBVIOUS
<1>000. Healthy => reader' = reader /\ writer' = writer
  BY <1>0 DEF Wakes, EndLabels, Left, ReaderThrough
<1> HIDE DEF MainTeardown
<1>1. TypeOK'
  BY Unlocks, <1>0, <1>00 DEF TypeOK, Results, ThreadLabels, MainLabels, Threads, Free
<1>2. Control'
  BY <1>0, <1>00 DEF Control, Healthy, ReaderLabels, WriterLabels, Pushing, Left,
         Holding, Fetching, PullLabels, EndLabels, StartLabels, SfuncLabels, TypeOK
<1>3. Flow'
  BY SMTT(20), Fronts, <1>0, <1>00, <1>000 DEF Flow, TypeOK, InRing, First, Second, PushedTo,
         PoppedTo, PassedOn, WriterAlive, Pushing, Left, Holding, Fetching
<1>4. PullFlow'
  BY <1>0, <1>00, <1>000 DEF PullFlow, PassedOn, Healthy
<1>5. Wakes'
  BY <1>0, <1>00, <1>000 DEF Wakes, Healthy, InRing, ReaderThrough, Left, PassedOn,
         EndLabels
<1>6. Sink'
  BY <1>0, <1>00, <1>000 DEF Sink, Delivered, PassedOn
<1> QED BY <1>1, <1>2, <1>3, <1>4, <1>5, <1>6

LEMMA StepMainResult ==
  ASSUME IInv, MainResult
  PROVE  IInv'
<1> USE DEF IInv, MainResult, mainKeeps, environment, pullKeeps, pullBuf, mainState, MainStart, SfuncReturns
<1>1. TypeOK'
  BY Unlocks DEF TypeOK, Results, ThreadLabels, MainLabels, Threads, Free
<1>2. Control'
  BY DEF Control, Healthy, ReaderLabels, WriterLabels, Pushing, Left, Holding, Fetching,
         PullLabels, EndLabels, StartLabels, SfuncLabels
<1>3. Flow'
  BY Fronts DEF Flow, TypeOK, InRing, First, Second, PushedTo, PoppedTo, PassedOn,
         WriterAlive, Pushing, Left, Holding, Fetching
<1>4. PullFlow'
  BY DEF PullFlow, PassedOn, Healthy
<1>5. Wakes'
  BY DEF Wakes, Healthy, InRing, ReaderThrough, Left, PassedOn, EndLabels
<1>6. Sink'
  BY DEF Sink, Delivered, PassedOn
<1> QED BY <1>1, <1>2, <1>3, <1>4, <1>5, <1>6

LEMMA StepMainJoin ==
  ASSUME IInv, MainJoin
  PROVE  IInv'
<1> USE DEF IInv, MainJoin, mainKeeps, environment, pullKeeps, pullBuf, mainState, MainStart, SfuncReturns
<1>1. TypeOK'
  BY Unlocks DEF TypeOK, Results, ThreadLabels, MainLabels, Threads, Free
<1>2. Control'
  BY DEF Control, Healthy, ReaderLabels, WriterLabels, Pushing, Left, Holding, Fetching,
         PullLabels, EndLabels, StartLabels, SfuncLabels
<1>3. Flow'
  BY Fronts DEF Flow, TypeOK, InRing, First, Second, PushedTo, PoppedTo, PassedOn,
         WriterAlive, Pushing, Left, Holding, Fetching
<1>4. PullFlow'
  BY DEF PullFlow, PassedOn, Healthy
<1>5. Wakes'
  BY DEF Wakes, Healthy, InRing, ReaderThrough, Left, PassedOn, EndLabels
<1>6. Sink'
  BY DEF Sink, Delivered, PassedOn
<1> QED BY <1>1, <1>2, <1>3, <1>4, <1>5, <1>6

LEMMA StepCancel ==
  ASSUME IInv, Cancel
  PROVE  IInv'
<1> USE DEF IInv, Cancel, readerState, writerState, mainState, pullBuf
<1>1. TypeOK'
  BY Unlocks DEF TypeOK, Results, ThreadLabels, MainLabels, Threads, Free
<1>2. Control'
  BY DEF Control, Healthy, ReaderLabels, WriterLabels, Pushing, Left, Holding, Fetching,
         PullLabels, EndLabels, StartLabels, SfuncLabels
<1>3. Flow'
  BY Fronts DEF Flow, TypeOK, InRing, First, Second, PushedTo, PoppedTo, PassedOn,
         WriterAlive, Pushing, Left, Holding, Fetching
<1>4. PullFlow'
  BY DEF PullFlow, PassedOn, Healthy
<1>5. Wakes'
  BY DEF Wakes, Healthy, InRing, ReaderThrough, Left, PassedOn, EndLabels
<1>6. Sink'
  BY DEF Sink, Delivered, PassedOn
<1> QED BY <1>1, <1>2, <1>3, <1>4, <1>5, <1>6

-------------------------------------------------------------------------------
(* The theorems *)

LEMMA InitIInv == Init => IInv
<1> SUFFICES ASSUME Init PROVE IInv
  OBVIOUS
<1> USE DEF Init
<1>1. NoBuffer \in Buffer
  BY DEF NoBuffer, Buffer
<1>2. write_buffers \in RingType(Buffer) /\ InRing = 0
  BY <1>1 DEF NewRing, RingType, Wrap, InRing, RingSize
<1>3. TypeOK
  <2>1. sink \in [0 .. Size - 1 -> 0 .. Size]
    BY DEF Empty
  <2>2. source_end \in 0 .. Size
    OBVIOUS
  <2>3. /\ read_running \in BOOLEAN /\ write_running \in BOOLEAN
        /\ uevent_done \in BOOLEAN /\ uevent_progress \in BOOLEAN
        /\ cancelled \in BOOLEAN
    BY Zenon
  <2>4. /\ reader_buf \in Buffer /\ writer_buf \in Buffer /\ pull_buffer \in Buffer
        /\ pull_buffer_offset \in 0 .. Size
    BY <1>1
  <2>5. /\ reader_rc \in {"ok", "fail"} /\ writer_rc \in {"ok", "fail"}
        /\ read_result \in {"ok", "fail"} /\ write_result \in {"ok", "fail"}
        /\ pull_result \in {"ok", "fail"} /\ returned \in {"none"} \cup {"ok", "fail"}
    OBVIOUS
  <2>6. reader \in ThreadLabels /\ writer \in ThreadLabels /\ main \in MainLabels
    BY DEF ThreadLabels, MainLabels
  <2>7. mutex \in Threads \cup {Free} /\ pull_mutex \in Threads \cup {Free}
    OBVIOUS
  <2>9. pull \in BOOLEAN
    OBVIOUS
  <2>8. read_offset \in 0 .. Size /\ write_offset \in 0 .. Size /\ taken \in 0 .. Size
    OBVIOUS
  <2> HIDE DEF Init
  <2> QED BY <1>2, <2>1, <2>2, <2>3, <2>4, <2>5, <2>6, <2>7, <2>8, <2>9 DEF TypeOK, Results
<1>4. PassedOn = 0 /\ PoppedTo = 0 /\ PushedTo = 0
  BY <1>2 DEF PassedOn, PoppedTo, PushedTo, Holding
<1>5. Control
  BY DEF Control, ReaderLabels, WriterLabels, StartLabels, SfuncLabels, EndLabels, PullLabels
<1>6. Flow
  BY <1>2, <1>4 DEF Flow, Fetching, Holding, Pushing
<1>7. PullFlow /\ Wakes /\ Sink
  BY <1>4 DEF PullFlow, NoBuffer, Wakes, EndLabels, Left, Sink, Delivered
<1> QED BY <1>3, <1>5, <1>6, <1>7 DEF IInv

LEMMA StepStutter ==
  ASSUME IInv, UNCHANGED vars
  PROVE  IInv'
<1> USE DEF IInv, vars, environment, readerState, writerState, mainState, pullBuf
<1>1. TypeOK' /\ PullFlow' /\ Sink'
  BY DEF TypeOK, PullFlow, Sink, Delivered, PassedOn, Healthy
<1>2. Control' /\ Wakes'
  BY DEF Control, Wakes, Healthy, InRing, ReaderThrough, PassedOn
<1>3. Flow'
  BY DEF Flow, InRing, First, Second, PushedTo, PoppedTo, PassedOn, WriterAlive
<1> QED BY <1>1, <1>2, <1>3

\* The invariant is inductive: it holds at the start and survives every step of every
\* thread, whatever fails.
THEOREM Invariance == Spec => []IInv
<1>1. IInv /\ [Next]_vars => IInv'
  <2> SUFFICES ASSUME IInv, [Next]_vars PROVE IInv'
    OBVIOUS
  <2>1. CASE Reader
    BY <2>1, StepReaderLoop, StepReaderRead, StepReaderLock, StepReaderCheck,
       StepReaderPark, StepReaderPush, StepReaderExit, StepReaderResult DEF Reader
  <2>2. CASE Writer
    BY <2>2, StepWriterLoop, StepWriterLock, StepWriterCheck, StepWriterPark,
       StepWriterPop, StepWriterDeliver, StepWriterPullLock, StepWriterPullPark,
       StepWriterPullPut, StepWriterAdvance, StepWriterExit, StepWriterResult DEF Writer
  <2>3. CASE Main
    BY <2>3, StepMainStarts, StepMainStartFails, StepMainWaits, StepMainSfunc,
       StepMainPullLock, StepMainPullPark, StepMainPullTake, StepMainTeardown,
       StepMainResult, StepMainJoin DEF Main
  <2>4. CASE Cancel
    BY <2>4, StepCancel
  <2>5. CASE Finished \/ UNCHANGED vars
    BY <2>5, StepStutter DEF Finished
  <2> QED BY <2>1, <2>2, <2>3, <2>4, <2>5 DEF Next
<1> QED BY InitIInv, <1>1, PTL DEF Spec

\* Every offset, buffer, ring index and result stays within its type.
THEOREM TypeCorrect == Spec => []TypeOK
<1>1. IInv => TypeOK
  BY DEF IInv
<1> QED BY <1>1, Invariance, PTL

\* The waits that do not test their condition again are justified: in SetWriteBuf,
\* GetWriteBuf, SetPullBuf and GetPullBuf.
THEOREM WaitsJustified == Spec => []WokenForAReason
<1>1. IInv => WokenForAReason
  <2> SUFFICES ASSUME IInv, Healthy PROVE WokenForAReason
    BY DEF WokenForAReason
  <2>1. /\ reader = "push" => InRing < 2
        /\ writer = "pop" => InRing > 0
        /\ writer = "pput" => pull_buffer.len = 0
        /\ main = "ptake" => pull_buffer.len > pull_buffer_offset
    BY DEF IInv, Wakes, PullFlow, TypeOK, Buffer
  <2> QED BY <2>1 DEF WokenForAReason, RingHasRoom, RingIsEmpty, InRing
<1> QED BY <1>1, Invariance, PTL

\* What has reached the sink is always the beginning of the source, in order, for
\* Transfer and TransferPull and under every fault.
THEOREM OrderKept == Spec => []InOrder
<1>1. IInv => InOrder
  <2> SUFFICES ASSUME IInv PROVE InOrder
    OBVIOUS
  <2>1. Delivered \in 0 .. Size
    BY Chain DEF IInv, Delivered, Flow, TypeOK
  <2>2. \A i \in 0 .. Size - 1 : sink[i] = IF i < Delivered THEN i ELSE Empty
    BY DEF IInv, Sink
  <2> QED BY <2>1, <2>2 DEF InOrder
<1> QED BY <1>1, Invariance, PTL

-------------------------------------------------------------------------------
(* Nothing is passed on that was not read, and success means everything was: Through *)

\* What keeps Through: a step that moves nothing and in which nobody ends its work.
LEMMA ThroughKept ==
  ASSUME IInv, Through, UNCHANGED <<pull, source_end, read_offset>>, PassedOn' = PassedOn,
         ThroughControl', Healthy' => Healthy,
            WriterAlive' => WriterAlive /\ PushedTo' = PushedTo,
         Healthy' => /\ UNCHANGED reader_rc
                     /\ reader' \in Left => reader \in Left
                     /\ writer' \in Left /\ writer_rc' = "ok" => writer \in Left /\ writer_rc = "ok"
                     /\ pull /\ main' \in EndLabels => taken' = Size
  PROVE  Through'
BY DEF Through, ThroughControl, Left, PromisedEnd

\* The steps of the reader that neither read nor push nor leave its loop.
LEMMA ThroughReaderQuiet ==
  ASSUME IInv, IInv', Through, ReaderLock \/ ReaderCheck \/ ReaderPark \/ ReaderExit \/
         ReaderResult
  PROVE  Through'
<1> USE DEF ReaderLock, ReaderCheck, ReaderPark, ReaderExit, ReaderResult, ReaderReturns,
         readerKeeps, environment, writerState, mainState, pullBuf, readerState
<1>1. UNCHANGED <<pull, source_end, read_offset>>
  OBVIOUS
<1>2. PassedOn' = PassedOn /\ (WriterAlive' => WriterAlive /\ PushedTo' = PushedTo)
  BY DEF IInv, Control, StartLabels, InRing, First, Second, PushedTo, PoppedTo, PassedOn,
     Holding, Fetching, WriterAlive
<1>3. ThroughControl'
  BY DEF Through, ThroughControl, IInv, Control, Left, Ending, IsAnyRunning, StartLabels
<1>4. Healthy' => Healthy
  BY DEF Healthy, IInv, Control, EndLabels
<1>5. Healthy' => /\ UNCHANGED reader_rc
                  /\ reader' \in Left => reader \in Left
                  /\ writer' \in Left /\ writer_rc' = "ok" => writer \in Left /\ writer_rc = "ok"
                  /\ pull /\ main' \in EndLabels => taken' = Size
  BY <1>4 DEF Through, EndLabels, IInv, Control, Healthy, StartLabels, Left
<1> QED BY <1>1, <1>2, <1>3, <1>4, <1>5, ThroughKept

\* The reader leaves its loop with all it was asked for, or because of a failure.
LEMMA ThroughReaderLoop ==
  ASSUME IInv, IInv', Through, ReaderLoop
  PROVE  Through'
<1> USE DEF ReaderLoop, ReaderReturns, readerKeeps, environment, writerState, mainState,
         pullBuf, readerState
<1>0. PassedOn' = PassedOn /\ (WriterAlive' => WriterAlive /\ PushedTo' = PushedTo)
  BY DEF InRing, First, Second, PushedTo, PoppedTo, PassedOn, Holding, Fetching, WriterAlive
<1>1. (read_offset <= source_end /\ PassedOn <= read_offset)'
  BY <1>0 DEF Through
<1>2. ThroughControl'
  BY DEF Through, ThroughControl, IInv, Control, Left, Ending, IsAnyRunning, StartLabels
<1>3. Healthy' => Healthy
  BY DEF Healthy, IInv, Control
<1>4. Healthy' /\ (reader \in Left)' /\ WriterAlive' => PushedTo' = read_offset'
  BY <1>0, <1>3 DEF Through, Left, IInv, Flow, Healthy
<1>5. Healthy' /\ (reader \in Left)' /\ reader_rc' = "ok" => read_offset' = source_end'
  <2>1. read_offset \in 0 .. Size /\ source_end \in 0 .. Size /\ read_offset <= source_end
    BY DEF Through, IInv, TypeOK
  <2>2. Healthy /\ reader' = "exit" => read_offset = source_end
    BY <2>1
  <2> QED BY <1>3, <2>2 DEF Left
<1>6. Healthy' /\ (writer \in Left)' /\ writer_rc' = "ok" => PassedOn' = PromisedEnd'
  BY <1>0, <1>3 DEF Through, ThroughControl, Left, PromisedEnd, IInv, Healthy
<1>7. Healthy' /\ (pull /\ main \in EndLabels)' => taken' = Size
  BY <1>3 DEF Through, EndLabels, IInv, Control, Healthy, StartLabels
<1> QED BY <1>1, <1>2, <1>4, <1>5, <1>6, <1>7 DEF Through, ThroughControl

\* The reader meets the end of the source, or a failure.
LEMMA ThroughReaderRead ==
  ASSUME IInv, IInv', Through, ReaderRead
  PROVE  Through'
<1> USE DEF ReaderRead, ReaderReturns, readerKeeps, environment, writerState, mainState,
         pullBuf, readerState
<1>0. PassedOn' = PassedOn /\ (WriterAlive' => WriterAlive /\ PushedTo' = PushedTo)
  BY DEF InRing, First, Second, PushedTo, PoppedTo, PassedOn, Holding, Fetching, WriterAlive
<1>1. (read_offset <= source_end /\ PassedOn <= read_offset)'
  <2>1. CASE UNCHANGED read_offset
    BY <1>0, <2>1 DEF Through
  <2>2. CASE \E n \in ReadLengths \ {0} : read_offset' = read_offset + n
    <3>1. PassedOn \in Nat /\ read_offset \in Nat /\ source_end \in Nat
      BY Chain DEF IInv, TypeOK
    <3> QED BY <1>0, <2>2, <3>1 DEF Through, ReadLengths
  <2> QED BY <2>1, <2>2
<1>2. ThroughControl'
  BY DEF Through, ThroughControl, IInv, Control, Left, Ending, IsAnyRunning, StartLabels
<1>3. Healthy' => Healthy
  BY DEF Healthy, IInv, Control
<1>4. Healthy' /\ (reader \in Left)' /\ WriterAlive' => PushedTo' = read_offset'
  BY <1>0, <1>3 DEF Through, Left, IInv, Flow, Healthy
<1>5. Healthy' /\ (reader \in Left)' /\ reader_rc' = "ok" => read_offset' = source_end'
  <2>1. CASE reader_rc' = "ok" /\ 0 \in ReadLengths /\ UNCHANGED read_offset
    BY <2>1 DEF Through, ReadLengths, IInv, TypeOK
  <2>2. CASE reader' = "lock" \/ reader_rc' = "fail"
    BY <2>2 DEF Left
  <2> QED BY <2>1, <2>2
<1>6. Healthy' /\ (writer \in Left)' /\ writer_rc' = "ok" => PassedOn' = PromisedEnd'
  <2>1. SUFFICES ASSUME Healthy, writer \in Left, writer_rc = "ok" PROVE FALSE
    BY <1>3
  <2> QED BY <2>1 DEF IInv, Wakes, ReaderThrough, Left
<1>7. Healthy' /\ (pull /\ main \in EndLabels)' => taken' = Size
  BY <1>3 DEF Through, EndLabels, IInv, Control, Healthy, StartLabels
<1> QED BY <1>1, <1>2, <1>4, <1>5, <1>6, <1>7 DEF Through, ThroughControl

LEMMA ThroughReaderPush ==
  ASSUME IInv, IInv', Through, ReaderPush
  PROVE  Through'
<1> USE DEF ReaderPush, ReaderReturns, readerKeeps, environment, writerState, mainState,
         pullBuf, readerState
<1>0. PassedOn' = PassedOn
  BY DEF PassedOn
<1>1. (read_offset <= source_end /\ PassedOn <= read_offset)'
  BY <1>0 DEF Through
<1>2. ThroughControl'
  BY DEF Through, ThroughControl, IInv, Control, Left, Ending, IsAnyRunning, StartLabels
<1>3. Healthy' => Healthy
  BY DEF Healthy, IInv, Control
<1>4. Healthy' /\ (reader \in Left)' /\ WriterAlive' => PushedTo' = read_offset'
  BY <1>3 DEF Healthy, Left
<1>5. Healthy' /\ (reader \in Left)' /\ reader_rc' = "ok" => read_offset' = source_end'
  BY <1>3 DEF Healthy, Left
<1>6. Healthy' /\ (writer \in Left)' /\ writer_rc' = "ok" => PassedOn' = PromisedEnd'
  BY <1>0, <1>3 DEF Through, Left, PromisedEnd, Healthy
<1>7. Healthy' /\ (pull /\ main \in EndLabels)' => taken' = Size
  BY <1>3 DEF Through, EndLabels, IInv, Control, Healthy, StartLabels
<1> QED BY <1>1, <1>2, <1>4, <1>5, <1>6, <1>7 DEF Through, ThroughControl

\* The steps of the writer that pass nothing on and do not end its loop.
LEMMA ThroughWriterQuiet ==
  ASSUME IInv, IInv', Through, WriterLock \/ WriterPark \/ WriterPullLock \/ WriterPullPark \/
         WriterAdvance \/ WriterExit \/ WriterResult
  PROVE  Through'
<1> USE DEF WriterLock, WriterPark, WriterPullLock, WriterPullPark, WriterAdvance, WriterExit,
         WriterResult, WriterReturns, writerKeeps, environment, readerState, writerState,
         mainState, pullBuf
<1>1. UNCHANGED <<pull, source_end, read_offset>>
  OBVIOUS
<1>2. PassedOn' = PassedOn /\ (WriterAlive' => WriterAlive /\ PushedTo' = PushedTo)
  BY DEF IInv, Control, StartLabels, InRing, First, Second, PushedTo, PoppedTo, PassedOn,
     Holding, Fetching, WriterAlive
<1>3. ThroughControl'
  BY DEF Through, ThroughControl, IInv, Control, Left, Ending, IsAnyRunning, StartLabels
<1>4. Healthy' => Healthy
  BY DEF Healthy, IInv, Control, EndLabels
<1>5. Healthy' => /\ UNCHANGED reader_rc
                  /\ reader' \in Left => reader \in Left
                  /\ writer' \in Left /\ writer_rc' = "ok" => writer \in Left /\ writer_rc = "ok"
                  /\ pull /\ main' \in EndLabels => taken' = Size
  BY <1>4 DEF Through, EndLabels, IInv, Control, Healthy, StartLabels, Left
<1> QED BY <1>1, <1>2, <1>3, <1>4, <1>5, ThroughKept

\* The writer leaves its loop with all that was asked for passed on.
LEMMA ThroughWriterLoop ==
  ASSUME IInv, IInv', Through, WriterLoop
  PROVE  Through'
<1> USE DEF WriterLoop, WriterReturns, writerKeeps, environment, readerState, writerState,
         mainState, pullBuf
<1>0. PassedOn' = PassedOn /\ (WriterAlive' => WriterAlive /\ PushedTo' = PushedTo)
  BY DEF InRing, First, Second, PushedTo, PoppedTo, PassedOn, Holding, Fetching, WriterAlive
<1>1. (read_offset <= source_end /\ PassedOn <= read_offset)'
  BY <1>0 DEF Through
<1>2. ThroughControl'
  BY DEF Through, ThroughControl, IInv, Control, Left, Ending, IsAnyRunning, StartLabels
<1>3. Healthy' => Healthy
  BY DEF Healthy, IInv, Control
<1>4. Healthy' /\ (reader \in Left)' /\ WriterAlive' => PushedTo' = read_offset'
  BY <1>0, <1>3 DEF Through, Left
<1>5. Healthy' /\ (reader \in Left)' /\ reader_rc' = "ok" => read_offset' = source_end'
  BY <1>3 DEF Through, IInv, Left
<1>6. Healthy' /\ (writer \in Left)' /\ writer_rc' = "ok" => PassedOn' = PromisedEnd'
  <2>1. CASE writer' = "lock"
    BY <2>1 DEF Left
  <2>2. CASE ~Healthy
    BY <2>2, <1>3
  <2>3. CASE ~(write_offset < Size) /\ UNCHANGED <<read_offset, source_end, reader_rc>>
    <3>1. /\ PassedOn \in Nat /\ write_offset <= PassedOn
          /\ read_offset \in 0 .. Size /\ source_end \in 0 .. Size /\ write_offset \in 0 .. Size
      BY Chain DEF IInv, TypeOK
    <3>2. PassedOn <= read_offset /\ read_offset <= source_end
      BY DEF Through
    <3> HIDE DEF WriterLoop
    <3>3. PassedOn = Size /\ read_offset = Size /\ source_end = Size
      BY <2>3, <3>1, <3>2
    <3> QED BY <2>3, <3>3, <1>0 DEF PromisedEnd
  <2> QED BY <2>1, <2>2, <2>3
<1>7. Healthy' /\ (pull /\ main \in EndLabels)' => taken' = Size
  BY <1>3 DEF Through, EndLabels, IInv, Control, Healthy, StartLabels
<1> QED BY <1>1, <1>2, <1>4, <1>5, <1>6, <1>7 DEF Through, ThroughControl

\* The writer meets an empty ring whose reader is gone: all that was read is passed on.
LEMMA ThroughWriterCheck ==
  ASSUME IInv, IInv', Through, WriterCheck
  PROVE  Through'
<1> USE DEF WriterCheck, WriterReturns, writerKeeps, environment, readerState, writerState,
         mainState, pullBuf
<1>0. PassedOn' = PassedOn /\ (WriterAlive' => WriterAlive /\ PushedTo' = PushedTo)
  BY DEF InRing, First, Second, PushedTo, PoppedTo, PassedOn, Holding, Fetching, WriterAlive
<1>1. (read_offset <= source_end /\ PassedOn <= read_offset)'
  BY <1>0 DEF Through
<1>2. ThroughControl'
  BY DEF Through, ThroughControl, IInv, Control, Left, Ending, IsAnyRunning, StartLabels
<1>3. Healthy' => Healthy
  BY DEF Healthy, IInv, Control
<1>4. Healthy' /\ (reader \in Left)' /\ WriterAlive' => PushedTo' = read_offset'
  BY <1>0, <1>3 DEF Through, Left
<1>5. Healthy' /\ (reader \in Left)' /\ reader_rc' = "ok" => read_offset' = source_end'
  BY <1>3 DEF Through, IInv, Left
<1>6. Healthy' /\ (writer \in Left)' /\ writer_rc' = "ok" => PassedOn' = PromisedEnd'
  <2>1. CASE writer' \in {"pop", "park"}
    BY <2>1 DEF Left
  <2>2. CASE RingIsEmpty(write_buffers) /\ ~read_running
    <3>1. SUFFICES ASSUME Healthy PROVE PassedOn = PromisedEnd
      BY <1>0, <1>3 DEF PromisedEnd
    <3>2. reader \in Left /\ WriterAlive /\ PushedTo = PassedOn
      <4>1. reader \in {"result", "dead"}
        BY <2>2, <3>1 DEF IInv, Control, StartLabels
      <4>2. WriterAlive /\ InRing = 0
        BY <2>2 DEF IInv, Control, WriterAlive, RingIsEmpty, InRing
      <4> QED BY <4>1, <4>2 DEF PushedTo, PoppedTo, Holding, Left
    <3> QED BY <3>1, <3>2 DEF Through, PromisedEnd, IInv, TypeOK, Results
  <2> QED BY <2>1, <2>2
<1>7. Healthy' /\ (pull /\ main \in EndLabels)' => taken' = Size
  BY <1>3 DEF Through, EndLabels, IInv, Control, Healthy, StartLabels
<1> QED BY <1>1, <1>2, <1>4, <1>5, <1>6, <1>7 DEF Through, ThroughControl

LEMMA ThroughWriterPop ==
  ASSUME IInv, IInv', Through, WriterPop
  PROVE  Through'
<1> USE DEF WriterPop, WriterReturns, writerKeeps, environment, readerState, writerState,
         mainState, pullBuf
<1>0. PassedOn' = PassedOn /\ (WriterAlive' => Healthy /\ WriterAlive /\ PushedTo' = PushedTo)
  <2>1. CASE Healthy
    BY <2>1, PopMoves
  <2>2. CASE ~Healthy
    BY <2>2 DEF PassedOn, WriterAlive
  <2> QED BY <2>1, <2>2
<1>1. (read_offset <= source_end /\ PassedOn <= read_offset)'
  BY <1>0 DEF Through
<1>2. ThroughControl'
  BY DEF Through, ThroughControl, IInv, Control, Left, Ending, IsAnyRunning, StartLabels
<1>3. Healthy' => Healthy
  BY DEF Healthy, IInv, Control
<1>4. Healthy' /\ (reader \in Left)' /\ WriterAlive' => PushedTo' = read_offset'
  BY <1>0, <1>3 DEF Through, Left
<1>5. Healthy' /\ (reader \in Left)' /\ reader_rc' = "ok" => read_offset' = source_end'
  BY <1>3 DEF Through, IInv, Left
<1>6. Healthy' /\ (writer \in Left)' /\ writer_rc' = "ok" => PassedOn' = PromisedEnd'
  <2>1. CASE Healthy
    BY <1>0, <2>1, PopMoves DEF Left, Holding
  <2>2. CASE ~Healthy
    BY <2>2, <1>3
  <2> QED BY <2>1, <2>2
<1>7. Healthy' /\ (pull /\ main \in EndLabels)' => taken' = Size
  BY <1>3 DEF Through, EndLabels, IInv, Control, Healthy, StartLabels
<1> QED BY <1>1, <1>2, <1>4, <1>5, <1>6, <1>7 DEF Through, ThroughControl

\* What the writer passes on was read.
LEMMA ThroughWriterDeliver ==
  ASSUME IInv, IInv', Through, WriterDeliver
  PROVE  Through'
<1> USE DEF WriterDeliver, WriterReturns, writerKeeps, environment, readerState, writerState,
         mainState, pullBuf
<1>0. /\ PassedOn' = PassedOn \/ PassedOn' <= read_offset
      /\ WriterAlive' => WriterAlive /\ PushedTo' = PushedTo
  <2>1. /\ InRing' = InRing /\ First' = First /\ Second' = Second
        /\ WriterAlive /\ writer \in Holding /\ UNCHANGED <<writer_buf, write_offset>>
    BY DEF InRing, First, Second, WriterAlive, IInv, Control, Holding
  <2>2. CASE writer' = "exit"
    BY <2>1, <2>2 DEF PassedOn, WriterAlive, Holding
  <2>3. CASE writer' = "plock"
    BY <2>1, <2>3 DEF PassedOn, PoppedTo, PushedTo, Holding
  <2>4. CASE writer' = "advance"
    <3>1. PassedOn' = PoppedTo /\ PoppedTo' = PoppedTo
      BY <2>1, <2>4 DEF PassedOn, PoppedTo, Holding
    <3>2. PushedTo' = PushedTo
      BY <2>1, <3>1 DEF PushedTo
    <3>3. PoppedTo \in Nat /\ PushedTo \in Nat /\ PoppedTo <= PushedTo
      BY Chain DEF IInv
    <3>4. PushedTo <= read_offset /\ read_offset \in 0 .. Size
      BY <2>1 DEF IInv, Flow, TypeOK
    <3> QED BY <2>1, <3>1, <3>2, <3>3, <3>4
  <2> QED BY <2>2, <2>3, <2>4
<1>1. (read_offset <= source_end /\ PassedOn <= read_offset)'
  BY <1>0 DEF Through, IInv, Flow
<1>2. ThroughControl'
  BY DEF Through, ThroughControl, IInv, Control, Left, Ending, IsAnyRunning, StartLabels
<1>3. Healthy' => Healthy
  BY DEF Healthy, IInv, Control
<1>4. Healthy' /\ (reader \in Left)' /\ WriterAlive' => PushedTo' = read_offset'
  BY <1>0, <1>3 DEF Through, Left
<1>5. Healthy' /\ (reader \in Left)' /\ reader_rc' = "ok" => read_offset' = source_end'
  BY <1>3 DEF Through, IInv, Left
<1>6. Healthy' /\ (writer \in Left)' /\ writer_rc' = "ok" => PassedOn' = PromisedEnd'
  BY <1>0 DEF Left
<1>7. Healthy' /\ (pull /\ main \in EndLabels)' => taken' = Size
  BY <1>3 DEF Through, EndLabels, IInv, Control, Healthy, StartLabels
<1> QED BY <1>1, <1>2, <1>4, <1>5, <1>6, <1>7 DEF Through, ThroughControl

LEMMA ThroughWriterPullPut ==
  ASSUME IInv, IInv', Through, WriterPullPut
  PROVE  Through'
<1> USE DEF WriterPullPut, WriterReturns, writerKeeps, environment, readerState, writerState,
         mainState, pullBuf
<1>0. /\ PassedOn' = PassedOn \/ PassedOn' <= read_offset
      /\ WriterAlive' => WriterAlive /\ PushedTo' = PushedTo
  <2>1. /\ InRing' = InRing /\ First' = First /\ Second' = Second
        /\ WriterAlive /\ writer \in Holding /\ UNCHANGED <<writer_buf, write_offset>>
    BY DEF InRing, First, Second, WriterAlive, IInv, Control, Holding
  <2>2. CASE writer' = "exit"
    BY <2>1, <2>2 DEF PassedOn, WriterAlive, Holding
  <2>3. CASE writer' = "plock"
    BY <2>1, <2>3 DEF PassedOn, PoppedTo, PushedTo, Holding
  <2>4. CASE writer' = "advance"
    <3>1. PassedOn' = PoppedTo /\ PoppedTo' = PoppedTo
      BY <2>1, <2>4 DEF PassedOn, PoppedTo, Holding
    <3>2. PushedTo' = PushedTo
      BY <2>1, <3>1 DEF PushedTo
    <3>3. PoppedTo \in Nat /\ PushedTo \in Nat /\ PoppedTo <= PushedTo
      BY Chain DEF IInv
    <3>4. PushedTo <= read_offset /\ read_offset \in 0 .. Size
      BY <2>1 DEF IInv, Flow, TypeOK
    <3> QED BY <2>1, <3>1, <3>2, <3>3, <3>4
  <2> QED BY <2>2, <2>3, <2>4
<1>1. (read_offset <= source_end /\ PassedOn <= read_offset)'
  BY <1>0 DEF Through, IInv, Flow
<1>2. ThroughControl'
  BY DEF Through, ThroughControl, IInv, Control, Left, Ending, IsAnyRunning, StartLabels
<1>3. Healthy' => Healthy
  BY DEF Healthy, IInv, Control
<1>4. Healthy' /\ (reader \in Left)' /\ WriterAlive' => PushedTo' = read_offset'
  BY <1>0, <1>3 DEF Through, Left
<1>5. Healthy' /\ (reader \in Left)' /\ reader_rc' = "ok" => read_offset' = source_end'
  BY <1>3 DEF Through, IInv, Left
<1>6. Healthy' /\ (writer \in Left)' /\ writer_rc' = "ok" => PassedOn' = PromisedEnd'
  BY <1>0 DEF Left
<1>7. Healthy' /\ (pull /\ main \in EndLabels)' => taken' = Size
  BY <1>3 DEF Through, EndLabels, IInv, Control, Healthy, StartLabels
<1> QED BY <1>1, <1>2, <1>4, <1>5, <1>6, <1>7 DEF Through, ThroughControl

\* The steps of the caller that take nothing from the writer.
LEMMA ThroughMainQuiet ==
  ASSUME IInv, IInv', Through, MainStarts \/ MainStartFails \/ MainWaits \/ MainSfunc \/
         MainPullLock \/ MainPullPark \/ MainResult \/ MainJoin
  PROVE  Through'
<1> USE DEF MainStarts, MainStartFails, MainWaits, MainSfunc, MainPullLock, MainPullPark,
         MainResult, MainJoin, mainKeeps, pullKeeps, SfuncReturns, MainStart, environment,
         readerState, writerState, mainState, pullBuf
<1>1. UNCHANGED <<pull, source_end, read_offset>>
  OBVIOUS
<1>2. PassedOn' = PassedOn /\ (WriterAlive' => WriterAlive /\ PushedTo' = PushedTo)
  BY DEF IInv, Control, StartLabels, InRing, First, Second, PushedTo, PoppedTo, PassedOn,
     Holding, Fetching, WriterAlive
<1>3. ThroughControl'
  BY DEF Through, ThroughControl, IInv, Control, Left, Ending, IsAnyRunning, StartLabels
<1>4. Healthy' => Healthy
  BY DEF Healthy, IInv, Control, EndLabels
<1>5. Healthy' => /\ UNCHANGED reader_rc
                  /\ reader' \in Left => reader \in Left
                  /\ writer' \in Left /\ writer_rc' = "ok" => writer \in Left /\ writer_rc = "ok"
                  /\ pull /\ main' \in EndLabels => taken' = Size
  BY <1>4 DEF Through, EndLabels, IInv, Control, Healthy, StartLabels, Left
<1> QED BY <1>1, <1>2, <1>3, <1>4, <1>5, ThroughKept

LEMMA ThroughMainPullTake ==
  ASSUME IInv, IInv', Through, MainPullTake
  PROVE  Through'
<1> USE DEF MainPullTake, mainKeeps, pullKeeps, SfuncReturns, MainStart, environment,
         readerState, writerState, mainState, pullBuf
<1>00. /\ UNCHANGED <<pull, source_end, cancelled, reader, reader_buf, reader_rc, read_offset,
                       read_result, read_running, writer_buf, writer_rc, write_offset,
                       write_result, write_running, write_buffers, returned>>
       /\ writer' = writer \/ (writer = "pwait" /\ writer' = "prelock")
       /\ (main' = "sfunc" /\ UNCHANGED pull_result) \/
          (main' = "teardown" /\ pull_result' = "fail")
       /\ main = "ptake"
  <2>1. /\ UNCHANGED <<pull, source_end, cancelled, reader, reader_buf, reader_rc, read_offset,
                       read_result, read_running, writer_buf, writer_rc, write_offset,
                       write_result, write_running, write_buffers, returned>>
        /\ main = "ptake"
    OBVIOUS
  <2>2. CASE ~Healthy
    BY <2>2
  <2>3. ASSUME NEW n \in 1 .. pull_buffer.len - pull_buffer_offset, PullTake(n)
        PROVE  /\ writer' = writer \/ (writer = "pwait" /\ writer' = "prelock")
               /\ main' = "sfunc" /\ UNCHANGED pull_result
    <3> HIDE DEF MainPullTake
    <3> QED BY <2>3 DEF PullTake
  <2>4. CASE Healthy
    <3>1. \E n \in 1 .. pull_buffer.len - pull_buffer_offset : PullTake(n)
      BY <2>4
    <3>2. /\ writer' = writer \/ (writer = "pwait" /\ writer' = "prelock")
          /\ main' = "sfunc" /\ UNCHANGED pull_result
      BY <3>1, <2>3
    <3> HIDE DEF MainPullTake
    <3> QED BY <2>1, <3>2
  <2> QED BY <2>2, <2>4
<1> HIDE DEF MainPullTake
<1>0. PassedOn' = PassedOn /\ (WriterAlive' => WriterAlive /\ PushedTo' = PushedTo)
  BY <1>00 DEF InRing, First, Second, PushedTo, PoppedTo, PassedOn, Holding, Fetching,
     WriterAlive
<1>1. (read_offset <= source_end /\ PassedOn <= read_offset)'
  BY <1>0, <1>00 DEF Through
<1>2. ThroughControl'
  BY <1>00 DEF Through, ThroughControl, IInv, Control, Left, Ending, IsAnyRunning, StartLabels
<1>3. Healthy' => Healthy
  BY <1>00 DEF Healthy, IInv, Control, EndLabels
<1>4. Healthy' /\ (reader \in Left)' /\ WriterAlive' => PushedTo' = read_offset'
  BY <1>00, <1>0, <1>3 DEF Through, Left
<1>5. Healthy' /\ (reader \in Left)' /\ reader_rc' = "ok" => read_offset' = source_end'
  BY <1>00, <1>3 DEF Through, IInv, Left
<1>6. Healthy' /\ (writer \in Left)' /\ writer_rc' = "ok" => PassedOn' = PromisedEnd'
  BY <1>00, <1>0, <1>3 DEF Through, Left, PromisedEnd
<1>7. Healthy' /\ (pull /\ main \in EndLabels)' => taken' = Size
  BY <1>00, <1>3 DEF EndLabels, Healthy
<1> QED BY <1>1, <1>2, <1>4, <1>5, <1>6, <1>7 DEF Through, ThroughControl

LEMMA ThroughMainTeardown ==
  ASSUME IInv, IInv', Through, MainTeardown
  PROVE  Through'
<1> USE DEF MainTeardown, mainKeeps, pullKeeps, SfuncReturns, MainStart, environment,
         readerState, writerState, mainState, pullBuf
<1>00. /\ UNCHANGED <<pull, source_end, cancelled, reader_buf, reader_rc, read_offset,
                       read_result, read_running, writer_buf, writer_rc, write_offset,
                       write_result, write_running, write_buffers, pull_result, taken,
                          returned>>
       /\ writer' = writer \/ (writer = "pwait" /\ writer' = "prelock")
          \/ (writer = "wait" /\ writer' = "relock")
       /\ (reader' \in Left) = (reader \in Left) /\ (writer' \in Left) = (writer \in Left)
       /\ main = "teardown" /\ main' = IF IsAnyRunning THEN "teardown" ELSE "result"
  BY DEF Woken, Left
<1> HIDE DEF MainTeardown
<1>0. PassedOn' = PassedOn /\ (WriterAlive' => WriterAlive /\ PushedTo' = PushedTo)
  BY <1>00 DEF InRing, First, Second, PushedTo, PoppedTo, PassedOn, Holding, Fetching,
     WriterAlive
<1>1. (read_offset <= source_end /\ PassedOn <= read_offset)'
  BY <1>0, <1>00 DEF Through
<1>2. ThroughControl'
  BY <1>00 DEF Through, ThroughControl, Left, Ending, IsAnyRunning
<1>3. Healthy' => Healthy
  BY <1>00 DEF Healthy
<1>4. Healthy' /\ (reader \in Left)' /\ WriterAlive' => PushedTo' = read_offset'
  BY <1>00, <1>0, <1>3 DEF Through
<1>5. Healthy' /\ (reader \in Left)' /\ reader_rc' = "ok" => read_offset' = source_end'
  BY <1>00, <1>3 DEF Through
<1>6. Healthy' /\ (writer \in Left)' /\ writer_rc' = "ok" => PassedOn' = PromisedEnd'
  BY <1>00, <1>0, <1>3 DEF Through, PromisedEnd
<1>7. Healthy' /\ (pull /\ main \in EndLabels)' => taken' = Size
  BY <1>00, <1>3 DEF Through, EndLabels
<1> QED BY <1>1, <1>2, <1>4, <1>5, <1>6, <1>7 DEF Through, ThroughControl

LEMMA ThroughCancelQuiet ==
  ASSUME IInv, IInv', Through, Cancel
  PROVE  Through'
<1> USE DEF Cancel, readerState, writerState, mainState, pullBuf
<1>1. UNCHANGED <<pull, source_end, read_offset>>
  OBVIOUS
<1>2. PassedOn' = PassedOn /\ (WriterAlive' => WriterAlive /\ PushedTo' = PushedTo)
  BY DEF IInv, Control, StartLabels, InRing, First, Second, PushedTo, PoppedTo, PassedOn,
     Holding, Fetching, WriterAlive
<1>3. ThroughControl'
  BY DEF Through, ThroughControl, IInv, Control, Left, Ending, IsAnyRunning, StartLabels
<1>4. Healthy' => Healthy
  BY DEF Healthy, IInv, Control, EndLabels
<1>5. Healthy' => /\ UNCHANGED reader_rc
                  /\ reader' \in Left => reader \in Left
                  /\ writer' \in Left /\ writer_rc' = "ok" => writer \in Left /\ writer_rc = "ok"
                  /\ pull /\ main' \in EndLabels => taken' = Size
  BY <1>4 DEF Through, EndLabels, IInv, Control, Healthy, StartLabels, Left
<1> QED BY <1>1, <1>2, <1>3, <1>4, <1>5, ThroughKept

LEMMA InitThrough == Init => Through
<1> SUFFICES ASSUME Init PROVE Through
  OBVIOUS
<1>1. PassedOn = 0 /\ read_offset = 0 /\ source_end \in 0 .. Size
  BY DEF Init, PassedOn
<1> QED BY <1>1 DEF Init, Through, ThroughControl, Ending, EndLabels, Left

\* Everything that is passed on was read, and what a transfer without a failure passes
\* on before it ends is all the source holds.
THEOREM Thoroughness == Spec => []Through
<1>1. IInv /\ IInv' /\ Through /\ [Next]_vars => Through'
  <2> SUFFICES ASSUME IInv, IInv', Through, [Next]_vars PROVE Through'
    OBVIOUS
  <2>1. CASE Reader
    BY <2>1, ThroughReaderQuiet, ThroughReaderLoop, ThroughReaderRead,
       ThroughReaderPush DEF Reader
  <2>2. CASE Writer
    BY <2>2, ThroughWriterQuiet, ThroughWriterLoop, ThroughWriterCheck, ThroughWriterPop,
       ThroughWriterDeliver, ThroughWriterPullPut DEF Writer
  <2>3. CASE Main
    BY <2>3, ThroughMainQuiet, ThroughMainPullTake, ThroughMainTeardown DEF Main
  <2>4. CASE Cancel
    BY <2>4, ThroughCancelQuiet
  <2>5. CASE Finished \/ UNCHANGED vars
    <3> USE DEF Finished, vars, environment, readerState, writerState, mainState, pullBuf
    <3>1. PassedOn' = PassedOn /\ PushedTo' = PushedTo /\ WriterAlive' = WriterAlive
      BY <2>5 DEF PassedOn, PoppedTo, PushedTo, InRing, First, Second, WriterAlive
    <3>2. ThroughControl' /\ Healthy' = Healthy
      BY <2>5 DEF Through, ThroughControl, IsAnyRunning, Healthy
    <3> QED BY <2>5, <3>1, <3>2 DEF Through, PromisedEnd
  <2> QED BY <2>1, <2>2, <2>3, <2>4, <2>5 DEF Next
<1> QED BY InitThrough, <1>1, Invariance, PTL DEF Spec

-------------------------------------------------------------------------------
(* The refinement of Delivery *)

\* What the promise sees of a state.
promised == <<PromisedEnd, sink, returned>>

\* What has been delivered, as the promise counts it.
AsPromised ==
  /\ sink = Promise!Prefix(Delivered)
  /\ Delivered \in 0 .. PromisedEnd /\ PromisedEnd \in 0 .. Size

\* In every state the sink is a prefix of what the promise counts.
LEMMA DeliveredAsPromised == IInv /\ Through => AsPromised
<1> SUFFICES ASSUME IInv, Through PROVE AsPromised
  OBVIOUS
<1>1. PassedOn \in Nat /\ PassedOn <= read_offset /\ read_offset <= source_end
      /\ read_offset \in 0 .. Size /\ source_end \in 0 .. Size
  BY Chain DEF Through, IInv, TypeOK
<1>2. pull => taken <= PassedOn /\ taken \in Nat
  BY DEF IInv, TypeOK, PullFlow, Buffer
<1> QED BY <1>1, <1>2 DEF AsPromised, Promise!Prefix, IInv, Sink, Empty, Delivered, PromisedEnd

\* Only a failing read or push moves the end the promise counts to, and it moves it back.
LEMMA ReaderStepPromise ==
  ASSUME IInv, Through, AsPromised, AsPromised', Reader
  PROVE  UNCHANGED promised \/ Promise!SourceBreaks
<1> USE DEF ReaderReturns, readerKeeps, environment, writerState, mainState, pullBuf,
         readerState
<1>1. UNCHANGED <<sink, returned, main, pull, taken, write_offset, writer_buf>>
  BY DEF Reader, ReaderLoop, ReaderRead, ReaderLock, ReaderCheck, ReaderPark, ReaderPush,
         ReaderExit, ReaderResult
<1>2. Delivered' = Delivered
  <2>1. writer' = writer \/ (writer = "wait" /\ writer' = "relock")
    BY DEF Reader, ReaderLoop, ReaderRead, ReaderLock, ReaderCheck, ReaderPark, ReaderPush,
           ReaderExit, ReaderResult
  <2> QED BY <1>1, <2>1 DEF Delivered, PassedOn
<1>3. CASE ReaderLoop \/ ReaderLock \/ ReaderCheck \/ ReaderPark \/ ReaderExit \/ ReaderResult
  BY <1>1, <1>3 DEF promised, PromisedEnd, ReaderLoop, ReaderLock, ReaderCheck, ReaderPark,
     ReaderExit,
     ReaderResult, Through, ThroughControl, Left
<1>4. CASE ReaderRead \/ ReaderPush
  <2>1. reader \notin Left /\ read_running /\ reader_rc # "fail"
    BY <1>4 DEF ReaderRead, ReaderPush, IInv, Control, Through, ThroughControl, Left
  <2>2. returned = "none" /\ PromisedEnd = source_end
    BY <2>1 DEF Through, ThroughControl, IsAnyRunning, Ending, PromisedEnd
  <2>3. CASE reader_rc' = "fail" /\ UNCHANGED <<read_offset, source_end>>
    <3>1. PromisedEnd' = read_offset /\ read_offset <= source_end
      BY <2>3 DEF PromisedEnd, Through
    <3>2. PromisedEnd' \in 0 .. PromisedEnd /\ Delivered \in 0 .. PromisedEnd /\ Delivered <= PromisedEnd'
      BY <1>2, <2>2, <3>1 DEF AsPromised
    <3> QED BY <1>1, <2>2, <3>1, <3>2 DEF Promise!SourceBreaks, AsPromised, PromisedEnd
  <2>4. CASE reader_rc' = reader_rc \/ reader_rc' = "ok"
    BY <1>1, <1>4, <2>1, <2>4 DEF promised, PromisedEnd, ReaderRead, ReaderPush
  <2> QED BY <1>4, <2>3, <2>4 DEF ReaderRead, ReaderPush
<1> QED BY <1>3, <1>4 DEF Reader

\* Units reach the sink while the transfer has not returned, and never more of them
\* than the source holds.
LEMMA DeliveringStep ==
  ASSUME AsPromised, AsPromised', UNCHANGED <<PromisedEnd, returned>>,
         Delivered' # Delivered => returned = "none" /\ Delivered < Delivered'
  PROVE  UNCHANGED promised \/ Promise!DeliverMore
<1>1. CASE Delivered' = Delivered
  BY <1>1 DEF promised, AsPromised, Promise!Prefix
<1>2. CASE Delivered' # Delivered
  BY <1>2 DEF Promise!DeliverMore, AsPromised, Promise!Prefix, PromisedEnd
<1> QED BY <1>1, <1>2

\* The writer delivers, or does what the promise does not see.
LEMMA WriterStepPromise ==
  ASSUME IInv, Through, AsPromised, AsPromised', Writer
  PROVE  UNCHANGED promised \/ Promise!DeliverMore
<1> USE DEF WriterReturns, writerKeeps, environment, readerState, writerState, mainState,
         pullBuf
<1>1. UNCHANGED <<PromisedEnd, returned, pull, taken>>
  BY DEF Writer, WriterLoop, WriterLock, WriterCheck, WriterPark, WriterPop, WriterDeliver,
         WriterPullLock, WriterPullPark, WriterPullPut, WriterAdvance, WriterExit, WriterResult,
         PromisedEnd
<1>2. Delivered' # Delivered => returned = "none" /\ Delivered < Delivered'
  <2>1. CASE WriterDeliver
    <3>1. WriterAlive /\ writer = "deliver"
      BY <2>1 DEF WriterDeliver, IInv, Control, WriterAlive
    <3>2. returned = "none" /\ writer_buf.len > 0 /\ writer_buf.len \in Nat /\ write_offset \in Nat
      BY <3>1 DEF Through, ThroughControl, Ending, IsAnyRunning, WriterAlive, IInv, Flow,
         Holding,
         TypeOK, Buffer
    <3> QED BY <2>1, <3>1, <3>2 DEF WriterDeliver, Delivered, PassedOn
  <2>2. CASE WriterPullPut
    BY <1>1, <2>2 DEF WriterPullPut, IInv, Control, PullLabels, Delivered
  <2>3. CASE WriterPop
    BY <1>1, <2>3 DEF WriterPop, Delivered, PassedOn
  <2>4. CASE WriterLoop \/ WriterLock \/ WriterCheck \/ WriterPark \/ WriterPullLock \/
     WriterPullPark
             \/ WriterAdvance \/ WriterExit \/ WriterResult
    BY <1>1, <2>4 DEF Delivered, PassedOn, WriterLoop, WriterLock, WriterCheck, WriterPark,
       WriterPullLock,
       WriterPullPark, WriterAdvance, WriterExit, WriterResult
  <2> QED BY <2>1, <2>2, <2>3, <2>4 DEF Writer
<1> QED BY <1>1, <1>2, DeliveringStep

\* The caller delivers, reports its result once, or does what the promise does not see.
LEMMA MainStepPromise ==
  ASSUME IInv, Through, AsPromised, AsPromised', Main
  PROVE  UNCHANGED promised \/ Promise!DeliverMore \/ Promise!Succeed \/ Promise!Fail
<1> USE DEF mainKeeps, pullKeeps, SfuncReturns, MainStart, environment, readerState,
         writerState,
        mainState, pullBuf
<1>1. CASE MainPullTake
  <2>1. UNCHANGED <<PromisedEnd, returned, pull>> /\ pull /\ returned = "none"
    BY <1>1 DEF MainPullTake, PromisedEnd, IInv, Control, SfuncLabels, Through, ThroughControl
  <2>2. taken' # taken => taken < taken'
    <3>1. ASSUME NEW n \in 1 .. pull_buffer.len - pull_buffer_offset, PullTake(n)
          PROVE  taken < taken'
      BY <3>1 DEF PullTake, IInv, TypeOK
    <3> QED BY <1>1, <3>1 DEF MainPullTake
  <2> QED BY <2>1, <2>2, DeliveringStep DEF Delivered
<1>2. CASE MainResult
  <2>1. UNCHANGED <<PromisedEnd, sink>> /\ returned = "none" /\ ~IsAnyRunning
    BY <1>2 DEF MainResult, PromisedEnd, Through, ThroughControl, Ending
  <2>2. Healthy => sink = Promise!Prefix(PromisedEnd)
    <3>1. SUFFICES ASSUME Healthy PROVE Delivered = PromisedEnd
      BY DEF AsPromised
    <3>2. CASE pull
      <4>1. taken = Size
        BY <1>2, <3>1, <3>2 DEF MainResult, Through, EndLabels
      <4> QED BY <3>2, <4>1 DEF Delivered, AsPromised
    <3>3. CASE ~pull
      <4>1. writer \in Left /\ writer_rc = "ok"
        BY <1>2, <2>1, <3>1 DEF MainResult, IInv, Wakes, EndLabels, IsAnyRunning, Control
      <4> QED BY <3>1, <3>3, <4>1 DEF Through, Delivered
    <3> QED BY <3>2, <3>3
  <2> QED BY <1>2, <2>1, <2>2 DEF MainResult, Promise!Succeed, Promise!Fail, PromisedEnd
<1>3. CASE MainStarts \/ MainStartFails \/ MainWaits \/ MainSfunc \/ MainPullLock \/
   MainPullPark
           \/ MainTeardown \/ MainJoin
  BY <1>3 DEF MainStarts, MainStartFails, MainWaits, MainSfunc, MainPullLock, MainPullPark,
     MainTeardown, MainJoin, promised, PromisedEnd
<1> QED BY <1>1, <1>2, <1>3 DEF Main

\* TransferInternal implements Delivery: for every source, buffer size, mode and fault,
\* every step
\* of its threads is one of the promise's or leaves what the promise sees alone.
THEOREM Refinement == Spec => KeepsPromise
<1>1. Init => Promise!Init
  <2> SUFFICES ASSUME Init PROVE Promise!Init
    OBVIOUS
  <2>1. source_end \in 0 .. Size
    BY DEF Init
  <2> QED BY <2>1 DEF Init, Promise!Init, Promise!Prefix, Empty
<1>2. IInv /\ Through /\ AsPromised /\ AsPromised' /\ [Next]_vars
        => [Promise!DeliverMore \/ Promise!SourceBreaks \/ Promise!Succeed \/
           Promise!Fail]_promised
  <2> SUFFICES ASSUME IInv, Through, AsPromised, AsPromised', [Next]_vars
               PROVE  [Promise!DeliverMore \/ Promise!SourceBreaks \/ Promise!Succeed \/
                  Promise!Fail]_promised
    OBVIOUS
  <2>1. CASE Reader
    BY <2>1, ReaderStepPromise
  <2>2. CASE Writer
    BY <2>2, WriterStepPromise
  <2>3. CASE Main
    BY <2>3, MainStepPromise
  <2>4. CASE Cancel \/ Finished \/ UNCHANGED vars
    BY <2>4 DEF Cancel, Finished, vars, environment, readerState, mainState, promised,
       PromisedEnd
  <2> QED BY <2>1, <2>2, <2>3, <2>4 DEF Next
<1>3. IInv /\ Through => AsPromised
  BY DeliveredAsPromised
<1> QED BY <1>1, <1>2, <1>3, Invariance, Thoroughness, PTL
    DEF Spec, KeepsPromise, Promise!Spec, promised, PromisedEnd

-------------------------------------------------------------------------------
(* Threads that sleep: WInv *)

LEMMA InitWInv == Init => WInv
  BY DEF Init, WInv, Owners, Alone, Parked, Reasons, EndLabels, SfuncLabels, Free

LEMMA RestsReaderLoop ==
  ASSUME IInv, Through, WInv, ReaderLoop
  PROVE  WInv'
<1> USE DEF ReaderLoop, InRing, readerKeeps, environment, writerState, mainState, pullBuf, readerState, ReaderReturns
<1>0. TypeOK /\ Control /\ Flow /\ ThroughControl /\ Owners /\ Alone /\ Parked /\ Reasons
  BY DEF IInv, Through, WInv
<1>1. Owners'
  BY <1>0 DEF Owners, AfterUnlock, Free, Left, StartLabels, Control
<1>2. Alone'
  BY <1>0 DEF Owners, Alone, AfterUnlock, EndLabels, Free, Control
<1>3. Parked'
  BY <1>0 DEF Alone, Parked, InRing, EndLabels, Flow, Free, Control, TypeOK, Buffer
<1>4. Reasons'
  BY <1>0 DEF Reasons, TypeOK, Results, Healthy, Control, EndLabels, SfuncLabels, StartLabels, ThroughControl, Left
<1> QED BY <1>1, <1>2, <1>3, <1>4 DEF WInv

LEMMA RestsReaderRead ==
  ASSUME IInv, Through, WInv, ReaderRead
  PROVE  WInv'
<1> USE DEF ReaderRead, readerKeeps, environment, writerState, mainState, pullBuf, readerState, ReaderReturns
<1>0. TypeOK /\ Control /\ Flow /\ ThroughControl /\ Owners /\ Alone /\ Parked /\ Reasons
  BY DEF IInv, Through, WInv
<1>1. Owners'
  BY <1>0 DEF Owners, AfterUnlock, Free, Left, StartLabels, Control
<1>2. Alone'
  BY <1>0 DEF Owners, Alone, AfterUnlock, EndLabels, Free, Control
<1>3. Parked'
  BY <1>0 DEF Alone, Parked, InRing, EndLabels, Flow, Free, Control, TypeOK, Buffer
<1>4. Reasons'
  BY <1>0 DEF Reasons, TypeOK, Results, Healthy, Control, EndLabels, SfuncLabels, StartLabels, ThroughControl, Left
<1> QED BY <1>1, <1>2, <1>3, <1>4 DEF WInv

LEMMA RestsReaderLock ==
  ASSUME IInv, Through, WInv, ReaderLock
  PROVE  WInv'
<1> USE DEF ReaderLock, readerKeeps, environment, writerState, mainState, pullBuf, readerState, ReaderReturns
<1>0. TypeOK /\ Control /\ Flow /\ ThroughControl /\ Owners /\ Alone /\ Parked /\ Reasons
  BY DEF IInv, Through, WInv
<1>1. Owners'
  BY <1>0 DEF Owners, AfterUnlock, Free, Left, StartLabels, Control
<1>2. Alone'
  BY <1>0 DEF Owners, Alone, AfterUnlock, EndLabels, Free, Control
<1>3. Parked'
  BY <1>0 DEF Alone, Parked, InRing, EndLabels, Flow, Free, Control, TypeOK, Buffer
<1>4. Reasons'
  BY <1>0 DEF Reasons, TypeOK, Results, Healthy, Control, EndLabels, SfuncLabels, StartLabels, ThroughControl, Left
<1> QED BY <1>1, <1>2, <1>3, <1>4 DEF WInv

LEMMA RestsReaderCheck ==
  ASSUME IInv, Through, WInv, ReaderCheck
  PROVE  WInv'
<1> USE DEF ReaderCheck, RingHasRoom, InRing, readerKeeps, environment, writerState, mainState, pullBuf, readerState, ReaderReturns
<1>0. TypeOK /\ Control /\ Flow /\ ThroughControl /\ Owners /\ Alone /\ Parked /\ Reasons
  BY DEF IInv, Through, WInv
<1>1. Owners'
  BY <1>0 DEF Owners, AfterUnlock, Free, Left, StartLabels, Control
<1>2. Alone'
  BY <1>0 DEF Owners, Alone, AfterUnlock, EndLabels, Free, Control
<1>3. Parked'
  BY <1>0 DEF Alone, Parked, InRing, EndLabels, Flow, Free, Control, TypeOK, Buffer
<1>4. Reasons'
  BY <1>0 DEF Reasons, TypeOK, Results, Healthy, Control, EndLabels, SfuncLabels, StartLabels, ThroughControl, Left
<1> QED BY <1>1, <1>2, <1>3, <1>4 DEF WInv

LEMMA RestsReaderPark ==
  ASSUME IInv, Through, WInv, ReaderPark
  PROVE  WInv'
<1> USE DEF ReaderPark, readerKeeps, environment, writerState, mainState, pullBuf, readerState, ReaderReturns
<1>0. TypeOK /\ Control /\ Flow /\ ThroughControl /\ Owners /\ Alone /\ Parked /\ Reasons
  BY DEF IInv, Through, WInv
<1>1. Owners'
  BY <1>0 DEF Owners, AfterUnlock, Free, Left, StartLabels, Control
<1>2. Alone'
  BY <1>0 DEF Owners, Alone, AfterUnlock, EndLabels, Free, Control
<1>3. Parked'
  BY <1>0 DEF Alone, Parked, InRing, EndLabels, Flow, Free, Control, TypeOK, Buffer
<1>4. Reasons'
  BY <1>0 DEF Reasons, TypeOK, Results, Healthy, Control, EndLabels, SfuncLabels, StartLabels, ThroughControl, Left
<1> QED BY <1>1, <1>2, <1>3, <1>4 DEF WInv

LEMMA RestsReaderPush ==
  ASSUME IInv, Through, WInv, ReaderPush
  PROVE  WInv'
<1> USE DEF ReaderPush, readerKeeps, environment, writerState, mainState, pullBuf, readerState, ReaderReturns
<1>0. TypeOK /\ Control /\ Flow /\ ThroughControl /\ Owners /\ Alone /\ Parked /\ Reasons
  BY DEF IInv, Through, WInv
<1>1. Owners'
  BY <1>0 DEF Owners, AfterUnlock, Free, Left, StartLabels, Control
<1>2. Alone'
  BY <1>0 DEF Owners, Alone, AfterUnlock, EndLabels, Free, Control
<1>3. Parked'
  BY <1>0 DEF Alone, Parked, InRing, EndLabels, Flow, Free, Control, TypeOK, Buffer
<1>4. Reasons'
  BY <1>0 DEF Reasons, TypeOK, Results, Healthy, Control, EndLabels, SfuncLabels, StartLabels, ThroughControl, Left
<1> QED BY <1>1, <1>2, <1>3, <1>4 DEF WInv

LEMMA RestsReaderExit ==
  ASSUME IInv, Through, WInv, ReaderExit
  PROVE  WInv'
<1> USE DEF ReaderExit, readerKeeps, environment, writerState, mainState, pullBuf, readerState, ReaderReturns
<1>0. TypeOK /\ Control /\ Flow /\ ThroughControl /\ Owners /\ Alone /\ Parked /\ Reasons
  BY DEF IInv, Through, WInv
<1>1. Owners'
  BY <1>0 DEF Owners, AfterUnlock, Free, Left, StartLabels, Control
<1>2. Alone'
  BY <1>0 DEF Owners, Alone, AfterUnlock, EndLabels, Free, Control
<1>3. Parked'
  BY <1>0 DEF Alone, Parked, InRing, EndLabels, Flow, Free, Control, TypeOK, Buffer
<1>4. Reasons'
  BY <1>0 DEF Reasons, TypeOK, Results, Healthy, Control, EndLabels, SfuncLabels, StartLabels, ThroughControl, Left
<1> QED BY <1>1, <1>2, <1>3, <1>4 DEF WInv

LEMMA RestsReaderResult ==
  ASSUME IInv, Through, WInv, ReaderResult
  PROVE  WInv'
<1> USE DEF ReaderResult, readerKeeps, environment, writerState, mainState, pullBuf, readerState, ReaderReturns
<1>0. TypeOK /\ Control /\ Flow /\ ThroughControl /\ Owners /\ Alone /\ Parked /\ Reasons
  BY DEF IInv, Through, WInv
<1>1. Owners'
  BY <1>0 DEF Owners, AfterUnlock, Free, Left, StartLabels, Control
<1>2. Alone'
  BY <1>0 DEF Owners, Alone, AfterUnlock, EndLabels, Free, Control
<1>3. Parked'
  BY <1>0 DEF Alone, Parked, InRing, EndLabels, Flow, Free, Control, TypeOK, Buffer
<1>4. Reasons'
  BY <1>0 DEF Reasons, TypeOK, Results, Healthy, Control, EndLabels, SfuncLabels, StartLabels, ThroughControl, Left
<1> QED BY <1>1, <1>2, <1>3, <1>4 DEF WInv

LEMMA RestsWriterLoop ==
  ASSUME IInv, Through, WInv, WriterLoop
  PROVE  WInv'
<1> USE DEF WriterLoop, writerKeeps, environment, writerState, mainState, pullBuf, readerState, WriterReturns
<1>0. TypeOK /\ Control /\ Flow /\ ThroughControl /\ Owners /\ Alone /\ Parked /\ Reasons
  BY DEF IInv, Through, WInv
<1>1. Owners'
  BY <1>0 DEF Owners, AfterUnlock, Free, Left, StartLabels, Control
<1>2. Alone'
  BY <1>0 DEF Owners, Alone, AfterUnlock, EndLabels, Free, Control
<1>3. Parked'
  BY <1>0 DEF Alone, Parked, InRing, EndLabels, Flow, Free, Control, TypeOK, Buffer
<1>4. Reasons'
  BY <1>0 DEF Reasons, TypeOK, Results, Healthy, Control, EndLabels, SfuncLabels, StartLabels, ThroughControl, Left
<1> QED BY <1>1, <1>2, <1>3, <1>4 DEF WInv

LEMMA RestsWriterLock ==
  ASSUME IInv, Through, WInv, WriterLock
  PROVE  WInv'
<1> USE DEF WriterLock, writerKeeps, environment, writerState, mainState, pullBuf, readerState, WriterReturns
<1>0. TypeOK /\ Control /\ Flow /\ ThroughControl /\ Owners /\ Alone /\ Parked /\ Reasons
  BY DEF IInv, Through, WInv
<1>1. Owners'
  BY <1>0 DEF Owners, AfterUnlock, Free, Left, StartLabels, Control
<1>2. Alone'
  BY <1>0 DEF Owners, Alone, AfterUnlock, EndLabels, Free, Control
<1>3. Parked'
  BY <1>0 DEF Alone, Parked, InRing, EndLabels, Flow, Free, Control, TypeOK, Buffer
<1>4. Reasons'
  BY <1>0 DEF Reasons, TypeOK, Results, Healthy, Control, EndLabels, SfuncLabels, StartLabels, ThroughControl, Left
<1> QED BY <1>1, <1>2, <1>3, <1>4 DEF WInv

LEMMA RestsWriterCheck ==
  ASSUME IInv, Through, WInv, WriterCheck
  PROVE  WInv'
<1> USE DEF WriterCheck, RingIsEmpty, InRing, writerKeeps, environment, writerState, mainState, pullBuf, readerState, WriterReturns
<1>0. TypeOK /\ Control /\ Flow /\ ThroughControl /\ Owners /\ Alone /\ Parked /\ Reasons
  BY DEF IInv, Through, WInv
<1>1. Owners'
  BY <1>0 DEF Owners, AfterUnlock, Free, Left, StartLabels, Control
<1>2. Alone'
  BY <1>0 DEF Owners, Alone, AfterUnlock, EndLabels, Free, Control
<1>3. Parked'
  BY <1>0 DEF Alone, Parked, InRing, EndLabels, Flow, Free, Control, TypeOK, Buffer
<1>4. Reasons'
  BY <1>0 DEF Reasons, TypeOK, Results, Healthy, Control, EndLabels, SfuncLabels, StartLabels, ThroughControl, Left
<1> QED BY <1>1, <1>2, <1>3, <1>4 DEF WInv

LEMMA RestsWriterPark ==
  ASSUME IInv, Through, WInv, WriterPark
  PROVE  WInv'
<1> USE DEF WriterPark, writerKeeps, environment, writerState, mainState, pullBuf, readerState, WriterReturns
<1>0. TypeOK /\ Control /\ Flow /\ ThroughControl /\ Owners /\ Alone /\ Parked /\ Reasons
  BY DEF IInv, Through, WInv
<1>1. Owners'
  BY <1>0 DEF Owners, AfterUnlock, Free, Left, StartLabels, Control
<1>2. Alone'
  BY <1>0 DEF Owners, Alone, AfterUnlock, EndLabels, Free, Control
<1>3. Parked'
  BY <1>0 DEF Alone, Parked, InRing, EndLabels, Flow, Free, Control, TypeOK, Buffer
<1>4. Reasons'
  BY <1>0 DEF Reasons, TypeOK, Results, Healthy, Control, EndLabels, SfuncLabels, StartLabels, ThroughControl, Left
<1> QED BY <1>1, <1>2, <1>3, <1>4 DEF WInv

LEMMA RestsWriterPop ==
  ASSUME IInv, Through, WInv, WriterPop
  PROVE  WInv'
<1> USE DEF WriterPop, writerKeeps, environment, writerState, mainState, pullBuf, readerState, WriterReturns
<1>0. TypeOK /\ Control /\ Flow /\ ThroughControl /\ Owners /\ Alone /\ Parked /\ Reasons
  BY DEF IInv, Through, WInv
<1>1. Owners'
  BY <1>0 DEF Owners, AfterUnlock, Free, Left, StartLabels, Control
<1>2. Alone'
  BY <1>0 DEF Owners, Alone, AfterUnlock, EndLabels, Free, Control
<1>3. Parked'
  BY <1>0 DEF Alone, Parked, InRing, EndLabels, Flow, Free, Control, TypeOK, Buffer
<1>4. Reasons'
  BY <1>0 DEF Reasons, TypeOK, Results, Healthy, Control, EndLabels, SfuncLabels, StartLabels, ThroughControl, Left
<1> QED BY <1>1, <1>2, <1>3, <1>4 DEF WInv

LEMMA RestsWriterDeliver ==
  ASSUME IInv, Through, WInv, WriterDeliver
  PROVE  WInv'
<1> USE DEF WriterDeliver, writerKeeps, environment, writerState, mainState, pullBuf, readerState, WriterReturns
<1>0. TypeOK /\ Control /\ Flow /\ ThroughControl /\ Owners /\ Alone /\ Parked /\ Reasons
  BY DEF IInv, Through, WInv
<1>1. Owners'
  BY <1>0 DEF Owners, AfterUnlock, Free, Left, StartLabels, Control
<1>2. Alone'
  BY <1>0 DEF Owners, Alone, AfterUnlock, EndLabels, Free, Control
<1>3. Parked'
  BY <1>0 DEF Alone, Parked, InRing, EndLabels, Flow, Free, Control, TypeOK, Buffer
<1>4. Reasons'
  BY <1>0 DEF Reasons, TypeOK, Results, Healthy, Control, EndLabels, SfuncLabels, StartLabels, ThroughControl, Left
<1> QED BY <1>1, <1>2, <1>3, <1>4 DEF WInv

LEMMA RestsWriterPullLock ==
  ASSUME IInv, Through, WInv, WriterPullLock
  PROVE  WInv'
<1> USE DEF WriterPullLock, writerKeeps, environment, writerState, mainState, pullBuf, readerState, WriterReturns
<1>0. TypeOK /\ Control /\ Flow /\ ThroughControl /\ Owners /\ Alone /\ Parked /\ Reasons
  BY DEF IInv, Through, WInv
<1>1. Owners'
  BY <1>0 DEF Owners, AfterUnlock, Free, Left, StartLabels, Control
<1>2. Alone'
  BY <1>0 DEF Owners, Alone, AfterUnlock, EndLabels, Free, Control
<1>3. Parked'
  BY <1>0 DEF Alone, Parked, InRing, EndLabels, Flow, Free, Control, TypeOK, Buffer
<1>4. Reasons'
  BY <1>0 DEF Reasons, TypeOK, Results, Healthy, Control, EndLabels, SfuncLabels, StartLabels, ThroughControl, Left
<1> QED BY <1>1, <1>2, <1>3, <1>4 DEF WInv

LEMMA RestsWriterPullPark ==
  ASSUME IInv, Through, WInv, WriterPullPark
  PROVE  WInv'
<1> USE DEF WriterPullPark, writerKeeps, environment, writerState, mainState, pullBuf, readerState, WriterReturns
<1>0. TypeOK /\ Control /\ Flow /\ ThroughControl /\ Owners /\ Alone /\ Parked /\ Reasons
  BY DEF IInv, Through, WInv
<1>1. Owners'
  BY <1>0 DEF Owners, AfterUnlock, Free, Left, StartLabels, Control
<1>2. Alone'
  BY <1>0 DEF Owners, Alone, AfterUnlock, EndLabels, Free, Control
<1>3. Parked'
  BY <1>0 DEF Alone, Parked, InRing, EndLabels, Flow, Free, Control, TypeOK, Buffer
<1>4. Reasons'
  BY <1>0 DEF Reasons, TypeOK, Results, Healthy, Control, EndLabels, SfuncLabels, StartLabels, ThroughControl, Left
<1> QED BY <1>1, <1>2, <1>3, <1>4 DEF WInv

LEMMA RestsWriterPullPut ==
  ASSUME IInv, Through, WInv, WriterPullPut
  PROVE  WInv'
<1> USE DEF WriterPullPut, writerKeeps, environment, writerState, mainState, pullBuf, readerState, WriterReturns
<1>0. TypeOK /\ Control /\ Flow /\ ThroughControl /\ Owners /\ Alone /\ Parked /\ Reasons
  BY DEF IInv, Through, WInv
<1>1. Owners'
  BY <1>0 DEF Owners, AfterUnlock, Free, Left, StartLabels, Control
<1>2. Alone'
  BY <1>0 DEF Owners, Alone, AfterUnlock, EndLabels, Free, Control
<1>3. Parked'
  BY <1>0 DEF Alone, Parked, InRing, EndLabels, Flow, Free, Control, TypeOK, Buffer
<1>4. Reasons'
  BY <1>0 DEF Reasons, TypeOK, Results, Healthy, Control, EndLabels, SfuncLabels, StartLabels, ThroughControl, Left
<1> QED BY <1>1, <1>2, <1>3, <1>4 DEF WInv

LEMMA RestsWriterAdvance ==
  ASSUME IInv, Through, WInv, WriterAdvance
  PROVE  WInv'
<1> USE DEF WriterAdvance, writerKeeps, environment, writerState, mainState, pullBuf, readerState, WriterReturns
<1>0. TypeOK /\ Control /\ Flow /\ ThroughControl /\ Owners /\ Alone /\ Parked /\ Reasons
  BY DEF IInv, Through, WInv
<1>1. Owners'
  BY <1>0 DEF Owners, AfterUnlock, Free, Left, StartLabels, Control
<1>2. Alone'
  BY <1>0 DEF Owners, Alone, AfterUnlock, EndLabels, Free, Control
<1>3. Parked'
  BY <1>0 DEF Alone, Parked, InRing, EndLabels, Flow, Free, Control, TypeOK, Buffer
<1>4. Reasons'
  BY <1>0 DEF Reasons, TypeOK, Results, Healthy, Control, EndLabels, SfuncLabels, StartLabels, ThroughControl, Left
<1> QED BY <1>1, <1>2, <1>3, <1>4 DEF WInv

LEMMA RestsWriterExit ==
  ASSUME IInv, Through, WInv, WriterExit
  PROVE  WInv'
<1> USE DEF WriterExit, writerKeeps, environment, writerState, mainState, pullBuf, readerState, WriterReturns
<1>0. TypeOK /\ Control /\ Flow /\ ThroughControl /\ Owners /\ Alone /\ Parked /\ Reasons
  BY DEF IInv, Through, WInv
<1>1. Owners'
  BY <1>0 DEF Owners, AfterUnlock, Free, Left, StartLabels, Control
<1>2. Alone'
  BY <1>0 DEF Owners, Alone, AfterUnlock, EndLabels, Free, Control
<1>3. Parked'
  BY <1>0 DEF Alone, Parked, InRing, EndLabels, Flow, Free, Control, TypeOK, Buffer
<1>4. Reasons'
  BY <1>0 DEF Reasons, TypeOK, Results, Healthy, Control, EndLabels, SfuncLabels, StartLabels, ThroughControl, Left
<1> QED BY <1>1, <1>2, <1>3, <1>4 DEF WInv

LEMMA RestsWriterResult ==
  ASSUME IInv, Through, WInv, WriterResult
  PROVE  WInv'
<1> USE DEF WriterResult, writerKeeps, environment, writerState, mainState, pullBuf, readerState, WriterReturns
<1>0. TypeOK /\ Control /\ Flow /\ ThroughControl /\ Owners /\ Alone /\ Parked /\ Reasons
  BY DEF IInv, Through, WInv
<1>1. Owners'
  BY <1>0 DEF Owners, AfterUnlock, Free, Left, StartLabels, Control
<1>2. Alone'
  BY <1>0 DEF Owners, Alone, AfterUnlock, EndLabels, Free, Control
<1>3. Parked'
  BY <1>0 DEF Alone, Parked, InRing, EndLabels, Flow, Free, Control, TypeOK, Buffer
<1>4. Reasons'
  BY <1>0 DEF Reasons, TypeOK, Results, Healthy, Control, EndLabels, SfuncLabels, StartLabels, ThroughControl, Left
<1> QED BY <1>1, <1>2, <1>3, <1>4 DEF WInv

LEMMA RestsMainStarts ==
  ASSUME IInv, Through, WInv, MainStarts
  PROVE  WInv'
<1> USE DEF MainStarts, MainStart, mainKeeps, pullKeeps, environment, mainState, pullBuf, readerState
<1>0. TypeOK /\ Control /\ Flow /\ ThroughControl /\ Owners /\ Alone /\ Parked /\ Reasons
  BY DEF IInv, Through, WInv
<1>1. Owners'
  BY <1>0 DEF Owners, AfterUnlock, Free, Left, StartLabels, Control
<1>2. Alone'
  BY <1>0 DEF Owners, Alone, AfterUnlock, EndLabels, Free, Control
<1>3. Parked'
  BY <1>0 DEF Alone, Parked, InRing, EndLabels, Flow, Free, Control, TypeOK, Buffer
<1>4. Reasons'
  BY <1>0 DEF Reasons, TypeOK, Results, Healthy, Control, EndLabels, SfuncLabels, StartLabels, ThroughControl, Left
<1> QED BY <1>1, <1>2, <1>3, <1>4 DEF WInv

LEMMA RestsMainStartFails ==
  ASSUME IInv, Through, WInv, MainStartFails
  PROVE  WInv'
<1> USE DEF MainStartFails, mainKeeps, pullKeeps, environment, mainState, pullBuf, readerState
<1>0. TypeOK /\ Control /\ Flow /\ ThroughControl /\ Owners /\ Alone /\ Parked /\ Reasons
  BY DEF IInv, Through, WInv
<1>1. Owners'
  BY <1>0 DEF Owners, AfterUnlock, Free, Left, StartLabels, Control
<1>2. Alone'
  BY <1>0 DEF Owners, Alone, AfterUnlock, EndLabels, Free, Control
<1>3. Parked'
  BY <1>0 DEF Alone, Parked, InRing, EndLabels, Flow, Free, Control, TypeOK, Buffer
<1>4. Reasons'
  BY <1>0 DEF Reasons, TypeOK, Results, Healthy, Control, EndLabels, SfuncLabels, StartLabels, ThroughControl, Left
<1> QED BY <1>1, <1>2, <1>3, <1>4 DEF WInv

LEMMA RestsMainWaits ==
  ASSUME IInv, Through, WInv, MainWaits
  PROVE  WInv'
<1> USE DEF MainWaits, mainKeeps, pullKeeps, environment, mainState, pullBuf, readerState
<1>0. TypeOK /\ Control /\ Flow /\ ThroughControl /\ Owners /\ Alone /\ Parked /\ Reasons
  BY DEF IInv, Through, WInv
<1>1. Owners'
  BY <1>0 DEF Owners, AfterUnlock, Free, Left, StartLabels, Control
<1>2. Alone'
  BY <1>0 DEF Owners, Alone, AfterUnlock, EndLabels, Free, Control
<1>3. Parked'
  BY <1>0 DEF Alone, Parked, InRing, EndLabels, Flow, Free, Control, TypeOK, Buffer
<1>4. Reasons'
  BY <1>0 DEF Reasons, TypeOK, Results, Healthy, Control, EndLabels, SfuncLabels, StartLabels, ThroughControl, Left
<1> QED BY <1>1, <1>2, <1>3, <1>4 DEF WInv

LEMMA RestsMainSfunc ==
  ASSUME IInv, Through, WInv, MainSfunc
  PROVE  WInv'
<1> USE DEF MainSfunc, SfuncReturns, mainKeeps, pullKeeps, environment, mainState, pullBuf, readerState
<1>0. TypeOK /\ Control /\ Flow /\ ThroughControl /\ Owners /\ Alone /\ Parked /\ Reasons
  BY DEF IInv, Through, WInv
<1>1. Owners'
  BY <1>0 DEF Owners, AfterUnlock, Free, Left, StartLabels, Control
<1>2. Alone'
  BY <1>0 DEF Owners, Alone, AfterUnlock, EndLabels, Free, Control
<1>3. Parked'
  BY <1>0 DEF Alone, Parked, InRing, EndLabels, Flow, Free, Control, TypeOK, Buffer
<1>4. Reasons'
  BY <1>0 DEF Reasons, TypeOK, Results, Healthy, Control, EndLabels, SfuncLabels, StartLabels, ThroughControl, Left
<1> QED BY <1>1, <1>2, <1>3, <1>4 DEF WInv

LEMMA RestsMainPullLock ==
  ASSUME IInv, Through, WInv, MainPullLock
  PROVE  WInv'
<1> USE DEF MainPullLock, mainKeeps, pullKeeps, environment, mainState, pullBuf, readerState
<1>0. TypeOK /\ Control /\ Flow /\ ThroughControl /\ Owners /\ Alone /\ Parked /\ Reasons
  BY DEF IInv, Through, WInv
<1>1. Owners'
  BY <1>0 DEF Owners, AfterUnlock, Free, Left, StartLabels, Control
<1>2. Alone'
  BY <1>0 DEF Owners, Alone, AfterUnlock, EndLabels, Free, Control
<1>3. Parked'
  BY <1>0 DEF Alone, Parked, InRing, EndLabels, Flow, Free, Control, TypeOK, Buffer
<1>4. Reasons'
  BY <1>0 DEF Reasons, TypeOK, Results, Healthy, Control, EndLabels, SfuncLabels, StartLabels, ThroughControl, Left
<1> QED BY <1>1, <1>2, <1>3, <1>4 DEF WInv

LEMMA RestsMainPullPark ==
  ASSUME IInv, Through, WInv, MainPullPark
  PROVE  WInv'
<1> USE DEF MainPullPark, mainKeeps, pullKeeps, environment, mainState, pullBuf, readerState
<1>0. TypeOK /\ Control /\ Flow /\ ThroughControl /\ Owners /\ Alone /\ Parked /\ Reasons
  BY DEF IInv, Through, WInv
<1>1. Owners'
  BY <1>0 DEF Owners, AfterUnlock, Free, Left, StartLabels, Control
<1>2. Alone'
  BY <1>0 DEF Owners, Alone, AfterUnlock, EndLabels, Free, Control
<1>3. Parked'
  BY <1>0 DEF Alone, Parked, InRing, EndLabels, Flow, Free, Control, TypeOK, Buffer
<1>4. Reasons'
  BY <1>0 DEF Reasons, TypeOK, Results, Healthy, Control, EndLabels, SfuncLabels, StartLabels, ThroughControl, Left
<1> QED BY <1>1, <1>2, <1>3, <1>4 DEF WInv

LEMMA RestsMainPullTake ==
  ASSUME IInv, Through, WInv, MainPullTake
  PROVE  WInv'
<1> USE DEF MainPullTake, SfuncReturns, PullTake, Deliver, mainKeeps, pullKeeps, environment, mainState, pullBuf, readerState
<1>0. TypeOK /\ Control /\ Flow /\ ThroughControl /\ Owners /\ Alone /\ Parked /\ Reasons
  BY DEF IInv, Through, WInv
<1>1. Owners'
  BY <1>0 DEF Owners, AfterUnlock, Free, Left, StartLabels, Control
<1>2. Alone'
  BY <1>0 DEF Owners, Alone, AfterUnlock, EndLabels, Free, Control
<1>3. Parked'
  BY <1>0 DEF Alone, Parked, InRing, EndLabels, Flow, Free, Control, TypeOK, Buffer
<1>4. Reasons'
  BY <1>0 DEF Reasons, TypeOK, Results, Healthy, Control, EndLabels, SfuncLabels, StartLabels, ThroughControl, Left
<1> QED BY <1>1, <1>2, <1>3, <1>4 DEF WInv

LEMMA RestsMainTeardown ==
  ASSUME IInv, Through, WInv, MainTeardown
  PROVE  WInv'
<1> USE DEF MainTeardown, Woken, mainKeeps, pullKeeps, environment, mainState, pullBuf, readerState
<1>0. TypeOK /\ Control /\ Flow /\ ThroughControl /\ Owners /\ Alone /\ Parked /\ Reasons
  BY DEF IInv, Through, WInv
<1>1. Owners'
  BY <1>0 DEF Owners, AfterUnlock, Free, Left, StartLabels, Control
<1>2. Alone'
  BY <1>0 DEF Owners, Alone, AfterUnlock, EndLabels, Free, Control
<1>3. Parked'
  BY <1>0 DEF Alone, Parked, InRing, EndLabels, Flow, Free, Control, TypeOK, Buffer
<1>4. Reasons'
  BY <1>0 DEF Reasons, TypeOK, Results, Healthy, Control, EndLabels, SfuncLabels, StartLabels, ThroughControl, Left
<1> QED BY <1>1, <1>2, <1>3, <1>4 DEF WInv

LEMMA RestsMainResult ==
  ASSUME IInv, Through, WInv, MainResult
  PROVE  WInv'
<1> USE DEF MainResult, mainKeeps, pullKeeps, environment, mainState, pullBuf, readerState
<1>0. TypeOK /\ Control /\ Flow /\ ThroughControl /\ Owners /\ Alone /\ Parked /\ Reasons
  BY DEF IInv, Through, WInv
<1>1. Owners'
  BY <1>0 DEF Owners, AfterUnlock, Free, Left, StartLabels, Control
<1>2. Alone'
  BY <1>0 DEF Owners, Alone, AfterUnlock, EndLabels, Free, Control
<1>3. Parked'
  BY <1>0 DEF Alone, Parked, InRing, EndLabels, Flow, Free, Control, TypeOK, Buffer
<1>4. Reasons'
  BY <1>0 DEF Reasons, TypeOK, Results, Healthy, Control, EndLabels, SfuncLabels, StartLabels, ThroughControl, Left
<1> QED BY <1>1, <1>2, <1>3, <1>4 DEF WInv

LEMMA RestsMainJoin ==
  ASSUME IInv, Through, WInv, MainJoin
  PROVE  WInv'
<1> USE DEF MainJoin, mainKeeps, pullKeeps, environment, mainState, pullBuf, readerState
<1>0. TypeOK /\ Control /\ Flow /\ ThroughControl /\ Owners /\ Alone /\ Parked /\ Reasons
  BY DEF IInv, Through, WInv
<1>1. Owners'
  BY <1>0 DEF Owners, AfterUnlock, Free, Left, StartLabels, Control
<1>2. Alone'
  BY <1>0 DEF Owners, Alone, AfterUnlock, EndLabels, Free, Control
<1>3. Parked'
  BY <1>0 DEF Alone, Parked, InRing, EndLabels, Flow, Free, Control, TypeOK, Buffer
<1>4. Reasons'
  BY <1>0 DEF Reasons, TypeOK, Results, Healthy, Control, EndLabels, SfuncLabels, StartLabels, ThroughControl, Left
<1> QED BY <1>1, <1>2, <1>3, <1>4 DEF WInv

LEMMA RestsQuiet == ASSUME IInv, WInv, Cancel \/ Finished \/ UNCHANGED vars PROVE WInv'
<1> USE DEF Cancel, Finished, vars, environment, readerState, writerState, mainState, pullBuf
<1>1. Owners' /\ Alone' /\ Parked'
  BY DEF WInv, Owners, Alone, Parked, InRing
<1>2. Reasons'
  BY DEF WInv, Reasons
<1> QED BY <1>1, <1>2 DEF WInv

\* Who sleeps has nothing to do that another one could still give it.
LEMMA NobodySleeps == ASSUME IInv, Through, WInv PROVE NobodyStranded
<1> SUFFICES ASSUME ReaderAsleep, WriterAsleep, MainAsleep, ~Stuck PROVE FALSE
  BY DEF NobodyStranded
<1>0. TypeOK /\ Control /\ Flow /\ PullFlow /\ ThroughControl /\ Owners /\ Alone /\ Parked /\ Reasons
  BY DEF IInv, Through, WInv
<1>1. main # "join"
  <2> SUFFICES ASSUME main = "join" PROVE FALSE
    OBVIOUS
  <2>1. ~read_running /\ ~write_running
    BY <1>0 DEF ThroughControl, Ending, IsAnyRunning, TypeOK
  <2>2. reader \in {"idle", "result", "dead"} /\ writer \in {"idle", "result", "dead"}
    BY <1>0, <2>1 DEF Control
  <2> QED BY <2>2 DEF ReaderAsleep, WriterAsleep, MainAsleep
<1>2. main \notin EndLabels /\ main \notin StartLabels
  BY <1>1 DEF MainAsleep, EndLabels, StartLabels
<1>3. ~(main \in {"plock", "prelock"} /\ pull_mutex # Free)
  BY <1>0 DEF Owners, WriterAsleep
<1>4. IF pull THEN main = "pwait" ELSE main = "waiting" /\ ~cancelled /\ ~uevent_done
  BY <1>0, <1>1, <1>3 DEF MainAsleep, Control, SfuncLabels
<1>5. ~pull => writer # "dead" /\ writer # "pwait"
  BY <1>0, <1>4 DEF Reasons, Control, PullLabels
<1>6. Healthy
  BY <1>0, <1>2, <1>4 DEF Healthy, Reasons, Control, Stuck, TypeOK, Results
<1>7. reader = "dead" => reader_rc = "ok"
  BY <1>0, <1>6 DEF Healthy, Reasons
<1>8. pull => writer_rc = "ok" /\ reader_rc = "ok" /\ source_end = Size
  BY <1>0, <1>2, <1>4 DEF Reasons, Stuck, TypeOK, Results
<1>9. writer \in {"wait", "pwait", "dead"}
  <2>1. writer # "idle"
    BY <1>0, <1>2, <1>6 DEF Control, Healthy
  <2>2. ~(writer \in {"lock", "relock"} /\ mutex # Free)
    BY <1>0 DEF Owners, ReaderAsleep, Left, Control
  <2>3. ~(writer \in {"plock", "prelock"} /\ pull_mutex # Free)
    BY <1>0, <1>4 DEF Owners, MainAsleep
  <2> QED BY <2>1, <2>2, <2>3 DEF WriterAsleep
<1>10. reader \in {"wait", "dead"}
  <2>1. reader # "idle"
    BY <1>0, <1>2, <1>6 DEF Control, StartLabels
  <2>2. ~(reader \in {"lock", "relock"} /\ mutex # Free)
    BY <1>0, <1>9 DEF Owners, Left, Control, Stuck
  <2> QED BY <2>1, <2>2 DEF ReaderAsleep
<1>11. CASE writer = "wait"
  <2>1. InRing = 0 /\ write_offset < Size /\ reader = "dead"
    BY <1>0, <1>2, <1>10, <1>11 DEF Parked, Flow, Fetching
  <2>2. WriterAlive
    BY <1>0, <1>11 DEF WriterAlive, Control
  <2>3. source_end = Size
    BY <1>0, <1>4, <1>8, <1>11, <2>1 DEF Stuck, TypeOK
  <2>4. PushedTo = write_offset
    BY <1>11, <2>1 DEF PushedTo, PoppedTo, PassedOn, Holding
  <2>5. PushedTo = read_offset /\ read_offset = source_end
    BY <1>6, <1>7, <2>1, <2>2 DEF Through, Left
  <2> QED BY <1>0, <2>1, <2>3, <2>4, <2>5 DEF TypeOK
<1>12. CASE writer = "pwait"
  BY <1>0, <1>2, <1>4, <1>5, <1>12 DEF Parked, TypeOK, Buffer
<1>13. CASE writer = "dead"
  <2>1. pull /\ main = "pwait" /\ taken < Size
    BY <1>0, <1>4, <1>5, <1>13 DEF Reasons, SfuncLabels
  <2>2. PassedOn = Size
    BY <1>6, <1>8, <1>13, <2>1 DEF Through, Left, PromisedEnd
  <2>3. pull_buffer.len = 0 /\ pull_buffer_offset = 0
    BY <1>0, <1>2, <2>1 DEF Parked, PullFlow
  <2>4. taken + 0 - 0 = PassedOn
    BY <1>0, <2>1, <2>3 DEF PullFlow
  <2> QED BY <1>0, <2>1, <2>2, <2>4 DEF TypeOK
<1> QED BY <1>9, <1>11, <1>12, <1>13

\* Nobody is left asleep.  The waits of the engine are woken once and test once, two of its early
\* returns leave the mutex locked and the caller unlocks what it does not own; yet as long as the
\* caller has not returned some thread can move, but for the four ways that Stuck names.  This is what
\* safety says of Returns, for every size, buffer, mode, set of faults and outcome of a foreign unlock.
THEOREM NeverStranded == Spec => []NobodyStranded
<1>1. IInv /\ Through /\ WInv /\ [Next]_vars => WInv'
  BY RestsReaderLoop, RestsReaderRead, RestsReaderLock, RestsReaderCheck, RestsReaderPark, RestsReaderPush, RestsReaderExit, RestsReaderResult, RestsWriterLoop, RestsWriterLock, RestsWriterCheck, RestsWriterPark, RestsWriterPop, RestsWriterDeliver, RestsWriterPullLock, RestsWriterPullPark, RestsWriterPullPut, RestsWriterAdvance, RestsWriterExit, RestsWriterResult, RestsMainStarts, RestsMainStartFails, RestsMainWaits, RestsMainSfunc, RestsMainPullLock, RestsMainPullPark, RestsMainPullTake, RestsMainTeardown, RestsMainResult, RestsMainJoin,
     RestsQuiet DEF Next, Reader, Writer, Main
<1> QED BY <1>1, InitWInv, NobodySleeps, Invariance, Thoroughness, PTL DEF Spec
===============================================================================
