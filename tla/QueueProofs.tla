---------------------------- MODULE QueueProofs ----------------------------
(* Two queues between threads.  The ring of the transfer engine and of the    *)
(* installer, for every capacity: when its callers test ringbuf_free before a *)
(* push and ringbuf_size before a pop it is a first-in first-out queue, and   *)
(* its swaps never put a vector in two hands.  The queue of the download      *)
(* pool, for every number of threads, requests and attempts, length of a file *)
(* and faults: no request is lost or doubled between the queue thread, the    *)
(* workers and the main loop, no wake-up is lost, and files are whole.        *)
EXTENDS RingQueue, DownloadPool, SequenceTheorems, FiniteSetTheorems, TLAPS

\* An index below twice the capacity names the slot it reaches after at most one wrap.
LEMMA SlotOf ==
  ASSUME NEW x \in 0 .. Wrap - 1
  PROVE  x % Capacity = IF x < Capacity THEN x ELSE x - Capacity
  BY CapacityAssumption, SMTT(30) DEF Wrap

\* The next index is one further, or starts again.
LEMMA NextIndex ==
  ASSUME NEW x \in 0 .. Wrap - 1
  PROVE  (x + 1) % Wrap = IF x = Wrap - 1 THEN 0 ELSE x + 1
  BY CapacityAssumption, SMTT(30) DEF Wrap

\* The distance from the read to the write index.
LEMMA SizeOf ==
  ASSUME NEW r \in 0 .. Wrap - 1, NEW w \in 0 .. Wrap - 1
  PROVE  (w - r) % Wrap = IF w >= r THEN w - r ELSE w - r + Wrap
  BY CapacityAssumption, SMTT(30) DEF Wrap

RingInv == RingTypeOK /\ NoVectorShared

\* Both indices name slots of the ring.
LEMMA Slots ==
  ASSUME RingTypeOK
  PROVE  /\ ring.r \in 0 .. Wrap - 1 /\ ring.w \in 0 .. Wrap - 1
         /\ ring.r % Capacity \in 0 .. Capacity - 1
         /\ ring.w % Capacity \in 0 .. Capacity - 1
         /\ RingSize(ring) \in 0 .. Capacity
<1>1. ring.r \in 0 .. Wrap - 1 /\ ring.w \in 0 .. Wrap - 1
  BY DEF RingTypeOK, RingType
<1>2. RingSize(ring) \in 0 .. Capacity
  BY <1>1, SizeOf, CapacityAssumption DEF RingTypeOK, RingSize, Wrap
<1> QED BY <1>1, <1>2, SlotOf, CapacityAssumption DEF Wrap

LEMMA InitRing == RingInit => RingInv
<1> SUFFICES ASSUME RingInit PROVE RingInv
  OBVIOUS
<1>1. ring \in RingType(Vectors)
  BY CapacityAssumption DEF RingInit, RingType, Wrap
<1>2. RingSize(ring) = 0
  BY SizeOf, CapacityAssumption DEF RingInit, RingSize, Wrap
<1> QED BY <1>1, <1>2, CapacityAssumption DEF RingInit, RingInv, RingTypeOK, NoVectorShared

\* A push keeps the types, grows the ring by one and moves vectors about.
LEMMA ProduceKeeps ==
  ASSUME RingInv, Produce
  PROVE  RingInv' /\ RingSize(ring') = RingSize(ring) + 1
<1> DEFINE s == ring.w % Capacity
<1>1. /\ ring.r \in 0 .. Wrap - 1 /\ ring.w \in 0 .. Wrap - 1 /\ s \in 0 .. Capacity - 1
      /\ RingSize(ring) \in 0 .. Capacity - 1
  BY Slots, CapacityAssumption DEF RingInv, Produce, RingHasRoom
<1>2. /\ ring'.slot = [ring.slot EXCEPT ![s] = produced]
      /\ ring'.r = ring.r /\ ring'.w = (ring.w + 1) % Wrap
      /\ ring' = [slot |-> ring'.slot, r |-> ring'.r, w |-> ring'.w]
  BY DEF Produce, Pushed
<1>3. ring'.w \in 0 .. Wrap - 1
  BY <1>1, <1>2, NextIndex, CapacityAssumption DEF Wrap
<1>4. RingSize(ring') = RingSize(ring) + 1
  <2>1. RingSize(ring) = IF ring.w >= ring.r THEN ring.w - ring.r ELSE ring.w - ring.r + Wrap
    BY <1>1, SizeOf DEF RingSize
  <2>2. RingSize(ring') = IF ring'.w >= ring'.r THEN ring'.w - ring'.r
                                               ELSE ring'.w - ring'.r + Wrap
    BY <1>1, <1>2, <1>3, SizeOf DEF RingSize
  <2>3. ring'.w = IF ring.w = Wrap - 1 THEN 0 ELSE ring.w + 1
    BY <1>1, <1>2, NextIndex
  <2> QED BY <1>1, <1>2, <2>1, <2>2, <2>3, CapacityAssumption DEF Wrap
<1>5. /\ ring.slot \in [0 .. Capacity - 1 -> Vectors]
      /\ produced \in Vectors /\ consumed \in Vectors
  BY DEF RingInv, RingTypeOK, RingType
<1>6. produced' = ring.slot[s] /\ consumed' = consumed
  BY DEF Produce, PushLeaves
<1> HIDE DEF s
<1>7. ring'.slot \in [0 .. Capacity - 1 -> Vectors]
  BY <1>1, <1>2, <1>5
<1>8. RingTypeOK'
  <2>1. ring' \in RingType(Vectors)
    BY <1>1, <1>2, <1>3, <1>7 DEF RingType
  <2>2. produced' \in Vectors /\ consumed' \in Vectors
    BY <1>1, <1>5, <1>6, CapacityAssumption
  <2> QED BY <1>1, <1>4, <2>1, <2>2, CapacityAssumption DEF RingTypeOK
<1>9. NoVectorShared'
  BY <1>1, <1>2, <1>5, <1>6 DEF RingInv, NoVectorShared
<1> QED BY <1>4, <1>8, <1>9 DEF RingInv

\* A pop keeps the types, shrinks the ring by one and moves vectors about.
LEMMA ConsumeKeeps ==
  ASSUME RingInv, Consume
  PROVE  RingInv' /\ RingSize(ring') = RingSize(ring) - 1
<1> DEFINE s == ring.r % Capacity
<1>1. /\ ring.r \in 0 .. Wrap - 1 /\ ring.w \in 0 .. Wrap - 1 /\ s \in 0 .. Capacity - 1
      /\ RingSize(ring) \in 1 .. Capacity
  BY Slots, CapacityAssumption DEF RingInv, Consume, RingIsEmpty
<1>2. /\ ring'.slot = [ring.slot EXCEPT ![s] = consumed]
      /\ ring'.r = (ring.r + 1) % Wrap /\ ring'.w = ring.w
      /\ ring' = [slot |-> ring'.slot, r |-> ring'.r, w |-> ring'.w]
  BY DEF Consume, Popped
<1>3. ring'.r \in 0 .. Wrap - 1
  BY <1>1, <1>2, NextIndex, CapacityAssumption DEF Wrap
<1>4. RingSize(ring') = RingSize(ring) - 1
  <2>1. RingSize(ring) = IF ring.w >= ring.r THEN ring.w - ring.r ELSE ring.w - ring.r + Wrap
    BY <1>1, SizeOf DEF RingSize
  <2>2. RingSize(ring') = IF ring'.w >= ring'.r THEN ring'.w - ring'.r
                                               ELSE ring'.w - ring'.r + Wrap
    BY <1>1, <1>2, <1>3, SizeOf DEF RingSize
  <2>3. ring'.r = IF ring.r = Wrap - 1 THEN 0 ELSE ring.r + 1
    BY <1>1, <1>2, NextIndex
  <2> QED BY <1>1, <1>2, <2>1, <2>2, <2>3, CapacityAssumption DEF Wrap
<1>5. /\ ring.slot \in [0 .. Capacity - 1 -> Vectors]
      /\ produced \in Vectors /\ consumed \in Vectors
  BY DEF RingInv, RingTypeOK, RingType
<1>6. consumed' = ring.slot[s] /\ produced' = produced
  BY DEF Consume, PopGives
<1> HIDE DEF s
<1>7. ring'.slot \in [0 .. Capacity - 1 -> Vectors]
  BY <1>1, <1>2, <1>5
<1>8. RingTypeOK'
  <2>1. ring' \in RingType(Vectors)
    BY <1>1, <1>2, <1>3, <1>7 DEF RingType
  <2>2. produced' \in Vectors /\ consumed' \in Vectors
    BY <1>1, <1>5, <1>6, CapacityAssumption
  <2> QED BY <1>1, <1>4, <2>1, <2>2, CapacityAssumption DEF RingTypeOK
<1>9. NoVectorShared'
  BY <1>1, <1>2, <1>5, <1>6 DEF RingInv, NoVectorShared
<1> QED BY <1>4, <1>8, <1>9 DEF RingInv

LEMMA RingKept == RingInv /\ [RingNext]_ringVars => RingInv'
<1> SUFFICES ASSUME RingInv, [RingNext]_ringVars PROVE RingInv'
  OBVIOUS
<1>1. CASE Produce
  BY <1>1, ProduceKeeps
<1>2. CASE Consume
  BY <1>2, ConsumeKeeps
<1>3. CASE UNCHANGED ringVars
  BY <1>3 DEF ringVars, RingInv, RingTypeOK, NoVectorShared
<1> QED BY <1>1, <1>2, <1>3 DEF RingNext

LEMMA RingInvariance == RingSpec => []RingInv
  BY InitRing, RingKept, PTL DEF RingSpec

\* No vector is ever in two places, for every capacity.
THEOREM VectorsNeverShared == RingSpec => []NoVectorShared
<1>1. RingInv => NoVectorShared
  BY DEF RingInv
<1> QED BY <1>1, RingInvariance, PTL

\* The i-th oldest vector sits i places after the read index.
LEMMA PlaceOf ==
  ASSUME RingTypeOK, NEW i \in 0 .. Capacity - 1
  PROVE  (ring.r + i) % Capacity = LET x == ring.r + i
                                   IN  CASE x < Capacity -> x
                                         [] x >= Capacity /\ x < 2 * Capacity -> x - Capacity
                                         [] OTHER -> x - 2 * Capacity
  BY Slots, CapacityAssumption, SMTT(60) DEF Wrap

\* A push puts its vector at the end of the queue.
LEMMA ProduceEnqueues ==
  ASSUME RingInv, Produce
  PROVE  Queue!Enqueue(produced)
<1> DEFINE n == RingSize(ring)
           place(i) == (ring.r + i) % Capacity
           end == ring.w % Capacity
<1>1. /\ ring.r \in 0 .. Wrap - 1 /\ ring.w \in 0 .. Wrap - 1
      /\ n \in 0 .. Capacity - 1
  BY Slots, CapacityAssumption DEF RingInv, Produce, RingHasRoom
<1>2. ring'.slot = [ring.slot EXCEPT ![end] = produced] /\ ring'.r = ring.r
  BY DEF Produce, Pushed
<1>3. RingSize(ring') = n + 1
  BY ProduceKeeps
<1>4. \A i \in 0 .. Capacity - 1 : place(i) = end <=> i = n
  <2> SUFFICES ASSUME NEW i \in 0 .. Capacity - 1
               PROVE  place(i) = end <=> i = n
    OBVIOUS
  <2>1. n = IF ring.w >= ring.r THEN ring.w - ring.r ELSE ring.w - ring.r + Wrap
    BY <1>1, SizeOf DEF RingSize
  <2>2. end = IF ring.w < Capacity THEN ring.w ELSE ring.w - Capacity
    BY <1>1, SlotOf
  <2>3. /\ ring.r + i < Capacity => place(i) = ring.r + i
        /\ ring.r + i >= Capacity /\ ring.r + i < 2 * Capacity
             => place(i) = ring.r + i - Capacity
        /\ ring.r + i >= 2 * Capacity => place(i) = ring.r + i - 2 * Capacity
    BY <1>1, PlaceOf, CapacityAssumption DEF RingInv
  <2> HIDE DEF n, place
  <2> QED BY <1>1, <2>1, <2>2, <2>3, CapacityAssumption DEF Wrap
<1>5. ring.slot \in [0 .. Capacity - 1 -> Vectors] /\ produced \in Vectors
  BY DEF RingInv, RingTypeOK, RingType
<1>6. \A i \in 0 .. Capacity - 1 : place(i) \in 0 .. Capacity - 1
  BY <1>1, PlaceOf, CapacityAssumption DEF RingInv, Wrap
<1>0. end \in 0 .. Capacity - 1
  BY Slots DEF RingInv
<1>7. /\ Waiting = [i \in 1 .. n |-> ring.slot[place(i - 1)]]
      /\ Waiting' = [i \in 1 .. n + 1 |-> ring'.slot[place(i - 1)]]
  BY <1>2, <1>3 DEF Waiting
<1> HIDE DEF n, place, end
<1>8. \A i \in 0 .. n : ring'.slot[place(i)] = IF i = n THEN produced ELSE ring.slot[place(i)]
  <2> SUFFICES ASSUME NEW i \in 0 .. n
               PROVE  ring'.slot[place(i)] = IF i = n THEN produced ELSE ring.slot[place(i)]
    OBVIOUS
  <2>1. place(i) \in 0 .. Capacity - 1 /\ (place(i) = end <=> i = n)
    BY <1>1, <1>4, <1>6, CapacityAssumption
  <2> QED BY <1>0, <1>2, <1>5, <2>1
<1>9. Waiting \in Seq(Vectors) /\ Len(Waiting) = n
  <2>1. \A i \in 1 .. n : ring.slot[place(i - 1)] \in Vectors
    BY SMTT(20), <1>1, <1>5, <1>6, CapacityAssumption
  <2> QED BY <1>1, <1>7, <2>1
<1>10. Waiting' = [i \in 1 .. n + 1 |-> IF i = n + 1 THEN produced ELSE Waiting[i]]
  BY <1>1, <1>7, <1>8, CapacityAssumption
<1> HIDE DEF Waiting
<1>11. Waiting' = Append(Waiting, produced)
  <2>1. Waiting' \in Seq(Vectors) /\ Len(Waiting') = n + 1
    <3>1. \A i \in 1 .. n + 1 : (IF i = n + 1 THEN produced ELSE Waiting[i]) \in Vectors
      BY <1>1, <1>5, <1>9, ElementOfSeq, CapacityAssumption
    <3> QED BY <1>1, <1>10, <3>1, CapacityAssumption
  <2>2. \A i \in 1 .. n + 1 : Waiting'[i] = Append(Waiting, produced)[i]
    BY <1>1, <1>5, <1>9, <1>10, AppendProperties, CapacityAssumption
  <2>3. Append(Waiting, produced) \in Seq(Vectors) /\ Len(Append(Waiting, produced)) = n + 1
    BY <1>5, <1>9, AppendProperties
  <2> QED BY <2>1, <2>2, <2>3, SeqEqual
<1> QED BY <1>1, <1>9, <1>11, CapacityAssumption DEF Queue!Enqueue

\* A pop takes the vector at the front of the queue.
LEMMA ConsumeDequeues ==
  ASSUME RingInv, Consume
  PROVE  Queue!Dequeue /\ consumed' = Head(Waiting)
<1> DEFINE n == RingSize(ring)
           place(i) == (ring.r + i) % Capacity
           front == ring.r % Capacity
           next(i) == (ring'.r + i) % Capacity
<1>1. /\ ring.r \in 0 .. Wrap - 1 /\ ring.w \in 0 .. Wrap - 1
      /\ n \in 1 .. Capacity
  BY Slots, CapacityAssumption DEF RingInv, Consume, RingIsEmpty
<1>2. /\ ring'.slot = [ring.slot EXCEPT ![front] = consumed]
      /\ ring'.r = IF ring.r = Wrap - 1 THEN 0 ELSE ring.r + 1
  BY <1>1, NextIndex DEF Consume, Popped
<1>3. RingSize(ring') = n - 1
  BY ConsumeKeeps
<1>4. \A i \in 1 .. n - 1 : next(i - 1) = place(i) /\ place(i) # front
  <2> SUFFICES ASSUME NEW i \in 1 .. n - 1
               PROVE  next(i - 1) = place(i) /\ place(i) # front
    OBVIOUS
  <2>1. front = IF ring.r < Capacity THEN ring.r ELSE ring.r - Capacity
    BY <1>1, SlotOf
  <2>2. /\ ring.r + i < Capacity => place(i) = ring.r + i
        /\ ring.r + i >= Capacity /\ ring.r + i < 2 * Capacity
             => place(i) = ring.r + i - Capacity
        /\ ring.r + i >= 2 * Capacity => place(i) = ring.r + i - 2 * Capacity
    BY <1>1, PlaceOf, CapacityAssumption DEF RingInv
  <2>3. place(i) # front
    <3> HIDE DEF n, place
    <3> QED BY <1>1, <2>1, <2>2, CapacityAssumption DEF Wrap
  <2>4. CASE ring.r # Wrap - 1
    BY <1>1, <1>2, <2>3, <2>4, CapacityAssumption DEF Wrap
  <2>5. CASE ring.r = Wrap - 1
    <3>1. next(i - 1) = i - 1
      BY <1>1, <1>2, <2>5, SlotOf, CapacityAssumption DEF Wrap
    <3>2. place(i) = i - 1
      BY <1>1, <2>2, <2>5, CapacityAssumption DEF Wrap
    <3> QED BY <2>3, <3>1, <3>2
  <2> QED BY <2>4, <2>5
<1>5. ring.slot \in [0 .. Capacity - 1 -> Vectors]
  BY DEF RingInv, RingTypeOK, RingType
<1>6. \A i \in 0 .. Capacity - 1 : place(i) \in 0 .. Capacity - 1
  BY <1>1, PlaceOf, CapacityAssumption DEF RingInv, Wrap
<1>7. place(0) = front /\ front \in 0 .. Capacity - 1
  BY <1>1, Slots DEF RingInv
<1>8. /\ Waiting = [i \in 1 .. n |-> ring.slot[place(i - 1)]]
      /\ Waiting' = [i \in 1 .. n - 1 |-> ring'.slot[next(i - 1)]]
  BY <1>3 DEF Waiting
<1> HIDE DEF n, place, front, next
<1>9. \A i \in 1 .. n - 1 : ring'.slot[next(i - 1)] = ring.slot[place(i)]
  <2> SUFFICES ASSUME NEW i \in 1 .. n - 1
               PROVE  ring'.slot[next(i - 1)] = ring.slot[place(i)]
    OBVIOUS
  <2>1. place(i) \in 0 .. Capacity - 1 /\ next(i - 1) = place(i) /\ place(i) # front
    BY <1>1, <1>4, <1>6, CapacityAssumption
  <2> QED BY <1>2, <1>5, <1>7, <2>1
<1>10. Waiting \in Seq(Vectors) /\ Len(Waiting) = n
  <2>1. \A i \in 1 .. n : ring.slot[place(i - 1)] \in Vectors
    BY SMTT(20), <1>1, <1>5, <1>6, CapacityAssumption
  <2> QED BY <1>1, <1>8, <2>1
<1>11. \A i \in 1 .. n - 1 : Waiting'[i] = Waiting[i + 1]
  BY <1>1, <1>8, <1>9
<1>12. Waiting' = Tail(Waiting)
  <2>1. Waiting' \in Seq(Vectors) /\ Len(Waiting') = n - 1
    <3>1. \A i \in 1 .. n - 1 : ring.slot[place(i)] \in Vectors
      BY SMTT(20), <1>1, <1>5, <1>6, CapacityAssumption
    <3>2. Waiting' = [i \in 1 .. n - 1 |-> ring.slot[place(i)]]
      BY <1>8, <1>9
    <3> QED BY <1>1, <3>1, <3>2, CapacityAssumption
  <2>2. Tail(Waiting) \in Seq(Vectors) /\ Len(Tail(Waiting)) = n - 1
        /\ \A i \in 1 .. n - 1 : Tail(Waiting)[i] = Waiting[i + 1]
    BY <1>1, <1>10, HeadTailProperties
  <2>3. \A i \in 1 .. n - 1 : Waiting'[i] = Tail(Waiting)[i]
    BY <1>11, <2>2
  <2> QED BY <2>1, <2>2, <2>3, SeqEqual
<1>13. Waiting # << >> /\ Head(Waiting) = ring.slot[front]
  BY <1>1, <1>7, <1>8, <1>10
<1>14. consumed' = ring.slot[front]
  BY DEF Consume, PopGives, front
<1> QED BY <1>12, <1>13, <1>14 DEF Queue!Dequeue

\* The ring implements the bounded queue, for every capacity.
THEOREM RingIsQueue == RingSpec => IsQueue
<1>1. RingInit => Queue!Init
  <2> SUFFICES ASSUME RingInit PROVE Waiting = << >>
    BY DEF Queue!Init
  <2>1. RingSize(ring) = 0
    BY SizeOf, CapacityAssumption DEF RingInit, RingSize, Wrap
  <2> QED BY <2>1 DEF Waiting
<1>2. RingInv /\ [RingNext]_ringVars => [(\E v \in Vectors : Queue!Enqueue(v)) \/ Queue!Dequeue]_Waiting
  <2> SUFFICES ASSUME RingInv, [RingNext]_ringVars
               PROVE  [(\E v \in Vectors : Queue!Enqueue(v)) \/ Queue!Dequeue]_Waiting
    OBVIOUS
  <2>1. CASE Produce
    <3>1. produced \in Vectors
      BY DEF RingInv, RingTypeOK
    <3> QED BY <2>1, <3>1, ProduceEnqueues
  <2>2. CASE Consume
    BY <2>2, ConsumeDequeues
  <2>3. CASE UNCHANGED ringVars
    BY <2>3 DEF ringVars, Waiting
  <2> QED BY <2>1, <2>2, <2>3 DEF RingNext
<1> QED BY <1>1, <1>2, RingInvariance, PTL DEF RingSpec, IsQueue, Queue!Spec

-------------------------------------------------------------------------------
(* The pool of download threads: the invariant *)

Labels == {"none", "wait", "start", "perform", "delete", "rename", "reply", "free", "signal", "dead"}
Working == {"start", "perform", "delete", "rename", "reply", "free"}
Fetching == {"start", "perform", "delete", "rename"}
Job == [pc : Labels, api : Nat, attempt : 0 .. DOWNLOAD_MAX_ATTEMPTS, file_offset : 0 .. Length,
        if_none_match : BOOLEAN]
\* a version and a number
Unit == Nat \X Nat

\* what the variables hold, and that requests are numbered as they come
PoolShapes ==
  /\ setting \in Settings /\ server \in Nat /\ g_running \in BOOLEAN
  /\ asked \subseteq DOMAIN setting.kind /\ (\E n \in Nat : asked = 1 .. n) /\ stopped \subseteq asked
  /\ thread \in [Thread -> Job] /\ temp \in [Thread -> Seq(Unit)] /\ dst \in Seq(Unit)
  /\ queue \in [pc : {"none", "wait", "lock", "scan", "dead"}, pop_count : Nat, look : 1 .. MAX_THREADS + 1]
  /\ entries \in Seq(Nat) /\ queue.pop_count <= Len(entries)
  /\ queue_event \in BOOLEAN /\ event \in [Thread -> BOOLEAN] /\ in_progress \in [Thread -> BOOLEAN]
  /\ events \in Seq(Nat) /\ calls \in [Request -> {0, 1}]
  /\ main \in {"loop", "exit", "join", "ended"}
  /\ \A n \in 1 .. Len(entries) : entries[n] \in asked
  /\ \A n \in 1 .. Len(events) : events[n] \in asked
  /\ \A k \in Thread : in_progress[k] => thread[k].api \in asked

\* A worker works only on what it was given; the event that starts one is set only for one
\* that was given something, as long as the pool runs.
Flags ==
  /\ \A k \in Thread : thread[k].pc \in Working => in_progress[k]
  /\ \A k \in Thread : g_running /\ event[k] => in_progress[k] /\ thread[k].pc \in {"wait", "signal", "none"}
  /\ \A k \in Thread : At(k, "dead") => ~g_running
  /\ queue.pc \in {"scan", "dead"} \/ queue.pop_count = 0
  /\ queue.pc = "dead" => ~g_running

\* No wake-up is lost.  The queue thread sleeps without an event only when nothing waits in the
\* queue, or when every worker has a request or is about to set that event; a worker sleeps
\* without its event only when it was given nothing; and nobody sleeps through the shutdown.
NoWakeLost ==
  /\ queue.pc = "wait" /\ ~queue_event =>
       g_running /\ (entries = <<>> \/ \A k \in Thread : in_progress[k] \/ At(k, "signal"))
  /\ \A k \in Thread : At(k, "wait") /\ ~event[k] => g_running /\ ~in_progress[k]
\* Why: the workers that the queue thread has looked at are such, and those behind their
\* request, whose event came before they waited, keep it.
Looked ==
  /\ queue.pc = "scan" /\ ~queue_event =>
       \A k \in Thread : k < queue.look => in_progress[k] \/ At(k, "signal")
  /\ \A k \in Thread : At(k, "signal") /\ in_progress[k] => event[k]

\* the entries nobody has been given yet
Line == queue.pop_count + 1 .. Len(entries)
Holds(k) == in_progress[k] /\ ~At(k, "free")

\* A request is in one place at most.
Once ==
  /\ \A m, n \in Line : entries[m] = entries[n] => m = n
  /\ \A j, k \in Thread : Holds(j) /\ Holds(k) /\ thread[j].api = thread[k].api => j = k
  /\ \A m, n \in 1 .. Len(events) : events[m] = events[n] => m = n
  /\ \A n \in Line, k \in Thread : Holds(k) => thread[k].api # entries[n]
  /\ \A n \in Line, m \in 1 .. Len(events) : events[m] # entries[n]
  /\ \A k \in Thread, m \in 1 .. Len(events) : Holds(k) => events[m] # thread[k].api
  /\ \A n \in Line : calls[entries[n]] = 0
  /\ \A k \in Thread : Holds(k) => calls[thread[k].api] = 0
  /\ \A m \in 1 .. Len(events) : calls[events[m]] = 0
  /\ \A r \in Request \ asked : calls[r] = 0

\* One that was asked for, and not stopped, is in one while the pool runs.
Somewhere(r) ==
  \/ \E n \in Line : entries[n] = r
  \/ \E k \in Thread : Holds(k) /\ thread[k].api = r
  \/ \E m \in 1 .. Len(events) : events[m] = r
  \/ calls[r] = 1
NoneLost == g_running => \A r \in asked \ stopped : Somewhere(r)

\* The temporary file f of a worker at t: as long as what was fetched, unit for unit, and
\* nothing of it stays when the request may not resume.
Numbered(f) == \A n \in 1 .. Len(f) : f[n][2] = n
Sound(t, f) ==
  LET kind == setting.kind[t.api]
  IN  /\ t.pc \notin {"perform", "delete", "rename"} => t.file_offset = 0
      /\ t.pc = "perform" =>
           /\ kind = "memory" => t.attempt <= 1
           /\ kind # "file" => t.file_offset = 0
           /\ kind # "memory" => Len(f) = t.file_offset /\ Numbered(f)
      /\ t.pc \in {"delete", "rename"} =>
           /\ kind # "memory" /\ Len(f) = Length /\ Numbered(f)
           /\ kind # "file" => \A n \in 1 .. Length : f[n][1] = f[1][1]
Files == FileWhole /\ \A k \in Thread : Sound(thread[k], temp[k])

PoolInv == PoolShapes /\ Flags /\ NoWakeLost /\ Looked /\ Once /\ NoneLost /\ Files

USE SettingsAssumption, DownloadAssumption

\* What was asked for is one of the requests of the setting, and of one of the three kinds.
LEMMA Requests ==
  ASSUME PoolShapes
  PROVE  /\ setting.kind \in Seq(Kinds)
         /\ \A r \in DOMAIN setting.kind : r \in Nat /\ r \in Request /\ setting.kind[r] \in Kinds
         /\ asked \subseteq Request /\ asked \subseteq Nat
<1>1. setting.kind \in Seq(Kinds)
  BY DEF PoolShapes
<1>2. DOMAIN setting.kind = 1 .. Len(setting.kind)
  BY <1>1, LenProperties
<1>3. \A r \in DOMAIN setting.kind : setting.kind[r] \in Kinds
  BY <1>1, <1>2, ElementOfSeq
<1>4. DOMAIN setting.kind \subseteq Request
  BY DEF PoolShapes, Request
<1>5. DOMAIN setting.kind \subseteq Nat
  BY <1>1, <1>2, LenProperties
<1>6. asked \subseteq DOMAIN setting.kind
  BY DEF PoolShapes
<1> QED BY <1>1, <1>3, <1>4, <1>5, <1>6

\* A function on the first numbers is a sequence.
LEMMA IsSequence ==
  ASSUME NEW S, NEW m \in Nat, NEW f \in [1 .. m -> S]
  PROVE  f \in Seq(S) /\ Len(f) = m /\ \A n \in 1 .. m : f[n] \in S
  OBVIOUS

\* A stretch of the file that the server sends: numbered, and of one version.
LEMMA Sends ==
  ASSUME server \in Nat, NEW a \in Nat, NEW b \in Nat, a <= b
  PROVE  /\ Body(a, b) \in Seq(Unit) /\ Len(Body(a, b)) = b - a
         /\ \A n \in 1 .. b - a : Body(a, b)[n] = <<server, a + n>>
<1>1. PICK m \in Nat : m = b - a
  OBVIOUS
<1>2. \A n \in 1 .. m : <<server, a + n>> \in Unit
  BY DEF Unit
<1>3. Body(a, b) = [n \in 1 .. m |-> <<server, a + n>>]
  BY <1>1 DEF Body
<1>4. Body(a, b) \in [1 .. m -> Unit]
  BY <1>2, <1>3
<1> QED BY <1>1, <1>3, <1>4, IsSequence

\* Units written where a file ends.
LEMMA WritesOn ==
  ASSUME NEW f \in Seq(Unit), NEW units \in Seq(Unit)
  PROVE  /\ Written(f, Len(f), units) \in Seq(Unit)
         /\ Len(Written(f, Len(f), units)) = Len(f) + Len(units)
         /\ \A n \in 1 .. Len(f) : Written(f, Len(f), units)[n] = f[n]
         /\ \A n \in 1 .. Len(units) : Written(f, Len(f), units)[Len(f) + n] = units[n]
<1> DEFINE back == SubSeq(f, Len(f) + Len(units) + 1, Len(f))
<1>1. Len(f) \in Nat /\ Len(units) \in Nat
  BY LenProperties
<1>2. SubSeq(f, 1, Len(f)) = f
  BY SubSeqFull
<1>3. back = <<>>
  BY <1>1, SubSeqEmpty
<1>4. f \o units \in Seq(Unit) /\ (f \o units) \o <<>> = f \o units
  BY ConcatProperties, ConcatEmptySeq
<1>5. Written(f, Len(f), units) = f \o units
  BY <1>2, <1>3, <1>4 DEF Written
<1>6. /\ Len(f \o units) = Len(f) + Len(units)
      /\ \A n \in 1 .. Len(f) + Len(units) :
           (f \o units)[n] = IF n <= Len(f) THEN f[n] ELSE units[n - Len(f)]
  BY ConcatProperties
<1> QED BY <1>1, <1>4, <1>5, <1>6

LEMMA PoolStarts == ASSUME Init PROVE PoolInv
<1> USE DEF Init, DownloadInit
<1>1. Leftover \in Seq(Unit)
  <2>1. \A n \in 1 .. Length + 1 : <<0, n>> \in Unit
    BY DEF Unit
  <2>2. Leftover \in [1 .. Length + 1 -> Unit]
    BY <2>1 DEF Leftover
  <2>3. Length + 1 \in Nat
    OBVIOUS
  <2> QED BY <2>2, <2>3, IsSequence
<1>2. dst \in Seq(Unit) /\ Len(dst) = Length /\ \A n \in 1 .. Length : dst[n] = <<0, n>>
  <2>1. \A n \in 1 .. Length : <<0, n>> \in Unit
    BY DEF Unit
  <2>2. dst \in [1 .. Length -> Unit]
    BY <2>1
  <2>3. dst = [n \in 1 .. Length |-> <<0, n>>]
    OBVIOUS
  <2> QED BY <2>2, <2>3, IsSequence
<1>3. /\ thread \in [Thread -> Job]
      /\ \A k \in Thread : thread[k].pc \in {"wait", "none"} /\ thread[k].file_offset = 0
  <2>0. 0 \in 0 .. DOWNLOAD_MAX_ATTEMPTS /\ 0 \in 0 .. Length /\ 0 \in Nat
    OBVIOUS
  <2>1. Idle \in Job /\ [Idle EXCEPT !.pc = "none"] \in Job
    BY <2>0, Zenon DEF Idle, Job, Labels
  <2>2. /\ Idle.pc = "wait" /\ [Idle EXCEPT !.pc = "none"].pc = "none"
        /\ Idle.file_offset = 0 /\ [Idle EXCEPT !.pc = "none"].file_offset = 0
    BY DEF Idle
  <2> QED BY ZenonT(40), <2>1, <2>2
<1>4. entries = <<>> /\ Len(entries) = 0 /\ events = <<>> /\ Len(events) = 0
  BY EmptySeq, LenProperties
<1>5. <<>> \in Seq(Nat)
  BY EmptySeq
<1>6. asked = 1 .. 0
  OBVIOUS
<1>7. temp \in [Thread -> Seq(Unit)]
  BY <1>1
<1>8. PoolShapes
  <2>1. /\ setting \in Settings /\ server \in Nat /\ g_running \in BOOLEAN
        /\ asked \subseteq DOMAIN setting.kind /\ (\E n \in Nat : asked = 1 .. n) /\ stopped \subseteq asked
    BY <1>6
  <2>2. queue \in [pc : {"none", "wait", "lock", "scan", "dead"}, pop_count : Nat, look : 1 .. MAX_THREADS + 1]
        /\ queue.pop_count = 0
    OBVIOUS
  <2>3. /\ queue_event \in BOOLEAN /\ event \in [Thread -> BOOLEAN] /\ in_progress \in [Thread -> BOOLEAN]
        /\ calls \in [Request -> {0, 1}] /\ main \in {"loop", "exit", "join", "ended"}
        /\ \A k \in Thread : ~in_progress[k]
    OBVIOUS
  <2> QED BY <1>2, <1>3, <1>4, <1>5, <1>7, <2>1, <2>2, <2>3 DEF PoolShapes
<1>9. Flags /\ NoWakeLost /\ Looked
  BY <1>3, <1>4, <1>8 DEF Flags, NoWakeLost, Looked, Working, At, Thread, Fault
<1>10. Once /\ NoneLost
  BY <1>4, <1>8 DEF Once, NoneLost, Line, Holds, Request, PoolShapes
<1>11. Files
  <2>1. FileWhole
    BY <1>2 DEF FileWhole
  <2> QED BY <1>3, <2>1 DEF Files, Sound
<1> QED BY <1>8, <1>9, <1>10, <1>11 DEF PoolInv

-------------------------------------------------------------------------------
(* What keeps the parts of the invariant *)

\* Nothing moves: the places and who holds what are the same.
Unmoved ==
  /\ Line' = Line /\ entries' = entries /\ events' = events /\ calls' = calls /\ asked' = asked
  /\ \A k \in Thread : (Holds(k)' <=> Holds(k)) /\ (Holds(k) => thread'[k].api = thread[k].api)

LEMMA SameHands == ASSUME Once, Unmoved PROVE Once'
<1> USE DEF Unmoved
<1>1. /\ \A i, j \in Thread : Holds(i)' /\ Holds(j)' /\ thread'[i].api = thread'[j].api => i = j
      /\ \A n \in Line', j \in Thread : Holds(j)' => thread'[j].api # entries'[n]
      /\ \A j \in Thread, m \in 1 .. Len(events') : Holds(j)' => events'[m] # thread'[j].api
      /\ \A j \in Thread : Holds(j)' => calls'[thread'[j].api] = 0
  BY DEF Once
<1>2. \A m, n \in Line' : entries'[m] = entries'[n] => m = n
  BY DEF Once
<1>3. \A m, n \in 1 .. Len(events') : events'[m] = events'[n] => m = n
  BY DEF Once
<1>4. \A n \in Line', m \in 1 .. Len(events') : events'[m] # entries'[n]
  BY DEF Once
<1>5. \A n \in Line' : calls'[entries'[n]] = 0
  BY DEF Once
<1>6. \A m \in 1 .. Len(events') : calls'[events'[m]] = 0
  BY DEF Once
<1>7. \A r \in Request \ asked' : calls'[r] = 0
  BY DEF Once
<1> QED BY <1>1, <1>2, <1>3, <1>4, <1>5, <1>6, <1>7, Zenon DEF Once

LEMMA SamePlaces ==
  ASSUME NoneLost, Unmoved, g_running' => g_running, stopped \subseteq stopped'
  PROVE  NoneLost'
<1>1. ASSUME NEW r, Somewhere(r) PROVE Somewhere(r)'
  BY <1>1 DEF Somewhere, Unmoved
<1> QED BY <1>1 DEF NoneLost, Unmoved

\* Nothing is fetched: what fetches is where it was.
LEMMA SameFiles ==
  ASSUME Files, setting' = setting, dst' = dst,
         \A k \in Thread :
           \/ thread'[k] = thread[k] /\ temp'[k] = temp[k]
           \/ thread'[k].pc \notin {"perform", "delete", "rename"} /\ thread'[k].file_offset = 0
  PROVE  Files'
<1>1. ASSUME NEW k \in Thread PROVE Sound(thread[k], temp[k])'
  <2>1. CASE thread'[k] = thread[k] /\ temp'[k] = temp[k]
    BY <2>1 DEF Files, Sound, Numbered
  <2>2. CASE thread'[k].pc \notin {"perform", "delete", "rename"} /\ thread'[k].file_offset = 0
    BY <2>2 DEF Sound
  <2> QED BY <2>1, <2>2
<1>2. FileWhole'
  BY DEF Files, FileWhole
<1> QED BY <1>1, <1>2 DEF Files

-------------------------------------------------------------------------------
(* The steps of DownloadInternal *)

\* While a worker fetches, only its thread, its temporary file and the file at the path change:
\* what is to be shown is about those.
LEMMA Fetches ==
  ASSUME PoolInv, NEW k \in Thread, thread[k].pc \in Fetching,
         thread' \in [Thread -> Job], temp' \in [Thread -> Seq(Unit)], dst' \in Seq(Unit),
         \A j \in Thread \ {k} : thread'[j] = thread[j] /\ temp'[j] = temp[j],
         thread'[k].api = thread[k].api, thread'[k].pc \in {"perform", "delete", "rename", "reply"},
         Sound(thread'[k], temp'[k]), FileWhole',
         UNCHANGED <<environment, g_running, stopped, pool, app>>
  PROVE  PoolInv'
<1> USE DEF environment, pool, app
<1>1. /\ setting' = setting /\ server' = server /\ g_running' = g_running /\ stopped' = stopped
      /\ entries' = entries /\ queue' = queue /\ queue_event' = queue_event /\ event' = event
      /\ in_progress' = in_progress /\ events' = events /\ calls' = calls /\ asked' = asked /\ main' = main
  OBVIOUS
<1>2. /\ in_progress[k] /\ Holds(k) /\ Holds(k)' /\ ~At(k, "signal") /\ ~At(k, "dead") /\ ~At(k, "wait")
      /\ ~At(k, "signal")' /\ ~At(k, "dead")' /\ ~At(k, "wait")'
  BY <1>1 DEF PoolInv, Flags, Fetching, Working, Holds, At
<1>3. \A j \in Thread : thread'[j].api = thread[j].api
  OBVIOUS
<1>4. \A j \in Thread : Holds(j)' <=> Holds(j)
  BY <1>1, <1>2 DEF Holds, At
<1>5. PoolShapes'
  BY <1>1, <1>3 DEF PoolInv, PoolShapes, Thread
<1>6. Flags'
  <2>1. thread[k].pc \notin {"wait", "signal", "none"}
    BY DEF Fetching
  <2>2. ~(g_running /\ event[k])
    BY <2>1 DEF PoolInv, Flags
  <2>3. ASSUME NEW j \in Thread
        PROVE  /\ thread'[j].pc \in Working => in_progress[j]
               /\ g_running /\ event[j] => in_progress[j] /\ thread'[j].pc \in {"wait", "signal", "none"}
               /\ At(j, "dead")' => ~g_running
    BY <1>2, <2>2 DEF PoolInv, Flags, At
  <2> QED BY <1>1, <2>3 DEF PoolInv, Flags
<1>7. NoWakeLost' /\ Looked'
  <2>1. ASSUME NEW j \in Thread
        PROVE  /\ in_progress[j] \/ At(j, "signal") <=> in_progress[j] \/ At(j, "signal")'
               /\ At(j, "wait") <=> At(j, "wait")'
               /\ At(j, "signal") <=> At(j, "signal")'
    BY <1>2 DEF At
  <2> QED BY <1>1, <2>1 DEF PoolInv, NoWakeLost, Looked
<1>8. Line' = Line
  BY <1>1 DEF Line
<1>9. Once' /\ NoneLost'
  BY <1>1, <1>3, <1>4, <1>8, SameHands, SamePlaces DEF PoolInv, Unmoved
<1>10. Files'
  <2>1. \A j \in Thread : Sound(thread'[j], temp'[j])
    BY DEF PoolInv, Files
  <2>2. ASSUME NEW j \in Thread, Sound(thread'[j], temp'[j]) PROVE Sound(thread[j], temp[j])'
    BY <1>1, <2>2 DEF Sound, Numbered
  <2> QED BY <2>1, <2>2 DEF Files
<1> QED BY <1>5, <1>6, <1>7, <1>9, <1>10 DEF PoolInv

\* To give up, to fail and to be done are the same step for the pool.
LEMMA Returns ==
  ASSUME PoolInv, NEW k \in Thread, thread[k].pc \in Fetching, Return(k),
         dst' \in Seq(Unit), FileWhole', Others, UNCHANGED <<pool, app>>
  PROVE  PoolInv'
<1> DEFINE t == [Idle EXCEPT !.pc = "reply", !.api = thread[k].api]
<1>1. thread \in [Thread -> Job] /\ temp \in [Thread -> Seq(Unit)] /\ thread[k].api \in Nat
  BY DEF PoolInv, PoolShapes, Job
<1>2. t \in Job /\ t.pc = "reply" /\ t.api = thread[k].api /\ t.file_offset = 0
  <2>1. 0 \in 0 .. DOWNLOAD_MAX_ATTEMPTS /\ 0 \in 0 .. Length
    OBVIOUS
  <2> QED BY <1>1, <2>1 DEF Idle, Job, Labels
<1>3. Leftover \in Seq(Unit)
  <2>1. Leftover \in [1 .. Length + 1 -> Unit]
    BY DEF Leftover, Unit
  <2>2. Length + 1 \in Nat
    OBVIOUS
  <2> QED BY <2>1, <2>2, IsSequence
<1>4. thread' = [thread EXCEPT ![k] = t] /\ temp' = [temp EXCEPT ![k] = Leftover]
  BY DEF Return
<1> HIDE DEF t
<1>5. /\ thread' \in [Thread -> Job] /\ temp' \in [Thread -> Seq(Unit)]
      /\ \A j \in Thread \ {k} : thread'[j] = thread[j] /\ temp'[j] = temp[j]
      /\ thread'[k] = t
  BY <1>1, <1>2, <1>3, <1>4
<1>6. Sound(t, temp'[k])
  BY <1>2 DEF Sound
<1> QED BY <1>2, <1>5, <1>6, Fetches DEF Others

LEMMA KeepsStart ==
  ASSUME PoolInv, NEW k \in Thread, Start(k), UNCHANGED <<pool, app>>
  PROVE  PoolInv'
<1>1. /\ dst' = dst /\ Others /\ thread[k].pc = "start" /\ thread[k].pc \in Fetching
      /\ dst \in Seq(Unit) /\ FileWhole
  BY DEF Start, At, Fetching, PoolInv, PoolShapes, Files
<1>2. FileWhole'
  BY <1>1 DEF FileWhole, Others, environment
<1>3. CASE Return(k)
  BY <1>1, <1>2, <1>3, Returns
<1>4. CASE ~Return(k)
  <2> DEFINE cached == Kind(k) = "cached" /\ dst # NoFile
             t == [thread[k] EXCEPT !.pc = "perform", !.attempt = 1, !.if_none_match = cached]
             f == IF HasFile(k) THEN NoFile ELSE temp[k]
  <2>1. thread \in [Thread -> Job] /\ temp \in [Thread -> Seq(Unit)] /\ thread[k] \in Job
    BY DEF PoolInv, PoolShapes
  <2>2. thread' = [thread EXCEPT ![k] = t] /\ temp' = [temp EXCEPT ![k] = f]
    BY <1>4, <2>1 DEF Start
  <2>3. /\ t \in Job /\ t.pc = "perform" /\ t.api = thread[k].api /\ t.attempt = 1
        /\ t.file_offset = thread[k].file_offset
    <3>1. 1 \in 0 .. DOWNLOAD_MAX_ATTEMPTS /\ cached \in BOOLEAN
      OBVIOUS
    <3> HIDE DEF cached
    <3> QED BY <2>1, <3>1 DEF Job, Labels
  <2>4. f \in Seq(Unit) /\ (HasFile(k) => Len(f) = 0)
    BY <2>1, EmptySeq, LenProperties DEF NoFile
  <2>5. thread[k].file_offset = 0
    BY <1>1 DEF PoolInv, Files, Sound
  <2> HIDE DEF t, f
  <2>6. Sound(t, f)
    BY <2>3, <2>4, <2>5 DEF Sound, Numbered, HasFile, Kind
  <2>7. /\ thread' \in [Thread -> Job] /\ temp' \in [Thread -> Seq(Unit)]
        /\ \A j \in Thread \ {k} : thread'[j] = thread[j] /\ temp'[j] = temp[j]
        /\ thread'[k] = t /\ temp'[k] = f
    BY <2>1, <2>2, <2>3, <2>4
  <2> QED BY <1>1, <1>2, <2>3, <2>6, <2>7, Fetches DEF Others
<1> QED BY <1>3, <1>4

\* What WriteFileCallback leaves when the server has sent its file up to a unit.
LEMMA Fetched ==
  ASSUME PoolInv, NEW k \in Thread, At(k, "perform"), NEW upto \in thread[k].file_offset .. Length
  PROVE  LET f == WriteFileCallback(k, upto)
         IN  /\ f \in Seq(Unit) /\ upto \in Nat
             /\ HasFile(k) => Len(f) = upto /\ Numbered(f)
             /\ HasFile(k) /\ ~CanResume(k) => \A n \in 1 .. upto : f[n] = <<server, n>>
<1> DEFINE f == WriteFileCallback(k, upto)
           offset == thread[k].file_offset
<1>1. /\ temp[k] \in Seq(Unit) /\ server \in Nat /\ offset \in Nat /\ upto \in Nat /\ offset <= upto
  BY DEF PoolInv, PoolShapes, Job
<1>2. /\ HasFile(k) => Len(temp[k]) = offset /\ Numbered(temp[k])
      /\ ~CanResume(k) => offset = 0
  BY DEF PoolInv, Files, Sound, At, HasFile, CanResume, Kind
<1>3. CASE ~HasFile(k)
  BY <1>1, <1>3 DEF WriteFileCallback
<1>4. CASE HasFile(k)
  <2> DEFINE body == Body(offset, upto)
  <2>1. /\ body \in Seq(Unit) /\ Len(body) = upto - offset
        /\ \A n \in 1 .. upto - offset : body[n] = <<server, offset + n>>
    BY <1>1, Sends
  <2>2. f = Written(temp[k], Len(temp[k]), body)
    BY <1>2, <1>4 DEF WriteFileCallback
  <2> HIDE DEF f, body
  <2>3. /\ f \in Seq(Unit) /\ Len(f) = upto
        /\ \A n \in 1 .. offset : f[n] = temp[k][n]
        /\ \A n \in 1 .. upto - offset : f[offset + n] = <<server, offset + n>>
    <3>1. /\ f \in Seq(Unit) /\ Len(f) = Len(temp[k]) + Len(body)
          /\ \A n \in 1 .. Len(temp[k]) : f[n] = temp[k][n]
          /\ \A n \in 1 .. Len(body) : f[Len(temp[k]) + n] = body[n]
      BY ZenonT(40), <1>1, <2>1, <2>2, WritesOn
    <3>2. Len(temp[k]) = offset /\ Len(body) = upto - offset
      BY <1>2, <1>4, <2>1
    <3>3. offset + (upto - offset) = upto
      BY <1>1
    <3> HIDE DEF offset
    <3>4. \A n \in 1 .. upto - offset : f[offset + n] = body[n]
      BY <3>1, <3>2
    <3> QED BY <2>1, <3>1, <3>2, <3>3, <3>4
  <2>4. ASSUME NEW n \in 1 .. upto
        PROVE  f[n][2] = n /\ (~CanResume(k) => f[n] = <<server, n>>)
    <3>1. CASE n <= offset
      BY <1>1, <1>2, <1>4, <2>3, <3>1 DEF Numbered
    <3>2. CASE n > offset
      <4>1. n - offset \in 1 .. upto - offset /\ offset + (n - offset) = n
        BY <1>1, <3>2
      <4> QED BY <2>3, <4>1
    <3> QED BY <1>1, <3>1, <3>2
  <2> QED BY <1>1, <2>3, <2>4 DEF f, Numbered
<1> QED BY <1>3, <1>4

\* The file at the path is as it was.
LEMMA SamePath ==
  ASSUME PoolInv, dst' = dst, Others
  PROVE  dst' \in Seq(Unit) /\ FileWhole'
  BY DEF PoolInv, PoolShapes, Files, FileWhole, Others, environment

LEMMA KeepsReceived ==
  ASSUME PoolInv, NEW k \in Thread, Received(k), UNCHANGED <<pool, app>>
  PROVE  PoolInv'
<1>1. dst' = dst /\ Others /\ At(k, "perform") /\ thread[k].pc \in Fetching
  BY DEF Received, At, Fetching
<1>2. dst' \in Seq(Unit) /\ FileWhole'
  BY <1>1, SamePath
<1>3. CASE Return(k)
  BY <1>1, <1>2, <1>3, Returns
<1>4. CASE ~Return(k)
  <2> DEFINE t == [thread[k] EXCEPT !.pc = "delete"]
             f == WriteFileCallback(k, Length)
  <2>1. thread \in [Thread -> Job] /\ temp \in [Thread -> Seq(Unit)] /\ thread[k] \in Job
        /\ Length \in thread[k].file_offset .. Length
    BY DEF PoolInv, PoolShapes, Job
  <2>2. HasFile(k) /\ thread' = [thread EXCEPT ![k] = t] /\ temp' = [temp EXCEPT ![k] = f]
    BY <1>4, <2>1 DEF Received, Goto
  <2>3. t \in Job /\ t.pc = "delete" /\ t.api = thread[k].api
    BY <2>1 DEF Job, Labels
  <2>4. /\ f \in Seq(Unit) /\ Len(f) = Length /\ Numbered(f)
        /\ ~CanResume(k) => \A n \in 1 .. Length : f[n] = <<server, n>>
    BY <1>1, <2>1, <2>2, Fetched
  <2> HIDE DEF t, f
  <2>5. Sound(t, f)
    <3>1. ~CanResume(k) => \A n \in 1 .. Length : f[n][1] = f[1][1]
      BY <2>4
    <3> QED BY <2>2, <2>3, <2>4, <3>1 DEF Sound, HasFile, CanResume, Kind
  <2>6. /\ thread' \in [Thread -> Job] /\ temp' \in [Thread -> Seq(Unit)]
        /\ \A j \in Thread \ {k} : thread'[j] = thread[j] /\ temp'[j] = temp[j]
        /\ thread'[k] = t /\ temp'[k] = f
    BY <2>1, <2>2, <2>3, <2>4
  <2> QED BY <1>1, <1>2, <2>3, <2>5, <2>6, Fetches DEF Others
<1> QED BY <1>3, <1>4

\* A failed attempt: the next one finds as much of the file as it asks to go on from.
LEMMA Retries ==
  ASSUME PoolInv, NEW k \in Thread, At(k, "perform"), NEW f \in Seq(Unit), NEW offset \in 0 .. Length,
         HasFile(k) => Len(f) = offset /\ Numbered(f), ~HasFile(k) => offset = 0,
         Retry(k, f, offset), dst' = dst, Others, UNCHANGED <<pool, app>>
  PROVE  PoolInv'
<1>1. thread[k].pc \in Fetching /\ dst' \in Seq(Unit) /\ FileWhole'
  BY SamePath DEF At, Fetching
<1>2. CASE Return(k)
  BY <1>1, <1>2, Returns
<1>3. CASE ~Return(k)
  <2> DEFINE from == IF CanResume(k) THEN offset ELSE 0
             t == [thread[k] EXCEPT !.attempt = @ + 1, !.file_offset = from]
             g == IF from = offset THEN f ELSE NoFile
  <2>1. thread \in [Thread -> Job] /\ temp \in [Thread -> Seq(Unit)] /\ thread[k] \in Job
    BY DEF PoolInv, PoolShapes
  <2>2. ~LastAttempt(k) /\ thread' = [thread EXCEPT ![k] = t] /\ temp' = [temp EXCEPT ![k] = g]
    BY <1>3, <2>1 DEF Retry
  <2>3. /\ thread[k].attempt \in Nat /\ thread[k].attempt <= DOWNLOAD_MAX_ATTEMPTS
        /\ ~HasFile(k) => thread[k].attempt <= 1
    <3>1. Sound(thread[k], temp[k])
      BY DEF PoolInv, Files
    <3>2. thread[k].attempt \in 0 .. DOWNLOAD_MAX_ATTEMPTS
      BY <2>1 DEF Job
    <3> QED BY <3>1, <3>2 DEF Sound, At, HasFile, Kind
  <2>4. /\ thread[k].attempt + 1 \in 0 .. DOWNLOAD_MAX_ATTEMPTS
        /\ ~HasFile(k) => thread[k].attempt + 1 <= 1
    BY <2>2, <2>3 DEF LastAttempt, MaxAttempts
  <2>5. from \in 0 .. Length /\ (~CanResume(k) => from = 0)
    OBVIOUS
  <2>6. g \in Seq(Unit) /\ (HasFile(k) => Len(g) = from /\ Numbered(g))
    BY EmptySeq, LenProperties DEF NoFile, Numbered
  <2> HIDE DEF from, g
  <2>7. /\ t \in Job /\ t.pc = "perform" /\ t.api = thread[k].api
        /\ t.file_offset = from /\ t.attempt = thread[k].attempt + 1
    BY <2>1, <2>4, <2>5 DEF Job, At
  <2> HIDE DEF t
  <2>8. Sound(t, g)
    BY <2>4, <2>5, <2>6, <2>7 DEF Sound, HasFile, CanResume, Kind
  <2>9. /\ thread' \in [Thread -> Job] /\ temp' \in [Thread -> Seq(Unit)]
        /\ \A j \in Thread \ {k} : thread'[j] = thread[j] /\ temp'[j] = temp[j]
        /\ thread'[k] = t /\ temp'[k] = g
    BY <2>1, <2>2, <2>6, <2>7
  <2> QED BY <1>1, <2>7, <2>8, <2>9, Fetches DEF Others
<1> QED BY <1>2, <1>3

LEMMA KeepsAnswer ==
  ASSUME PoolInv, NEW k \in Thread, Responds(k), UNCHANGED <<pool, app>>
  PROVE  PoolInv'
<1>1. dst' = dst /\ Others /\ At(k, "perform") /\ thread[k].pc \in Fetching
  BY DEF Responds, Received, NotModified, Interrupted, ResumeRejected, PerformFails, At, Fetching
<1>2. dst' \in Seq(Unit) /\ FileWhole'
  BY <1>1, SamePath
<1>3. CASE Return(k)
  BY <1>1, <1>2, <1>3, Returns
<1>4. CASE Received(k)
  BY <1>4, KeepsReceived
<1>5. CASE Interrupted(k)
  <2>1. PICK upto \in thread[k].file_offset .. Length :
          Retry(k, WriteFileCallback(k, upto), IF HasFile(k) THEN upto ELSE 0)
    BY <1>5 DEF Interrupted
  <2> DEFINE f == WriteFileCallback(k, upto)
             offset == IF HasFile(k) THEN upto ELSE 0
  <2>2. f \in Seq(Unit) /\ upto \in Nat /\ (HasFile(k) => Len(f) = upto /\ Numbered(f))
    BY <1>1, Fetched
  <2>3. offset \in 0 .. Length /\ (HasFile(k) => offset = upto) /\ (~HasFile(k) => offset = 0)
    BY <2>2
  <2>4. Retry(k, f, offset)
    BY <2>1
  <2> HIDE DEF f, offset
  <2> QED BY <1>1, <2>2, <2>3, <2>4, Retries
<1>6. CASE ResumeRejected(k) /\ ~Return(k)
  <2>1. Retry(k, NoFile, 0)
    BY <1>6 DEF ResumeRejected
  <2>2. NoFile \in Seq(Unit) /\ Len(NoFile) = 0 /\ Numbered(NoFile) /\ 0 \in 0 .. Length
    BY EmptySeq, LenProperties DEF NoFile, Numbered
  <2> QED BY <1>1, <2>1, <2>2, Retries
<1> QED BY <1>3, <1>4, <1>5, <1>6 DEF Responds, NotModified, PerformFails

LEMMA KeepsDeleteFile ==
  ASSUME PoolInv, NEW k \in Thread, DeleteFile(k), UNCHANGED <<pool, app>>
  PROVE  PoolInv'
<1> DEFINE t == [thread[k] EXCEPT !.pc = "rename"]
<1>1. /\ thread \in [Thread -> Job] /\ temp \in [Thread -> Seq(Unit)] /\ thread[k] \in Job
      /\ dst \in Seq(Unit) /\ Sound(thread[k], temp[k]) /\ FileWhole
  BY DEF PoolInv, PoolShapes, Files
<1>2. /\ thread[k].pc = "delete" /\ thread' = [thread EXCEPT ![k] = t] /\ temp' = temp
      /\ (dst' = NoFile \/ dst' = dst) /\ Others /\ thread[k].pc \in Fetching
  BY <1>1 DEF DeleteFile, Goto, At, Fetching
<1>3. t \in Job /\ t.pc = "rename" /\ t.api = thread[k].api
  BY <1>1 DEF Job, Labels
<1> HIDE DEF t
<1>4. dst' \in Seq(Unit) /\ FileWhole'
  BY <1>1, <1>2, EmptySeq DEF FileWhole, NoFile, Others, environment
<1>5. Sound(t, temp[k])
  BY <1>1, <1>2, <1>3 DEF Sound
<1>6. /\ thread' \in [Thread -> Job]
      /\ \A j \in Thread \ {k} : thread'[j] = thread[j] /\ temp'[j] = temp[j]
      /\ thread'[k] = t /\ temp'[k] = temp[k]
  BY <1>1, <1>2, <1>3
<1> QED BY <1>1, <1>2, <1>3, <1>4, <1>5, <1>6, Fetches DEF Others

\* Only a whole file gets the name.
LEMMA KeepsRenameFile ==
  ASSUME PoolInv, NEW k \in Thread, RenameFile(k), UNCHANGED <<pool, app>>
  PROVE  PoolInv'
<1>1. /\ temp[k] \in Seq(Unit) /\ dst \in Seq(Unit) /\ Sound(thread[k], temp[k]) /\ FileWhole
      /\ setting.kind[thread[k].api] \in Kinds /\ thread[k].api \in DOMAIN setting.kind
  BY Requests DEF PoolInv, PoolShapes, Files, Flags, Working, RenameFile, At
<1>2. thread[k].pc = "rename" /\ thread[k].pc \in Fetching /\ Return(k) /\ Others /\ (dst' = temp[k] \/ dst' = dst)
  BY DEF RenameFile, At, Fetching
<1>3. CASE dst' = dst
  BY <1>2, <1>3, SamePath, Returns
<1>4. CASE dst' = temp[k]
  <2>1. /\ Len(temp[k]) = Length /\ (\A n \in 1 .. Length : temp[k][n][2] = n)
        /\ setting.kind[thread[k].api] # "file" => \A n \in 1 .. Length : temp[k][n][1] = temp[k][1][1]
    BY <1>1, <1>2 DEF Sound, Numbered
  <2>2. FileWhole'
    BY <1>1, <1>2, <1>4, <2>1 DEF FileWhole, Others, environment
  <2> QED BY <1>1, <1>2, <1>4, <2>2, Returns
<1> QED BY <1>2, <1>3, <1>4

\* Every step of DownloadInternal
LEMMA KeepsWork ==
  ASSUME PoolInv, NEW k \in Thread, Works(k), UNCHANGED <<pool, app>>
  PROVE  PoolInv'
<1>1. CASE ProgressCallbackFunc2(k)
  <2>1. thread[k].pc \in Fetching /\ Return(k) /\ dst' = dst /\ Others
    BY <1>1 DEF ProgressCallbackFunc2, At, Fetching
  <2> QED BY <2>1, SamePath, Returns
<1> QED BY <1>1, KeepsStart, KeepsDeleteFile, KeepsRenameFile DEF Works

\* The server has a new version of its file.
LEMMA KeepsPublish == ASSUME PoolInv, Publish, UNCHANGED <<pool, app>> PROVE PoolInv'
<1> USE DEF Publish, download, pool, app
<1>1. /\ setting' = setting /\ g_running' = g_running /\ stopped' = stopped /\ thread' = thread
      /\ temp' = temp /\ dst' = dst /\ entries' = entries /\ queue' = queue
      /\ queue_event' = queue_event /\ event' = event /\ in_progress' = in_progress
      /\ events' = events /\ calls' = calls /\ asked' = asked /\ main' = main
  OBVIOUS
<1>2. PoolShapes'
  <2>1. server' \in Nat
    BY DEF PoolInv, PoolShapes
  <2> QED BY <1>1, <2>1 DEF PoolInv, PoolShapes
<1>3. (Flags /\ NoWakeLost /\ Looked)'
  BY <1>1 DEF PoolInv, Flags, NoWakeLost, Looked, At
<1>4. (Once /\ NoneLost)'
  BY <1>1 DEF PoolInv, Once, NoneLost, Somewhere, Line, Holds, At
<1>5. Files'
  BY <1>1 DEF PoolInv, Files, FileWhole, Sound, Numbered
<1> QED BY <1>2, <1>3, <1>4, <1>5 DEF PoolInv

-------------------------------------------------------------------------------
(* The steps of the queue thread *)

\* A queue of which a beginning was given out is still a queue.
LEMMA RestOf ==
  ASSUME NEW s \in Seq(Nat), NEW n \in Nat, n <= Len(s)
  PROVE  /\ SubSeq(s, n + 1, Len(s)) \in Seq(Nat) /\ Len(SubSeq(s, n + 1, Len(s))) = Len(s) - n
         /\ \A i \in 1 .. Len(s) - n : SubSeq(s, n + 1, Len(s))[i] = s[n + i]
<1>1. Len(s) \in Nat /\ n + 1 \in 1 .. Len(s) + 1
  BY LenProperties
<1>2. \A i \in n + 1 .. Len(s) : s[i] \in Nat
  BY <1>1, ElementOfSeq
<1>3. PICK t : t = SubSeq(s, n + 1, Len(s))
  OBVIOUS
<1>4. /\ t \in Seq(Nat)
      /\ Len(t) = (IF n + 1 <= Len(s) THEN Len(s) - (n + 1) + 1 ELSE 0)
      /\ \A i \in 1 .. Len(s) - (n + 1) + 1 : t[i] = s[(n + 1) + i - 1]
  BY <1>1, <1>2, <1>3, SubSeqProperties
<1>5. Len(t) = Len(s) - n
  BY <1>1, <1>4
<1>6. \A i \in 1 .. Len(s) - n : t[i] = s[n + i]
  <2> TAKE i \in 1 .. Len(s) - n
  <2>1. i \in 1 .. Len(s) - (n + 1) + 1 /\ (n + 1) + i - 1 = n + i
    BY <1>1
  <2> QED BY <1>4, <2>1
<1> QED BY <1>3, <1>4, <1>5, <1>6

\* The queue thread wakes, locks, gives up and looks on: nothing moves.
LEMMA KeepsQueueLooks ==
  ASSUME PoolInv, QueueWakes \/ QueueLocks \/ QueueReturns \/ LooksOn
  PROVE  PoolInv'
<1> USE DEF QueueWakes, QueueLocks, QueueReturns, LooksOn, QueueOnly, environment, app
<1>1. /\ setting' = setting /\ server' = server /\ g_running' = g_running /\ stopped' = stopped
      /\ temp' = temp /\ dst' = dst /\ thread' = thread /\ entries' = entries /\ event' = event
      /\ in_progress' = in_progress /\ events' = events /\ calls' = calls /\ asked' = asked /\ main' = main
  OBVIOUS
<1>2. /\ queue \in [pc : {"none", "wait", "lock", "scan", "dead"}, pop_count : Nat, look : 1 .. MAX_THREADS + 1]
      /\ queue.pop_count <= Len(entries) /\ queue_event \in BOOLEAN /\ g_running \in BOOLEAN
      /\ entries \in Seq(Nat) /\ Len(entries) \in Nat
  BY LenProperties DEF PoolInv, PoolShapes
<1>3. queue'.pop_count = queue.pop_count
  BY <1>2 DEF PoolInv, Flags
<1>4. /\ queue' \in [pc : {"none", "wait", "lock", "scan", "dead"}, pop_count : Nat, look : 1 .. MAX_THREADS + 1]
      /\ queue_event' \in BOOLEAN
  <2>1. CASE QueueWakes
    BY <1>2, <2>1
  <2>2. CASE QueueLocks
    BY <1>2, <2>2 DEF Loop
  <2>3. CASE QueueReturns
    BY <1>2, <2>3
  <2>4. CASE LooksOn
    <3>1. queue.look + 1 \in 1 .. MAX_THREADS + 1 /\ queue' = [queue EXCEPT !.look = queue.look + 1]
      BY <1>2, <2>4 DEF Thread
    <3>2. queue_event' = queue_event
      BY <2>4
    <3> QED BY <1>2, <3>1, <3>2
  <2> QED BY <2>1, <2>2, <2>3, <2>4
<1>5. PoolShapes'
  BY <1>1, <1>3, <1>4 DEF PoolInv, PoolShapes
<1>6. Flags'
  <2>1. /\ queue'.pc \in {"scan", "dead"} \/ queue'.pop_count = 0
        /\ queue'.pc = "dead" => ~g_running
    BY <1>2, <1>3 DEF PoolInv, Flags, Loop
  <2> QED BY <1>1, <2>1 DEF PoolInv, Flags, At
<1>7. Unmoved
  BY <1>1, <1>3 DEF Unmoved, Line, Holds, At
<1>8. Once' /\ NoneLost'
  BY <1>1, <1>7, SameHands, SamePlaces DEF PoolInv
<1>9. Files'
  BY <1>1, SameFiles DEF PoolInv
<1>10. \A k \in Thread : (At(k, "signal")' <=> At(k, "signal")) /\ (At(k, "wait")' <=> At(k, "wait"))
  BY <1>1 DEF At
<1>11. NoWakeLost'
  <2>1. queue'.pc = "wait" => g_running /\ entries = <<>>
    BY <1>2 DEF Loop
  <2> QED BY <1>1, <1>10, <2>1 DEF PoolInv, NoWakeLost
<1>12. Looked'
  <2>1. ASSUME queue'.pc = "scan", ~queue_event', NEW k \in Thread, k < queue'.look
        PROVE  in_progress[k] \/ At(k, "signal")
    <3>1. CASE LooksOn
      <4>1. queue.pc = "scan" /\ queue_event' = queue_event /\ queue'.look = queue.look + 1 /\ in_progress[queue.look]
        BY <1>2, <3>1
      <4>2. k < queue.look \/ k = queue.look
        BY <1>2, <2>1, <4>1 DEF Thread
      <4> QED BY <2>1, <4>1, <4>2 DEF PoolInv, Looked
    <3>2. CASE ~LooksOn
      <4>1. queue'.look = 1
        BY <1>2, <2>1, <3>2
      <4> QED BY <2>1, <4>1 DEF Thread
    <3> QED BY <3>1, <3>2
  <2> QED BY <1>1, <1>10, <2>1 DEF PoolInv, Looked
<1> QED BY <1>5, <1>6, <1>8, <1>9, <1>11, <1>12 DEF PoolInv

\* A worker that was free gets the next entry, and the event with it.
LEMMA KeepsSetup == ASSUME PoolInv, Setup PROVE PoolInv'
<1>0. PICK k \in Thread : k = queue.look
  BY DEF Setup
<1> DEFINE n == queue.pop_count + 1
           r == entries[n]
<1>1. /\ queue \in [pc : {"none", "wait", "lock", "scan", "dead"}, pop_count : Nat, look : 1 .. MAX_THREADS + 1]
      /\ queue_event \in BOOLEAN /\ g_running \in BOOLEAN
      /\ entries \in Seq(Nat) /\ Len(entries) \in Nat /\ queue.pop_count < Len(entries)
      /\ thread \in [Thread -> Job] /\ event \in [Thread -> BOOLEAN] /\ in_progress \in [Thread -> BOOLEAN]
  BY LenProperties DEF PoolInv, PoolShapes, Setup, HasEntry
<1>2. k \in Thread /\ ~in_progress[k] /\ queue.pc = "scan" /\ n \in Line /\ n \in 1 .. Len(entries)
  BY <1>0, <1>1 DEF Setup, Line
<1>3. r \in asked /\ r \in Nat
  BY <1>2, Requests DEF PoolInv, PoolShapes
<1>4. /\ setting' = setting /\ server' = server /\ g_running' = g_running /\ stopped' = stopped
      /\ temp' = temp /\ dst' = dst /\ entries' = entries /\ queue_event' = queue_event
      /\ events' = events /\ calls' = calls /\ asked' = asked /\ main' = main
  BY DEF Setup, QueueOnly, environment, app
<1>5. /\ queue'.pc = "scan" /\ queue'.pop_count = n /\ queue'.look = 1
      /\ queue' \in [pc : {"none", "wait", "lock", "scan", "dead"}, pop_count : Nat, look : 1 .. MAX_THREADS + 1]
  <2>1. queue' = [queue EXCEPT !.pop_count = n, !.look = 1] /\ n \in Nat /\ 1 \in 1 .. MAX_THREADS + 1
    BY <1>1 DEF Setup
  <2> QED BY <1>1, <1>2, <2>1
<1>6. /\ thread' = [thread EXCEPT ![k].api = r]
      /\ in_progress' = [in_progress EXCEPT ![k] = TRUE] /\ event' = [event EXCEPT ![k] = TRUE]
  BY <1>0 DEF Setup
<1> HIDE DEF n, r
<1>7. /\ thread' \in [Thread -> Job] /\ thread'[k] = [thread[k] EXCEPT !.api = r]
      /\ \A j \in Thread \ {k} : thread'[j] = thread[j] /\ in_progress'[j] = in_progress[j] /\ event'[j] = event[j]
      /\ in_progress'[k] /\ event'[k]
      /\ event' \in [Thread -> BOOLEAN] /\ in_progress' \in [Thread -> BOOLEAN]
  <2>1. [thread[k] EXCEPT !.api = r] \in Job
    BY ZenonT(40), <1>1, <1>2, <1>3 DEF Job
  <2>2. thread' = [thread EXCEPT ![k] = [thread[k] EXCEPT !.api = r]]
    BY <1>1, <1>2, <1>6
  <2> QED BY <1>1, <1>2, <1>6, <2>1, <2>2
<1>8. /\ thread'[k].api = r /\ thread'[k].pc = thread[k].pc
      /\ thread[k].pc \notin Working
  BY <1>1, <1>2, <1>7 DEF PoolInv, Flags, Job
<1>9. PoolShapes'
  <2>1. n <= Len(entries)
    BY <1>2 DEF Line
  <2>2. \A j \in Thread : in_progress'[j] => thread'[j].api \in asked
    BY <1>3, <1>7, <1>8 DEF PoolInv, PoolShapes
  <2> QED BY <1>4, <1>5, <1>7, <2>1, <2>2 DEF PoolInv, PoolShapes
<1>10. Flags'
  <2>1. g_running => thread[k].pc \in {"wait", "signal", "none"}
    BY <1>1, <1>2, <1>8 DEF PoolInv, Flags, Working, Labels, Job, At
  <2>2. ASSUME NEW j \in Thread
        PROVE  /\ thread'[j].pc \in Working => in_progress'[j]
               /\ g_running /\ event'[j] => in_progress'[j] /\ thread'[j].pc \in {"wait", "signal", "none"}
               /\ At(j, "dead")' => ~g_running
    BY ZenonT(40), <1>2, <1>7, <1>8, <2>1 DEF PoolInv, Flags, At
  <2> QED BY <1>4, <1>5, <2>2 DEF Flags
<1>11. NoWakeLost' /\ Looked'
  <2>1. \A j \in Thread : j >= 1
    BY DEF Thread
  <2>2. ASSUME NEW j \in Thread
        PROVE  /\ At(j, "wait")' /\ ~event'[j] => g_running /\ ~in_progress'[j]
               /\ At(j, "signal")' /\ in_progress'[j] => event'[j]
    BY <1>7 DEF PoolInv, NoWakeLost, Looked, At
  <2>3. NoWakeLost'
    BY <1>4, <1>5, <2>2 DEF NoWakeLost
  <2>4. Looked'
    BY <1>5, <2>1, <2>2 DEF Looked, Thread
  <2> QED BY <2>3, <2>4
<1>12. /\ ~Holds(k) /\ Holds(k)' /\ \A j \in Thread \ {k} : Holds(j)' <=> Holds(j)
  <2>1. thread'[k].pc # "free"
    BY <1>8 DEF Working
  <2>2. ~Holds(k) /\ Holds(k)'
    BY <1>2, <1>7, <2>1 DEF Holds, At
  <2>3. ASSUME NEW j \in Thread \ {k} PROVE Holds(j)' <=> Holds(j)
    BY <1>7 DEF Holds, At
  <2> QED BY <2>2, <2>3
<1>13. Line' = Line \ {n} /\ Line' \subseteq Line
  BY <1>1, <1>2, <1>4, <1>5 DEF Line, n
<1>14. Once'
  <2>0. Once
    BY DEF PoolInv
  <2>1. \A j \in Thread \ {k} : Holds(j)' => thread'[j].api = thread[j].api /\ Holds(j)
    BY <1>7, <1>12
  <2>2. \A j \in Thread \ {k} : Holds(j)' => thread'[j].api # r
    BY <1>2, <2>0, <2>1 DEF Once, r
  <2>3. \A i, j \in Thread : Holds(i)' /\ Holds(j)' /\ thread'[i].api = thread'[j].api => i = j
    BY <1>8, <2>0, <2>1, <2>2 DEF Once
  <2>4. ASSUME NEW m \in Line', NEW j \in Thread, Holds(j)' PROVE thread'[j].api # entries'[m]
    BY <1>2, <1>4, <1>8, <1>13, <2>0, <2>1, <2>4 DEF Once, r
  <2>5. ASSUME NEW j \in Thread, NEW m \in 1 .. Len(events), Holds(j)' PROVE events[m] # thread'[j].api
    BY <1>2, <1>8, <2>0, <2>1, <2>5 DEF Once, r
  <2>6. ASSUME NEW j \in Thread, Holds(j)' PROVE calls[thread'[j].api] = 0
    BY <1>2, <1>8, <2>0, <2>1, <2>6 DEF Once, r
  <2>7. /\ \A l, m \in Line' : entries[l] = entries[m] => l = m
        /\ \A l \in Line', m \in 1 .. Len(events) : events[m] # entries[l]
        /\ \A l \in Line' : calls[entries[l]] = 0
    BY <1>13, <2>0 DEF Once
  <2>8. /\ \A l, m \in 1 .. Len(events) : events[l] = events[m] => l = m
        /\ \A m \in 1 .. Len(events) : calls[events[m]] = 0
        /\ \A q \in Request \ asked : calls[q] = 0
    BY <2>0 DEF Once
  <2> QED BY <1>4, <2>3, <2>4, <2>5, <2>6, <2>7, <2>8 DEF Once
<1>15. NoneLost'
  <2>1. ASSUME NEW q, Somewhere(q) PROVE Somewhere(q)'
    <3>1. CASE q = r
      <4>1. Holds(k)' /\ thread'[k].api = q
        BY <1>8, <1>12, <3>1
      <4>2. \E j \in Thread : Holds(j)' /\ thread'[j].api = q
        BY <1>2, <4>1
      <4> QED BY <4>2 DEF Somewhere
    <3>2. CASE q # r
      BY <1>2, <1>4, <1>7, <1>12, <1>13, <2>1, <3>2 DEF Somewhere, r
    <3> QED BY <3>1, <3>2
  <2> QED BY <1>4, <2>1 DEF PoolInv, NoneLost
<1>16. Files'
  <2>1. thread'[k].file_offset = thread[k].file_offset /\ Sound(thread[k], temp[k])
    BY <1>1, <1>7 DEF PoolInv, Files, Job
  <2>2. thread'[k].pc \notin {"perform", "delete", "rename"} /\ thread'[k].file_offset = 0
    BY <1>8, <2>1 DEF Sound, Working
  <2> QED BY <1>4, <1>7, <2>2, SameFiles DEF PoolInv
<1> QED BY <1>9, <1>10, <1>11, <1>14, <1>15, <1>16 DEF PoolInv

\* What was given out leaves the queue; what stays is what nobody could take.
LEMMA KeepsQueuePops == ASSUME PoolInv, QueuePops PROVE PoolInv'
<1> DEFINE n == queue.pop_count
<1>1. /\ queue \in [pc : {"none", "wait", "lock", "scan", "dead"}, pop_count : Nat, look : 1 .. MAX_THREADS + 1]
      /\ n \in Nat /\ n <= Len(entries) /\ entries \in Seq(Nat) /\ Len(entries) \in Nat
      /\ queue_event \in BOOLEAN /\ g_running \in BOOLEAN
  BY LenProperties DEF PoolInv, PoolShapes
<1>2. /\ setting' = setting /\ server' = server /\ g_running' = g_running /\ stopped' = stopped
      /\ temp' = temp /\ dst' = dst /\ thread' = thread /\ queue_event' = queue_event /\ event' = event
      /\ in_progress' = in_progress /\ events' = events /\ calls' = calls /\ asked' = asked /\ main' = main
  BY DEF QueuePops, QueueOnly, environment, app
<1>3. /\ entries' = SubSeq(entries, n + 1, Len(entries)) /\ queue' = [pc |-> Loop, pop_count |-> 0, look |-> 1]
      /\ queue.pc = "scan" /\ (n = Len(entries) \/ queue.look \notin Thread)
  BY <1>1 DEF QueuePops, HasEntry
<1>4. /\ entries' \in Seq(Nat) /\ Len(entries') = Len(entries) - n
      /\ \A i \in 1 .. Len(entries) - n : entries'[i] = entries[n + i]
  <2> HIDE DEF n
  <2> DEFINE rest == SubSeq(entries, n + 1, Len(entries))
  <2>1. /\ rest \in Seq(Nat) /\ Len(rest) = Len(entries) - n
        /\ \A i \in 1 .. Len(entries) - n : rest[i] = entries[n + i]
    BY <1>1, RestOf
  <2> HIDE DEF rest
  <2>2. entries' = rest
    BY <1>3 DEF rest
  <2> QED BY <2>1, <2>2
<1>5. /\ queue' \in [pc : {"none", "wait", "lock", "scan", "dead"}, pop_count : Nat, look : 1 .. MAX_THREADS + 1]
      /\ queue'.pop_count = 0 /\ queue'.look = 1
      /\ queue'.pc = "dead" => ~g_running
      /\ queue'.pc = "wait" => g_running
      /\ queue'.pc \in {"dead", "wait"}
  <2>1. 1 \in 1 .. MAX_THREADS + 1 /\ 0 \in Nat
    OBVIOUS
  <2> QED BY <1>3, <2>1 DEF Loop
<1>6. Line' = 1 .. Len(entries) - n /\ \A i \in Line' : n + i \in Line /\ entries'[i] = entries[n + i]
  BY SMTT(20), <1>1, <1>4, <1>5 DEF Line
<1> HIDE DEF n
<1>7. PoolShapes'
  <2>1. Len(entries') \in Nat /\ 1 .. Len(entries') = Line' /\ Line \subseteq 1 .. Len(entries)
    BY <1>1, <1>4, <1>6 DEF Line, n
  <2>2. \A i \in 1 .. Len(entries') : entries'[i] \in asked
    BY <1>6, <2>1 DEF PoolInv, PoolShapes
  <2>3. \A k \in Thread : in_progress'[k] => thread'[k].api \in asked'
    BY <1>2 DEF PoolInv, PoolShapes
  <2>4. \A i \in 1 .. Len(events') : events'[i] \in asked'
    BY <1>2 DEF PoolInv, PoolShapes
  <2>5. queue'.pop_count <= Len(entries')
    BY <1>5, <2>1
  <2> QED BY <1>2, <1>4, <1>5, <2>2, <2>3, <2>4, <2>5 DEF PoolInv, PoolShapes
<1>8. Flags'
  BY <1>2, <1>5 DEF PoolInv, Flags, At
<1>9. \A k \in Thread : /\ At(k, "signal")' <=> At(k, "signal")
                        /\ At(k, "wait")' <=> At(k, "wait")
                        /\ Holds(k)' <=> Holds(k)
  BY <1>2 DEF At, Holds
<1>10. NoWakeLost' /\ Looked'
  <2>1. ASSUME queue'.pc = "wait", ~queue_event
        PROVE  g_running /\ (entries' = <<>> \/ \A k \in Thread : in_progress[k] \/ At(k, "signal"))
    <3>1. CASE n = Len(entries)
      <4>1. Len(entries') = 0
        BY <1>1, <1>4, <3>1
      <4> QED BY <1>4, <1>5, <2>1, <4>1, EmptySeq
    <3>2. CASE queue.look \notin Thread
      <4>1. \A k \in Thread : k < queue.look
        BY <1>1, <3>2 DEF Thread
      <4> QED BY <1>3, <1>5, <2>1, <4>1 DEF PoolInv, Looked
    <3> QED BY <1>3, <3>1, <3>2
  <2> QED BY <1>2, <1>5, <1>9, <2>1 DEF PoolInv, NoWakeLost, Looked
<1>11. Once'
  <2>0. Once
    BY DEF PoolInv
  <2>1. ASSUME NEW i \in Line', NEW j \in Line', entries'[i] = entries'[j] PROVE i = j
    <3>1. n + i = n + j
      BY <1>6, <2>0, <2>1 DEF Once
    <3> QED BY <1>1, <1>6, <3>1
  <2>2. ASSUME NEW i \in Line'
        PROVE  /\ \A k \in Thread : Holds(k) => thread[k].api # entries'[i]
               /\ \A m \in 1 .. Len(events) : events[m] # entries'[i]
               /\ calls[entries'[i]] = 0
    BY <1>6, <2>0 DEF Once
  <2>3. /\ \A l, m \in 1 .. Len(events) : events[l] = events[m] => l = m
        /\ \A m \in 1 .. Len(events) : calls[events[m]] = 0
        /\ \A q \in Request \ asked : calls[q] = 0
    BY <2>0 DEF Once
  <2>4. /\ \A i, j \in Thread : Holds(i) /\ Holds(j) /\ thread[i].api = thread[j].api => i = j
        /\ \A j \in Thread, m \in 1 .. Len(events) : Holds(j) => events[m] # thread[j].api
        /\ \A j \in Thread : Holds(j) => calls[thread[j].api] = 0
    BY <2>0 DEF Once
  <2> QED BY <1>2, <1>9, <2>1, <2>2, <2>3, <2>4 DEF Once
<1>12. NoneLost'
  <2>1. ASSUME NEW q, Somewhere(q) PROVE Somewhere(q)'
    <3>1. CASE \E m \in Line : entries[m] = q
      <4>1. PICK m \in Line : entries[m] = q
        BY <3>1
      <4>2. m - n \in Line' /\ n + (m - n) = m
        <5>1. m \in n + 1 .. Len(entries)
          BY DEF Line, n
        <5> QED BY <1>1, <1>6, <5>1
      <4>3. entries'[m - n] = q
        BY <1>6, <4>1, <4>2
      <4> QED BY <4>2, <4>3 DEF Somewhere
    <3>2. CASE ~\E m \in Line : entries[m] = q
      BY <1>2, <1>9, <2>1, <3>2 DEF Somewhere
    <3> QED BY <3>1, <3>2
  <2> QED BY <1>2, <2>1 DEF PoolInv, NoneLost
<1>13. Files'
  BY <1>2, SameFiles DEF PoolInv
<1> QED BY <1>7, <1>8, <1>10, <1>11, <1>12, <1>13 DEF PoolInv

-------------------------------------------------------------------------------
(* The steps of a worker *)

\* A worker wakes, and signals that it is free: nothing moves.
LEMMA KeepsWakes == ASSUME PoolInv, NEW k \in Thread, Wakes(k) PROVE PoolInv'
<1>1. /\ setting' = setting /\ server' = server /\ g_running' = g_running /\ stopped' = stopped
      /\ temp' = temp /\ dst' = dst /\ entries' = entries /\ queue' = queue /\ queue_event' = queue_event
      /\ in_progress' = in_progress /\ events' = events /\ calls' = calls /\ asked' = asked /\ main' = main
  BY DEF Wakes, Others, environment, app
<1>2. /\ thread \in [Thread -> Job] /\ thread[k] \in Job /\ event \in [Thread -> BOOLEAN]
      /\ in_progress \in [Thread -> BOOLEAN] /\ g_running \in BOOLEAN
  BY DEF PoolInv, PoolShapes
<1> DEFINE t == [thread[k] EXCEPT !.pc = IF g_running THEN "start" ELSE "dead"]
<1>3. /\ thread[k].pc = "wait" /\ event[k] /\ event' = [event EXCEPT ![k] = FALSE]
      /\ thread' = [thread EXCEPT ![k] = t]
  BY <1>2 DEF Wakes, At, Goto
<1>4. /\ t \in Job /\ t.api = thread[k].api /\ t.file_offset = thread[k].file_offset
      /\ g_running => t.pc = "start"
      /\ ~g_running => t.pc = "dead"
  BY <1>2 DEF Job, Labels
<1>5. g_running => in_progress[k]
  BY <1>3 DEF PoolInv, Flags
<1> HIDE DEF t
<1>6. /\ thread' \in [Thread -> Job] /\ thread'[k] = t
      /\ \A j \in Thread \ {k} : thread'[j] = thread[j] /\ event'[j] = event[j]
      /\ ~event'[k] /\ event' \in [Thread -> BOOLEAN]
  BY <1>2, <1>3, <1>4
<1>7. \A j \in Thread : thread'[j].api = thread[j].api
  BY <1>4, <1>6
<1>8. PoolShapes'
  BY <1>1, <1>6, <1>7 DEF PoolInv, PoolShapes
<1>9. Flags'
  <2>1. ASSUME NEW j \in Thread
        PROVE  /\ thread'[j].pc \in Working => in_progress[j]
               /\ g_running /\ event'[j] => in_progress[j] /\ thread'[j].pc \in {"wait", "signal", "none"}
               /\ At(j, "dead")' => ~g_running
    BY <1>4, <1>5, <1>6 DEF PoolInv, Flags, At, Working
  <2> QED BY <1>1, <2>1 DEF PoolInv, Flags
<1>10. \A j \in Thread : /\ At(j, "signal")' <=> At(j, "signal")
                         /\ At(j, "wait")' => At(j, "wait") /\ j # k
                         /\ Holds(j)' <=> Holds(j)
  <2>1. t.pc \notin {"signal", "wait", "free"}
    BY <1>2, <1>4
  <2> QED BY <1>1, <1>3, <1>6, <2>1 DEF At, Holds
<1>11. NoWakeLost' /\ Looked'
  <2>1. \A j \in Thread : At(j, "wait")' /\ ~event'[j] => g_running /\ ~in_progress[j]
    BY <1>6, <1>10 DEF PoolInv, NoWakeLost
  <2>2. \A j \in Thread : At(j, "signal")' /\ in_progress[j] => event'[j]
    <3>1. ~At(k, "signal")
      BY <1>3 DEF At
    <3> QED BY <1>6, <1>10, <3>1 DEF PoolInv, Looked
  <2>3. NoWakeLost'
    BY <1>1, <1>10, <2>1 DEF PoolInv, NoWakeLost
  <2> QED BY <1>1, <1>10, <2>2, <2>3 DEF PoolInv, Looked
<1>12. Unmoved
  BY <1>1, <1>7, <1>10 DEF Unmoved, Line
<1>13. Once' /\ NoneLost'
  BY <1>1, <1>12, SameHands, SamePlaces DEF PoolInv
<1>14. Files'
  <2>1. Sound(thread[k], temp[k])
    BY DEF PoolInv, Files
  <2>2. t.file_offset = 0 /\ t.pc \notin {"perform", "delete", "rename"}
    BY <1>2, <1>3, <1>4, <2>1 DEF Sound
  <2> QED BY <1>1, <1>6, <2>2, SameFiles DEF PoolInv
<1> QED BY <1>8, <1>9, <1>11, <1>13, <1>14 DEF PoolInv

\* The event of a finished request goes to the main thread, unless nobody wants to know.
LEMMA KeepsReply == ASSUME PoolInv, NEW k \in Thread, Reply(k) PROVE PoolInv'
<1>1. /\ setting' = setting /\ server' = server /\ g_running' = g_running /\ stopped' = stopped
      /\ temp' = temp /\ dst' = dst /\ entries' = entries /\ queue' = queue /\ queue_event' = queue_event
      /\ in_progress' = in_progress /\ event' = event /\ calls' = calls /\ asked' = asked /\ main' = main
  BY DEF Reply, Others, environment, pool
<1> DEFINE t == [thread[k] EXCEPT !.pc = "free"]
           r == thread[k].api
<1>2. /\ thread \in [Thread -> Job] /\ thread[k] \in Job /\ events \in Seq(Nat) /\ Len(events) \in Nat
      /\ in_progress \in [Thread -> BOOLEAN] /\ g_running \in BOOLEAN
      /\ asked \subseteq Nat
  BY Requests, LenProperties DEF PoolInv, PoolShapes
<1>3. thread[k].pc = "reply" /\ thread' = [thread EXCEPT ![k] = t]
  BY <1>2 DEF Reply, At, Goto
<1>4. t \in Job /\ t.pc = "free" /\ t.api = r /\ t.file_offset = thread[k].file_offset
  BY <1>2 DEF Job, Labels
<1>5. in_progress[k] /\ Holds(k) /\ r \in asked /\ r \in Nat
  BY <1>2, <1>3 DEF PoolInv, PoolShapes, Flags, Working, Holds, At
<1> HIDE DEF t
<1>6. /\ thread' \in [Thread -> Job] /\ thread'[k] = t
      /\ \A j \in Thread \ {k} : thread'[j] = thread[j]
  BY <1>2, <1>3, <1>4
<1>7. \A j \in Thread : thread'[j].api = thread[j].api
  BY <1>4, <1>6
<1>8. /\ ~Holds(k)'
      /\ \A j \in Thread \ {k} : Holds(j)' <=> Holds(j)
  <2>1. ~Holds(k)'
    BY <1>4, <1>6 DEF Holds, At
  <2>2. ASSUME NEW j \in Thread \ {k} PROVE Holds(j)' <=> Holds(j)
    BY <1>1, <1>6 DEF Holds, At
  <2> QED BY <2>1, <2>2
<1>9. \A j \in Thread : /\ At(j, "signal")' <=> At(j, "signal")
                        /\ At(j, "wait")' <=> At(j, "wait")
                        /\ At(j, "dead")' <=> At(j, "dead")
  <2>1. ASSUME NEW j \in Thread \ {k} PROVE thread'[j] = thread[j]
    BY <1>6
  <2>2. /\ ~At(k, "signal") /\ ~At(k, "signal")' /\ ~At(k, "wait") /\ ~At(k, "wait")'
        /\ ~At(k, "dead") /\ ~At(k, "dead")'
    BY <1>3, <1>4, <1>6 DEF At
  <2> QED BY <2>1, <2>2 DEF At
<1>10. \/ events' = events /\ (g_running => r \in stopped)
       \/ events' = Append(events, r)
  BY DEF Reply, GivesUp
<1>11. /\ events' \in Seq(Nat) /\ Len(events') \in Nat
       /\ \A m \in 1 .. Len(events') : events'[m] = r \/ (m \in 1 .. Len(events) /\ events'[m] = events[m])
       /\ \A m \in 1 .. Len(events) : m \in 1 .. Len(events') /\ events'[m] = events[m]
       /\ events' = Append(events, r) =>
            /\ Len(events') = Len(events) + 1 /\ events'[Len(events')] = r
  <2>1. CASE events' = events
    <3>1. Append(events, r) # events
      BY <1>2, <1>5, AppendProperties
    <3> QED BY <1>2, <2>1, <3>1
  <2>2. CASE events' = Append(events, r)
    BY <1>2, <1>5, <2>2, AppendProperties
  <2> QED BY <1>10, <2>1, <2>2
<1>12. \A l, m \in 1 .. Len(events') :
         events'[l] = r /\ events'[m] = r => l = m
  <2>1. \A m \in 1 .. Len(events) : events[m] # r
    BY <1>5 DEF PoolInv, Once
  <2>2. CASE events' = events
    BY <2>1, <2>2
  <2>3. CASE events' = Append(events, r)
    <3>1. Len(events') = Len(events) + 1
      BY <1>11, <2>3
    <3>2. \A m \in 1 .. Len(events') : events'[m] = r => m \notin 1 .. Len(events)
      BY <1>11, <2>1
    <3> QED BY <1>2, <3>1, <3>2
  <2> QED BY <1>10, <2>2, <2>3
<1> HIDE DEF r
<1>13. PoolShapes'
  <2>1. \A m \in 1 .. Len(events') : events'[m] \in asked
    BY <1>5, <1>11 DEF PoolInv, PoolShapes
  <2> QED BY <1>1, <1>6, <1>7, <1>11, <2>1 DEF PoolInv, PoolShapes
<1>14. Flags'
  <2>1. ~(g_running /\ event[k])
    BY <1>3 DEF PoolInv, Flags
  <2>2. ASSUME NEW j \in Thread
        PROVE  /\ thread'[j].pc \in Working => in_progress[j]
               /\ g_running /\ event[j] => in_progress[j] /\ thread'[j].pc \in {"wait", "signal", "none"}
               /\ At(j, "dead")' => ~g_running
    BY <1>5, <1>6, <1>9, <2>1 DEF PoolInv, Flags
  <2> QED BY <1>1, <2>2 DEF PoolInv, Flags
<1>15. NoWakeLost' /\ Looked'
  BY <1>1, <1>9 DEF PoolInv, NoWakeLost, Looked
<1>16. Line' = Line
  BY <1>1 DEF Line
<1>17. Once'
  <2>0. Once
    BY DEF PoolInv
  <2>1. /\ \A n \in Line : entries[n] # r
        /\ \A j \in Thread \ {k} : Holds(j) => thread[j].api # r
        /\ calls[r] = 0
    BY <1>5, <2>0 DEF Once, r
  <2>2. ASSUME NEW m \in 1 .. Len(events')
        PROVE  /\ \A l \in 1 .. Len(events') : events'[l] = events'[m] => l = m
               /\ \A n \in Line : events'[m] # entries[n]
               /\ \A j \in Thread \ {k} : Holds(j) => events'[m] # thread[j].api
               /\ calls[events'[m]] = 0
    <3>1. CASE events'[m] = r
      BY <1>12, <2>1, <3>1
    <3>2. CASE events'[m] # r
      <4>1. m \in 1 .. Len(events) /\ events'[m] = events[m]
        BY <1>11, <3>2
      <4>2. \A l \in 1 .. Len(events') : events'[l] = events'[m] => l = m
        BY <1>11, <2>0, <3>2, <4>1 DEF Once
      <4> QED BY <2>0, <4>1, <4>2 DEF Once
    <3> QED BY <3>1, <3>2
  <2>3. ASSUME NEW j \in Thread, Holds(j)'
        PROVE  j # k /\ Holds(j) /\ thread'[j].api = thread[j].api
    BY <1>7, <1>8, <2>3
  <2>4. /\ \A i, j \in Thread : Holds(i)' /\ Holds(j)' /\ thread'[i].api = thread'[j].api => i = j
        /\ \A n \in Line, j \in Thread : Holds(j)' => thread'[j].api # entries[n]
        /\ \A j \in Thread, m \in 1 .. Len(events') : Holds(j)' => events'[m] # thread'[j].api
        /\ \A j \in Thread : Holds(j)' => calls[thread'[j].api] = 0
    BY <2>0, <2>2, <2>3 DEF Once
  <2>5. /\ \A l, n \in Line : entries[l] = entries[n] => l = n
        /\ \A n \in Line : calls[entries[n]] = 0
        /\ \A q \in Request \ asked : calls[q] = 0
    BY <2>0 DEF Once
  <2> QED BY <1>1, <1>16, <2>2, <2>4, <2>5 DEF Once
<1>18. NoneLost'
  <2>1. ASSUME g_running, NEW q \in asked \ stopped PROVE Somewhere(q)'
    <3>0. Somewhere(q)
      BY <2>1 DEF PoolInv, NoneLost
    <3>1. CASE q = r
      <4>1. events' = Append(events, r)
        BY <1>10, <2>1, <3>1
      <4>2. Len(events') \in 1 .. Len(events') /\ events'[Len(events')] = q
        BY <1>2, <1>11, <3>1, <4>1
      <4> QED BY <4>2 DEF Somewhere
    <3>2. CASE q # r
      <4>1. CASE \E j \in Thread : Holds(j) /\ thread[j].api = q
        <5>1. PICK j \in Thread : Holds(j) /\ thread[j].api = q
          BY <4>1
        <5>2. j # k
          BY <3>2, <5>1 DEF r
        <5> QED BY <1>7, <1>8, <5>1, <5>2 DEF Somewhere
      <4>2. CASE \E m \in 1 .. Len(events) : events[m] = q
        BY <1>11, <4>2 DEF Somewhere
      <4>3. CASE (\E n \in Line : entries[n] = q) \/ calls[q] = 1
        BY <1>1, <1>16, <4>3 DEF Somewhere
      <4> QED BY <3>0, <4>1, <4>2, <4>3 DEF Somewhere
    <3> QED BY <3>1, <3>2
  <2> QED BY <1>1, <2>1 DEF NoneLost
<1>19. Files'
  <2>1. Sound(thread[k], temp[k])
    BY DEF PoolInv, Files
  <2>2. t.file_offset = 0 /\ t.pc \notin {"perform", "delete", "rename"}
    BY <1>3, <1>4, <2>1 DEF Sound
  <2> QED BY <1>1, <1>6, <2>2, SameFiles DEF PoolInv
<1> QED BY <1>13, <1>14, <1>15, <1>17, <1>18, <1>19 DEF PoolInv

\* The flag is cleared before the queue thread is told.
LEMMA KeepsFrees == ASSUME PoolInv, NEW k \in Thread, Frees(k) PROVE PoolInv'
<1>1. /\ setting' = setting /\ server' = server /\ g_running' = g_running /\ stopped' = stopped
      /\ temp' = temp /\ dst' = dst /\ entries' = entries /\ queue' = queue /\ queue_event' = queue_event
      /\ events' = events /\ event' = event /\ calls' = calls /\ asked' = asked /\ main' = main
  BY DEF Frees, Others, environment, app
<1> DEFINE t == [Idle EXCEPT !.pc = "signal"]
<1>2. /\ thread \in [Thread -> Job] /\ in_progress \in [Thread -> BOOLEAN] /\ g_running \in BOOLEAN
  BY DEF PoolInv, PoolShapes
<1>3. /\ thread[k].pc = "free" /\ thread' = [thread EXCEPT ![k] = t]
      /\ in_progress' = [in_progress EXCEPT ![k] = FALSE]
  BY DEF Frees, At
<1>4. t \in Job /\ t.pc = "signal" /\ t.file_offset = 0
  <2>1. 0 \in 0 .. DOWNLOAD_MAX_ATTEMPTS /\ 0 \in 0 .. Length /\ 0 \in Nat
    OBVIOUS
  <2> QED BY <2>1 DEF Idle, Job, Labels
<1> HIDE DEF t
<1>5. /\ thread' \in [Thread -> Job] /\ thread'[k] = t /\ ~in_progress'[k]
      /\ in_progress' \in [Thread -> BOOLEAN]
      /\ \A j \in Thread \ {k} : thread'[j] = thread[j] /\ in_progress'[j] = in_progress[j]
  BY <1>2, <1>3, <1>4
<1>6. PoolShapes'
  <2>1. \A j \in Thread : in_progress'[j] => thread'[j].api \in asked
    BY <1>5 DEF PoolInv, PoolShapes
  <2> QED BY <1>1, <1>5, <2>1 DEF PoolInv, PoolShapes
<1>7. Flags'
  <2>1. ~(g_running /\ event[k])
    BY <1>3 DEF PoolInv, Flags
  <2>2. ASSUME NEW j \in Thread
        PROVE  /\ thread'[j].pc \in Working => in_progress'[j]
               /\ g_running /\ event[j] => in_progress'[j] /\ thread'[j].pc \in {"wait", "signal", "none"}
               /\ At(j, "dead")' => ~g_running
    BY <1>4, <1>5, <2>1 DEF PoolInv, Flags, At, Working
  <2> QED BY <1>1, <2>2 DEF PoolInv, Flags
<1>8. NoWakeLost' /\ Looked'
  <2>1. ASSUME NEW j \in Thread
        PROVE  /\ in_progress[j] \/ At(j, "signal") => in_progress'[j] \/ At(j, "signal")'
               /\ At(j, "wait")' => At(j, "wait") /\ in_progress'[j] = in_progress[j]
               /\ At(j, "signal")' /\ in_progress'[j] => At(j, "signal") /\ in_progress[j]
    BY <1>4, <1>5 DEF At
  <2>2. NoWakeLost'
    BY <1>1, <2>1 DEF PoolInv, NoWakeLost
  <2>3. Looked'
    BY <1>1, <2>1 DEF PoolInv, Looked
  <2> QED BY <2>2, <2>3
<1>9. Unmoved
  <2>1. \A j \in Thread : (Holds(j)' <=> Holds(j)) /\ (Holds(j) => thread'[j].api = thread[j].api)
    BY <1>3, <1>5 DEF Holds, At
  <2> QED BY <1>1, <2>1 DEF Unmoved, Line
<1>10. Once' /\ NoneLost'
  BY <1>1, <1>9, SameHands, SamePlaces DEF PoolInv
<1>11. Files'
  BY <1>1, <1>4, <1>5, SameFiles DEF PoolInv
<1> QED BY <1>6, <1>7, <1>8, <1>10, <1>11 DEF PoolInv

LEMMA KeepsSignals == ASSUME PoolInv, NEW k \in Thread, Signals(k) PROVE PoolInv'
<1>1. /\ setting' = setting /\ server' = server /\ g_running' = g_running /\ stopped' = stopped
      /\ temp' = temp /\ dst' = dst /\ entries' = entries /\ queue' = queue /\ queue_event' = TRUE
      /\ in_progress' = in_progress
      /\ events' = events /\ event' = event /\ calls' = calls /\ asked' = asked /\ main' = main
  BY DEF Signals, Others, environment, app
<1> DEFINE t == [thread[k] EXCEPT !.pc = Loop]
<1>2. /\ thread \in [Thread -> Job] /\ thread[k] \in Job
      /\ in_progress \in [Thread -> BOOLEAN] /\ event \in [Thread -> BOOLEAN] /\ g_running \in BOOLEAN
  BY DEF PoolInv, PoolShapes
<1>3. thread[k].pc = "signal" /\ thread' = [thread EXCEPT ![k] = t]
  BY <1>2 DEF Signals, At, Goto
<1>4. /\ t \in Job /\ t.api = thread[k].api /\ t.file_offset = thread[k].file_offset
      /\ g_running => t.pc = "wait"
      /\ ~g_running => t.pc = "dead"
  BY <1>2 DEF Job, Labels, Loop
<1> HIDE DEF t
<1>5. /\ thread' \in [Thread -> Job] /\ thread'[k] = t
      /\ \A j \in Thread \ {k} : thread'[j] = thread[j]
  BY <1>2, <1>3, <1>4
<1>6. \A j \in Thread : thread'[j].api = thread[j].api
  BY <1>4, <1>5
<1>7. PoolShapes'
  BY <1>1, <1>5, <1>6 DEF PoolInv, PoolShapes
<1>8. Flags'
  <2>1. ASSUME NEW j \in Thread
        PROVE  /\ thread'[j].pc \in Working => in_progress[j]
               /\ g_running /\ event[j] => in_progress[j] /\ thread'[j].pc \in {"wait", "signal", "none"}
               /\ At(j, "dead")' => ~g_running
    BY <1>2, <1>4, <1>5 DEF PoolInv, Flags, At, Working
  <2> QED BY <1>1, <2>1 DEF PoolInv, Flags
<1>9. NoWakeLost' /\ Looked'
  <2>1. ASSUME NEW j \in Thread
        PROVE  /\ At(j, "wait")' /\ ~event[j] => g_running /\ ~in_progress[j]
               /\ At(j, "signal")' /\ in_progress[j] => event[j]
    <3>1. CASE j = k
      <4>1. in_progress[k] => event[k]
        BY <1>3 DEF PoolInv, Looked, At
      <4>2. ~At(k, "signal")' /\ (At(k, "wait")' => g_running)
        BY <1>2, <1>4, <1>5 DEF At
      <4> QED BY <3>1, <4>1, <4>2
    <3>2. CASE j # k
      BY <1>5, <3>2 DEF PoolInv, NoWakeLost, Looked, At
    <3> QED BY <3>1, <3>2
  <2> QED BY <1>1, <2>1 DEF NoWakeLost, Looked
<1>10. Unmoved
  <2>1. \A j \in Thread : Holds(j)' <=> Holds(j)
    BY <1>1, <1>2, <1>3, <1>4, <1>5 DEF Holds, At
  <2> QED BY <1>1, <1>6, <2>1 DEF Unmoved, Line
<1>11. Once' /\ NoneLost'
  BY <1>1, <1>10, SameHands, SamePlaces DEF PoolInv
<1>12. Files'
  <2>1. Sound(thread[k], temp[k])
    BY DEF PoolInv, Files
  <2>2. t.file_offset = 0 /\ t.pc \notin {"perform", "delete", "rename"}
    BY <1>2, <1>3, <1>4, <2>1 DEF Sound
  <2> QED BY <1>1, <1>5, <2>2, SameFiles DEF PoolInv
<1> QED BY <1>7, <1>8, <1>9, <1>11, <1>12 DEF PoolInv

-------------------------------------------------------------------------------
(* The steps of the main thread *)

\* t is s with r at a place of its own; what lies behind it has moved.
Joined(s, t, r, at, shift) ==
  /\ t[at] = r
  /\ \A i \in 1 .. Len(s) + 1 : i # at => i - shift \in 1 .. Len(s) /\ t[i] = s[i - shift]
  /\ \A i \in 1 .. Len(s) : i + shift \in 1 .. Len(s) + 1 /\ t[i + shift] = s[i]
\* What an entry of the queue with one more is: the new one, or an old one.
LEMMA Grown ==
  ASSUME NEW s \in Seq(Nat), NEW t, NEW r \in Nat, t = Append(s, r) \/ t = <<r>> \o s
  PROVE  /\ t \in Seq(Nat) /\ Len(t) = Len(s) + 1
         /\ \E at \in 1 .. Len(s) + 1, shift \in {0, 1} : Joined(s, t, r, at, shift)
<1>1. Len(s) \in Nat
  BY LenProperties
<1>2. CASE t = Append(s, r)
  <2>1. t \in Seq(Nat) /\ Len(t) = Len(s) + 1 /\ t[Len(s) + 1] = r /\ \A i \in 1 .. Len(s) : t[i] = s[i]
    BY <1>2, AppendProperties
  <2>2. \A i \in 1 .. Len(s) + 1 : i # Len(s) + 1 => i - 0 \in 1 .. Len(s) /\ t[i] = s[i - 0]
    BY <1>1, <2>1
  <2>3. \A i \in 1 .. Len(s) : i + 0 \in 1 .. Len(s) + 1 /\ t[i + 0] = s[i]
    BY <1>1, <2>1
  <2>4. Len(s) + 1 \in 1 .. Len(s) + 1
    BY <1>1
  <2> QED BY <2>1, <2>2, <2>3, <2>4 DEF Joined
<1>3. CASE t = <<r>> \o s
  <2>1. <<r>> \in Seq(Nat) /\ Len(<<r>>) = 1 /\ <<r>>[1] = r
    OBVIOUS
  <2>2. /\ t \in Seq(Nat) /\ Len(t) = 1 + Len(s)
        /\ \A i \in 1 .. 1 + Len(s) : t[i] = IF i <= 1 THEN <<r>>[i] ELSE s[i - 1]
    BY <1>3, <2>1, ConcatProperties
  <2>3. t[1] = r /\ 1 \in 1 .. Len(s) + 1
    BY <1>1, <2>1, <2>2
  <2>4. \A i \in 1 .. Len(s) + 1 : i # 1 => i - 1 \in 1 .. Len(s) /\ t[i] = s[i - 1]
    BY <1>1, <2>2
  <2>5. \A i \in 1 .. Len(s) : i + 1 \in 1 .. Len(s) + 1 /\ t[i + 1] = s[i]
    <3> TAKE i \in 1 .. Len(s)
    <3>1. i + 1 \in 1 .. Len(s) + 1 /\ i + 1 # 1 /\ (i + 1) - 1 = i
      BY <1>1
    <3> QED BY <2>4, <3>1
  <2> QED BY <1>1, <2>2, <2>3, <2>4, <2>5 DEF Joined
<1> QED BY <1>2, <1>3

\* A new request gets a number of its own and a place in the queue.
LEMMA KeepsAdd == ASSUME PoolInv, NEW r \in DOMAIN setting.kind, Add(r) PROVE PoolInv'
<1>1. /\ setting' = setting /\ server' = server /\ g_running' = g_running /\ stopped' = stopped
      /\ thread' = thread /\ temp' = temp /\ dst' = dst /\ queue' = queue /\ queue_event' = TRUE
      /\ in_progress' = in_progress /\ events' = events /\ event' = event /\ calls' = calls /\ main' = main
      /\ asked' = asked \cup {r} /\ g_running /\ ~Locked
  BY DEF Add, environment, download
<1>2. /\ r \in Nat /\ r \in Request /\ entries \in Seq(Nat) /\ Len(entries) \in Nat /\ asked \subseteq Request
  BY Requests, LenProperties DEF PoolInv, PoolShapes
<1>3. r \notin asked /\ \E n \in Nat : asked' = 1 .. n
  <2>1. PICK n \in Nat : asked = 1 .. n
    BY DEF PoolInv, PoolShapes
  <2>2. Cardinality(asked) = n
    BY <2>1, FS_Interval
  <2>3. r = n + 1
    BY <2>2 DEF Add
  <2>4. asked \cup {r} = 1 .. n + 1 /\ n + 1 \in Nat
    BY <2>1, <2>3
  <2> QED BY <1>1, <2>1, <2>3, <2>4
<1>4. queue.pop_count = 0
  BY <1>1 DEF PoolInv, Flags, Locked
<1>5. entries' = Append(entries, r) \/ entries' = <<r>> \o entries
  BY DEF Add
<1>6. entries' \in Seq(Nat) /\ Len(entries') = Len(entries) + 1
  BY <1>2, <1>5, Grown
<1>place. PICK at \in 1 .. Len(entries) + 1, shift \in {0, 1} : Joined(entries, entries', r, at, shift)
  BY <1>2, <1>5, Grown
<1>7. /\ entries'[at] = r
      /\ \A i \in 1 .. Len(entries) + 1 :
           i # at => i - shift \in 1 .. Len(entries) /\ entries'[i] = entries[i - shift]
      /\ \A i \in 1 .. Len(entries) :
           i + shift \in 1 .. Len(entries) + 1 /\ entries'[i + shift] = entries[i]
  BY <1>place DEF Joined
<1>8. Line = 1 .. Len(entries) /\ Line' = 1 .. Len(entries) + 1
  BY <1>1, <1>2, <1>4, <1>6 DEF Line
<1>9. PoolShapes'
  <2>1. \A n \in 1 .. Len(entries') : entries'[n] \in asked'
    BY <1>1, <1>6, <1>7 DEF PoolInv, PoolShapes
  <2>2. \A n \in 1 .. Len(events') : events'[n] \in asked'
    BY <1>1 DEF PoolInv, PoolShapes
  <2>3. \A k \in Thread : in_progress'[k] => thread'[k].api \in asked'
    BY <1>1 DEF PoolInv, PoolShapes
  <2>4. asked' \subseteq DOMAIN setting'.kind /\ stopped' \subseteq asked'
    BY <1>1 DEF PoolInv, PoolShapes
  <2>5. queue'.pop_count <= Len(entries')
    BY <1>1, <1>2, <1>4, <1>6
  <2> QED BY <1>1, <1>3, <1>6, <2>1, <2>2, <2>3, <2>4, <2>5 DEF PoolInv, PoolShapes
<1>10. Flags'
  BY <1>1 DEF PoolInv, Flags, At
<1>11. NoWakeLost' /\ Looked'
  BY <1>1 DEF PoolInv, NoWakeLost, Looked, At
<1>12. \A k \in Thread : Holds(k)' <=> Holds(k)
  BY <1>1 DEF Holds, At
<1>13. Once'
  <2>0. Once /\ calls[r] = 0
    BY <1>2, <1>3 DEF PoolInv, Once
  <2>1. /\ \A n \in 1 .. Len(entries) : entries[n] # r
        /\ \A m \in 1 .. Len(events) : events[m] # r
        /\ \A k \in Thread : Holds(k) => thread[k].api # r
    BY <1>3 DEF PoolInv, PoolShapes, Holds
  <2>2. ASSUME NEW n \in Line'
        PROVE  /\ \A k \in Thread : Holds(k) => thread[k].api # entries'[n]
               /\ \A m \in 1 .. Len(events) : events[m] # entries'[n]
               /\ calls[entries'[n]] = 0
    <3>1. CASE n = at
      BY <1>7, <2>0, <2>1, <3>1
    <3>2. CASE n # at
      BY <1>7, <1>8, <2>0, <3>2 DEF Once
    <3> QED BY <3>1, <3>2
  <2>3. ASSUME NEW l \in Line', NEW m \in Line', entries'[l] = entries'[m] PROVE l = m
    <3>1. CASE l # at /\ m # at
      <4>1. l - shift = m - shift
        <5>1. l \in 1 .. Len(entries) + 1 /\ m \in 1 .. Len(entries) + 1
          BY <1>8, <2>3
        <5>2. /\ l - shift \in Line /\ entries'[l] = entries[l - shift]
              /\ m - shift \in Line /\ entries'[m] = entries[m - shift]
          BY <1>7, <1>8, <3>1, <5>1
        <5>3. entries[l - shift] = entries[m - shift]
          BY <2>3, <5>2
        <5> QED BY <2>0, <5>2, <5>3 DEF Once
      <4> QED BY <1>2, <1>8, <4>1
    <3>2. CASE l = at \/ m = at
      BY <1>7, <1>8, <2>1, <2>3, <3>2
    <3> QED BY <3>1, <3>2
  <2>4. /\ \A l, m \in 1 .. Len(events) : events[l] = events[m] => l = m
        /\ \A m \in 1 .. Len(events) : calls[events[m]] = 0
        /\ \A q \in Request \ asked' : calls[q] = 0
    BY <1>1, <2>0 DEF Once
  <2>5. /\ \A i, j \in Thread : Holds(i) /\ Holds(j) /\ thread[i].api = thread[j].api => i = j
        /\ \A j \in Thread, m \in 1 .. Len(events) : Holds(j) => events[m] # thread[j].api
        /\ \A j \in Thread : Holds(j) => calls[thread[j].api] = 0
    BY <2>0 DEF Once
  <2> QED BY <1>1, <1>12, <2>2, <2>3, <2>4, <2>5 DEF Once
<1>14. NoneLost'
  <2>1. ASSUME NEW q \in asked' \ stopped PROVE Somewhere(q)'
    <3>1. CASE q = r
      BY <1>7, <1>8, <3>1 DEF Somewhere
    <3>2. CASE q # r
      <4>1. Somewhere(q)
        BY <1>1, <2>1, <3>2 DEF PoolInv, NoneLost
      <4>2. CASE \E n \in Line : entries[n] = q
        BY <1>7, <1>8, <4>2 DEF Somewhere
      <4>3. CASE ~\E n \in Line : entries[n] = q
        BY <1>1, <1>12, <4>1, <4>3 DEF Somewhere
      <4> QED BY <4>2, <4>3
    <3> QED BY <3>1, <3>2
  <2> QED BY <1>1, <2>1 DEF NoneLost
<1>15. Files'
  BY <1>1, SameFiles DEF PoolInv
<1> QED BY <1>9, <1>10, <1>11, <1>13, <1>14, <1>15 DEF PoolInv

\* A token is told to stop, and the exit goes on: nothing moves.
LEMMA KeepsStopExit ==
  ASSUME PoolInv, (\E r \in asked : Stop(r)) \/ Exit
  PROVE  PoolInv'
<1>1. /\ setting' = setting /\ server' = server /\ g_running' = g_running
      /\ thread' = thread /\ temp' = temp /\ dst' = dst /\ queue' = queue /\ queue_event' = queue_event
      /\ entries' = entries /\ in_progress' = in_progress /\ events' = events /\ event' = event
      /\ calls' = calls /\ asked' = asked /\ stopped \subseteq stopped' /\ stopped' \subseteq asked
      /\ main' \in {"loop", "exit", "join", "ended"}
  BY DEF PoolInv, PoolShapes, Stop, Exit, JoinQueue, JoinThreads, environment, download, pool, app
<1>2. PoolShapes'
  BY <1>1 DEF PoolInv, PoolShapes
<1>3. Flags' /\ NoWakeLost' /\ Looked'
  BY <1>1 DEF PoolInv, Flags, NoWakeLost, Looked, At
<1>4. Unmoved
  BY <1>1 DEF Unmoved, Line, Holds, At
<1>5. Once' /\ NoneLost' /\ Files'
  BY <1>1, <1>4, SameHands, SamePlaces, SameFiles DEF PoolInv
<1> QED BY <1>2, <1>3, <1>5 DEF PoolInv

\* The shutdown tells everyone who may sleep.
LEMMA KeepsShutdown == ASSUME PoolInv, RequestShutdown \/ Quit PROVE PoolInv'
<1>1. /\ setting' = setting /\ server' = server /\ g_running' = FALSE
      /\ thread' = thread /\ temp' = temp /\ dst' = dst /\ queue' = queue /\ queue_event' = TRUE
      /\ event' = [k \in Thread |-> TRUE]
      /\ entries' = entries /\ in_progress' = in_progress /\ events' = events
      /\ calls' = calls /\ asked' = asked /\ stopped \subseteq stopped' /\ stopped' \subseteq asked
      /\ main' \in {"loop", "exit", "join", "ended"}
  BY DEF PoolInv, PoolShapes, RequestShutdown, Quit, environment, download, app
<1>2. PoolShapes'
  BY <1>1 DEF PoolInv, PoolShapes
<1>3. Flags'
  BY <1>1 DEF PoolInv, Flags, At
<1>4. NoWakeLost' /\ Looked'
  BY <1>1 DEF NoWakeLost, Looked
<1>5. Unmoved
  BY <1>1 DEF Unmoved, Line, Holds, At
<1>6. Once' /\ NoneLost' /\ Files'
  BY <1>1, <1>5, SameHands, SamePlaces, SameFiles DEF PoolInv
<1> QED BY <1>2, <1>3, <1>4, <1>6 DEF PoolInv

\* An event leads to one call, or to none when the token was told to stop.
LEMMA KeepsDeliver == ASSUME PoolInv, Deliver PROVE PoolInv'
<1>1. /\ setting' = setting /\ server' = server /\ g_running' = g_running /\ stopped' = stopped
      /\ thread' = thread /\ temp' = temp /\ dst' = dst /\ queue' = queue /\ queue_event' = queue_event
      /\ entries' = entries /\ in_progress' = in_progress /\ event' = event /\ asked' = asked /\ main' = main
      /\ events # <<>> /\ events' = Tail(events)
  BY DEF Deliver, environment, download, pool
<1>2. events \in Seq(Nat) /\ Len(events) \in Nat /\ calls \in [Request -> {0, 1}] /\ asked \subseteq Request
  BY Requests, LenProperties DEF PoolInv, PoolShapes
<1>3. PICK h \in Nat : h = Head(events)
  BY <1>1, <1>2, HeadTailProperties
<1>4. /\ events' \in Seq(Nat) /\ Len(events') = Len(events) - 1 /\ Len(events) >= 1 /\ h = events[1]
      /\ \A i \in 1 .. Len(events) - 1 : events'[i] = events[i + 1]
  <2>1. Len(events) # 0
    BY <1>1, <1>2, EmptySeq
  <2> QED BY <1>1, <1>2, <1>3, <2>1, HeadTailProperties
<1>5. \A i \in 1 .. Len(events') : i + 1 \in 1 .. Len(events) /\ events'[i] = events[i + 1] /\ events'[i] # h
  <2> TAKE i \in 1 .. Len(events')
  <2>1. i + 1 \in 1 .. Len(events) /\ i + 1 # 1 /\ 1 \in 1 .. Len(events) /\ i \in 1 .. Len(events) - 1
    BY SMTT(20), <1>2, <1>4
  <2>2. events[i + 1] # events[1]
    BY <2>1 DEF PoolInv, Once
  <2> QED BY <1>4, <2>1, <2>2
<1>6. h \in asked /\ h \in Request /\ calls[h] = 0
  <2>1. 1 \in 1 .. Len(events)
    BY <1>2, <1>4
  <2> QED BY <1>2, <1>4, <2>1 DEF PoolInv, PoolShapes, Once
<1>7. /\ calls' \in [Request -> {0, 1}] /\ \A q \in Request : q # h => calls'[q] = calls[q]
      /\ h \notin stopped => calls'[h] = 1
  <2>1. CASE h \in stopped
    <3>1. calls' = calls
      BY <1>3, <2>1 DEF Deliver
    <3> QED BY <1>2, <2>1, <3>1
  <2>2. CASE h \notin stopped
    <3>1. calls' = [calls EXCEPT ![h] = calls[h] + 1]
      BY <1>3, <2>2 DEF Deliver
    <3>2. calls' = [calls EXCEPT ![h] = 1]
      BY <1>6, <3>1
    <3> QED BY <1>2, <1>6, <3>2
  <2> QED BY <2>1, <2>2
<1>8. PoolShapes'
  <2>1. \A i \in 1 .. Len(events') : events'[i] \in asked
    BY <1>5 DEF PoolInv, PoolShapes
  <2> QED BY <1>1, <1>4, <1>7, <2>1 DEF PoolInv, PoolShapes
<1>9. Flags' /\ NoWakeLost' /\ Looked'
  BY <1>1 DEF PoolInv, Flags, NoWakeLost, Looked, At
<1>10. Line' = Line /\ \A k \in Thread : Holds(k)' <=> Holds(k)
  BY <1>1 DEF Line, Holds, At
<1>11. Once'
  <2>0. Once
    BY DEF PoolInv
  <2>1. 1 \in 1 .. Len(events)
    BY <1>2, <1>4
  <2>2. /\ \A n \in Line : entries[n] # h /\ entries[n] \in Request
        /\ \A k \in Thread : Holds(k) => thread[k].api # h /\ thread[k].api \in Request
    <3>1. /\ \A n \in Line : entries[n] # events[1]
          /\ \A k \in Thread : Holds(k) => thread[k].api # events[1]
      BY <2>0, <2>1 DEF Once
    <3>2. Line \subseteq 1 .. Len(entries)
      BY LenProperties DEF Line, PoolInv, PoolShapes
    <3>3. \A n \in Line : entries[n] \in asked
      BY <3>2 DEF PoolInv, PoolShapes
    <3>4. \A k \in Thread : Holds(k) => thread[k].api \in asked
      BY DEF PoolInv, PoolShapes, Holds
    <3> QED BY <1>2, <1>4, <3>1, <3>3, <3>4
  <2>3. /\ \A n \in Line : calls'[entries[n]] = 0
        /\ \A k \in Thread : Holds(k) => calls'[thread[k].api] = 0
    BY <1>7, <2>0, <2>2 DEF Once
  <2>4. \A q \in Request \ asked : calls'[q] = 0
    BY <1>6, <1>7, <2>0 DEF Once
  <2>5. ASSUME NEW i \in 1 .. Len(events')
        PROVE  /\ \A j \in 1 .. Len(events') : events'[j] = events'[i] => j = i
               /\ \A n \in Line : events'[i] # entries[n]
               /\ \A k \in Thread : Holds(k) => events'[i] # thread[k].api
               /\ calls'[events'[i]] = 0
    <3>1. i + 1 \in 1 .. Len(events) /\ events'[i] = events[i + 1] /\ events'[i] # h
      BY <1>5
    <3>2. ASSUME NEW j \in 1 .. Len(events'), events'[j] = events'[i] PROVE j = i
      <4>1. j + 1 \in 1 .. Len(events) /\ events'[j] = events[j + 1]
        BY <1>5
      <4>2. j + 1 = i + 1
        BY <2>0, <3>1, <3>2, <4>1 DEF Once
      <4> QED BY <1>2, <1>4, <4>2
    <3>3. events'[i] \in Request
      BY <1>2, <3>1 DEF PoolInv, PoolShapes
    <3>4. calls'[events'[i]] = 0
      BY <1>7, <2>0, <3>1, <3>3 DEF Once
    <3> QED BY <2>0, <3>1, <3>2, <3>4 DEF Once
  <2>6. /\ \A l, n \in Line : entries[l] = entries[n] => l = n
        /\ \A i, j \in Thread : Holds(i) /\ Holds(j) /\ thread[i].api = thread[j].api => i = j
        /\ \A n \in Line, k \in Thread : Holds(k) => thread[k].api # entries[n]
    BY <2>0 DEF Once
  <2> QED BY <1>1, <1>10, <2>3, <2>4, <2>5, <2>6 DEF Once
<1>12. NoneLost'
  <2>1. ASSUME g_running, NEW q \in asked \ stopped PROVE Somewhere(q)'
    <3>0. Somewhere(q) /\ q \in Request
      BY <1>2, <2>1 DEF PoolInv, NoneLost
    <3>1. CASE q = h
      BY <1>7, <2>1, <3>1 DEF Somewhere
    <3>2. CASE q # h
      <4>1. CASE \E m \in 1 .. Len(events) : events[m] = q
        <5>1. PICK m \in 1 .. Len(events) : events[m] = q
          BY <4>1
        <5>2. m # 1
          BY <1>4, <3>2, <5>1
        <5>3. m - 1 \in 1 .. Len(events') /\ (m - 1) + 1 = m
          BY <1>2, <1>4, <5>2
        <5> QED BY <1>5, <5>1, <5>3 DEF Somewhere
      <4>2. CASE ~\E m \in 1 .. Len(events) : events[m] = q
        BY <1>1, <1>7, <1>10, <3>0, <3>2, <4>2 DEF Somewhere
      <4> QED BY <4>1, <4>2
    <3> QED BY <3>1, <3>2
  <2> QED BY <1>1, <2>1 DEF NoneLost
<1>13. Files'
  BY <1>1, SameFiles DEF PoolInv
<1> QED BY <1>8, <1>9, <1>11, <1>12, <1>13 DEF PoolInv

-------------------------------------------------------------------------------
(* What follows *)

LEMMA KeepsNothing == ASSUME PoolInv, UNCHANGED vars PROVE PoolInv'
<1>1. /\ setting' = setting /\ server' = server /\ g_running' = g_running /\ stopped' = stopped
      /\ thread' = thread /\ temp' = temp /\ dst' = dst /\ queue' = queue /\ queue_event' = queue_event
      /\ entries' = entries /\ in_progress' = in_progress /\ events' = events /\ event' = event
      /\ calls' = calls /\ asked' = asked /\ main' = main
  BY DEF vars, environment, download, pool, app
<1>2. PoolShapes'
  BY <1>1 DEF PoolInv, PoolShapes
<1>3. Flags' /\ NoWakeLost' /\ Looked'
  BY <1>1 DEF PoolInv, Flags, NoWakeLost, Looked, At
<1>4. Unmoved
  BY <1>1 DEF Unmoved, Line, Holds, At
<1>5. Once' /\ NoneLost' /\ Files'
  BY <1>1, <1>4, SameHands, SamePlaces, SameFiles DEF PoolInv
<1> QED BY <1>2, <1>3, <1>5 DEF PoolInv

LEMMA PoolSteps == ASSUME PoolInv, [Next]_vars PROVE PoolInv'
<1>1. CASE User
  <2>1. ASSUME NEW r \in DOMAIN setting.kind, Stop(r) PROVE r \in asked
    BY <2>1 DEF Stop
  <2> QED BY <1>1, <2>1, KeepsAdd, KeepsStopExit, KeepsShutdown DEF User
<1>2. CASE Server
  BY <1>2, KeepsAnswer, KeepsPublish DEF Server
<1>3. CASE Deliver
  BY <1>3, KeepsDeliver
<1>4. CASE Exit
  BY <1>4, KeepsStopExit
<1>5. CASE QueueThread
  BY <1>5, KeepsQueueLooks, KeepsSetup, KeepsQueuePops DEF QueueThread
<1>6. CASE \E k \in Thread : WorkerThread(k)
  BY <1>6, KeepsWakes, KeepsReply, KeepsFrees, KeepsSignals, KeepsWork DEF WorkerThread
<1> QED BY <1>1, <1>2, <1>3, <1>4, <1>5, <1>6, KeepsNothing DEF Next

\* For every number of threads, attempts and versions, every length of the file, and whatever
\* may go wrong: the queue, the workers and the events hold what the invariant says.
THEOREM PoolInvariance == Spec => []PoolInv
  BY PoolStarts, PoolSteps, PTL DEF Spec

\* A sequence of numbers that were asked for is one of requests.
LEMMA AllRequests ==
  ASSUME PoolInv, NEW s \in Seq(Nat), \A n \in 1 .. Len(s) : s[n] \in asked
  PROVE  s \in Seq(Request)
<1>1. \A n \in 1 .. Len(s) : s[n] \in Request
  BY Requests DEF PoolInv
<1>2. Len(s) \in Nat /\ s = [n \in 1 .. Len(s) |-> s[n]]
  BY LenProperties
<1>3. s \in [1 .. Len(s) -> Request]
  BY <1>1, <1>2
<1> QED BY <1>2, <1>3, IsSequence

\* Every variable of the pool holds what the declarations of the code and the assertion of Setup
\* allow: the queue is never popped beyond its end, a worker never counts more attempts than
\* there are, and none works on a request that it was not given.
THEOREM PoolTyping == Spec => []TypeOK
<1>1. PoolInv => TypeOK
  <2> SUFFICES ASSUME PoolInv PROVE TypeOK
    OBVIOUS
  <2>1. entries \in Seq(Request) /\ events \in Seq(Request)
    BY AllRequests DEF PoolInv, PoolShapes
  <2>2. stopped \subseteq Request
    BY Requests DEF PoolInv, PoolShapes
  <2>3. queue.pop_count \in 0 .. Len(entries)
    BY LenProperties DEF PoolInv, PoolShapes
  <2>4. \A k \in Thread : thread[k].attempt \in 0 .. DOWNLOAD_MAX_ATTEMPTS /\ thread[k].file_offset \in 0 .. Length
    BY DEF PoolInv, PoolShapes, Job
  <2>5. \A k \in Thread :
          thread[k].pc \in {"start", "perform", "delete", "rename", "reply", "free"} => in_progress[k]
    BY DEF PoolInv, Flags, Working
  <2>6. /\ g_running \in BOOLEAN /\ queue_event \in BOOLEAN /\ event \in [Thread -> BOOLEAN]
        /\ in_progress \in [Thread -> BOOLEAN] /\ queue.look \in 1 .. MAX_THREADS + 1
    BY DEF PoolInv, PoolShapes
  <2> QED BY <2>1, <2>2, <2>3, <2>4, <2>5, <2>6 DEF TypeOK
<1> QED BY <1>1, PoolInvariance, PTL

\* A set whose elements are all the same has one, or none.
LEMMA OneOrNone ==
  ASSUME NEW S, \A x, y \in S : x = y
  PROVE  Cardinality(S) = IF S = {} THEN 0 ELSE 1
<1>1. CASE S = {}
  BY <1>1, FS_EmptySet
<1>2. CASE S # {}
  <2>1. PICK x : S = {x}
    BY <1>2
  <2> QED BY <1>2, <2>1, FS_Singleton
<1> QED BY <1>1, <1>2

\* The hands of a request, counted one by one.
LEMMA HandsOf ==
  ASSUME PoolInv, NEW r \in Request
  PROVE  /\ Hands(r) \in {0, 1}
         /\ Somewhere(r) => Hands(r) = 1
<1> DEFINE E == {n \in DOMAIN events : events[n] = r}
<1>1. DOMAIN events = 1 .. Len(events) /\ calls[r] \in {0, 1}
  BY LenProperties DEF PoolInv, PoolShapes
<1>2. Once
  BY DEF PoolInv
<1>3. /\ Queued(r) = {n \in Line : entries[n] = r}
      /\ Held(r) = {k \in Thread : Holds(k) /\ thread[k].api = r}
      /\ E = {n \in 1 .. Len(events) : events[n] = r}
  BY <1>1 DEF Queued, Held, Line, Holds, At
<1>4. /\ \A m, n \in Queued(r) : m = n
      /\ \A j, k \in Held(r) : j = k
      /\ \A m, n \in E : m = n
  BY <1>2, <1>3 DEF Once
<1>5. /\ Queued(r) # {} => Held(r) = {} /\ E = {} /\ calls[r] = 0
      /\ Held(r) # {} => E = {} /\ calls[r] = 0
      /\ E # {} => calls[r] = 0
  BY <1>2, <1>3 DEF Once
<1>6. /\ Cardinality(Queued(r)) = IF Queued(r) = {} THEN 0 ELSE 1
      /\ Cardinality(Held(r)) = IF Held(r) = {} THEN 0 ELSE 1
      /\ Cardinality(E) = IF E = {} THEN 0 ELSE 1
  BY <1>4, OneOrNone
<1>7. Hands(r) = Cardinality(Queued(r)) + Cardinality(Held(r)) + Cardinality(E) + calls[r]
  BY DEF Hands
<1>8. Somewhere(r) => Queued(r) # {} \/ Held(r) # {} \/ E # {} \/ calls[r] = 1
  BY <1>3 DEF Somewhere
<1> HIDE DEF E
<1> QED BY <1>1, <1>5, <1>6, <1>7, <1>8

\* A request that was added is in exactly one hand until it is stopped or the pool shuts down:
\* the queue's, a worker's, the main thread's, or that of the callback that was called; and it
\* is never in two, whatever comes between the queue thread, the workers and the main loop.
THEOREM OneHand == Spec => []InOneHand
<1>1. PoolInv => InOneHand
  <2> SUFFICES ASSUME PoolInv, NEW r \in Request
               PROVE  Hands(r) <= 1 /\ (r \in asked \ stopped /\ g_running => Hands(r) = 1)
    BY DEF InOneHand
  <2>1. r \in asked \ stopped /\ g_running => Somewhere(r)
    BY DEF PoolInv, NoneLost
  <2> QED BY <2>1, HandsOf
<1> QED BY <1>1, PoolInvariance, PTL

\* The file at the path of a download is absent or complete, unit for unit, after any number of
\* broken, resumed and refused attempts; and of one version if no request may resume.
THEOREM WholeFile == Spec => []FileWhole
<1>1. PoolInv => FileWhole
  BY DEF PoolInv, Files
<1> QED BY <1>1, PoolInvariance, PTL

\* No wake-up is lost between the events that clear themselves: a thread of the pool sleeps only
\* while there is nothing for it to do, and the shutdown reaches every sleeper.
THEOREM WakesKept == Spec => []NoWakeLost
<1>1. PoolInv => NoWakeLost
  BY DEF PoolInv
<1> QED BY <1>1, PoolInvariance, PTL
=============================================================================
