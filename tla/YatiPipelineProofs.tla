-------------------------- MODULE YatiPipelineProofs --------------------------
(***************************************************************************)
(* Proofs about YatiPipeline for every size of the file, of its buffers,   *)
(* rings and pieces, every ratio and any set of faults: what lies in the   *)
(* rings and in the hands of the threads is one piece of the file, and a   *)
(* thread that ends without an error has left nothing behind.  From this,  *)
(* the three threads are never all asleep.                                 *)
(***************************************************************************)
EXTENDS YatiPipeline, SequenceTheorems, TLAPS

-------------------------------------------------------------------------------
(* Vectors and rings *)

Gone == {"exit", "result", "dead"}
Holding == {"test", "park", "wait"}
Sending == {"put", "putpark", "putwait"}

\* consecutive units
Run(v) == v \in Seq(Nat) /\ v # <<>> /\ \A i \in 1 .. Len(v) : v[i] = v[1] + (i - 1)

\* the first units of the NCA
Ahead(s) == s \in Seq(Nat) /\ \A i \in 1 .. Len(s) : s[i] = i - 1

\* where the vector behind v begins; a reader that skips does so behind unit 0
Behind(v, skip) == IF skip /\ v[1] = 0 THEN 2 ELSE v[1] + Len(v)

\* The vectors of a ring follow each other, from a to b.
Chained(ring, a, b, skip) ==
  LET n == Len(ring)
  IN  IF n = 0 THEN a = b
      ELSE /\ ring[1][1] = a /\ Behind(ring[n], skip) = b
           /\ \A i \in 1 .. n - 1 : ring[i + 1][1] = Behind(ring[i], skip)

-------------------------------------------------------------------------------
(* The invariant *)

Shapes ==
  /\ reader_buf \in Seq(Nat) /\ decomp_buf \in Seq(Nat) /\ writer_buf \in Seq(Nat)
  /\ inflate_buf \in Seq(Nat) /\ outgoing \in Seq(Nat)
  /\ hashed \in Seq(Nat) /\ nca_hash \in Seq(Nat) /\ placeholder \in Seq(Nat)
  /\ read_buffers \in Seq(Seq(Nat)) /\ write_buffers \in Seq(Seq(Nat))
  /\ ncz \in BOOLEAN /\ verify \in BOOLEAN
  /\ write_size \in {NcaSize, HeaderSize}

(* Where a thread is, what it returned, and what the others have been told of it. *)
Told ==
  /\ reader \in {"result", "dead"} <=> ~read_running
  /\ decompressor \in {"result", "dead"} <=> ~decompress_running
  /\ writer \in {"result", "dead"} <=> ~write_running
  /\ reader \notin Gone => reader_rc = "ok"
  /\ decompressor \notin Gone => decomp_rc = "ok"
  /\ writer \notin Gone => writer_rc = "ok"
  /\ read_result = IF reader = "dead" THEN reader_rc ELSE "ok"
  /\ decompress_result = IF decompressor = "dead" THEN decomp_rc ELSE "ok"
  /\ write_result = IF writer = "dead" THEN writer_rc ELSE "ok"

(* The installing thread starts the others one by one, and gets as far as the results only *)
(* after a cancel, a failure, or the end of the writer. *)
Waited ==
  /\ main = "start" => reader = "idle"
  /\ main \in {"start", "start2"} => decompressor = "idle"
  /\ main \in {"start", "start2", "start3"} => writer = "idle"
  /\ uevent_done => ~Healthy \/ writer = "dead"
  /\ main \in {"teardown", "result"} => uevent_done \/ cancelled
  /\ main = "result" => ~IsAnyRunning
  /\ returned = "none" <=> main \notin {"join", "done"}
  /\ main = "done" => {reader, decompressor, writer} \subseteq {"idle", "dead"}

Skips == ncz /\ source_end > 1

\* a vector of the file
Vector(v) ==
  /\ Run(v) /\ Len(v) <= BufSize
  /\ Behind(v, Skips) <= read_offset
  /\ ncz => (v[1] = 0 /\ Len(v) = 1) \/ v[1] > 1

\* the offset of what the reader pushes next
Unread == IF reader \in Holding THEN reader_buf[1] ELSE read_offset

(* What was read and not yet decompressed lies without a gap in the hands of the two threads *)
(* and the ring, as long as somebody may take it. *)
Read ==
  /\ read_offset <= source_end /\ (Skips => read_offset # 1)
  /\ reader \in Holding => Vector(reader_buf) /\ Behind(reader_buf, Skips) = read_offset
  /\ \A i \in 1 .. Len(read_buffers) : Vector(read_buffers[i])

\* f is the offset of what the decompressor takes next
Fed(f) ==
  /\ f <= read_offset /\ UnitsFrom(f) = decompress_offset
  /\ decomp_buf # <<>> => Vector(decomp_buf) /\ decomp_buf[1] = f
  /\ Healthy /\ decompress_running =>
       Chained(read_buffers, IF decomp_buf = <<>> THEN f ELSE Behind(decomp_buf, Skips), Unread, Skips)
Feed == Read /\ \E f \in Nat : Fed(f)

(* What the decompressor holds at each of its places. *)
Inflating ==
  /\ decomp_buf # <<>> =>
       \/ decompressor \in Gone
       \/ decompressor \in {"header", "pass"} /\ (ncz => decomp_buf[1] = 0)
       \/ decompressor \in {"inflate"} \cup Sending /\ ncz /\ decomp_buf[1] # 0
  /\ decompressor \in {"header", "pass"} => decomp_buf # <<>>
  /\ decompressor = "inflate" => ncz
  /\ decompress_offset > 0 \/ decompressor = "pass" => write_size = HeaderSize
  /\ Len(hashed) + Len(inflate_buf) = decompress_offset
  /\ inflate_buf # <<>> => ncz /\ Run(inflate_buf) /\ inflate_buf[1] = Len(hashed)
  /\ Len(inflate_buf) < FlushSize
  /\ decompressor \in Sending => Run(outgoing) /\ outgoing[1] + Len(outgoing) = Len(hashed)
  /\ flushing => decompressor \in Sending \cup Gone /\ inflate_buf = <<>>
  /\ nca_hash = <<>> \/ (decompressor \in Gone /\ nca_hash = hashed)

\* what was hashed and not yet written
Piece(v) == Run(v) /\ v[1] + Len(v) <= Len(hashed)
Unsent == IF decompressor \in Sending THEN outgoing[1] ELSE Len(hashed)

(* What was hashed and not yet written lies without a gap behind the placeholder, as long as *)
(* the writer may take it. *)
Drain ==
  /\ Ahead(hashed) /\ Ahead(placeholder) /\ write_offset <= Len(hashed)
  /\ \A i \in 1 .. Len(write_buffers) : Piece(write_buffers[i])
  /\ writer = "write" /\ writer_buf # <<>> => Piece(writer_buf) /\ writer_buf[1] = write_offset
  /\ writer \in {"write"} \cup Gone \/ writer_buf = <<>> \/ ~Healthy
  /\ Healthy /\ write_running => Chained(write_buffers, write_offset + Len(writer_buf), Unsent, FALSE)

(* A thread that ended without an error, while nobody failed, was through. *)
Through ==
  Healthy =>
    /\ reader \in Gone /\ reader_rc = "ok" => read_offset = source_end
    /\ flushing \/ (decompressor \in Gone /\ decomp_rc = "ok") =>
         /\ inflate_buf = <<>>
         /\ decompress_offset = HeaderSize \/ (~read_running /\ decompress_offset = UnitsFrom(read_offset))
    /\ writer \in Gone /\ writer_rc = "ok" =>
         write_offset = Len(hashed) /\ (~decompress_running \/ Len(hashed) = HeaderSize)

(* A success is the end of everything. *)
Success ==
  returned = "ok" =>
    /\ ~IsAnyRunning /\ write_offset = Len(hashed) /\ Len(hashed) = Held
    /\ verify => hashed = Content

IInv == TypeOK /\ Shapes /\ Told /\ Waited /\ Feed /\ Inflating /\ Drain /\ Through /\ Success

-------------------------------------------------------------------------------
(* Runs of units *)

USE SizesAssumption

\* A run has a first unit.
LEMMA RunBegins == ASSUME NEW v, Run(v) PROVE v \in Seq(Nat) /\ Len(v) \in Nat \ {0} /\ v[1] \in Nat
BY DEF Run

\* A run behind a beginning makes a longer one.
LEMMA AheadGrows ==
  ASSUME NEW s, NEW v, Ahead(s), Run(v), v[1] = Len(s)
  PROVE  Ahead(s \o v) /\ Len(s \o v) = Len(s) + Len(v)
<1>1. s \in Seq(Nat) /\ v \in Seq(Nat)
  BY DEF Ahead, Run
<1>2. s \o v \in Seq(Nat) /\ Len(s \o v) = Len(s) + Len(v)
  BY <1>1
<1>3. ASSUME NEW i \in 1 .. Len(s \o v) PROVE (s \o v)[i] = i - 1
  <2> DEFINE n == Len(s)
             m == Len(v)
  <2>0. n \in Nat /\ m \in Nat /\ i \in 1 .. n + m
    BY <1>1, <1>2
  <2>1. CASE i <= n
    BY <1>1, <2>1 DEF Ahead
  <2>2. CASE i > n
    <3>1. (s \o v)[i] = v[i - n]
      BY <1>1, <2>0, <2>2
    <3>2. i - n \in 1 .. m
      BY <2>0, <2>2
    <3>3. v[i - n] = v[1] + ((i - n) - 1)
      BY <3>2 DEF Run
    <3> HIDE DEF n
    <3> QED BY <2>0, <3>1, <3>3 DEF n
  <2> QED BY <2>0, <2>1, <2>2
<1> QED BY <1>2, <1>3 DEF Ahead

\* Two runs, one behind the other, are one.
LEMMA RunGrows ==
  ASSUME NEW v, NEW w, Run(v), Run(w), w[1] = v[1] + Len(v)
  PROVE  Run(v \o w) /\ (v \o w)[1] = v[1] /\ Len(v \o w) = Len(v) + Len(w)
<1>1. v \in Seq(Nat) /\ w \in Seq(Nat)
  BY DEF Run
<1> DEFINE n == Len(v)
           m == Len(w)
<1>2. n \in Nat \ {0} /\ m \in Nat \ {0} /\ v[1] \in Nat
  BY RunBegins
<1>3. v \o w \in Seq(Nat) /\ Len(v \o w) = n + m /\ (v \o w)[1] = v[1]
  BY <1>1, <1>2
<1>4. ASSUME NEW i \in 1 .. n + m PROVE (v \o w)[i] = v[1] + (i - 1)
  <2>1. CASE i <= n
    <3>1. (v \o w)[i] = v[i]
      BY <1>1, <1>2, <2>1
    <3> QED BY <1>2, <2>1, <3>1 DEF Run
  <2>2. CASE i > n
    <3>1. (v \o w)[i] = w[i - n]
      BY <1>1, <1>2, <2>2
    <3>2. i - n \in 1 .. m
      BY <1>2, <2>2
    <3>3. w[i - n] = w[1] + ((i - n) - 1)
      BY <3>2 DEF Run
    <3>4. w[1] = v[1] + n
      OBVIOUS
    <3> HIDE DEF n
    <3> QED BY <1>2, <3>1, <3>3, <3>4
  <2> QED BY <1>2, <2>1, <2>2
<1>5. v \o w # <<>>
  BY <1>2, <1>3
<1> QED BY <1>3, <1>4, <1>5 DEF Run

\* A run can be cut.
LEMMA RunCut ==
  ASSUME NEW v, Run(v), NEW n \in 0 .. Len(v)
  PROVE  /\ n > 0 => Run(SubSeq(v, 1, n)) /\ SubSeq(v, 1, n)[1] = v[1]
         /\ Len(SubSeq(v, 1, n)) = n
         /\ n < Len(v) => Run(SubSeq(v, n + 1, Len(v))) /\ SubSeq(v, n + 1, Len(v))[1] = v[1] + n
         /\ Len(SubSeq(v, n + 1, Len(v))) = Len(v) - n
         /\ SubSeq(v, 1, n) \in Seq(Nat) /\ SubSeq(v, n + 1, Len(v)) \in Seq(Nat)
<1> DEFINE m == Len(v)
           front == SubSeq(v, 1, n)
           back == SubSeq(v, n + 1, m)
<1>1. v \in Seq(Nat) /\ m \in Nat \ {0} /\ v[1] \in Nat
  BY RunBegins
<1>2. front \in Seq(Nat) /\ Len(front) = n /\ \A i \in 1 .. n : front[i] = v[i]
  BY <1>1
<1>3. back \in Seq(Nat) /\ Len(back) = m - n /\ \A i \in 1 .. m - n : back[i] = v[n + i]
  BY <1>1
<1>4. \A i \in 1 .. m : v[i] = v[1] + (i - 1)
  BY DEF Run
<1>0. n \in Nat /\ n <= m
  BY <1>1
<1> HIDE DEF m, front, back
<1>5. ASSUME n > 0 PROVE Run(front) /\ front[1] = v[1]
  <2>1. front[1] = v[1]
    BY <1>2, <1>5
  <2>2. \A i \in 1 .. n : front[i] = front[1] + (i - 1)
    <3> TAKE i \in 1 .. n
    <3>1. i \in 1 .. m
      BY <1>0, <1>1
    <3>2. v[i] = v[1] + (i - 1)
      BY <1>4, <3>1
    <3> QED BY <1>2, <2>1, <3>2
  <2> QED BY <1>2, <1>5, <2>1, <2>2 DEF Run
<1>6. ASSUME n < m PROVE Run(back) /\ back[1] = v[1] + n
  <2>1. back[1] = v[n + 1]
    BY <1>1, <1>3, <1>6
  <2>2. back[1] = v[1] + n
    BY <1>1, <1>4, <1>6, <2>1
  <2>3. \A i \in 1 .. m - n : back[i] = back[1] + (i - 1)
    <3> TAKE i \in 1 .. m - n
    <3>1. n + i \in 1 .. m
      BY <1>0, <1>1
    <3>2. v[n + i] = v[1] + ((n + i) - 1)
      BY <1>4, <3>1
    <3> QED BY <1>0, <1>1, <1>3, <2>2, <3>2
  <2>4. back # <<>>
    BY <1>1, <1>3, <1>6
  <2> QED BY <1>3, <2>2, <2>3, <2>4 DEF Run
<1> QED BY <1>2, <1>3, <1>5, <1>6 DEF m, front, back

\* The tail of a run is empty or the run behind its first unit.
LEMMA RunTail ==
  ASSUME NEW v, Run(v)
  PROVE  /\ Tail(v) \in Seq(Nat) /\ Len(Tail(v)) = Len(v) - 1
         /\ Tail(v) = <<>> <=> Len(v) = 1
         /\ Tail(v) # <<>> => Run(Tail(v)) /\ Tail(v)[1] = v[1] + 1
<1> DEFINE m == Len(v)
           w == Tail(v)
<1>1. v \in Seq(Nat) /\ m \in Nat \ {0} /\ v[1] \in Nat /\ v # <<>>
  BY RunBegins DEF Run
<1>2. w \in Seq(Nat) /\ Len(w) = m - 1 /\ \A i \in 1 .. m - 1 : w[i] = v[i + 1]
  BY <1>1
<1>3. \A i \in 1 .. m : v[i] = v[1] + (i - 1)
  BY DEF Run
<1>4. w = <<>> <=> m = 1
  BY <1>1, <1>2
<1> HIDE DEF m, w
<1>5. ASSUME w # <<>> PROVE Run(w) /\ w[1] = v[1] + 1
  <2>1. m > 1
    BY <1>1, <1>2, <1>4, <1>5
  <2>2. w[1] = v[1] + 1
    BY <1>1, <1>2, <1>3, <2>1
  <2>3. \A i \in 1 .. m - 1 : w[i] = w[1] + (i - 1)
    BY SMTT(20), <1>1, <1>2, <1>3, <2>2
  <2> QED BY <1>2, <1>5, <2>2, <2>3 DEF Run
<1> QED BY <1>2, <1>4, <1>5 DEF m, w

-------------------------------------------------------------------------------
(* Rings *)

\* A push makes the chain longer.
LEMMA Pushed ==
  ASSUME NEW ring \in Seq(Seq(Nat)), NEW a, NEW v \in Seq(Nat), NEW skip, Chained(ring, a, v[1], skip)
  PROVE  Chained(Append(ring, v), a, Behind(v, skip), skip)
<1> DEFINE n == Len(ring)
           more == Append(ring, v)
           B(x) == Behind(x, skip)
<1>1. n \in Nat /\ more \in Seq(Seq(Nat)) /\ Len(more) = n + 1
  OBVIOUS
<1>2. more[n + 1] = v /\ \A i \in 1 .. n : more[i] = ring[i]
  OBVIOUS
<1>3. n = 0 => a = v[1]
  BY DEF Chained
<1>4. n # 0 => ring[1][1] = a /\ B(ring[n]) = v[1] /\ \A i \in 1 .. n - 1 : ring[i + 1][1] = B(ring[i])
  BY DEF Chained
<1> HIDE DEF n, more, B
<1>5. more[1][1] = a /\ B(more[n + 1]) = B(v)
  BY <1>1, <1>2, <1>3, <1>4
<1>6. \A i \in 1 .. n : more[i + 1][1] = B(more[i])
  <2> TAKE i \in 1 .. n
  <2>1. CASE i = n
    BY <1>1, <1>2, <1>4, <2>1
  <2>2. CASE i < n
    <3>1. i \in 1 .. n - 1 /\ i + 1 \in 1 .. n
      BY <1>1, <2>2
    <3>2. more[i + 1] = ring[i + 1] /\ more[i] = ring[i]
      BY <1>2, <3>1
    <3>3. ring[i + 1][1] = B(ring[i])
      BY <1>1, <1>4, <2>2, <3>1
    <3> QED BY <3>2, <3>3
  <2> QED BY <1>1, <2>1, <2>2
<1>7. (n + 1) - 1 = n /\ n + 1 # 0
  BY <1>1
<1> QED BY <1>1, <1>5, <1>6, <1>7 DEF Chained, B, more

\* A pop takes the front of the chain.
LEMMA Popped ==
  ASSUME NEW ring \in Seq(Seq(Nat)), NEW a, NEW b, NEW skip, Chained(ring, a, b, skip), ring # <<>>
  PROVE  Head(ring)[1] = a /\ Chained(Tail(ring), Behind(Head(ring), skip), b, skip)
<1> DEFINE n == Len(ring)
           rest == Tail(ring)
           B(x) == Behind(x, skip)
<1>1. n \in Nat \ {0} /\ rest \in Seq(Seq(Nat)) /\ Len(rest) = n - 1
  OBVIOUS
<1>2. Head(ring) = ring[1] /\ \A i \in 1 .. n - 1 : rest[i] = ring[i + 1]
  OBVIOUS
<1>3. ring[1][1] = a /\ B(ring[n]) = b /\ \A i \in 1 .. n - 1 : ring[i + 1][1] = B(ring[i])
  BY <1>1 DEF Chained
<1> HIDE DEF n, rest, B
<1>4. CASE n = 1
  BY <1>1, <1>2, <1>3, <1>4 DEF Chained, B, rest
<1>5. CASE n # 1
  <2>0. 1 \in 1 .. n - 1 /\ n - 1 \in 1 .. n - 1 /\ (n - 1) + 1 = n
    BY <1>1, <1>5
  <2>1. rest[1][1] = B(ring[1]) /\ B(rest[n - 1]) = b
    <3>1. rest[1] = ring[1 + 1] /\ rest[n - 1] = ring[n]
      BY <1>2, <2>0
    <3>2. ring[1 + 1][1] = B(ring[1])
      BY <1>3, <2>0
    <3> QED BY <1>3, <3>1, <3>2
  <2>2. \A i \in 1 .. (n - 1) - 1 : rest[i + 1][1] = B(rest[i])
    <3> TAKE i \in 1 .. (n - 1) - 1
    <3>1. i \in 1 .. n - 1 /\ i + 1 \in 1 .. n - 1
      BY <1>1
    <3>2. rest[i] = ring[i + 1] /\ rest[i + 1] = ring[(i + 1) + 1]
      BY <1>2, <3>1
    <3>3. ring[(i + 1) + 1][1] = B(ring[i + 1])
      BY <1>3, <3>1
    <3> QED BY <3>2, <3>3
  <2>3. Len(rest) # 0 /\ Len(rest) = n - 1
    BY <1>1, <1>5
  <2>4. B(ring[1]) = B(Head(ring)) /\ Head(ring)[1] = a
    BY <1>2, <1>3
  <2>5. Chained(rest, B(Head(ring)), b, skip)
    BY <2>1, <2>2, <2>3, <2>4 DEF Chained, B
  <2> QED BY <2>4, <2>5 DEF B, rest
<1> QED BY <1>4, <1>5

\* An empty chain ends where it begins.
LEMMA Emptied == ASSUME NEW a, NEW b, NEW skip PROVE Chained(<<>>, a, b, skip) <=> a = b
BY DEF Chained

-------------------------------------------------------------------------------
(* What a place of the file becomes *)

\* What the first units and the whole file become; a size that the NCA header states is positive.
LEMMA Sizes ==
  /\ NczSize \in Nat \ {0} /\ HeaderSize \in Nat \ {0}
  /\ UnitsFrom(0) = 0 /\ UnitsFrom(1) = 1 /\ UnitsFrom(2) = IF ncz THEN 1 ELSE 2
  /\ UnitsFrom(NcaSize) = HeaderSize
  /\ \A f \in Nat : UnitsFrom(f) \in Nat
<1>1. \A n \in Nat : Ratio * n \in Nat
  OBVIOUS
<1>2. \A f \in Nat : f > 1 => Ratio * (f - 2) \in Nat
  BY <1>1
<1>3. NczSize \in Nat \ {0}
  BY <1>2 DEF NczSize
<1>4. UnitsFrom(NcaSize) = HeaderSize
  BY DEF UnitsFrom, HeaderSize, NczSize
<1>5. UnitsFrom(2) = IF ncz THEN 1 ELSE 2
  BY DEF UnitsFrom
<1> QED BY <1>2, <1>3, <1>4, <1>5 DEF UnitsFrom, HeaderSize

\* More of the file becomes more of the NCA.
LEMMA UnitsGrow ==
  ASSUME NEW f \in Nat, NEW g \in Nat, f <= g
  PROVE  UnitsFrom(f) <= UnitsFrom(g)
<1>1. ASSUME f > 1 PROVE Ratio * (f - 2) <= Ratio * (g - 2)
  <2>1. PICK d \in Nat : g - 2 = (f - 2) + d
    BY <1>1
  <2>2. Ratio * ((f - 2) + d) = Ratio * (f - 2) + Ratio * d
    BY <1>1
  <2>3. Ratio * d \in Nat /\ Ratio * (f - 2) \in Nat
    BY <1>1
  <2> QED BY <2>1, <2>2, <2>3
<1>2. g > 1 => Ratio * (g - 2) \in Nat
  OBVIOUS
<1> QED BY <1>1, <1>2 DEF UnitsFrom

\* One compressed unit becomes the Ratio units behind what lies before it.
LEMMA UnitsNext ==
  ASSUME NEW f \in Nat, f > 1, ncz
  PROVE  /\ UnitsFrom(f + 1) = UnitsFrom(f) + Ratio
         /\ Run(Inflated(f)) /\ Inflated(f)[1] = UnitsFrom(f) /\ Len(Inflated(f)) = Ratio
<1>1. Ratio * ((f + 1) - 2) = Ratio * (f - 2) + Ratio
  OBVIOUS
<1>2. UnitsFrom(f + 1) = UnitsFrom(f) + Ratio
  BY <1>1 DEF UnitsFrom
<1> DEFINE base == Ratio * (f - 2)
<1>3. base \in Nat
  OBVIOUS
<1>4. Inflated(f) = [k \in 1 .. Ratio |-> base + k]
  BY DEF Inflated
<1>5. UnitsFrom(f) = 1 + base
  BY DEF UnitsFrom
<1> HIDE DEF base
<1>6. Inflated(f) \in Seq(Nat) /\ Len(Inflated(f)) = Ratio
  BY <1>3, <1>4
<1>7. \A k \in 1 .. Ratio : Inflated(f)[k] = base + k
  BY <1>4
<1>8. Inflated(f)[1] = base + 1
  BY <1>7
<1>9. \A k \in 1 .. Ratio : Inflated(f)[k] = Inflated(f)[1] + (k - 1)
  BY <1>3, <1>7, <1>8
<1> QED BY <1>2, <1>3, <1>5, <1>6, <1>8, <1>9 DEF Run


-------------------------------------------------------------------------------
(* What a step keeps *)

USE DEF environment, readerVars, decompVars, writerVars, outcome, readerKeeps, decompKeeps,
        writerKeeps, mainKeeps

\* The sizes are those of the file.
LEMMA SameSizes ==
  ASSUME UNCHANGED ncz
  PROVE  /\ HeaderSize' = HeaderSize /\ Content' = Content
         /\ \A f : UnitsFrom(f)' = UnitsFrom(f)
BY DEF HeaderSize, NczSize, Content, UnitsFrom

\* Nobody gets well again.
LEMMA Sickens ==
  ASSUME cancelled => cancelled',
         read_result' = read_result \/ read_result = "ok",
         decompress_result' = decompress_result \/ decompress_result = "ok",
         write_result' = write_result \/ write_result = "ok"
  PROVE  Healthy' => Healthy
BY DEF Healthy

\* The reader's side of the file depends on these variables only.
LEMMA FeedKept ==
  ASSUME Feed, UNCHANGED <<ncz, source_end, reader_buf, read_offset, decomp_buf, decompress_offset, read_buffers>>,
         reader' \in Holding => reader \in Holding,
         Healthy' /\ decompress_running' =>
           Healthy /\ decompress_running /\ (reader \in Holding => reader' \in Holding)
  PROVE  Feed'
<1>1. \A v : Vector(v)' <=> Vector(v)
  BY DEF Vector, Run, Behind, Skips
<1>2. Read'
  BY <1>1 DEF Feed, Read, Behind, Skips
<1>3. PICK f \in Nat : Fed(f)
  BY DEF Feed
<1>4. UnitsFrom(f)' = UnitsFrom(f)
  BY SameSizes
<1>5. Healthy' /\ decompress_running' => Unread' = Unread
  BY DEF Unread
<1>6. \A a, b : Chained(read_buffers, a, b, Skips)' <=> Chained(read_buffers, a, b, Skips)
  BY DEF Chained, Behind, Skips
<1>7. Fed(f)'
  BY <1>1, <1>3, <1>4, <1>5, <1>6 DEF Fed, Behind, Skips
<1> QED BY <1>2, <1>3, <1>7 DEF Feed

\* What the decompressor holds depends on these variables, and its place.
LEMMA InflatingKept ==
  ASSUME Inflating,
         UNCHANGED <<ncz, decomp_buf, inflate_buf, outgoing, decompress_offset, write_size, hashed, flushing, nca_hash>>,
         decompressor \in Gone => decompressor' \in Gone,
         \/ decompressor' \in Gone
         \/ /\ \A p \in {"header", "pass", "inflate"} : decompressor' = p <=> decompressor = p
            /\ decompressor' \in Sending <=> decompressor \in Sending
  PROVE  Inflating'
<1>1. HeaderSize' = HeaderSize
  BY SameSizes
<1> QED BY <1>1 DEF Inflating, Run, Gone, Sending

\* The writer's side depends on these.
LEMMA DrainKept ==
  ASSUME Drain, UNCHANGED <<outgoing, hashed, placeholder, writer_buf, write_buffers>>,
         writer' = "write" => writer = "write",
         writer \in {"write"} \cup Gone => writer' \in {"write"} \cup Gone,
         Healthy' => Healthy,
         Healthy' /\ write_running' => write_running /\ (decompressor' \in Sending <=> decompressor \in Sending)
  PROVE  Drain'
<1>1. \A v : Piece(v)' <=> Piece(v)
  BY DEF Piece, Run
<1>2. Healthy' /\ write_running' => Unsent' = Unsent
  BY DEF Unsent
<1>3. write_offset' = write_offset
  BY DEF write_offset
<1>4. \A a, b : Chained(write_buffers, a, b, FALSE)' <=> Chained(write_buffers, a, b, FALSE)
  BY DEF Chained, Behind
<1> QED BY <1>1, <1>2, <1>3, <1>4 DEF Drain, Ahead

\* As long as a thread runs nothing has been a success.
LEMMA Unfinished ==
  ASSUME IInv, IsAnyRunning, returned' = returned
  PROVE  Success'
BY DEF IInv, Success

-------------------------------------------------------------------------------
(* Steps of the reader *)

\* The loop of readFuncInternal: with everything read, or after a failure, the reader returns.
LEMMA KeepsReaderLoop == ASSUME IInv, ReaderLoop PROVE IInv'
<1> USE DEF ReaderLoop, ReaderReturns
<1>0. /\ TypeOK /\ Shapes /\ Told /\ Waited /\ Feed /\ Inflating /\ Drain /\ Through
      /\ reader = "loop" /\ reader' \in {"read", "exit"}
      /\ HeaderSize' = HeaderSize /\ Content' = Content /\ \A f : UnitsFrom(f)' = UnitsFrom(f)
      /\ Healthy' <=> Healthy
  BY SameSizes DEF IInv, Healthy
<1>1. TypeOK' /\ Shapes'
  BY <1>0 DEF TypeOK, Shapes, Labels, Results, write_offset
<1>2. Told'
  BY <1>0 DEF Told, Gone
<1>3. Waited'
  BY <1>0 DEF Waited, IsAnyRunning
<1>4. Feed'
  BY <1>0, FeedKept DEF Holding
<1>5. Inflating'
  BY <1>0, InflatingKept
<1>6. Drain'
  BY <1>0, DrainKept
<1>7. Through'
  BY <1>0 DEF Through, Gone, Feed, Read, write_offset, TypeOK
<1>8. Success'
  BY <1>0, Unfinished DEF Told, IsAnyRunning
<1> QED BY <1>1, <1>2, <1>3, <1>4, <1>5, <1>6, <1>7, <1>8 DEF IInv

\* A read that returned n units holds the next vector of the file.
LEMMA Reads ==
  ASSUME IInv, NEW n \in ReadLengths \ {0}, reader = "read", reader' = "test",
         reader_buf' = [i \in 1 .. n |-> read_offset + (i - 1)], read_offset' = AfterRead(n),
         UNCHANGED <<readerKeeps, decompressor, reader_rc, read_result, read_running, read_buffers, uevent_done>>
  PROVE  IInv'
<1>0. /\ TypeOK /\ Shapes /\ Told /\ Waited /\ Feed /\ Inflating /\ Drain /\ Through /\ Read
      /\ HeaderSize' = HeaderSize /\ Content' = Content /\ \A f : UnitsFrom(f)' = UnitsFrom(f)
      /\ Healthy' <=> Healthy
      /\ Skips' = Skips /\ read_running
  BY SameSizes DEF IInv, Healthy, Feed, Skips, Told
<1>1. /\ read_offset \in Nat /\ source_end \in 0 .. NcaSize /\ n \in 1 .. BufSize
      /\ read_offset + n <= source_end /\ (read_offset = 0 => n = 1)
  BY <1>0 DEF ReadLengths, TypeOK
<1>2. /\ read_offset < read_offset' /\ read_offset' <= source_end
      /\ read_offset' = IF Skips /\ read_offset = 0 THEN 2 ELSE read_offset + n
  BY <1>1 DEF AfterRead, Skips
<1> DEFINE v == reader_buf'
<1>3. v \in Seq(Nat) /\ Len(v) = n /\ v[1] = read_offset /\ \A i \in 1 .. n : v[i] = read_offset + (i - 1)
  BY <1>1
<1>4. Run(v)
  BY <1>1, <1>3 DEF Run
<1>5. Behind(v, Skips) = read_offset'
  BY <1>2, <1>3 DEF Behind
<1>6. ncz => (v[1] = 0 /\ Len(v) = 1) \/ v[1] > 1
  BY <1>0, <1>1, <1>3 DEF Read, Skips
<1>7. Vector(reader_buf)'
  BY <1>0, <1>1, <1>3, <1>4, <1>5, <1>6 DEF Vector, Run, Behind
<1>8. \A w : Vector(w) => Vector(w)'
  <2> SUFFICES ASSUME NEW w, Vector(w) PROVE Vector(w)'
    OBVIOUS
  <2>1. Behind(w, Skips) <= read_offset /\ Run(w)
    BY DEF Vector
  <2>2. Behind(w, Skips) \in Nat
    BY <2>1, RunBegins DEF Behind
  <2>3. Behind(w, Skips)' = Behind(w, Skips)
    BY <1>0 DEF Behind
  <2> QED BY <1>0, <1>1, <1>2, <2>1, <2>2, <2>3 DEF Vector, Run
<1> HIDE DEF v
<1>9. Feed'
  <2>1. Behind(reader_buf, Skips)' = read_offset'
    BY <1>0, <1>5 DEF v, Behind
  <2>2. Read'
    BY <1>0, <1>1, <1>2, <1>7, <1>8, <2>1 DEF Read
  <2>3. PICK f \in Nat : Fed(f)
    BY <1>0 DEF Feed
  <2>4. Unread' = Unread
    BY <1>3 DEF Unread, Holding, v
  <2>5. \A a, b : Chained(read_buffers, a, b, Skips)' <=> Chained(read_buffers, a, b, Skips)
    BY <1>0 DEF Chained, Behind
  <2>6. f <= read_offset'
    BY <1>1, <1>2, <2>3 DEF Fed
  <2>7. Behind(decomp_buf, Skips)' = Behind(decomp_buf, Skips)
    BY <1>0 DEF Behind
  <2>8. Fed(f)'
    BY <1>0, <1>8, <2>3, <2>4, <2>5, <2>6, <2>7 DEF Fed
  <2> QED BY <2>2, <2>8 DEF Feed
<1>10. TypeOK' /\ Shapes'
  <2>1. Len(reader_buf') <= BufSize /\ reader_buf' \in Seq(Nat)
    BY <1>1, <1>3 DEF v
  <2>2. read_offset' \in 0 .. NcaSize
    BY <1>1, <1>2
  <2>3. TypeOK'
    BY <1>0, <2>1, <2>2 DEF TypeOK, Labels, write_offset
  <2> QED BY <1>0, <2>1, <2>3 DEF Shapes
<1>11. Told'
  BY <1>0 DEF Told, Gone
<1>12. Waited'
  BY <1>0 DEF Waited, IsAnyRunning
<1>13. Inflating'
  BY <1>0, InflatingKept
<1>14. Drain'
  BY <1>0, DrainKept
<1>15. Through'
  BY <1>0 DEF Through, Gone, write_offset
<1>16. Success'
  BY <1>0, Unfinished DEF Told, IsAnyRunning
<1> QED BY <1>9, <1>10, <1>11, <1>12, <1>13, <1>14, <1>15, <1>16 DEF IInv

\* A read that returned nothing has met the end of the source.
LEMMA KeepsReaderRead == ASSUME IInv, ReaderRead PROVE IInv'
<1>1. ASSUME NEW n \in ReadLengths \ {0}, reader' = "test",
             reader_buf' = [i \in 1 .. n |-> read_offset + (i - 1)], read_offset' = AfterRead(n),
             UNCHANGED reader_rc
      PROVE  IInv'
  BY <1>1, Reads DEF ReaderRead
<1>2. ASSUME 0 \in ReadLengths \/ reader_rc' = "fail", reader_rc' \in {"ok", "fail"}, reader' = "exit",
             UNCHANGED <<reader_buf, read_offset>>
      PROVE  IInv'
  <2> USE <1>2 DEF ReaderRead
  <2>0. /\ TypeOK /\ Shapes /\ Told /\ Waited /\ Feed /\ Inflating /\ Drain /\ Through /\ Read
        /\ reader = "read"
        /\ HeaderSize' = HeaderSize /\ Content' = Content /\ \A f : UnitsFrom(f)' = UnitsFrom(f)
        /\ Healthy' <=> Healthy
    BY SameSizes DEF IInv, Healthy, Feed
  <2>1. TypeOK' /\ Shapes'
    BY <2>0 DEF TypeOK, Shapes, Labels, Results, write_offset
  <2>2. Told'
    BY <2>0 DEF Told, Gone
  <2>3. Waited'
    BY <2>0 DEF Waited, IsAnyRunning
  <2>4. Feed'
    BY <2>0, FeedKept DEF Holding
  <2>5. Inflating'
    BY <2>0, InflatingKept
  <2>6. Drain'
    BY <2>0, DrainKept
  <2>7. reader_rc' = "ok" => read_offset = source_end
    BY <2>0 DEF ReadLengths, Read, TypeOK
  <2>8. Through'
    BY <2>0, <2>7 DEF Through, Gone, write_offset
  <2>9. Success'
    BY <2>0, Unfinished DEF Told, IsAnyRunning
  <2> QED BY <2>1, <2>2, <2>3, <2>4, <2>5, <2>6, <2>8, <2>9 DEF IInv
<1> QED BY <1>1, <1>2 DEF ReaderRead, ReaderReturns

\* A vector that is pushed lengthens the chain.
LEMMA ReaderPushes ==
  ASSUME IInv, reader = "test", Healthy, Len(read_buffers) < Slots,
         read_buffers' = Append(read_buffers, reader_buf),
         decompressor' = IF decompressor = "wait" THEN "test" ELSE decompressor, reader' = "loop",
         UNCHANGED <<readerKeeps, readerVars, uevent_done>>
  PROVE  IInv'
<1>0. /\ TypeOK /\ Shapes /\ Told /\ Waited /\ Feed /\ Inflating /\ Drain /\ Through /\ Read
      /\ HeaderSize' = HeaderSize /\ Content' = Content /\ \A f : UnitsFrom(f)' = UnitsFrom(f)
      /\ (Healthy' <=> Healthy) /\ Skips' = Skips
  BY SameSizes DEF IInv, Healthy, Feed, Skips
<1>1. TypeOK' /\ Shapes'
  <2>1. read_buffers' \in Seq(Seq(Nat)) /\ Len(read_buffers') <= Slots
    BY <1>0 DEF Shapes
  <2> QED BY <1>0, <2>1 DEF TypeOK, Shapes, Labels, write_offset
<1>2. Told'
  BY <1>0 DEF Told, Gone
<1>3. Waited'
  BY <1>0 DEF Waited, IsAnyRunning, Told
<1>4. Feed'
  <2>1. \A w : Vector(w)' <=> Vector(w)
    BY <1>0 DEF Vector, Run, Behind
  <2>2. Vector(reader_buf) /\ Behind(reader_buf, Skips) = read_offset
    BY <1>0 DEF Read, Holding
  <2>3. \A i \in 1 .. Len(read_buffers') : Vector(read_buffers'[i])
    <3> DEFINE n == Len(read_buffers)
    <3>1. n \in Nat /\ Len(read_buffers') = n + 1 /\ read_buffers'[n + 1] = reader_buf
          /\ \A i \in 1 .. n : read_buffers'[i] = read_buffers[i]
      BY <1>0 DEF Shapes
    <3>2. \A i \in 1 .. n : Vector(read_buffers[i])
      BY <1>0 DEF Read
    <3> HIDE DEF n
    <3> QED BY <2>2, <3>1, <3>2
  <2>4. Read'
    BY <1>0, <2>1, <2>3 DEF Read, Holding
  <2>5. PICK f \in Nat : Fed(f)
    BY <1>0 DEF Feed
  <2>6. \A a : Chained(read_buffers, a, Unread, Skips) => Chained(read_buffers', a, read_offset, Skips)
    BY <1>0, <2>2, Pushed DEF Unread, Holding, Shapes
  <2>7. Unread' = read_offset
    BY DEF Unread, Holding
  <2>8. \A a, b : Chained(read_buffers, a, b, Skips)' <=> Chained(read_buffers', a', b', Skips)
    BY <1>0 DEF Chained, Behind
  <2>9. Behind(decomp_buf, Skips)' = Behind(decomp_buf, Skips)
    BY <1>0 DEF Behind
  <2>10. Fed(f)'
    BY <1>0, <2>1, <2>5, <2>6, <2>7, <2>8, <2>9 DEF Fed
  <2> QED BY <2>4, <2>10 DEF Feed
<1>5. Inflating'
  BY <1>0, InflatingKept DEF Gone, Sending
<1>6. Drain'
  BY <1>0, DrainKept DEF Sending
<1>7. Through'
  BY <1>0 DEF Through, Gone, write_offset
<1>8. Success'
  BY <1>0, Unfinished DEF Told, IsAnyRunning
<1> QED BY <1>1, <1>2, <1>3, <1>4, <1>5, <1>6, <1>7, <1>8 DEF IInv

\* A vector is dropped only when nobody takes it any more.
LEMMA KeepsReaderTest == ASSUME IInv, ReaderTest PROVE IInv'
<1>1. CASE Healthy /\ Len(read_buffers) < Slots
  BY <1>1, ReaderPushes DEF ReaderTest
<1>2. ASSUME reader' \in {"park", "loop", "exit"}, reader' = "loop" => ~decompress_running,
             reader' = "exit" <=> ~Healthy,
             IF Healthy THEN reader_rc' = reader_rc ELSE reader_rc' = "fail",
             UNCHANGED <<read_buffers, decompressor>>
      PROVE  IInv'
  <2> USE <1>2 DEF ReaderTest
  <2>0. /\ TypeOK /\ Shapes /\ Told /\ Waited /\ Feed /\ Inflating /\ Drain /\ Through /\ Read
        /\ reader = "test"
        /\ HeaderSize' = HeaderSize /\ Content' = Content /\ \A f : UnitsFrom(f)' = UnitsFrom(f)
        /\ Healthy' <=> Healthy
    BY SameSizes DEF IInv, Healthy, Feed
  <2>1. TypeOK' /\ Shapes'
    BY <2>0 DEF TypeOK, Shapes, Labels, Results, write_offset
  <2>2. Told'
    BY <2>0 DEF Told, Gone
  <2>3. Waited'
    BY <2>0 DEF Waited, IsAnyRunning
  <2>4. Feed'
    BY <2>0, FeedKept DEF Holding
  <2>5. Inflating'
    BY <2>0, InflatingKept
  <2>6. Drain'
    BY <2>0, DrainKept
  <2>7. Through'
    BY <2>0 DEF Through, Gone, write_offset
  <2>8. Success'
    BY <2>0, Unfinished DEF Told, IsAnyRunning
  <2> QED BY <2>1, <2>2, <2>3, <2>4, <2>5, <2>6, <2>7, <2>8 DEF IInv
<1>3. Len(read_buffers) = Slots \/ Len(read_buffers) < Slots
  BY DEF IInv, TypeOK, Shapes
<1>4. CASE ~Healthy
  BY <1>2, <1>4 DEF ReaderTest, ReaderReturns
<1>5. CASE Healthy /\ Len(read_buffers) = Slots
  BY <1>2, <1>5 DEF ReaderTest
<1> QED BY <1>1, <1>3, <1>4, <1>5

\* The reader waits, or clears its running flag.
LEMMA KeepsReaderEnd == ASSUME IInv, ReaderPark \/ ReaderExit PROVE IInv'
<1> USE DEF ReaderPark, ReaderExit
<1>0. /\ TypeOK /\ Shapes /\ Told /\ Waited /\ Feed /\ Inflating /\ Drain /\ Through
      /\ HeaderSize' = HeaderSize /\ Content' = Content /\ \A f : UnitsFrom(f)' = UnitsFrom(f)
      /\ Healthy' <=> Healthy
  BY SameSizes DEF IInv, Healthy
<1>1. TypeOK' /\ Shapes'
  BY ZenonT(40), <1>0 DEF TypeOK, Shapes, Labels, write_offset
<1>2. Told'
  BY <1>0 DEF Told, Gone
<1>3. Waited'
  BY <1>0 DEF Waited, IsAnyRunning, Told
<1>4. Feed'
  BY <1>0, FeedKept DEF Holding
<1>5. Inflating'
  BY <1>0, InflatingKept
<1>6. Drain'
  BY <1>0, DrainKept
<1>7. Through'
  BY <1>0 DEF Through, Gone, write_offset, Told
<1>8. Success'
  BY <1>0, Unfinished DEF Told, IsAnyRunning
<1> QED BY <1>1, <1>2, <1>3, <1>4, <1>5, <1>6, <1>7, <1>8 DEF IInv

\* A wake moves nobody into or out of the places that matter.
Awake(old, new) ==
  /\ old = "wait" => new = "test"
  /\ old = "putwait" => new = "put"
  /\ old \notin {"wait", "putwait"} => new = old

\* A thread that stores its result is dead, and the others look again.
LEMMA Ends ==
  ASSUME IInv, Healthy' => Healthy, Told', Waited',
         {read_result', decompress_result', write_result'} \subseteq Results, uevent_done' \in BOOLEAN,
         Awake(reader, reader') \/ (reader = "result" /\ reader' = "dead"),
         Awake(decompressor, decompressor') \/ (decompressor = "result" /\ decompressor' = "dead"),
         Awake(writer, writer') \/ (writer = "result" /\ writer' = "dead"),
         UNCHANGED <<environment, main, outcome, reader_buf, reader_rc, read_offset, read_running, decomp_buf,
                     inflate_buf, outgoing, flushing, decomp_rc, decompress_offset, write_size,
                     decompress_running, hashed, nca_hash, writer_buf, writer_rc, write_running, placeholder,
                     read_buffers, write_buffers>>
  PROVE  IInv'
<1>0. /\ TypeOK /\ Shapes /\ Told /\ Waited /\ Feed /\ Inflating /\ Drain /\ Through /\ Success
      /\ HeaderSize' = HeaderSize /\ Content' = Content /\ \A f : UnitsFrom(f)' = UnitsFrom(f)
  BY SameSizes DEF IInv
<1>1. TypeOK' /\ Shapes'
  BY <1>0 DEF TypeOK, Shapes, Labels, write_offset, Awake
<1>2. reader' \in Holding <=> reader \in Holding
  BY DEF Holding, Awake
<1>3. /\ decompressor' \in Sending <=> decompressor \in Sending
      /\ decompressor \in Gone <=> decompressor' \in Gone
      /\ \A p \in {"header", "pass", "inflate"} : decompressor' = p <=> decompressor = p
  BY DEF Sending, Gone, Awake
<1>4. Feed'
  BY <1>0, <1>2, FeedKept
<1>5. Inflating'
  BY <1>0, <1>3, InflatingKept
<1>6. writer' = "write" <=> writer = "write"
  BY DEF Awake
<1>7. (writer \in Gone <=> writer' \in Gone) /\ (reader \in Gone <=> reader' \in Gone)
  BY DEF Awake, Gone
<1>8. Drain'
  BY <1>0, <1>3, <1>6, <1>7, DrainKept
<1>9. Through'
  BY <1>0, <1>3, <1>7 DEF Through, write_offset
<1>10. Held' = Held
  BY <1>0 DEF Held
<1>11. Success'
  BY <1>0, <1>10 DEF Success, IsAnyRunning, write_offset
<1> QED BY <1>0, <1>1, <1>4, <1>5, <1>8, <1>9, <1>11 DEF IInv

\* What WakeAllThreads does to a thread is such a wake.
LEMMA Wakes == ASSUME NEW thread PROVE Awake(thread, Woken(thread))
BY DEF Awake, Woken

\* SetReadResult.
LEMMA KeepsReaderResult == ASSUME IInv, ReaderResult PROVE IInv'
<1> USE DEF ReaderResult, WakeAllThreads
<1>0. TypeOK /\ Told /\ Waited
  BY DEF IInv
<1>1. reader' = "dead" /\ Awake(decompressor, decompressor') /\ Awake(writer, writer')
  BY Wakes
<1>2. Healthy' => Healthy
  BY <1>0, Sickens DEF Told
<1>3. Told'
  BY <1>0, <1>1 DEF Told, Gone, Awake
<1>4. Waited'
  BY <1>0, <1>1, <1>2 DEF Waited, IsAnyRunning, Told, Awake, Healthy
<1>5. read_result' \in Results /\ uevent_done' \in BOOLEAN
  BY <1>0 DEF TypeOK
<1> QED BY <1>0, <1>1, <1>2, <1>3, <1>4, <1>5, Ends DEF TypeOK

\* All steps of the reader keep the invariant.
LEMMA KeepsReader == ASSUME IInv, Reader PROVE IInv'
BY KeepsReaderLoop, KeepsReaderRead, KeepsReaderTest, KeepsReaderEnd, KeepsReaderResult DEF Reader

-------------------------------------------------------------------------------
(* Steps of the decompressor *)

\* The decompressor waits, or clears its running flag.
LEMMA KeepsDecompEnd == ASSUME IInv, DecompPark \/ DecompExit PROVE IInv'
<1> USE DEF DecompPark, DecompExit
<1>0. /\ TypeOK /\ Shapes /\ Told /\ Waited /\ Feed /\ Inflating /\ Drain /\ Through
      /\ HeaderSize' = HeaderSize /\ Content' = Content /\ \A f : UnitsFrom(f)' = UnitsFrom(f)
      /\ Healthy' <=> Healthy
  BY SameSizes DEF IInv, Healthy
<1>1. TypeOK' /\ Shapes'
  BY ZenonT(40), <1>0 DEF TypeOK, Shapes, Labels, write_offset
<1>2. Told'
  BY <1>0 DEF Told, Gone
<1>3. Waited'
  BY <1>0 DEF Waited, IsAnyRunning, Told
<1>4. Feed'
  BY <1>0, FeedKept DEF Holding
<1>5. Inflating'
  BY <1>0, InflatingKept DEF Gone, Sending
<1>6. Drain'
  BY <1>0, DrainKept DEF Sending
<1>7. Through'
  BY <1>0 DEF Through, Gone, write_offset, Told
<1>8. Success'
  BY <1>0, Unfinished DEF Told, IsAnyRunning
<1> QED BY <1>1, <1>2, <1>3, <1>4, <1>5, <1>6, <1>7, <1>8 DEF IInv

\* SetDecompressResult.
LEMMA KeepsDecompResult == ASSUME IInv, DecompResult PROVE IInv'
<1> USE DEF DecompResult, WakeAllThreads
<1>0. TypeOK /\ Told /\ Waited
  BY DEF IInv
<1>1. decompressor' = "dead" /\ Awake(reader, reader') /\ Awake(writer, writer')
  BY Wakes
<1>2. Healthy' => Healthy
  BY <1>0, Sickens DEF Told
<1>3. Told'
  BY <1>0, <1>1 DEF Told, Gone, Awake
<1>4. Waited'
  BY <1>0, <1>1, <1>2 DEF Waited, IsAnyRunning, Told, Awake, Healthy
<1>5. decompress_result' \in Results /\ uevent_done' \in BOOLEAN
  BY <1>0 DEF TypeOK
<1> QED BY <1>0, <1>1, <1>2, <1>3, <1>4, <1>5, Ends DEF TypeOK

\* What is hashed together is what gathers next in the hash.
LEMMA HashGrows ==
  ASSUME IInv, NEW v, Run(v), v[1] = Len(hashed), hashed' = hashed \o v
  PROVE  /\ Ahead(hashed') /\ hashed' \in Seq(Nat) /\ Len(hashed') = Len(hashed) + Len(v)
         /\ Len(hashed) < Len(hashed') /\ write_offset <= Len(hashed')
         /\ v[1] + Len(v) = Len(hashed')
         /\ \A w : Piece(w) => Piece(w)'
<1>0. Ahead(hashed) /\ write_offset <= Len(hashed) /\ write_offset \in Nat /\ Len(hashed) \in Nat
  BY DEF IInv, Drain, Shapes, write_offset
<1>1. Ahead(hashed') /\ hashed' \in Seq(Nat) /\ Len(hashed') = Len(hashed) + Len(v) /\ Len(v) \in Nat \ {0}
  BY ZenonT(40), <1>0, AheadGrows, RunBegins DEF Ahead
<1>2. \A w : Run(w) => w[1] \in Nat /\ Len(w) \in Nat
  BY RunBegins
<1> DEFINE h == Len(hashed)
           g == Len(hashed')
<1>3. h <= g /\ h \in Nat /\ g \in Nat /\ h < g
  BY <1>0, <1>1
<1>4. ASSUME NEW w, Piece(w) PROVE Piece(w)'
  <2>1. Run(w) /\ w[1] + Len(w) <= h
    BY <1>4 DEF Piece
  <2> HIDE DEF h, g
  <2>2. w[1] + Len(w) <= g
    BY <1>2, <1>3, <2>1
  <2> QED BY <2>1, <2>2 DEF Piece, Run, g
<1>5. write_offset <= g
  <2> HIDE DEF h, g
  <2> QED BY <1>0, <1>3 DEF h
<1> QED BY <1>0, <1>1, <1>3, <1>4, <1>5

\* The writer has what is hashed, also while more is.
LEMMA DrainGrows ==
  ASSUME IInv, NEW v, Run(v), v[1] = Len(hashed), hashed' = hashed \o v, outgoing'[1] = Len(hashed),
         decompressor \notin Sending, decompressor' \in Sending, Healthy' <=> Healthy,
         UNCHANGED <<placeholder, writer, write_running, writer_buf, write_buffers>>
  PROVE  Drain'
<1>0. Drain
  BY DEF IInv
<1>1. Ahead(hashed') /\ write_offset <= Len(hashed') /\ \A w : Piece(w) => Piece(w)'
  BY HashGrows
<1>2. Unsent' = Unsent
  BY DEF Unsent
<1>3. write_offset' = write_offset
  BY DEF write_offset
<1>4. \A a, b : Chained(write_buffers, a, b, FALSE)' <=> Chained(write_buffers, a, b, FALSE)
  BY DEF Chained, Behind
<1>5. write_offset' <= Len(hashed')
  BY <1>1, <1>3
<1>6. Ahead(hashed)' /\ Ahead(placeholder)'
  BY <1>0, <1>1 DEF Drain, Ahead
<1> QED BY <1>0, <1>1, <1>2, <1>3, <1>4, <1>5, <1>6 DEF Drain

\* More can be hashed only before everything was.
LEMMA NotAll ==
  ASSUME IInv, NEW n \in Nat, Len(hashed) < n, n <= HeaderSize, decompress_running,
         Healthy, writer \in Gone, writer_rc = "ok"
  PROVE  FALSE
<1>1. Len(hashed) = HeaderSize /\ HeaderSize \in Nat
  BY Sizes DEF IInv, Through
<1> QED BY <1>1

\* Behind its loop the decompressor flushes what is left, or is through.
LEMMA LeavesLoop ==
  ASSUME IInv, decompressor \in {"loop", "test"}, DecompLeavesLoop,
         Healthy => decompress_offset = HeaderSize \/ (~read_running /\ decompress_offset = UnitsFrom(read_offset)),
         UNCHANGED <<decompKeeps, reader, writer, decomp_buf, decompress_offset, write_size, decompress_result,
                     decompress_running, read_buffers, write_buffers, uevent_done>>
  PROVE  IInv'
<1>0. /\ TypeOK /\ Shapes /\ Told /\ Waited /\ Feed /\ Inflating /\ Drain /\ Through
      /\ HeaderSize' = HeaderSize /\ Content' = Content /\ \A f : UnitsFrom(f)' = UnitsFrom(f)
      /\ (Healthy' <=> Healthy) /\ decompress_running
  BY SameSizes DEF IInv, Healthy, Told
<1>1. decomp_buf = <<>> /\ nca_hash = <<>> /\ ~flushing
  BY <1>0 DEF Inflating, Gone, Sending
<1>2. Waited'
  BY <1>0 DEF Waited, IsAnyRunning, DecompLeavesLoop, DecompReturns
<1>3. Told'
  BY <1>0 DEF Told, Gone, DecompLeavesLoop, DecompReturns
<1>4. Feed'
  BY <1>0, FeedKept
<1>5. Success'
  BY <1>0, Unfinished DEF IsAnyRunning
<1>6. CASE inflate_buf # <<>>
  <2>0. /\ decompressor' = "put" /\ outgoing' = inflate_buf /\ inflate_buf' = <<>> /\ flushing' = TRUE
        /\ hashed' = hashed \o inflate_buf /\ UNCHANGED <<decomp_rc, nca_hash>>
    BY <1>6 DEF DecompLeavesLoop
  <2>1. /\ ncz /\ Run(inflate_buf) /\ inflate_buf[1] = Len(hashed)
        /\ Len(hashed) + Len(inflate_buf) = decompress_offset
    BY <1>0, <1>6 DEF Inflating
  <2>2. /\ Ahead(hashed') /\ hashed' \in Seq(Nat) /\ Len(hashed') = decompress_offset
        /\ Len(hashed) < decompress_offset /\ inflate_buf[1] + Len(inflate_buf) = Len(hashed')
    BY <2>0, <2>1, HashGrows
  <2>3. TypeOK' /\ Shapes'
    <3>1. Len(inflate_buf') < 2 * FlushSize /\ inflate_buf' \in Seq(Nat)
      BY <2>0
    <3>2. outgoing' \in Seq(Nat) /\ hashed' \in Seq(Nat)
      BY <1>0, <2>0, <2>2 DEF Shapes
    <3> QED BY <1>0, <2>0, <3>1, <3>2 DEF TypeOK, Shapes, Labels, write_offset
  <2>4. Inflating'
    <3>1. Len(hashed') + Len(inflate_buf') = decompress_offset' /\ Len(inflate_buf') < FlushSize
      BY SMTT(20), <1>0, <2>0, <2>2 DEF TypeOK
    <3>2. Run(outgoing)' /\ outgoing'[1] + Len(outgoing') = Len(hashed')
      BY <2>0, <2>1, <2>2 DEF Run
    <3> QED BY <1>0, <1>1, <2>0, <3>1, <3>2 DEF Inflating, Sending, Gone
  <2>5. Drain'
    BY <1>0, <2>0, <2>1, DrainGrows DEF Sending
  <2>6. Through'
    <3>1. Healthy => ~(writer \in Gone /\ writer_rc = "ok")
      BY <1>0, <2>2, NotAll DEF TypeOK
    <3> QED BY <1>0, <2>0, <3>1 DEF Through, Gone
  <2> QED BY <1>2, <1>3, <1>4, <1>5, <2>3, <2>4, <2>5, <2>6 DEF IInv
<1>7. CASE inflate_buf = <<>>
  <2>0. /\ decompressor' = "exit" /\ decomp_rc' = "ok" /\ nca_hash' = hashed
        /\ UNCHANGED <<outgoing, flushing, inflate_buf, hashed>>
    BY <1>7 DEF DecompLeavesLoop, DecompReturns
  <2>1. TypeOK' /\ Shapes'
    BY <1>0, <2>0 DEF TypeOK, Shapes, Labels, Results, write_offset
  <2>2. Inflating'
    BY <1>0, <1>1, <1>7, <2>0 DEF Inflating, Sending, Gone
  <2>3. Drain'
    BY <1>0, <2>0, DrainKept DEF Sending
  <2>4. Through'
    BY <1>0, <1>7, <2>0 DEF Through, Gone, write_offset
  <2> QED BY <1>2, <1>3, <1>4, <1>5, <2>1, <2>2, <2>3, <2>4 DEF IInv
<1> QED BY <1>6, <1>7

\* The loop of decompressFuncInternal: it goes on, or has reached the size or a failure.
LEMMA KeepsDecompLoop == ASSUME IInv, DecompLoop PROVE IInv'
<1>0. /\ TypeOK /\ Shapes /\ Told /\ Waited /\ Feed /\ Inflating /\ Drain /\ Through
      /\ HeaderSize' = HeaderSize /\ Content' = Content /\ \A f : UnitsFrom(f)' = UnitsFrom(f)
      /\ decompressor = "loop"
      /\ HeaderSize \in Nat \ {0}
  BY SameSizes, Sizes DEF IInv, DecompLoop
<1>1. CASE decompress_offset < write_size /\ Healthy
  <2> USE <1>1 DEF DecompLoop
  <2>0. Healthy' <=> Healthy
    BY DEF Healthy
  <2>1. TypeOK' /\ Shapes'
    BY <1>0 DEF TypeOK, Shapes, Labels, write_offset
  <2>2. Told'
    BY <1>0 DEF Told, Gone
  <2>3. Waited'
    BY <1>0, <2>0 DEF Waited, IsAnyRunning
  <2>4. Feed'
    BY <1>0, <2>0, FeedKept
  <2>5. Inflating'
    BY <1>0, InflatingKept DEF Gone, Sending
  <2>6. Drain'
    BY <1>0, <2>0, DrainKept DEF Sending
  <2>7. Through'
    BY <1>0, <2>0 DEF Through, Gone, write_offset
  <2>8. Success'
    BY <1>0, Unfinished DEF Told, IsAnyRunning
  <2> QED BY <2>1, <2>2, <2>3, <2>4, <2>5, <2>6, <2>7, <2>8 DEF IInv
<1>2. CASE ~(decompress_offset < write_size /\ Healthy)
  <2>1. Healthy => decompress_offset = HeaderSize
    BY <1>0, <1>2 DEF TypeOK, Inflating
  <2> QED BY <1>0, <1>2, <2>1, LeavesLoop DEF DecompLoop
<1> QED BY <1>1, <1>2

\* The decompressor takes a vector.
LEMMA Pops ==
  ASSUME IInv, decompressor = "test", Healthy, read_buffers # <<>>,
         decomp_buf' = Head(read_buffers), read_buffers' = Tail(read_buffers),
         reader' = IF reader = "wait" THEN "test" ELSE reader,
         decompressor' = IF Head(read_buffers)[1] = 0 THEN "header" ELSE IF ncz THEN "inflate" ELSE "pass",
         UNCHANGED <<outgoing, flushing, inflate_buf, hashed, decomp_rc, nca_hash>>,
         UNCHANGED <<decompKeeps, writer, decompress_offset, write_size, decompress_result,
                     decompress_running, write_buffers, uevent_done>>
  PROVE  IInv'
<1>0. /\ TypeOK /\ Shapes /\ Told /\ Waited /\ Feed /\ Inflating /\ Drain /\ Through /\ Read
      /\ HeaderSize' = HeaderSize /\ Content' = Content /\ \A f : UnitsFrom(f)' = UnitsFrom(f)
      /\ (Healthy' <=> Healthy) /\ decompress_running /\ Skips' = Skips
  BY SameSizes DEF IInv, Healthy, Told, Feed, Skips
<1>1. decomp_buf = <<>>
  BY <1>0 DEF Inflating, Gone, Sending
<1>2. PICK f \in Nat : Fed(f)
  BY <1>0 DEF Feed
<1>3. Chained(read_buffers, f, Unread, Skips)
  BY <1>0, <1>1, <1>2 DEF Fed
<1> DEFINE v == Head(read_buffers)
<1>4. v[1] = f /\ Chained(Tail(read_buffers), Behind(v, Skips), Unread, Skips)
  BY <1>0, <1>3, Popped DEF Shapes
<1>5. /\ Vector(v) /\ v \in Seq(Nat) /\ read_buffers' \in Seq(Seq(Nat)) /\ Len(read_buffers') <= Slots
      /\ \A i \in 1 .. Len(read_buffers') : Vector(read_buffers'[i])
  <2> DEFINE n == Len(read_buffers)
  <2>1. /\ n \in Nat \ {0} /\ v = read_buffers[1] /\ read_buffers' \in Seq(Seq(Nat)) /\ Len(read_buffers') = n - 1
        /\ \A i \in 1 .. n - 1 : read_buffers'[i] = read_buffers[i + 1]
        /\ v \in Seq(Nat)
    BY <1>0 DEF Shapes
  <2>2. \A i \in 1 .. n : Vector(read_buffers[i])
    BY <1>0 DEF Read
  <2>3. n <= Slots
    BY <1>0 DEF TypeOK
  <2> HIDE DEF n, v
  <2>4. \A i \in 1 .. n - 1 : i + 1 \in 1 .. n
    BY <2>1
  <2> QED BY <2>1, <2>2, <2>3, <2>4
<1> HIDE DEF v
<1>6. v # <<>> /\ Len(v) \in Nat \ {0} /\ v[1] \in Nat /\ Len(v) <= BufSize /\ (ncz => v[1] = 0 \/ v[1] > 1)
  BY <1>5, RunBegins DEF Vector, Run
<1>7. TypeOK' /\ Shapes'
  BY <1>0, <1>5, <1>6 DEF TypeOK, Shapes, Labels, write_offset, v
<1>8. Told'
  BY <1>0 DEF Told, Gone
<1>9. Waited'
  BY <1>0 DEF Waited, IsAnyRunning
<1>10. Feed'
  <2>1. \A w : Vector(w)' <=> Vector(w)
    BY <1>0 DEF Vector, Run, Behind
  <2>2. reader' \in Holding <=> reader \in Holding
    BY DEF Holding
  <2>3. Read'
    BY <1>0, <1>5, <2>1, <2>2 DEF Read, Behind
  <2>4. Unread' = Unread
    BY <2>2 DEF Unread
  <2>5. \A a, b : Chained(read_buffers, a, b, Skips)' <=> Chained(read_buffers', a', b', Skips)
    BY <1>0 DEF Chained, Behind
  <2>6. Behind(decomp_buf, Skips)' = Behind(v, Skips) /\ decomp_buf' = v
    BY <1>0 DEF Behind, v
  <2>7. Fed(f)'
    BY <1>0, <1>2, <1>4, <1>5, <1>6, <2>1, <2>4, <2>5, <2>6 DEF Fed
  <2> QED BY <2>3, <2>7 DEF Feed
<1>11. Inflating'
  <2>1. decomp_buf' = v /\ v # <<>> /\ (v[1] # 0 /\ ~ncz => decompress_offset > 0)
    <3>1. ~ncz => UnitsFrom(f) = f
      BY DEF UnitsFrom
    <3>2. UnitsFrom(f) = decompress_offset
      BY <1>2 DEF Fed
    <3> QED BY <1>4, <1>6, <3>1, <3>2 DEF v
  <2>2. ~flushing /\ nca_hash = <<>>
    BY <1>0 DEF Inflating, Gone, Sending
  <2> QED BY <1>0, <1>1, <2>1, <2>2 DEF Inflating, Gone, Sending, Run, v
<1>12. Drain'
  BY <1>0, DrainKept DEF Sending
<1>13. Through'
  BY <1>0 DEF Through, Gone, write_offset
<1>14. Success'
  BY <1>0, Unfinished DEF IsAnyRunning
<1> QED BY <1>7, <1>8, <1>9, <1>10, <1>11, <1>12, <1>13, <1>14 DEF IInv

\* GetDecompressBuf: a vector is taken, or the decompressor waits, is through or fails.
LEMMA KeepsDecompTest == ASSUME IInv, DecompTest PROVE IInv'
<1>0. /\ TypeOK /\ Shapes /\ Told /\ Waited /\ Feed /\ Inflating /\ Drain /\ Through
      /\ decompressor = "test"
  BY DEF IInv, DecompTest
<1>1. CASE Healthy /\ read_buffers # <<>>
  BY <1>0, <1>1, Pops DEF DecompTest
<1>2. CASE Healthy /\ read_buffers = <<>> /\ ~read_running
  <2>1. decompress_running /\ decomp_buf = <<>> /\ reader \notin Holding
    BY <1>0, <1>2 DEF Told, Inflating, Gone, Sending, Holding
  <2>2. PICK f \in Nat : Fed(f)
    BY <1>0 DEF Feed
  <2>3. Chained(read_buffers, f, read_offset, Skips)
    BY <1>2, <2>1, <2>2 DEF Fed, Unread
  <2>4. f = read_offset
    BY <1>2, <2>3, Emptied
  <2>5. decompress_offset = UnitsFrom(read_offset)
    BY <2>2, <2>4 DEF Fed
  <2> QED BY <1>0, <1>2, <2>5, LeavesLoop DEF DecompTest
<1>3. ASSUME \/ decompressor' = "park" /\ decomp_rc' = decomp_rc
             \/ decompressor' = "exit" /\ decomp_rc' = "fail",
             UNCHANGED <<reader, read_buffers, decomp_buf, outgoing, flushing, inflate_buf, hashed, nca_hash>>
      PROVE  IInv'
  <2> USE <1>3 DEF DecompTest
  <2>0. /\ Healthy' <=> Healthy
        /\ HeaderSize' = HeaderSize /\ Content' = Content /\ \A f : UnitsFrom(f)' = UnitsFrom(f)
        /\ decompress_running
    BY <1>0, SameSizes DEF Healthy, Told
  <2>1. TypeOK' /\ Shapes'
    BY <1>0, <2>0 DEF TypeOK, Shapes, Labels, Results, write_offset
  <2>2. Told'
    BY <1>0 DEF Told, Gone
  <2>3. Waited'
    BY <1>0, <2>0 DEF Waited, IsAnyRunning
  <2>4. Feed'
    BY <1>0, <2>0, FeedKept
  <2>5. Inflating'
    BY <1>0, InflatingKept DEF Gone, Sending
  <2>6. Drain'
    BY <1>0, <2>0, DrainKept DEF Sending
  <2>7. Through'
    BY <1>0, <2>0 DEF Through, Gone, write_offset, Inflating
  <2>8. Success'
    BY <1>0, <2>0, Unfinished DEF IsAnyRunning
  <2> QED BY <2>1, <2>2, <2>3, <2>4, <2>5, <2>6, <2>7, <2>8 DEF IInv
<1>4. CASE Healthy /\ read_buffers = <<>> /\ read_running
  <2>1. decompressor' = "park" /\ decomp_rc' = decomp_rc
        /\ UNCHANGED <<reader, read_buffers, decomp_buf, outgoing, flushing, inflate_buf, hashed, nca_hash>>
    BY <1>4 DEF DecompTest
  <2> QED BY <1>3, <2>1
<1>5. CASE ~Healthy
  BY <1>3, <1>5 DEF DecompTest, DecompReturns
<1> QED BY <1>1, <1>2, <1>4, <1>5 DEF DecompTest

\* The header gives the size, or fails.
LEMMA KeepsDecompHeader == ASSUME IInv, DecompHeader PROVE IInv'
<1> USE DEF DecompHeader, DecompReturns
<1>0. /\ TypeOK /\ Shapes /\ Told /\ Waited /\ Feed /\ Inflating /\ Drain /\ Through
      /\ HeaderSize' = HeaderSize /\ Content' = Content /\ \A f : UnitsFrom(f)' = UnitsFrom(f)
      /\ (Healthy' <=> Healthy) /\ decompressor = "header"
  BY SameSizes DEF IInv, Healthy
<1>1. write_size' \in {write_size, HeaderSize} /\ (decompressor' = "pass" => write_size' = HeaderSize)
  OBVIOUS
<1>2. \/ decompressor' = "pass" /\ decomp_rc' = decomp_rc
      \/ decompressor' = "exit" /\ decomp_rc' = "fail"
  OBVIOUS
<1>3. TypeOK' /\ Shapes'
  BY <1>0, <1>1, <1>2 DEF TypeOK, Shapes, Labels, Results, write_offset
<1>4. Told'
  BY <1>0, <1>2 DEF Told, Gone
<1>5. Waited'
  BY <1>0 DEF Waited, IsAnyRunning
<1>6. Feed'
  BY <1>0, FeedKept
<1>7. Inflating'
  BY <1>0, <1>1, <1>2 DEF Inflating, Run, Gone, Sending
<1>8. Drain'
  BY <1>0, <1>2, DrainKept DEF Sending
<1>9. Through'
  BY <1>0, <1>2 DEF Through, Gone, write_offset, Inflating, Sending
<1>10. Success'
  BY <1>0, Unfinished DEF Told, IsAnyRunning
<1> QED BY <1>3, <1>4, <1>5, <1>6, <1>7, <1>8, <1>9, <1>10 DEF IInv

\* How far the decompressor can be.
LEMMA Within ==
  ASSUME IInv, NEW f \in Nat, f <= read_offset
  PROVE  UnitsFrom(f) \in 0 .. HeaderSize
<1>1. read_offset \in Nat /\ read_offset <= NcaSize /\ NcaSize \in Nat
  BY DEF IInv, TypeOK
<1>2. UnitsFrom(f) <= UnitsFrom(NcaSize)
  BY <1>1, UnitsGrow
<1> QED BY <1>2, Sizes

\* Units that are passed on as they are.
LEMMA KeepsDecompPass == ASSUME IInv, DecompPass PROVE IInv'
<1> USE DEF DecompPass
<1>0. /\ TypeOK /\ Shapes /\ Told /\ Waited /\ Feed /\ Inflating /\ Drain /\ Through /\ Read
      /\ HeaderSize' = HeaderSize /\ Content' = Content /\ \A f : UnitsFrom(f)' = UnitsFrom(f)
      /\ (Healthy' <=> Healthy) /\ decompress_running /\ Skips' = Skips /\ decompressor = "pass"
  BY SameSizes DEF IInv, Healthy, Told, Feed, Skips
<1>1. PICK f \in Nat : Fed(f)
  BY <1>0 DEF Feed
<1> DEFINE v == decomp_buf
<1>2. /\ v # <<>> /\ Vector(v) /\ v[1] = f /\ UnitsFrom(f) = decompress_offset
      /\ (ncz => f = 0)
  BY <1>0, <1>1 DEF Inflating, Fed, Gone, Sending
<1>3. Run(v) /\ Len(v) \in Nat \ {0} /\ (ncz => Len(v) = 1) /\ v \in Seq(Nat)
  BY <1>2, RunBegins DEF Vector
<1>4. decompress_offset \in Nat /\ Len(hashed) \in Nat /\ Len(inflate_buf) \in Nat
  BY SMTT(20), <1>0 DEF TypeOK, Shapes
<1>5. inflate_buf = <<>>
  <2>1. CASE ncz
    <3>1. decompress_offset = 0
      BY <1>2, <2>1, Sizes
    <3>2. Len(inflate_buf) = 0
      BY <1>0, <1>4, <3>1 DEF Inflating
    <3> QED BY <1>0, <3>2 DEF Shapes
  <2>2. CASE ~ncz
    BY <1>0, <2>2 DEF Inflating
  <2> QED BY <2>1, <2>2
<1>6. Len(hashed) = decompress_offset
  BY <1>0, <1>4, <1>5 DEF Inflating
<1>7. v[1] = Len(hashed)
  <2>1. ncz => UnitsFrom(f) = 0
    BY <1>2, Sizes
  <2>2. ~ncz => UnitsFrom(f) = f
    BY DEF UnitsFrom
  <2> QED BY <1>2, <1>6, <2>1, <2>2
<1>8. /\ Ahead(hashed') /\ hashed' \in Seq(Nat) /\ Len(hashed') = Len(hashed) + Len(v)
      /\ Len(hashed) < Len(hashed') /\ v[1] + Len(v) = Len(hashed')
  BY <1>3, <1>7, HashGrows
<1>a. PICK g : g = Behind(v, Skips)
  OBVIOUS
<1>9. g \in Nat /\ g <= read_offset /\ UnitsFrom(g) = decompress_offset'
  <2>1. g \in Nat /\ g <= read_offset
    BY <1>2, <1>3, <1>a DEF Vector, Behind
  <2>2. CASE ncz
    <3>1. v[1] = 0 /\ Len(v) = 1 /\ decompress_offset = 0
      BY <1>2, <1>3, <2>2, Sizes
    <3>2. g = 1 \/ g = 2
      BY <1>a, <3>1 DEF Behind
    <3>3. UnitsFrom(g) = 1
      BY <2>2, <3>2, Sizes
    <3> QED BY <2>1, <3>1, <3>3
  <2>3. CASE ~ncz
    <3>1. g = f + Len(v) /\ UnitsFrom(g) = g /\ UnitsFrom(f) = f
      BY <1>2, <1>a, <2>3 DEF Behind, Skips, UnitsFrom
    <3> QED BY <1>2, <2>1, <3>1
  <2> QED BY <2>2, <2>3
<1>10. decompress_offset' \in 0 .. HeaderSize /\ Len(hashed') = decompress_offset' /\ decompress_offset' \in Nat
  BY <1>6, <1>8, <1>9, Within, Sizes
<1>11. TypeOK' /\ Shapes'
  <2>1. decomp_buf' \in Seq(Nat) /\ Len(decomp_buf') <= BufSize /\ outgoing' \in Seq(Nat)
    BY <1>3
  <2> QED BY <1>0, <1>8, <1>10, <2>1 DEF TypeOK, Shapes, Labels, write_offset
<1>12. Told'
  BY <1>0 DEF Told, Gone
<1>13. Waited'
  BY <1>0 DEF Waited, IsAnyRunning
<1>14. Feed'
  <2>1. \A w : Vector(w)' <=> Vector(w)
    BY <1>0 DEF Vector, Run, Behind
  <2>2. Read'
    BY <1>0, <2>1 DEF Read, Behind
  <2>3. Unread' = Unread
    BY DEF Unread
  <2>4. \A a, b : Chained(read_buffers, a, b, Skips)' <=> Chained(read_buffers, a, b, Skips)
    BY <1>0 DEF Chained, Behind
  <2>5. Healthy /\ decompress_running => Chained(read_buffers, g, Unread, Skips)
    BY <1>1, <1>2, <1>a DEF Fed
  <2>6. Fed(g)'
    BY <1>0, <1>9, <2>3, <2>4, <2>5 DEF Fed
  <2> QED BY <1>9, <2>2, <2>6 DEF Feed
<1>15. Inflating'
  <2>1. Len(hashed') + Len(inflate_buf') = decompress_offset' /\ Len(inflate_buf') < FlushSize
    BY <1>5, <1>10
  <2>2. Run(outgoing)' /\ outgoing'[1] + Len(outgoing') = Len(hashed')
    BY <1>3, <1>8 DEF Run
  <2>3. inflate_buf' = <<>> /\ nca_hash' = <<>> /\ ~flushing'
    BY <1>0, <1>5 DEF Inflating, Gone, Sending
  <2> QED BY <1>0, <2>1, <2>2, <2>3 DEF Inflating, Sending, Gone
<1>16. Drain'
  BY <1>0, <1>3, <1>7, DrainGrows DEF Sending
<1>17. Through'
  <2>1. Healthy => ~(writer \in Gone /\ writer_rc = "ok")
    BY <1>0, <1>8, <1>10, NotAll
  <2>2. ~flushing
    BY <1>0 DEF Inflating, Gone, Sending
  <2> QED BY <1>0, <2>1, <2>2 DEF Through, Gone
<1>18. Success'
  BY <1>0, Unfinished DEF IsAnyRunning
<1> QED BY <1>11, <1>12, <1>13, <1>14, <1>15, <1>16, <1>17, <1>18 DEF IInv

\* One compressed unit: what it inflates to continues what has gathered.
LEMMA Inflates ==
  ASSUME IInv, decompressor = "inflate", decomp_buf # <<>>, Healthy, decomp_buf' = Tail(decomp_buf),
         decompress_offset' = decompress_offset + Ratio, NEW inflated,
         inflated = inflate_buf \o Inflated(Head(decomp_buf)),
         IF Len(inflated) >= FlushSize
           THEN /\ decompressor' = "put" /\ outgoing' = SubSeq(inflated, 1, FlushSize)
                /\ inflate_buf' = SubSeq(inflated, FlushSize + 1, Len(inflated))
                /\ hashed' = hashed \o outgoing'
           ELSE inflate_buf' = inflated /\ UNCHANGED <<decompressor, outgoing, hashed>>,
         UNCHANGED <<decompKeeps, reader, writer, flushing, write_size, decomp_rc, decompress_result,
                     decompress_running, nca_hash, read_buffers, write_buffers, uevent_done>>
  PROVE  IInv'
<1>0. /\ TypeOK /\ Shapes /\ Told /\ Waited /\ Feed /\ Inflating /\ Drain /\ Through /\ Read
      /\ HeaderSize' = HeaderSize /\ Content' = Content /\ \A f : UnitsFrom(f)' = UnitsFrom(f)
      /\ (Healthy' <=> Healthy) /\ decompress_running /\ Skips' = Skips
  BY SameSizes DEF IInv, Healthy, Told, Feed, Skips
<1>1. PICK f \in Nat : Fed(f)
  BY <1>0 DEF Feed
<1> DEFINE v == decomp_buf
<1>2. /\ Vector(v) /\ v[1] = f /\ UnitsFrom(f) = decompress_offset /\ ncz /\ f > 1
      /\ ~flushing /\ nca_hash = <<>>
  BY <1>0, <1>1 DEF Inflating, Fed, Gone, Sending, Vector
<1>3. /\ Run(v) /\ Len(v) \in Nat \ {0} /\ v \in Seq(Nat) /\ Head(v) = f /\ Len(v) <= BufSize
      /\ f + Len(v) <= read_offset
  BY <1>2, RunBegins DEF Vector, Behind
<1>4. /\ UnitsFrom(f + 1) = decompress_offset' /\ Run(Inflated(f)) /\ Inflated(f)[1] = decompress_offset
      /\ Len(Inflated(f)) = Ratio
  BY <1>2, UnitsNext
<1> DEFINE h == Len(hashed)
           k == Len(inflate_buf)
<1>5. h \in Nat /\ k \in Nat /\ h + k = decompress_offset /\ k < FlushSize /\ decompress_offset \in Nat
  <2>1. h \in Nat /\ k \in Nat
    <3>1. hashed \in Seq(Nat) /\ inflate_buf \in Seq(Nat)
      BY <1>0 DEF Shapes
    <3> QED BY <3>1, LenProperties
  <2>2. h + k = decompress_offset /\ k < FlushSize
    BY <1>0 DEF Inflating
  <2> QED BY <1>0, <2>1, <2>2 DEF TypeOK
<1> HIDE DEF h, k
<1>6. Run(inflated) /\ inflated[1] = h /\ Len(inflated) = k + Ratio
  <2>1. CASE inflate_buf = <<>>
    <3>1. Inflated(f) \in Seq(Nat)
      BY <1>4, RunBegins
    <3>2. inflated = Inflated(f) /\ k = 0
      BY <1>3, <2>1, <3>1 DEF k
    <3>3. Run(inflated) /\ inflated[1] = decompress_offset
      BY <1>4, <3>2
    <3>4. Len(inflated) = Ratio
      BY <1>4, <3>2
    <3> QED BY <1>5, <3>2, <3>3, <3>4
  <2>2. CASE inflate_buf # <<>>
    <3>1. Run(inflate_buf) /\ inflate_buf[1] = h
      BY <1>0, <2>2 DEF Inflating, h
    <3>2. Inflated(f)[1] = inflate_buf[1] + Len(inflate_buf)
      BY <1>4, <1>5, <3>1 DEF k
    <3> QED BY <1>3, <1>4, <3>1, <3>2, RunGrows DEF k
  <2> QED BY <2>1, <2>2
<1>7. decompress_offset' \in 0 .. HeaderSize /\ decompress_offset' \in Nat
  <2>1. f + 1 <= read_offset /\ f + 1 \in Nat /\ read_offset \in Nat
    BY <1>0, <1>3 DEF TypeOK
  <2> QED BY <1>4, <2>1, Within, Sizes
<1>8. Told'
  BY <1>0 DEF Told, Gone
<1>9. Waited'
  BY <1>0 DEF Waited, IsAnyRunning
<1>10. Success'
  BY <1>0, Unfinished DEF IsAnyRunning
<1>11. /\ decomp_buf' \in Seq(Nat) /\ Len(decomp_buf') = Len(v) - 1
       /\ decomp_buf' # <<>> => Run(decomp_buf') /\ decomp_buf'[1] = f + 1
       /\ decomp_buf' = <<>> <=> Len(v) = 1
  BY <1>2, <1>3, RunTail
<1>b. Len(decomp_buf') <= BufSize
  <2>1. PICK n \in Nat : n = Len(v)
    BY <1>3
  <2>2. n <= BufSize /\ Len(decomp_buf') = n - 1
    BY <1>3, <1>11, <2>1
  <2> QED BY <2>2
<1>c. write_size' = HeaderSize' /\ (decomp_buf' # <<>> => decomp_buf'[1] # 0)
  <2>1. UnitsFrom(2) <= UnitsFrom(f)
    BY <1>2, UnitsGrow
  <2>2. decompress_offset > 0
    BY <1>2, <1>5, <2>1, Sizes
  <2>3. write_size = HeaderSize
    BY <1>0, <2>2 DEF Inflating
  <2>4. write_size' = HeaderSize'
    BY <1>0, <2>3
  <2>5. decomp_buf' # <<>> => decomp_buf'[1] # 0
    BY <1>2, <1>11
  <2> QED BY <2>4, <2>5
<1>12. Feed'
  <2>1. \A w : Vector(w)' <=> Vector(w)
    BY <1>0 DEF Vector, Run, Behind
  <2>2. Read'
    BY <1>0, <2>1 DEF Read, Behind
  <2>3. Unread' = Unread
    BY DEF Unread
  <2>4. \A a, b : Chained(read_buffers, a, b, Skips)' <=> Chained(read_buffers, a, b, Skips)
    BY <1>0 DEF Chained, Behind
  <2>5. Chained(read_buffers, f + Len(v), Unread, Skips)
    BY <1>0, <1>1, <1>2 DEF Fed, Behind
  <2>6. ASSUME decomp_buf' # <<>>
        PROVE  Vector(decomp_buf)' /\ Behind(decomp_buf, Skips)' = f + Len(v)
    <3>1. PICK w : w = decomp_buf'
      OBVIOUS
    <3>2. PICK n \in Nat : n = Len(v)
      BY <1>3
    <3>3. Run(w) /\ w[1] = f + 1 /\ Len(w) = n - 1
      BY <1>11, <2>6, <3>1, <3>2
    <3>4. f + n <= read_offset /\ n <= BufSize
      BY <1>3, <3>2
    <3>5. Behind(w, Skips) = f + n
      BY <1>2, <3>2, <3>3 DEF Behind
    <3>6. Vector(w)
      BY <1>2, <3>2, <3>3, <3>4, <3>5 DEF Vector
    <3>7. Vector(decomp_buf)'
      BY <1>0, <3>1, <3>6 DEF Vector, Behind, Run
    <3>8. Behind(decomp_buf, Skips)' = Behind(w, Skips)
      BY <1>0, <3>1 DEF Behind
    <3> QED BY <3>2, <3>5, <3>7, <3>8
  <2>7. decomp_buf' = <<>> => f + 1 = f + Len(v)
    BY <1>11
  <2>8. f + 1 \in Nat /\ f + 1 <= read_offset'
    BY SMTT(20), <1>0, <1>3 DEF TypeOK
  <2>9. Fed(f + 1)'
    BY <1>0, <1>4, <1>11, <2>3, <2>4, <2>5, <2>6, <2>7, <2>8 DEF Fed
  <2> QED BY <2>2, <2>8, <2>9 DEF Feed
<1>13. CASE Len(inflated) >= FlushSize
  <2>0. /\ decompressor' = "put" /\ outgoing' = SubSeq(inflated, 1, FlushSize)
        /\ inflate_buf' = SubSeq(inflated, FlushSize + 1, Len(inflated))
        /\ hashed' = hashed \o outgoing'
    BY <1>13
  <2>1. FlushSize \in 0 .. Len(inflated) /\ FlushSize > 0 /\ FlushSize <= k + Ratio
    BY <1>5, <1>6, <1>13
  <2>2. /\ Run(outgoing') /\ outgoing'[1] = h /\ Len(outgoing') = FlushSize
        /\ FlushSize < Len(inflated) => Run(inflate_buf') /\ inflate_buf'[1] = h + FlushSize
        /\ Len(inflate_buf') = Len(inflated) - FlushSize
        /\ outgoing' \in Seq(Nat) /\ inflate_buf' \in Seq(Nat)
    <3>1. /\ FlushSize > 0 => Run(outgoing') /\ outgoing'[1] = inflated[1]
          /\ Len(outgoing') = FlushSize
          /\ FlushSize < Len(inflated) => Run(inflate_buf') /\ inflate_buf'[1] = inflated[1] + FlushSize
          /\ Len(inflate_buf') = Len(inflated) - FlushSize
          /\ outgoing' \in Seq(Nat) /\ inflate_buf' \in Seq(Nat)
      BY ZenonT(40), <1>6, <2>0, <2>1, RunCut
    <3> QED BY <1>6, <2>1, <3>1
  <2>3. /\ Ahead(hashed') /\ hashed' \in Seq(Nat) /\ Len(hashed') = h + FlushSize
        /\ h < Len(hashed') /\ outgoing'[1] + Len(outgoing') = Len(hashed')
    BY <2>0, <2>2, HashGrows DEF h
  <2>4. Len(inflate_buf') = (k + Ratio) - FlushSize /\ Len(inflate_buf') < FlushSize
    BY <1>5, <1>6, <2>2
  <2>5. inflate_buf' # <<>> => Run(inflate_buf') /\ inflate_buf'[1] = Len(hashed')
    BY <1>5, <1>6, <2>2, <2>3, <2>4
  <2>6. Len(hashed') + Len(inflate_buf') = decompress_offset'
    BY <1>5, <2>3, <2>4
  <2>7. TypeOK' /\ Shapes'
    <3>1. Len(inflate_buf') < 2 * FlushSize
      BY <1>5, <2>1, <2>4
    <3> QED BY <1>0, <1>7, <1>11, <1>b, <2>0, <2>2, <2>3, <3>1 DEF TypeOK, Shapes, Labels, write_offset
  <2>8. Inflating'
    <3>1. inflate_buf' # <<>> => Run(inflate_buf)' /\ inflate_buf'[1] = Len(hashed')
      BY <2>5 DEF Run
    <3>2. Run(outgoing)' /\ outgoing'[1] + Len(outgoing') = Len(hashed')
      BY <2>2, <2>3 DEF Run
    <3> QED BY <1>0, <1>2, <1>c, <2>0, <2>4, <2>6, <3>1, <3>2 DEF Inflating, Sending, Gone
  <2>9. Drain'
    BY <1>0, <2>0, <2>2, DrainGrows DEF Sending, h
  <2>10. Through'
    <3>1. h < Len(hashed') /\ Len(hashed') <= HeaderSize /\ Len(hashed') \in Nat
      BY <1>5, <1>7, <2>2, <2>3, <2>4, <2>6, Sizes
    <3>2. Healthy => ~(writer \in Gone /\ writer_rc = "ok")
      BY <1>0, <3>1, NotAll DEF h
    <3> QED BY <1>0, <1>2, <2>0, <3>2 DEF Through, Gone
  <2> QED BY <1>8, <1>9, <1>10, <1>12, <2>7, <2>8, <2>9, <2>10 DEF IInv
<1>14. CASE ~(Len(inflated) >= FlushSize)
  <2>0. inflate_buf' = inflated /\ UNCHANGED <<decompressor, outgoing, hashed>>
    BY <1>14
  <2>1. Len(inflate_buf') = k + Ratio /\ Len(inflate_buf') < FlushSize /\ inflate_buf' \in Seq(Nat)
    <3>1. Len(inflated) = k + Ratio /\ inflated \in Seq(Nat)
      BY <1>6, RunBegins
    <3>2. k + Ratio < FlushSize
      BY <1>5, <1>14, <3>1
    <3> QED BY <2>0, <3>1, <3>2
  <2>2. TypeOK' /\ Shapes'
    <3>1. Len(inflate_buf') < 2 * FlushSize
      BY <1>5, <2>1
    <3> QED BY <1>0, <1>7, <1>11, <1>b, <2>0, <2>1, <3>1 DEF TypeOK, Shapes, Labels, write_offset
  <2>3. Inflating'
    <3>1. Len(hashed') = h
      BY <2>0 DEF h
    <3>2. Len(hashed') + Len(inflate_buf') = decompress_offset'
      BY <1>5, <2>1, <3>1
    <3>3. Run(inflate_buf)' /\ inflate_buf'[1] = Len(hashed')
      BY <1>6, <2>0, <3>1 DEF Run
    <3> QED BY <1>0, <1>2, <1>c, <2>0, <2>1, <3>2, <3>3 DEF Inflating, Sending, Gone
  <2>4. Drain'
    BY <1>0, <2>0, DrainKept
  <2>5. Through'
    BY <1>0, <1>2, <2>0 DEF Through, Gone, write_offset
  <2> QED BY <1>8, <1>9, <1>10, <1>12, <2>2, <2>3, <2>4, <2>5 DEF IInv
<1> QED BY <1>13, <1>14

\* A unit is inflated, the vector is used up, or the inflating fails.
LEMMA KeepsDecompInflate == ASSUME IInv, DecompInflate PROVE IInv'
<1>0. /\ TypeOK /\ Shapes /\ Told /\ Waited /\ Feed /\ Inflating /\ Drain /\ Through
      /\ decompressor = "inflate"
  BY DEF IInv, DecompInflate
<1>1. ASSUME decomp_buf # <<>>, Healthy, UNCHANGED decomp_rc, decomp_buf' = Tail(decomp_buf),
             decompress_offset' = decompress_offset + Ratio,
             LET inflated == inflate_buf \o Inflated(Head(decomp_buf))
             IN  IF Len(inflated) >= FlushSize
                   THEN /\ decompressor' = "put"
                        /\ outgoing' = SubSeq(inflated, 1, FlushSize)
                        /\ inflate_buf' = KeptForLater(inflated)
                        /\ hashed' = hashed \o outgoing'
                   ELSE /\ inflate_buf' = inflated
                        /\ UNCHANGED <<decompressor, outgoing, hashed>>
      PROVE  IInv'
  <2>1. PICK inflated : inflated = inflate_buf \o Inflated(Head(decomp_buf))
    OBVIOUS
  <2>2. IF Len(inflated) >= FlushSize
          THEN /\ decompressor' = "put" /\ outgoing' = SubSeq(inflated, 1, FlushSize)
               /\ inflate_buf' = SubSeq(inflated, FlushSize + 1, Len(inflated))
               /\ hashed' = hashed \o outgoing'
          ELSE inflate_buf' = inflated /\ UNCHANGED <<decompressor, outgoing, hashed>>
    BY <1>1, <2>1 DEF KeptForLater
  <2>3. UNCHANGED <<decompKeeps, reader, writer, flushing, write_size, decomp_rc, decompress_result,
                    decompress_running, nca_hash, read_buffers, write_buffers, uevent_done>>
    BY <1>1 DEF DecompInflate
  <2> QED BY <1>0, <1>1, <2>1, <2>2, <2>3, Inflates
<1>2. ASSUME \/ decompressor' = "exit" /\ decomp_rc' = "fail"
             \/ decompressor' = "loop" /\ decomp_rc' = decomp_rc /\ decomp_buf = <<>>,
             UNCHANGED <<decomp_buf, inflate_buf, outgoing, decompress_offset, hashed>>
      PROVE  IInv'
  <2> USE <1>2 DEF DecompInflate
  <2>0. /\ HeaderSize' = HeaderSize /\ Content' = Content /\ \A f : UnitsFrom(f)' = UnitsFrom(f)
        /\ (Healthy' <=> Healthy) /\ ~flushing /\ nca_hash = <<>>
    BY <1>0, SameSizes DEF Healthy, Inflating, Gone, Sending
  <2>1. TypeOK' /\ Shapes'
    BY <1>0, <2>0 DEF TypeOK, Shapes, Labels, Results, write_offset
  <2>2. Told'
    BY <1>0 DEF Told, Gone
  <2>3. Waited'
    BY <1>0, <2>0 DEF Waited, IsAnyRunning
  <2>4. Feed'
    BY <1>0, <2>0, FeedKept
  <2>5. Inflating'
    BY <1>0, <2>0 DEF Inflating, Gone, Sending, Run
  <2>6. Drain'
    BY <1>0, <2>0, DrainKept DEF Sending
  <2>7. Through'
    BY <1>0, <2>0 DEF Through, Gone, write_offset
  <2>8. Success'
    BY <1>0, Unfinished DEF Told, IsAnyRunning
  <2> QED BY <2>1, <2>2, <2>3, <2>4, <2>5, <2>6, <2>7, <2>8 DEF IInv
<1>3. CASE decomp_buf = <<>>
  <2>1. decompressor' = "loop" /\ UNCHANGED <<decomp_rc, decomp_buf, inflate_buf, outgoing, decompress_offset, hashed>>
    BY <1>3 DEF DecompInflate
  <2> QED BY <1>2, <1>3, <2>1
<1>4. CASE DecompReturns("fail") /\ UNCHANGED <<decomp_buf, inflate_buf, outgoing, decompress_offset, hashed>>
  BY <1>2, <1>4 DEF DecompReturns
<1> QED BY <1>1, <1>3, <1>4 DEF DecompInflate

\* Where a vector was handed over or dropped, the decompressor goes on as before.
LEMMA AfterPut ==
  ASSUME IInv, decompressor = "put", DecompAfterPut,
         UNCHANGED <<environment, read_running, read_offset, read_result, write_result, decomp_buf, inflate_buf,
                     outgoing, flushing, decompress_offset, write_size, decompress_result, decompress_running,
                     hashed, writer_rc, placeholder>>,
         writer' \in Gone <=> writer \in Gone, reader' = reader, reader_rc' = reader_rc
  PROVE  /\ decompressor' \in {"exit", "inflate", "loop"}
         /\ decomp_rc' = "ok" /\ nca_hash' \in {<<>>, hashed}
         /\ Inflating' /\ Through'
<1>0. /\ TypeOK /\ Shapes /\ Told /\ Inflating /\ Through
      /\ HeaderSize' = HeaderSize /\ Content' = Content /\ \A f : UnitsFrom(f)' = UnitsFrom(f)
      /\ (Healthy' <=> Healthy)
  BY SameSizes DEF IInv, Healthy
<1>1. decomp_rc = "ok" /\ nca_hash = <<>>
  BY <1>0 DEF Told, Gone, Inflating
<1>2. /\ flushing => decompressor' = "exit" /\ decomp_rc' = "ok" /\ nca_hash' = hashed
      /\ ~flushing => decomp_rc' = decomp_rc /\ nca_hash' = nca_hash
      /\ ~flushing /\ decomp_buf # <<>> => decompressor' = "inflate"
      /\ ~flushing /\ decomp_buf = <<>> => decompressor' = "loop"
  BY DEF DecompAfterPut, DecompReturns
<1>3. flushing \in BOOLEAN
  BY <1>0 DEF TypeOK
<1>4. Inflating'
  BY <1>0, <1>1, <1>2, <1>3 DEF Inflating, Gone, Sending, Run
<1>5. Through'
  BY <1>0, <1>1, <1>2, <1>3 DEF Through, Gone, write_offset
<1> QED BY <1>1, <1>2, <1>3, <1>4, <1>5

\* SetWriteBuf: the piece is pushed or dropped, or the decompressor waits or fails.
LEMMA KeepsDecompPut == ASSUME IInv, DecompPut PROVE IInv'
<1>0. /\ TypeOK /\ Shapes /\ Told /\ Waited /\ Feed /\ Inflating /\ Drain /\ Through
      /\ decompressor = "put"
      /\ UNCHANGED <<decompKeeps, reader, decomp_buf, inflate_buf, outgoing, flushing, decompress_offset,
                     write_size, decompress_result, decompress_running, hashed, read_buffers, uevent_done>>
  BY DEF IInv, DecompPut
<1>1. /\ HeaderSize' = HeaderSize /\ Content' = Content /\ \A f : UnitsFrom(f)' = UnitsFrom(f)
      /\ (Healthy' <=> Healthy) /\ decompress_running
  BY <1>0, SameSizes DEF Healthy, Told
<1>2. Feed'
  BY <1>0, <1>1, FeedKept
<1>3. Success'
  BY <1>0, <1>1, Unfinished DEF IsAnyRunning
<1>4. CASE Healthy /\ Len(write_buffers) < Slots
  <2>0. /\ write_buffers' = Append(write_buffers, outgoing)
        /\ writer' = IF writer = "wait" THEN "test" ELSE writer
        /\ DecompAfterPut
    BY <1>0, <1>4 DEF DecompPut, Shapes
  <2>1. (writer' \in Gone <=> writer \in Gone) /\ (writer' = "write" <=> writer = "write")
    BY <2>0 DEF Gone
  <2>2. /\ decompressor' \in {"exit", "inflate", "loop"}
        /\ decomp_rc' = "ok" /\ nca_hash' \in {<<>>, hashed} /\ Inflating' /\ Through'
    BY <1>0, <2>0, <2>1, AfterPut
  <2>3. write_buffers' \in Seq(Seq(Nat)) /\ Len(write_buffers') <= Slots
    BY <1>0, <1>4, <2>0 DEF Shapes
  <2>4. TypeOK' /\ Shapes'
    <3>1. nca_hash' \in Seq(Nat)
      <4>1. <<>> \in Seq(Nat) /\ hashed \in Seq(Nat)
        BY <1>0 DEF Shapes
      <4>2. nca_hash' = <<>> \/ nca_hash' = hashed
        BY <2>2
      <4> QED BY <4>1, <4>2
    <3> QED BY <1>0, <1>1, <2>0, <2>2, <2>3, <3>1 DEF TypeOK, Shapes, Labels, Results, write_offset
  <2>5. Told'
    BY <1>0, <2>0, <2>1, <2>2 DEF Told, Gone
  <2>6. Waited'
    BY <1>0, <1>1, <2>0, <2>2 DEF Waited, IsAnyRunning, Told
  <2>7. Drain'
    <3>1. Run(outgoing) /\ outgoing[1] + Len(outgoing) = Len(hashed) /\ outgoing \in Seq(Nat)
      BY <1>0 DEF Inflating, Sending, Run
    <3>2. \A w : Piece(w)' <=> Piece(w)
      BY <1>0 DEF Piece, Run
    <3>3. Piece(outgoing) /\ Behind(outgoing, FALSE) = Len(hashed)
      BY <1>0, <3>1 DEF Piece, Behind, Shapes
    <3>4. \A i \in 1 .. Len(write_buffers') : Piece(write_buffers'[i])
      <4> DEFINE n == Len(write_buffers)
      <4>1. n \in Nat /\ Len(write_buffers') = n + 1 /\ write_buffers'[n + 1] = outgoing
            /\ \A i \in 1 .. n : write_buffers'[i] = write_buffers[i]
        BY <1>0, <2>0 DEF Shapes
      <4>2. \A i \in 1 .. n : Piece(write_buffers[i])
        BY <1>0 DEF Drain
      <4> HIDE DEF n
      <4> QED BY <3>3, <4>1, <4>2
    <3>5. \A a : Chained(write_buffers, a, Unsent, FALSE) => Chained(write_buffers', a, Len(hashed), FALSE)
      BY <1>0, <2>0, <3>1, <3>3, Pushed DEF Unsent, Sending, Shapes
    <3>6. Unsent' = Len(hashed)
      BY <1>0, <2>2 DEF Unsent, Sending
    <3>7. \A a, b : Chained(write_buffers, a, b, FALSE)' <=> Chained(write_buffers', a', b', FALSE)
      BY DEF Chained, Behind
    <3>8. write_offset' = write_offset /\ writer_buf' = writer_buf /\ write_running' = write_running
          /\ hashed' = hashed /\ placeholder' = placeholder
      BY <1>0 DEF write_offset
    <3>9. Healthy' /\ write_running' => Chained(write_buffers, write_offset + Len(writer_buf), Unsent, FALSE)'
      <4>1. Healthy /\ write_running => Chained(write_buffers', write_offset + Len(writer_buf), Len(hashed), FALSE)
        BY <1>0, <3>5 DEF Drain
      <4> QED BY <1>1, <3>6, <3>7, <3>8, <4>1
    <3>10. \A i \in 1 .. Len(write_buffers') : Piece(write_buffers[i])'
      BY <3>2, <3>4
    <3>11. Ahead(hashed)' /\ Ahead(placeholder)' /\ write_offset' <= Len(hashed')
      BY <1>0, <3>8 DEF Drain, Ahead
    <3>12. writer' = "write" /\ writer_buf' # <<>> => Piece(writer_buf)' /\ writer_buf'[1] = write_offset'
      BY <1>0, <2>1, <3>2, <3>8 DEF Drain
    <3>13. writer' \in {"write"} \cup Gone \/ writer_buf' = <<>> \/ ~Healthy'
      BY <1>0, <1>1, <2>1, <3>8 DEF Drain
    <3> QED BY <3>9, <3>10, <3>11, <3>12, <3>13 DEF Drain
  <2> QED BY <1>2, <1>3, <2>2, <2>4, <2>5, <2>6, <2>7 DEF IInv
<1>5. CASE Healthy /\ Len(write_buffers) = Slots /\ write_running
  <2>0. decompressor' = "putpark" /\ UNCHANGED <<write_buffers, writer, decomp_rc, nca_hash>>
    BY <1>5 DEF DecompPut
  <2>1. TypeOK' /\ Shapes'
    BY <1>0, <1>1, <2>0 DEF TypeOK, Shapes, Labels, write_offset
  <2>2. Told'
    BY <1>0, <2>0 DEF Told, Gone
  <2>3. Waited'
    BY <1>0, <1>1, <2>0 DEF Waited, IsAnyRunning
  <2>4. Inflating'
    BY <1>0, <2>0, InflatingKept DEF Gone, Sending
  <2>5. Drain'
    BY <1>0, <1>1, <2>0, DrainKept DEF Sending
  <2>6. Through'
    BY <1>0, <1>1, <2>0 DEF Through, Gone, write_offset
  <2> QED BY <1>2, <1>3, <2>1, <2>2, <2>3, <2>4, <2>5, <2>6 DEF IInv
<1>6. CASE Healthy /\ Len(write_buffers) = Slots /\ ~write_running
  <2>0. DecompAfterPut /\ UNCHANGED <<write_buffers, writer>>
    BY <1>6 DEF DecompPut
  <2>1. /\ decompressor' \in {"exit", "inflate", "loop"}
        /\ decomp_rc' = "ok" /\ nca_hash' \in {<<>>, hashed} /\ Inflating' /\ Through'
    BY <1>0, <2>0, AfterPut
  <2>2. TypeOK' /\ Shapes'
    <3>1. nca_hash' \in Seq(Nat)
      <4>1. <<>> \in Seq(Nat) /\ hashed \in Seq(Nat)
        BY <1>0 DEF Shapes
      <4>2. nca_hash' = <<>> \/ nca_hash' = hashed
        BY <2>1
      <4> QED BY <4>1, <4>2
    <3> QED BY <1>0, <1>1, <2>0, <2>1, <3>1 DEF TypeOK, Shapes, Labels, Results, write_offset
  <2>3. Told'
    BY <1>0, <2>0, <2>1 DEF Told, Gone
  <2>4. Waited'
    BY <1>0, <1>1, <2>0, <2>1 DEF Waited, IsAnyRunning, Told
  <2>5. Drain'
    BY <1>0, <1>1, <1>6, <2>0, DrainKept
  <2> QED BY <1>2, <1>3, <2>1, <2>2, <2>3, <2>4, <2>5 DEF IInv
<1>7. CASE ~Healthy
  <2>0. decompressor' = "exit" /\ decomp_rc' = "fail" /\ UNCHANGED <<write_buffers, writer, nca_hash>>
    BY <1>7 DEF DecompPut, DecompReturns
  <2>1. TypeOK' /\ Shapes'
    BY <1>0, <1>1, <2>0 DEF TypeOK, Shapes, Labels, Results, write_offset
  <2>2. Told'
    BY <1>0, <2>0 DEF Told, Gone
  <2>3. Waited'
    BY <1>0, <1>1, <2>0 DEF Waited, IsAnyRunning
  <2>4. Inflating'
    BY <1>0, <2>0, InflatingKept DEF Gone
  <2>5. Drain'
    BY <1>0, <1>1, <1>7, <2>0, DrainKept
  <2>6. Through'
    BY <1>1, <1>7 DEF Through
  <2> QED BY <1>2, <1>3, <2>1, <2>2, <2>3, <2>4, <2>5, <2>6 DEF IInv
<1> QED BY <1>0, <1>4, <1>5, <1>6, <1>7 DEF DecompPut

\* All steps of the decompressor keep the invariant.
LEMMA KeepsDecompressor == ASSUME IInv, Decompressor PROVE IInv'
BY KeepsDecompLoop, KeepsDecompTest, KeepsDecompEnd, KeepsDecompHeader, KeepsDecompPass,
   KeepsDecompInflate, KeepsDecompPut, KeepsDecompResult DEF Decompressor

-------------------------------------------------------------------------------
(* Steps of the writer *)

\* The writer waits, or clears its running flag.
LEMMA KeepsWriterEnd == ASSUME IInv, WriterPark \/ WriterExit PROVE IInv'
<1> USE DEF WriterPark, WriterExit
<1>0. /\ TypeOK /\ Shapes /\ Told /\ Waited /\ Feed /\ Inflating /\ Drain /\ Through
      /\ HeaderSize' = HeaderSize /\ Content' = Content /\ \A f : UnitsFrom(f)' = UnitsFrom(f)
      /\ Healthy' <=> Healthy
  BY SameSizes DEF IInv, Healthy
<1>1. TypeOK' /\ Shapes'
  BY ZenonT(40), <1>0 DEF TypeOK, Shapes, Labels, write_offset
<1>2. Told'
  BY <1>0 DEF Told, Gone
<1>3. Waited'
  BY <1>0 DEF Waited, IsAnyRunning, Told
<1>4. Feed'
  BY <1>0, FeedKept
<1>5. Inflating'
  BY <1>0, InflatingKept
<1>6. Drain'
  BY <1>0, DrainKept DEF Gone
<1>7. Through'
  BY <1>0 DEF Through, Gone, write_offset
<1>8. Success'
  BY <1>0, Unfinished DEF Told, IsAnyRunning
<1> QED BY <1>1, <1>2, <1>3, <1>4, <1>5, <1>6, <1>7, <1>8 DEF IInv

\* Once anything was hashed its whole size is known.
LEMMA HashedWithin ==
  ASSUME IInv
  PROVE  /\ Len(hashed) \in 0 .. HeaderSize /\ write_offset \in 0 .. HeaderSize
         /\ Len(hashed) > 0 => write_size = HeaderSize
         /\ write_size \in Nat \ {0} /\ HeaderSize \in Nat
<1>0. Len(hashed) \in Nat /\ Len(inflate_buf) \in Nat
  BY DEF IInv, Shapes
<1>1. Len(hashed) + Len(inflate_buf) = decompress_offset
  BY DEF IInv, Inflating
<1>2. decompress_offset \in 0 .. HeaderSize /\ write_offset \in 0 .. HeaderSize
  BY DEF IInv, TypeOK
<1>3. decompress_offset > 0 => write_size = HeaderSize
  BY DEF IInv, Inflating
<1>4. write_size \in {NcaSize, HeaderSize}
  BY DEF IInv, Shapes
<1> DEFINE h == Len(hashed)
           k == Len(inflate_buf)
<1> HIDE DEF h, k
<1>5. h \in Nat /\ k \in Nat /\ h + k = decompress_offset
  BY <1>0, <1>1 DEF h, k
<1>6. h \in 0 .. HeaderSize /\ (h > 0 => decompress_offset > 0)
  BY <1>2, <1>5, Sizes
<1> QED BY <1>2, <1>3, <1>4, <1>6, Sizes DEF h

\* The loop of writeFuncInternal: it ends only at the size or after a failure.
LEMMA KeepsWriterLoop == ASSUME IInv, WriterLoop PROVE IInv'
<1> USE DEF WriterLoop, WriterReturns
<1>0. /\ TypeOK /\ Shapes /\ Told /\ Waited /\ Feed /\ Inflating /\ Drain /\ Through
      /\ HeaderSize' = HeaderSize /\ Content' = Content /\ \A f : UnitsFrom(f)' = UnitsFrom(f)
      /\ (Healthy' <=> Healthy) /\ writer = "loop" /\ writer' \in {"test", "exit"} /\ write_running
      /\ write_offset' = write_offset
  BY SameSizes DEF IInv, Healthy, Told, write_offset
<1>1. TypeOK' /\ Shapes'
  BY <1>0 DEF TypeOK, Shapes, Labels, Results
<1>2. Told'
  BY <1>0 DEF Told, Gone
<1>3. Waited'
  BY <1>0 DEF Waited, IsAnyRunning
<1>4. Feed'
  BY <1>0, FeedKept
<1>5. Inflating'
  BY <1>0, InflatingKept
<1>6. Drain'
  BY <1>0, DrainKept DEF Gone
<1>7. Through'
  <2>1. Healthy /\ writer' = "exit" => write_offset = Len(hashed) /\ Len(hashed) = HeaderSize
    <3> SUFFICES ASSUME Healthy, writer' = "exit"
                 PROVE  write_offset = Len(hashed) /\ Len(hashed) = HeaderSize
      OBVIOUS
    <3>1. ~(write_offset < write_size)
      OBVIOUS
    <3>2. write_offset <= Len(hashed)
      BY <1>0 DEF Drain
    <3> QED BY <3>1, <3>2, HashedWithin
  <2> QED BY <1>0, <2>1 DEF Through, Gone
<1>8. Success'
  BY <1>0, Unfinished DEF IsAnyRunning
<1> QED BY <1>1, <1>2, <1>3, <1>4, <1>5, <1>6, <1>7, <1>8 DEF IInv

\* The writer takes what belongs behind the placeholder.
LEMMA WriterPops ==
  ASSUME IInv, writer = "test", Healthy, write_buffers # <<>>, writer_buf' = Head(write_buffers),
         write_buffers' = Tail(write_buffers),
         decompressor' = IF decompressor = "putwait" THEN "put" ELSE decompressor, writer' = "write",
         UNCHANGED <<writerKeeps, writer_rc, write_result, write_running, placeholder, uevent_done>>
  PROVE  IInv'
<1>0. /\ TypeOK /\ Shapes /\ Told /\ Waited /\ Feed /\ Inflating /\ Drain /\ Through
      /\ HeaderSize' = HeaderSize /\ Content' = Content /\ \A f : UnitsFrom(f)' = UnitsFrom(f)
      /\ (Healthy' <=> Healthy) /\ write_running /\ write_offset' = write_offset
      /\ write_offset \in Nat
  BY SameSizes DEF IInv, Healthy, Told, write_offset, Shapes
<1>1. writer_buf = <<>>
  BY <1>0 DEF Drain, Gone
<1> DEFINE v == Head(write_buffers)
<1>2. v[1] = write_offset + 0 /\ Chained(Tail(write_buffers), Behind(v, FALSE), Unsent, FALSE)
  <2>1. Chained(write_buffers, write_offset + 0, Unsent, FALSE)
    BY <1>0, <1>1 DEF Drain
  <2> QED BY <1>0, <2>1, Popped DEF Shapes
<1>3. /\ Piece(v) /\ v \in Seq(Nat) /\ write_buffers' \in Seq(Seq(Nat)) /\ Len(write_buffers') <= Slots
      /\ \A i \in 1 .. Len(write_buffers') : Piece(write_buffers'[i])
  <2> DEFINE n == Len(write_buffers)
  <2>1. /\ n \in Nat \ {0} /\ v = write_buffers[1] /\ write_buffers' \in Seq(Seq(Nat)) /\ Len(write_buffers') = n - 1
        /\ \A i \in 1 .. n - 1 : write_buffers'[i] = write_buffers[i + 1]
        /\ v \in Seq(Nat)
    BY <1>0 DEF Shapes
  <2>2. \A i \in 1 .. n : Piece(write_buffers[i])
    BY <1>0 DEF Drain
  <2>3. n <= Slots
    BY <1>0 DEF TypeOK
  <2> HIDE DEF n, v
  <2>4. \A i \in 1 .. n - 1 : i + 1 \in 1 .. n
    BY <2>1
  <2> QED BY <2>1, <2>2, <2>3, <2>4
<1> HIDE DEF v
<1>4. TypeOK' /\ Shapes'
  BY <1>0, <1>3 DEF TypeOK, Shapes, Labels, v
<1>5. Told'
  BY <1>0 DEF Told, Gone
<1>6. Waited'
  BY <1>0 DEF Waited, IsAnyRunning
<1>7. Feed'
  BY <1>0, FeedKept
<1>8. Inflating'
  BY <1>0, InflatingKept DEF Gone, Sending
<1>9. Drain'
  <2>1. \A w : Piece(w)' <=> Piece(w)
    BY DEF Piece, Run
  <2>2. Unsent' = Unsent
    BY DEF Unsent, Sending
  <2>3. \A a, b : Chained(write_buffers, a, b, FALSE)' <=> Chained(write_buffers', a', b', FALSE)
    BY DEF Chained, Behind
  <2>4. Behind(v, FALSE) = write_offset + Len(v) /\ writer_buf' = v
    BY <1>0, <1>2 DEF Behind, v
  <2>5. Chained(write_buffers, write_offset + Len(writer_buf), Unsent, FALSE)'
    BY <1>0, <1>2, <2>2, <2>3, <2>4
  <2>9. Piece(writer_buf)'
    BY <1>3, <2>4 DEF Piece, Run
  <2>10. v[1] = write_offset
    BY <1>0, <1>2
  <2>6. Piece(writer_buf)' /\ writer_buf'[1] = write_offset'
    BY <1>0, <2>4, <2>9, <2>10
  <2>7. \A i \in 1 .. Len(write_buffers') : Piece(write_buffers[i])'
    BY <1>3, <2>1
  <2>8. Ahead(hashed)' /\ Ahead(placeholder)' /\ write_offset' <= Len(hashed')
    BY <1>0 DEF Drain, Ahead
  <2> QED BY <2>5, <2>6, <2>7, <2>8 DEF Drain
<1>10. Through'
  BY <1>0 DEF Through, Gone
<1>11. Success'
  BY <1>0, Unfinished DEF IsAnyRunning
<1> QED BY <1>4, <1>5, <1>6, <1>7, <1>8, <1>9, <1>10, <1>11 DEF IInv

\* GetWriteBuf: a vector is taken, or the writer waits, is through or fails.
LEMMA KeepsWriterTest == ASSUME IInv, WriterTest PROVE IInv'
<1>0. /\ TypeOK /\ Shapes /\ Told /\ Waited /\ Feed /\ Inflating /\ Drain /\ Through
      /\ writer = "test" /\ write_running /\ write_offset \in Nat
  BY DEF IInv, WriterTest, Told, write_offset, Shapes
<1>1. CASE Healthy /\ write_buffers # <<>>
  BY <1>0, <1>1, WriterPops DEF WriterTest
<1>2. ASSUME \/ writer' = "park" /\ writer_rc' = writer_rc
             \/ writer' = "exit" /\ writer_rc' = "ok" /\ Healthy /\ write_buffers = <<>> /\ ~decompress_running
             \/ writer' = "exit" /\ writer_rc' = "fail",
             UNCHANGED <<decompressor, write_buffers, writer_buf>>
      PROVE  IInv'
  <2> USE <1>2 DEF WriterTest
  <2>0. /\ HeaderSize' = HeaderSize /\ Content' = Content /\ \A f : UnitsFrom(f)' = UnitsFrom(f)
        /\ (Healthy' <=> Healthy) /\ write_offset' = write_offset
    BY <1>0, SameSizes DEF Healthy, write_offset
  <2>1. TypeOK' /\ Shapes'
    BY <1>0, <2>0 DEF TypeOK, Shapes, Labels, Results
  <2>2. Told'
    BY <1>0 DEF Told, Gone
  <2>3. Waited'
    BY <1>0, <2>0 DEF Waited, IsAnyRunning
  <2>4. Feed'
    BY <1>0, <2>0, FeedKept
  <2>5. Inflating'
    BY <1>0, InflatingKept
  <2>6. Drain'
    BY <1>0, <2>0, DrainKept DEF Gone
  <2>7. Through'
    <3>1. Healthy /\ write_buffers = <<>> /\ ~decompress_running => write_offset = Len(hashed)
      <4> SUFFICES ASSUME Healthy, write_buffers = <<>>, ~decompress_running PROVE write_offset = Len(hashed)
        OBVIOUS
      <4>1. writer_buf = <<>> /\ Unsent = Len(hashed)
        BY <1>0 DEF Drain, Gone, Told, Unsent, Sending
      <4>2. Chained(<<>>, write_offset + 0, Len(hashed), FALSE)
        BY <1>0, <4>1 DEF Drain
      <4>3. write_offset + 0 = Len(hashed)
        BY <4>2, Emptied
      <4> QED BY <1>0, <4>3
    <3> QED BY <1>0, <2>0, <3>1 DEF Through, Gone
  <2>8. Success'
    BY <1>0, Unfinished DEF IsAnyRunning
  <2> QED BY <2>1, <2>2, <2>3, <2>4, <2>5, <2>6, <2>7, <2>8 DEF IInv
<1>3. CASE Healthy /\ write_buffers = <<>> /\ decompress_running
  <2>1. writer' = "park" /\ writer_rc' = writer_rc /\ UNCHANGED <<decompressor, write_buffers, writer_buf>>
    BY <1>3 DEF WriterTest
  <2> QED BY <1>2, <2>1
<1>4. CASE Healthy /\ write_buffers = <<>> /\ ~decompress_running
  <2>1. writer' = "exit" /\ writer_rc' = "ok" /\ UNCHANGED <<decompressor, write_buffers, writer_buf>>
    BY <1>4 DEF WriterTest, WriterReturns
  <2> QED BY <1>2, <1>4, <2>1
<1>5. CASE ~Healthy
  <2>1. writer' = "exit" /\ writer_rc' = "fail" /\ UNCHANGED <<decompressor, write_buffers, writer_buf>>
    BY <1>5 DEF WriterTest, WriterReturns
  <2> QED BY <1>2, <2>1
<1> QED BY <1>1, <1>3, <1>4, <1>5

\* One write puts the front of the vector behind the placeholder.
LEMMA Writes ==
  ASSUME IInv, writer = "write", writer_buf # <<>>, Healthy,
         NEW n \in 1 .. Len(writer_buf),
         placeholder' = placeholder \o SubSeq(writer_buf, 1, n),
         writer_buf' = SubSeq(writer_buf, n + 1, Len(writer_buf))
  PROVE  /\ Ahead(placeholder') /\ placeholder' \in Seq(Nat) /\ writer_buf' \in Seq(Nat)
         /\ write_offset < write_offset' /\ write_offset' <= Len(hashed)
         /\ write_offset' + Len(writer_buf') = write_offset + Len(writer_buf)
         /\ writer_buf' # <<>> => Piece(writer_buf') /\ writer_buf'[1] = write_offset'
<1> DEFINE p == write_offset
           h == Len(hashed)
           m == Len(writer_buf)
<1>1. Ahead(placeholder) /\ Piece(writer_buf) /\ writer_buf[1] = p
  BY DEF IInv, Drain
<1>2. Run(writer_buf) /\ writer_buf[1] + m <= h
  BY <1>1 DEF Piece
<1>3. m \in Nat \ {0} /\ n \in Nat /\ 0 < n /\ n <= m
  BY <1>2, RunBegins
<1>4. p \in Nat /\ h \in Nat
  BY DEF IInv, Shapes, write_offset
<1>5. n \in 0 .. m /\ n > 0
  BY <1>3
<1>6. /\ Run(SubSeq(writer_buf, 1, n)) /\ SubSeq(writer_buf, 1, n)[1] = p
      /\ Len(SubSeq(writer_buf, 1, n)) = n
  BY <1>1, <1>2, <1>5, RunCut
<1>7. /\ n < m => Run(writer_buf') /\ writer_buf'[1] = p + n
      /\ Len(writer_buf') = m - n /\ writer_buf' \in Seq(Nat)
  BY <1>1, <1>2, <1>5, RunCut
<1>8. Ahead(placeholder') /\ write_offset' = p + n
  <2>1. p = Len(placeholder) /\ write_offset' = Len(placeholder')
    BY DEF write_offset
  <2> HIDE DEF p
  <2> QED BY <1>1, <1>6, <2>1, AheadGrows
<1>9. PICK k : k = Len(writer_buf')
  OBVIOUS
<1>10. k = m - n
  BY <1>7, <1>9
<1>15. writer_buf' # <<>> => Len(writer_buf') # 0
  BY <1>7
<1>16. writer_buf' # <<>> => k # 0
  BY <1>9, <1>15
<1> HIDE DEF p, h, m
<1>11. p + m <= h
  BY <1>1, <1>2
<1>12. p < p + n /\ p + n <= h /\ (p + n) + k = p + m
  BY <1>3, <1>4, <1>10, <1>11
<1>13. ASSUME writer_buf' # <<>> PROVE Piece(writer_buf') /\ writer_buf'[1] = p + n
  <2>1. n < m
    BY <1>3, <1>10, <1>13, <1>16
  <2>2. Run(writer_buf') /\ writer_buf'[1] = p + n
    BY <1>7, <2>1
  <2>3. writer_buf'[1] + k <= h
    BY <1>4, <1>11, <1>12, <2>2
  <2> QED BY <1>9, <2>2, <2>3 DEF Piece, h
<1>14. placeholder' \in Seq(Nat)
  BY <1>8 DEF Ahead
<1> QED BY <1>7, <1>8, <1>9, <1>12, <1>13, <1>14 DEF p, h, m

\* The writer leaves a vector only when it wrote it all, or somebody failed.
LEMMA WrittenAll ==
  ASSUME IInv, writer = "write", write_offset >= write_size, Healthy
  PROVE  writer_buf = <<>>
<1> SUFFICES ASSUME writer_buf # <<>> PROVE FALSE
  OBVIOUS
<1>1. Piece(writer_buf) /\ writer_buf[1] = write_offset
  BY DEF IInv, Drain
<1>2. Run(writer_buf) /\ write_offset + Len(writer_buf) <= Len(hashed)
  BY <1>1 DEF Piece
<1>3. PICK m \in Nat \ {0} : m = Len(writer_buf)
  BY <1>2, RunBegins
<1>4. PICK h : h = Len(hashed) /\ h \in 0 .. HeaderSize /\ (h > 0 => write_size = HeaderSize)
  BY HashedWithin
<1>5. write_offset + m <= h /\ write_offset \in Nat /\ HeaderSize \in Nat
  BY <1>2, <1>3, <1>4, HashedWithin
<1> QED BY <1>4, <1>5

\* One write, a failed write, or the end of the vector.
LEMMA KeepsWriterWrite == ASSUME IInv, WriterWrite PROVE IInv'
<1>0. /\ TypeOK /\ Shapes /\ Told /\ Waited /\ Feed /\ Inflating /\ Drain /\ Through
      /\ HeaderSize' = HeaderSize /\ Content' = Content /\ \A f : UnitsFrom(f)' = UnitsFrom(f)
      /\ (Healthy' <=> Healthy) /\ writer = "write" /\ write_running
      /\ UNCHANGED <<writerKeeps, decompressor, write_result, write_running, write_buffers, uevent_done>>
  BY SameSizes DEF IInv, WriterWrite, Told, Healthy
<1>1. writer' \in {"write", "exit", "loop"} /\ (writer' # "exit" => writer_rc' = writer_rc)
      /\ (writer' = "exit" => writer_rc' = "fail")
  BY <1>0 DEF WriterWrite, WriterReturns
<1>2. Told'
  BY <1>0, <1>1 DEF Told, Gone
<1>3. Waited'
  BY <1>0 DEF Waited, IsAnyRunning
<1>4. Feed'
  BY <1>0, FeedKept
<1>5. Inflating'
  BY <1>0, InflatingKept
<1>6. Through'
  BY <1>0, <1>1 DEF Through, Gone, Told
<1>7. Success'
  BY <1>0, Unfinished DEF IsAnyRunning
<1> DEFINE n == IF Len(writer_buf) < BufSize THEN Len(writer_buf) ELSE BufSize
<1>13. writer_buf # <<>> => n \in 1 .. Len(writer_buf)
  <2> SUFFICES ASSUME writer_buf # <<>> PROVE n \in 1 .. Len(writer_buf)
    OBVIOUS
  <2>1. writer_buf \in Seq(Nat)
    BY <1>0 DEF Shapes
  <2>2. PICK m : m = Len(writer_buf)
    OBVIOUS
  <2>3. m \in Nat \ {0}
    BY <2>1, <2>2
  <2>4. n = IF m < BufSize THEN m ELSE BufSize
    BY <2>2
  <2> HIDE DEF n
  <2> QED BY <2>2, <2>3, <2>4
<1>8. ASSUME writer_buf # <<>>, Healthy, writer' = writer, writer_rc' = writer_rc,
             placeholder' = placeholder \o SubSeq(writer_buf, 1, n),
             writer_buf' = SubSeq(writer_buf, n + 1, Len(writer_buf))
      PROVE  IInv'
  <2>1. /\ Ahead(placeholder') /\ placeholder' \in Seq(Nat) /\ writer_buf' \in Seq(Nat)
        /\ write_offset < write_offset' /\ write_offset' <= Len(hashed)
        /\ write_offset' + Len(writer_buf') = write_offset + Len(writer_buf)
        /\ writer_buf' # <<>> => Piece(writer_buf') /\ writer_buf'[1] = write_offset'
    BY <1>0, <1>8, <1>13, Writes
  <2>2. write_offset' \in 0 .. HeaderSize
    <3>1. write_offset' \in Nat
      BY <2>1 DEF write_offset
    <3>2. PICK h : h = Len(hashed) /\ h \in 0 .. HeaderSize
      BY HashedWithin
    <3>3. write_offset' <= h /\ HeaderSize \in Nat
      BY <2>1, <3>2, Sizes
    <3> QED BY <3>1, <3>2, <3>3
  <2>3. TypeOK' /\ Shapes'
    BY <1>0, <1>8, <2>1, <2>2 DEF TypeOK, Shapes
  <2>4. Drain'
    <3>1. \A w : Piece(w)' <=> Piece(w)
      BY <1>0 DEF Piece, Run
    <3>2. Unsent' = Unsent
      BY <1>0 DEF Unsent
    <3>3. \A a, b : Chained(write_buffers, a, b, FALSE)' <=> Chained(write_buffers, a, b, FALSE)
      BY <1>0 DEF Chained, Behind
    <3>4. Healthy /\ write_running => Chained(write_buffers, write_offset + Len(writer_buf), Unsent, FALSE)
      BY <1>0 DEF Drain
    <3>5. (Healthy /\ write_running => Chained(write_buffers, write_offset + Len(writer_buf), Unsent, FALSE))'
      BY <1>0, <2>1, <3>2, <3>3, <3>4
    <3>6. Ahead(hashed)' /\ Ahead(placeholder)' /\ write_offset' <= Len(hashed')
      BY <1>0, <2>1 DEF Drain, Ahead
    <3>7. \A i \in 1 .. Len(write_buffers') : Piece(write_buffers[i])'
      BY <1>0, <3>1 DEF Drain
    <3>8. (writer_buf # <<>> => Piece(writer_buf) /\ writer_buf[1] = write_offset)'
      <4>1. PICK w : w = writer_buf'
        OBVIOUS
      <4>2. w # <<>> => Piece(w) /\ w[1] = write_offset'
        BY <2>1, <4>1 DEF Piece, Run
      <4> QED BY <1>0, <4>1, <4>2 DEF Piece, Run
    <3> QED BY <1>0, <1>8, <3>5, <3>6, <3>7, <3>8 DEF Drain
  <2> QED BY <1>2, <1>3, <1>4, <1>5, <1>6, <1>7, <2>3, <2>4 DEF IInv
<1>9. ASSUME UNCHANGED <<placeholder, writer_buf>>,
             \/ writer' = "exit" /\ writer_rc' = "fail"
             \/ writer' = "loop" /\ writer_rc' = writer_rc /\ (writer_buf = <<>> \/ write_offset >= write_size \/ ~Healthy)
      PROVE  IInv'
  <2>1. TypeOK' /\ Shapes'
    BY <1>0, <1>9 DEF TypeOK, Shapes, Labels, Results, write_offset
  <2>2. writer' = "loop" => writer_buf = <<>> \/ ~Healthy
    BY <1>0, <1>9, WrittenAll
  <2>3. Drain'
    <3>1. \A w : Piece(w)' <=> Piece(w)
      BY <1>0 DEF Piece, Run
    <3>2. Unsent' = Unsent /\ write_offset' = write_offset
      BY <1>0, <1>9 DEF Unsent, write_offset
    <3>3. \A a, b : Chained(write_buffers, a, b, FALSE)' <=> Chained(write_buffers, a, b, FALSE)
      BY <1>0 DEF Chained, Behind
    <3>4. writer' \in {"write"} \cup Gone \/ writer_buf' = <<>> \/ ~Healthy'
      BY <1>0, <1>9, <2>2 DEF Gone
    <3> QED BY <1>0, <1>9, <3>1, <3>2, <3>3, <3>4 DEF Drain, Ahead
  <2> QED BY <1>2, <1>3, <1>4, <1>5, <1>6, <1>7, <2>1, <2>3 DEF IInv
<1>10. \/ /\ writer_buf # <<>> /\ Healthy /\ writer' = writer /\ writer_rc' = writer_rc
          /\ placeholder' = placeholder \o SubSeq(writer_buf, 1, n)
          /\ writer_buf' = SubSeq(writer_buf, n + 1, Len(writer_buf))
       \/ /\ UNCHANGED <<placeholder, writer_buf>>
          /\ writer' = "exit" /\ writer_rc' = "fail"
       \/ /\ UNCHANGED <<placeholder, writer_buf>>
          /\ writer' = "loop" /\ writer_rc' = writer_rc
          /\ writer_buf = <<>> \/ write_offset >= write_size \/ ~Healthy
  BY DEF WriterWrite, WriterReturns
<1> HIDE DEF n
<1>11. CASE /\ UNCHANGED <<placeholder, writer_buf>>
            /\ writer' = "exit" /\ writer_rc' = "fail"
  BY <1>9, <1>11
<1>12. CASE /\ UNCHANGED <<placeholder, writer_buf>>
            /\ writer' = "loop" /\ writer_rc' = writer_rc
            /\ writer_buf = <<>> \/ write_offset >= write_size \/ ~Healthy
  BY <1>9, <1>12
<1> QED BY <1>8, <1>10, <1>11, <1>12

\* SetWriteResult.
LEMMA KeepsWriterResult == ASSUME IInv, WriterResult PROVE IInv'
<1> USE DEF WriterResult, WakeAllThreads
<1>0. TypeOK /\ Told /\ Waited
  BY DEF IInv
<1>1. writer' = "dead" /\ Awake(reader, reader') /\ Awake(decompressor, decompressor')
  BY Wakes
<1>2. Healthy' => Healthy
  BY <1>0, Sickens DEF Told
<1>3. Told'
  BY <1>0, <1>1 DEF Told, Gone, Awake
<1>4. Waited'
  BY <1>0, <1>1, <1>2 DEF Waited, IsAnyRunning, Told, Awake, Healthy
<1>5. write_result' \in Results /\ uevent_done' \in BOOLEAN
  BY <1>0 DEF TypeOK
<1> QED BY <1>0, <1>1, <1>2, <1>3, <1>4, <1>5, Ends DEF TypeOK

\* All steps of the writer keep the invariant.
LEMMA KeepsWriter == ASSUME IInv, Writer PROVE IInv'
BY KeepsWriterLoop, KeepsWriterTest, KeepsWriterEnd, KeepsWriterWrite, KeepsWriterResult DEF Writer

-------------------------------------------------------------------------------
(* Steps of the installing thread and of the user *)

\* A thread is left where it is, or started.
Started(old, new) == new = old \/ (old = "idle" /\ new = "loop")

\* The installing thread touches nothing of the other three.
LEMMA MainKept ==
  ASSUME IInv, UNCHANGED mainKeeps, Started(reader, reader'), Started(decompressor, decompressor'),
         Started(writer, writer'), verify' \in BOOLEAN,
         main' \in {"start", "start2", "start3", "waiting", "teardown", "result", "join", "done"},
         returned' \in Results \cup {"none"}
  PROVE  /\ TypeOK' /\ Shapes' /\ Told' /\ Feed' /\ Inflating' /\ Drain' /\ Through'
         /\ Held' = Held /\ Content' = Content /\ write_offset' = write_offset
         /\ (IsAnyRunning' <=> IsAnyRunning) /\ (Healthy' <=> Healthy)
<1> USE DEF Started
<1>0. /\ TypeOK /\ Shapes /\ Told /\ Waited /\ Feed /\ Inflating /\ Drain /\ Through
      /\ HeaderSize' = HeaderSize /\ Content' = Content /\ \A f : UnitsFrom(f)' = UnitsFrom(f)
      /\ (Healthy' <=> Healthy) /\ write_offset' = write_offset /\ (IsAnyRunning' <=> IsAnyRunning)
  BY SameSizes DEF IInv, Healthy, write_offset, IsAnyRunning
<1>1. TypeOK' /\ Shapes'
  BY <1>0 DEF TypeOK, Shapes, Labels
<1>2. Told'
  BY <1>0 DEF Told, Gone
<1>3. Feed'
  BY <1>0, FeedKept DEF Holding
<1>4. Inflating'
  BY <1>0, InflatingKept DEF Gone, Sending
<1>5. Drain'
  BY <1>0, DrainKept DEF Gone, Sending
<1>6. Through'
  BY <1>0 DEF Through, Gone
<1>7. Held' = Held
  BY <1>0 DEF Held
<1> QED BY <1>0, <1>1, <1>2, <1>3, <1>4, <1>5, <1>6, <1>7

\* The thread starts, a start that fails, and the wait for the end.
LEMMA KeepsMainStarts == ASSUME IInv, MainStarts \/ MainStartFails \/ MainWaits PROVE IInv'
<1> USE DEF MainStarts, MainStartFails, MainWaits
<1>0. TypeOK /\ Shapes /\ Told /\ Waited /\ Success
  BY DEF IInv
<1>1. returned = "none"
  BY <1>0 DEF Waited
<1>2. returned' \in {"none", "fail"} /\ verify' = verify /\ UNCHANGED mainKeeps
  BY <1>1
<1>3. Started(reader, reader') /\ Started(decompressor, decompressor') /\ Started(writer, writer')
  BY <1>0 DEF Started, Waited
<1>4. main' \in {"start2", "start3", "waiting", "join", "teardown"}
  OBVIOUS
<1>5. /\ TypeOK' /\ Shapes' /\ Told' /\ Feed' /\ Inflating' /\ Drain' /\ Through'
      /\ (IsAnyRunning' <=> IsAnyRunning) /\ (Healthy' <=> Healthy)
  BY <1>0, <1>2, <1>3, <1>4, MainKept DEF Shapes, Results
<1>6. Waited'
  BY <1>0, <1>1, <1>5 DEF Waited, Results
<1>7. Success'
  BY <1>2 DEF Success
<1> QED BY <1>5, <1>6, <1>7 DEF IInv

\* The loop that wakes the threads until none runs.
LEMMA KeepsMainTeardown == ASSUME IInv, MainTeardown PROVE IInv'
<1>0. /\ TypeOK /\ Shapes /\ Told /\ Waited /\ Success /\ main = "teardown"
      /\ UNCHANGED <<mainKeeps, outcome>>
  BY DEF IInv, MainTeardown
<1>1. CASE IsAnyRunning
  <2> USE <1>1 DEF MainTeardown, WakeAllThreads
  <2>1. Awake(reader, reader') /\ Awake(decompressor, decompressor') /\ Awake(writer, writer') /\ main' = main
    BY Wakes
  <2>2. Healthy' <=> Healthy
    BY <1>0 DEF Healthy
  <2>3. Told'
    BY <1>0, <2>1 DEF Told, Gone, Awake
  <2>4. Waited'
    BY <1>0, <2>1, <2>2 DEF Waited, Awake
  <2> QED BY <1>0, <2>1, <2>2, <2>3, <2>4, Ends DEF TypeOK
<1>2. CASE ~IsAnyRunning
  <2>1. main' = "result" /\ UNCHANGED <<reader, decompressor, writer>>
    BY <1>2 DEF MainTeardown
  <2>2. /\ TypeOK' /\ Shapes' /\ Told' /\ Feed' /\ Inflating' /\ Drain' /\ Through' /\ Held' = Held
        /\ (IsAnyRunning' <=> IsAnyRunning) /\ (Healthy' <=> Healthy)
    BY <1>0, <2>1, MainKept DEF Started, Shapes, TypeOK
  <2>3. Waited'
    BY <1>0, <1>2, <2>1, <2>2 DEF Waited
  <2>4. Success'
    BY <1>0 DEF Waited, Success
  <2> QED BY <2>2, <2>3, <2>4 DEF IInv
<1> QED BY <1>1, <1>2

\* Once all have ended and nobody failed, everything that was held is hashed.
LEMMA AllHashed ==
  ASSUME IInv, Healthy, ~read_running, ~decompress_running
  PROVE  Len(hashed) = Held
<1>0. Told /\ Feed /\ Inflating /\ Through /\ TypeOK
  BY DEF IInv
<1>1. reader \in Gone /\ decompressor \in Gone
  BY <1>0 DEF Told, Gone
<1>2. CASE decomp_rc = "fail"
  BY <1>2 DEF Held
<1>3. CASE decomp_rc # "fail"
  <2>0. decomp_rc = "ok" /\ reader_rc \in {"ok", "fail"}
    BY <1>0, <1>3 DEF TypeOK, Results
  <2>1. /\ inflate_buf = <<>>
        /\ decompress_offset = HeaderSize \/ decompress_offset = UnitsFrom(read_offset)
    BY <1>0, <1>1, <2>0 DEF Through
  <2>2. Len(hashed) + 0 = decompress_offset
    BY <1>0, <2>1 DEF Inflating
  <2>3. Len(hashed) = decompress_offset
    BY <2>2 DEF IInv, Shapes
  <2>4. PICK f \in Nat : f <= read_offset /\ UnitsFrom(f) = decompress_offset
    BY <1>0 DEF Feed, Fed
  <2>5. read_offset \in Nat /\ read_offset <= read_offset
    BY <1>0 DEF TypeOK
  <2>6. UnitsFrom(f) <= UnitsFrom(read_offset)
    BY <2>4, <2>5, UnitsGrow
  <2>7. UnitsFrom(f) \in 0 .. HeaderSize /\ UnitsFrom(read_offset) \in 0 .. HeaderSize
    BY <2>4, <2>5, Within
  <2>8. decompress_offset = UnitsFrom(read_offset)
    BY <2>1, <2>4, <2>6, <2>7, Sizes
  <2>9. Held = UnitsFrom(read_offset)
    BY <1>0, <1>1, <2>0 DEF Held, Through
  <2> QED BY <2>3, <2>8, <2>9
<1> QED BY <1>2, <1>3

\* The results and the hash: a success needs all that was held.
LEMMA KeepsMainResult == ASSUME IInv, MainResult PROVE IInv'
<1>0. /\ TypeOK /\ Shapes /\ Told /\ Waited /\ Inflating /\ Through /\ main = "result" /\ main' = "join"
      /\ UNCHANGED <<mainKeeps, reader, decompressor, writer>>
  BY DEF IInv, MainResult
<1>1. returned' \in Results /\ verify' \in BOOLEAN /\ ~IsAnyRunning
  BY <1>0 DEF MainResult, Results, Shapes, Waited
<1>2. /\ TypeOK' /\ Shapes' /\ Told' /\ Feed' /\ Inflating' /\ Drain' /\ Through' /\ Held' = Held
      /\ Content' = Content /\ write_offset' = write_offset
      /\ (IsAnyRunning' <=> IsAnyRunning) /\ (Healthy' <=> Healthy)
  BY <1>0, <1>1, MainKept DEF Started
<1>3. Waited'
  BY <1>0, <1>1, <1>2 DEF Waited, Results
<1>4. ASSUME returned' = "ok"
      PROVE  /\ write_offset = Len(hashed) /\ Len(hashed) = Held
             /\ verify' => hashed = Content
  <2>1. Healthy /\ (verify' => nca_hash = Content)
    BY <1>4 DEF MainResult
  <2>2. writer = "dead" /\ writer_rc = "ok"
    BY <1>0, <2>1 DEF Waited, Healthy, Told
  <2>3. write_offset = Len(hashed)
    BY <1>0, <2>1, <2>2 DEF Through, Gone
  <2>4. Len(hashed) = Held
    BY <1>1, <2>1, AllHashed DEF IsAnyRunning
  <2>5. Content # <<>>
    <3>1. HeaderSize \in Nat \ {0}
      BY Sizes
    <3>2. Content \in [1 .. HeaderSize -> Int] /\ 1 \in 1 .. HeaderSize
      BY <3>1 DEF Content
    <3>3. Content \in Seq(Int) /\ Len(Content) = HeaderSize
      BY <3>1, <3>2
    <3> QED BY <3>1, <3>3
  <2> QED BY <1>0, <2>1, <2>3, <2>4, <2>5 DEF Inflating
<1>5. Success'
  BY <1>0, <1>1, <1>2, <1>4 DEF Success
<1> QED BY <1>2, <1>3, <1>5 DEF IInv

\* The joins.
LEMMA KeepsMainJoin == ASSUME IInv, MainJoin PROVE IInv'
<1>0. /\ TypeOK /\ Shapes /\ Told /\ Waited /\ Success /\ main = "join" /\ main' = "done"
      /\ {reader, decompressor, writer} \subseteq {"idle", "dead"}
      /\ UNCHANGED <<mainKeeps, reader, decompressor, writer, outcome>>
  BY DEF IInv, MainJoin
<1>1. /\ TypeOK' /\ Shapes' /\ Told' /\ Feed' /\ Inflating' /\ Drain' /\ Through' /\ Held' = Held
      /\ Content' = Content /\ write_offset' = write_offset
      /\ (IsAnyRunning' <=> IsAnyRunning) /\ (Healthy' <=> Healthy)
  BY <1>0, MainKept DEF Started, Shapes, TypeOK
<1>2. Waited'
  BY <1>0, <1>1 DEF Waited
<1>3. Success'
  BY <1>0, <1>1 DEF Success
<1> QED BY <1>1, <1>2, <1>3 DEF IInv

\* A cancel stops everything that follows from nobody having failed.
LEMMA KeepsCancel == ASSUME IInv, Cancel PROVE IInv'
<1> USE DEF Cancel
<1>0. /\ TypeOK /\ Shapes /\ Told /\ Waited /\ Feed /\ Inflating /\ Drain /\ Through /\ Success
      /\ HeaderSize' = HeaderSize /\ Content' = Content /\ \A f : UnitsFrom(f)' = UnitsFrom(f)
      /\ write_offset' = write_offset
  BY SameSizes DEF IInv, write_offset
<1>1. ~Healthy'
  BY DEF Healthy
<1>2. TypeOK' /\ Shapes'
  BY <1>0 DEF TypeOK, Shapes
<1>3. Told'
  BY <1>0 DEF Told, Gone
<1>4. Waited'
  BY <1>0, <1>1 DEF Waited, IsAnyRunning
<1>5. Feed' /\ Inflating' /\ Drain'
  BY <1>0, <1>1, FeedKept, InflatingKept, DrainKept
<1>6. Through' /\ Held' = Held
  BY <1>0, <1>1 DEF Through, Held
<1>7. Success'
  BY <1>0, <1>6 DEF Success, IsAnyRunning
<1> QED BY <1>2, <1>3, <1>4, <1>5, <1>6, <1>7 DEF IInv

\* A step that changes nothing.
LEMMA KeepsStutter == ASSUME IInv, UNCHANGED vars PROVE IInv'
<1> USE DEF vars
<1>0. /\ TypeOK /\ Shapes /\ Told /\ Waited /\ Feed /\ Inflating /\ Drain /\ Through /\ Success
  BY DEF IInv
<1>1. /\ TypeOK' /\ Shapes' /\ Told' /\ Feed' /\ Inflating' /\ Drain' /\ Through' /\ Held' = Held
      /\ Content' = Content /\ write_offset' = write_offset
      /\ (IsAnyRunning' <=> IsAnyRunning) /\ (Healthy' <=> Healthy)
  BY <1>0, MainKept DEF Started, Shapes, TypeOK
<1>2. Waited'
  BY <1>0, <1>1 DEF Waited
<1>3. Success'
  BY <1>0, <1>1 DEF Success
<1> QED BY <1>1, <1>2, <1>3 DEF IInv

-------------------------------------------------------------------------------
(* The theorems *)

\* The invariant holds when the pipeline is set up.
LEMMA Starts == ASSUME Init PROVE IInv
<1>1. /\ ncz \in BOOLEAN /\ verify = FALSE /\ source_end \in 0 .. NcaSize
      /\ reader = "idle" /\ decompressor = "idle" /\ writer = "idle" /\ main = "start"
      /\ reader_rc = "ok" /\ decomp_rc = "ok" /\ writer_rc = "ok"
      /\ read_offset = 0 /\ decompress_offset = 0 /\ write_size = NcaSize
      /\ read_result = "ok" /\ decompress_result = "ok" /\ write_result = "ok"
      /\ read_running = TRUE /\ decompress_running = TRUE /\ write_running = TRUE
      /\ uevent_done = FALSE /\ cancelled = FALSE /\ returned = "none" /\ flushing = FALSE
  BY DEF Init
<1>2. /\ reader_buf = <<>> /\ decomp_buf = <<>> /\ inflate_buf = <<>> /\ outgoing = <<>> /\ writer_buf = <<>>
      /\ read_buffers = <<>> /\ write_buffers = <<>> /\ hashed = <<>> /\ nca_hash = <<>> /\ placeholder = <<>>
  BY DEF Init
<1>3. /\ <<>> \in Seq(Nat) /\ <<>> \in Seq(Seq(Nat)) /\ Len(<<>>) = 0 /\ write_offset = 0
      /\ HeaderSize \in Nat \ {0} /\ UnitsFrom(0) = 0 /\ FlushSize \in Nat \ {0}
  BY <1>2, Sizes DEF write_offset
<1>4. Shapes
  BY <1>1, <1>2, <1>3 DEF Shapes
<1>5. TypeOK
  <2>1. /\ Len(read_buffers) <= Slots /\ Len(write_buffers) <= Slots
        /\ Len(reader_buf) <= BufSize /\ Len(decomp_buf) <= BufSize
        /\ Len(inflate_buf) < 2 * FlushSize
    BY <1>2, <1>3
  <2>2. read_offset \in 0 .. NcaSize /\ decompress_offset \in 0 .. HeaderSize /\ write_offset \in 0 .. HeaderSize
    BY <1>1, <1>3
  <2> QED BY <1>1, <2>1, <2>2 DEF TypeOK, Labels, Results
<1>6. Told /\ Waited /\ Through /\ Success
  BY <1>1 DEF Told, Waited, Through, Success, Gone, Healthy
<1>7. Feed
  <2>1. Read
    BY <1>1, <1>2, <1>3 DEF Read, Holding
  <2>2. Fed(0)
    BY <1>1, <1>2, <1>3, Emptied DEF Fed, Unread, Holding
  <2> QED BY <2>1, <2>2 DEF Feed
<1>8. Inflating
  BY <1>1, <1>2, <1>3 DEF Inflating, Sending
<1>9. Drain
  <2>1. Ahead(<<>>)
    BY <1>3 DEF Ahead
  <2>2. write_offset + Len(writer_buf) = Len(hashed) /\ Unsent = Len(hashed)
    BY <1>1, <1>2, <1>3 DEF Unsent, Sending
  <2>3. Chained(write_buffers, write_offset + Len(writer_buf), Unsent, FALSE)
    BY <1>2, <2>2, Emptied
  <2>4. Ahead(hashed) /\ Ahead(placeholder)
    BY <1>2, <2>1
  <2>5. write_offset <= Len(hashed) /\ \A i \in 1 .. Len(write_buffers) : Piece(write_buffers[i])
    BY <1>2, <1>3
  <2> QED BY <1>1, <1>2, <2>3, <2>4, <2>5 DEF Drain
<1> QED BY <1>4, <1>5, <1>6, <1>7, <1>8, <1>9 DEF IInv

\* Every step keeps the invariant.
LEMMA Steps == ASSUME IInv, [Next]_vars PROVE IInv'
<1>1. CASE Main
  BY <1>1, KeepsMainStarts, KeepsMainTeardown, KeepsMainResult, KeepsMainJoin DEF Main
<1> QED BY <1>1, KeepsReader, KeepsDecompressor, KeepsWriter, KeepsCancel, KeepsStutter DEF Next, Finished

\* Whatever each thread holds, reads, hashes or writes follows what the next one took, and a thread that
\* ended without an error while nobody failed left nothing behind: the rings, readFuncInternal,
\* decompressFuncInternal and writeFuncInternal together.
THEOREM Invariance == Spec => []IInv
BY Starts, Steps, PTL DEF Spec

\* The rings keep to their slots, what gathers for a flush stays below twice INFLATE_BUFFER_MAX, and nothing
\* is written past the size the header states.
THEOREM Typing == Spec => []TypeOK
<1>1. IInv => TypeOK
  BY DEF IInv
<1> QED BY <1>1, Invariance, PTL

\* A hashed NCA that was reported as a success lies complete in its placeholder (the comparison with the
\* content id, against what writeFuncInternal wrote).
THEOREM Verification == Spec => []VerifiedIsComplete
<1>1. ASSUME IInv, returned = "ok", verify PROVE placeholder = Content
  <2>1. hashed = Content /\ write_offset = Len(hashed)
    BY <1>1 DEF IInv, Success
  <2>2. HeaderSize \in Nat \ {0}
    BY Sizes
  <2>3. placeholder \in Seq(Nat) /\ \A i \in 1 .. Len(placeholder) : placeholder[i] = i - 1
    BY <1>1 DEF IInv, Drain, Ahead
  <2>4. Content \in [1 .. HeaderSize -> Int]
    BY <2>2 DEF Content
  <2>5. Len(Content) = HeaderSize
    BY <2>2, <2>4
  <2>6. Len(placeholder) = HeaderSize
    BY <2>1, <2>5 DEF write_offset
  <2>7. placeholder = [i \in 1 .. HeaderSize |-> placeholder[i]]
    BY <2>3, <2>6
  <2> QED BY <2>2, <2>3, <2>6, <2>7 DEF Content
<1>2. IInv => VerifiedIsComplete
  BY <1>1 DEF VerifiedIsComplete
<1> QED BY <1>2, Invariance, PTL

-------------------------------------------------------------------------------
(* The promise *)

Sink == [i \in 0 .. LargestSize - 1 |-> IF i < write_offset THEN placeholder[i + 1] ELSE LargestSize]
Reported == IF main = "done" THEN returned ELSE "none"

\* What the promise sees of a state.
promised == <<Held, Sink, Reported>>

AsPromised ==
  /\ Sink = Promise!Prefix(write_offset)
  /\ write_offset \in Nat /\ write_offset <= Len(hashed)
  /\ Len(hashed) \in Nat /\ Len(hashed) <= Held
  /\ Held \in 0 .. LargestSize

\* Nothing is written that was not hashed, hashed that was not read, or read that is not there.
LEMMA InBounds ==
  ASSUME IInv
  PROVE  /\ write_offset <= Len(hashed) /\ Len(hashed) <= UnitsFrom(read_offset)
         /\ UnitsFrom(read_offset) <= UnitsFrom(source_end) /\ UnitsFrom(source_end) <= HeaderSize
         /\ {write_offset, Len(hashed), UnitsFrom(read_offset), UnitsFrom(source_end)} \subseteq Nat
<1>1. /\ read_offset \in Nat /\ source_end \in Nat /\ NcaSize \in Nat
      /\ read_offset <= source_end /\ source_end <= NcaSize
  BY DEF IInv, TypeOK, Feed, Read
<1>2. /\ UnitsFrom(read_offset) <= UnitsFrom(source_end) /\ UnitsFrom(source_end) <= HeaderSize
      /\ UnitsFrom(read_offset) \in Nat /\ UnitsFrom(source_end) \in Nat
  BY <1>1, UnitsGrow, Sizes
<1>3. PICK f \in Nat : f <= read_offset /\ UnitsFrom(f) = decompress_offset
  BY DEF IInv, Feed, Fed
<1>4. decompress_offset <= UnitsFrom(read_offset) /\ decompress_offset \in Nat
  BY <1>1, <1>3, UnitsGrow, Sizes
<1>5. PICK k \in Nat : k = Len(inflate_buf)
  BY DEF IInv, Shapes
<1>6. PICK h \in Nat : h = Len(hashed)
  BY DEF IInv, Shapes
<1>7. h + k = decompress_offset
  BY <1>5, <1>6 DEF IInv, Inflating
<1>8. h <= UnitsFrom(read_offset)
  BY <1>2, <1>4, <1>7
<1>9. write_offset <= Len(hashed) /\ write_offset \in Nat
  BY DEF IInv, Drain, Shapes, write_offset
<1> QED BY <1>2, <1>6, <1>8, <1>9

\* In every state the placeholder holds a beginning of what the promise counts.
LEMMA Promises == ASSUME IInv PROVE AsPromised
<1>1. PICK h \in Nat : h = Len(hashed)
  BY DEF IInv, Shapes
<1>2. PICK r \in Nat, e \in Nat : r = UnitsFrom(read_offset) /\ e = UnitsFrom(source_end)
  BY InBounds
<1>3. h <= r /\ r <= e /\ e <= HeaderSize /\ write_offset <= Len(hashed) /\ write_offset \in Nat
  BY <1>1, <1>2, InBounds
<1>4. Held \in {h, r, e}
  BY <1>1, <1>2 DEF Held
<1>5. HeaderSize <= LargestSize /\ LargestSize \in Nat /\ HeaderSize \in Nat
  BY Sizes DEF LargestSize, HeaderSize
<1>6. Held \in 0 .. LargestSize /\ h <= Held
  BY <1>3, <1>4, <1>5
<1>7. Sink = Promise!Prefix(write_offset)
  <2>1. ASSUME NEW i \in 0 .. LargestSize - 1, i < write_offset PROVE placeholder[i + 1] = i
    <3>1. i + 1 \in 1 .. Len(placeholder)
      BY <1>3, <2>1 DEF write_offset
    <3>2. placeholder[i + 1] = (i + 1) - 1
      BY <3>1 DEF IInv, Drain, Ahead
    <3> QED BY <2>1, <3>2
  <2> QED BY <2>1 DEF Sink, Promise!Prefix
<1> QED BY <1>1, <1>3, <1>6, <1>7 DEF AsPromised

\* A step that brings more into the placeholder, or lets a failure take back what was held, is one of the
\* promise's.
LEMMA Advances ==
  ASSUME AsPromised, AsPromised', UNCHANGED <<ncz, source_end, main, returned>>, Reported = "none",
         \/ Held' = Held /\ write_offset <= write_offset'
         \/ Held' <= Held /\ placeholder' = placeholder
  PROVE  UNCHANGED promised \/ Promise!DeliverMore \/ Promise!SourceBreaks
<1>1. LargestSize' = LargestSize /\ Reported' = Reported
  BY DEF LargestSize, NczSize, Reported
<1>2. PICK k, n : k = write_offset /\ n = write_offset'
  OBVIOUS
<1>3. Sink = Promise!Prefix(k) /\ Sink' = Promise!Prefix(n)
  BY <1>1, <1>2 DEF AsPromised, Promise!Prefix
<1>4. PICK h, g : h = Len(hashed) /\ g = Len(hashed')
  OBVIOUS
<1>5. k \in Nat /\ h \in Nat /\ k <= h /\ h <= Held /\ Held \in Nat
  BY <1>2, <1>4 DEF AsPromised
<1>6. n \in Nat /\ g \in Nat /\ n <= g /\ g <= Held' /\ Held' \in Nat
  BY <1>2, <1>4 DEF AsPromised
<1>7. CASE Held' = Held /\ k = n
  BY <1>1, <1>3, <1>7 DEF promised
<1>8. CASE Held' = Held /\ k < n
  <2>1. k \in 0 .. Held /\ n \in 0 .. Held
    BY <1>5, <1>6, <1>8
  <2> QED BY <1>1, <1>3, <1>8, <2>1 DEF Promise!DeliverMore, Reported, Sink
<1>9. CASE Held' <= Held /\ placeholder' = placeholder
  <2>1. k = n
    BY <1>2, <1>9 DEF write_offset
  <2>2. k \in 0 .. Held /\ Held' \in 0 .. Held /\ k <= Held'
    BY <1>5, <1>6, <1>9, <2>1
  <2>3. Sink' = Sink
    BY <1>3, <2>1
  <2> QED BY <1>1, <1>3, <2>2, <2>3 DEF Promise!SourceBreaks, Reported, Sink
<1> QED BY <1>2, <1>5, <1>6, <1>7, <1>8, <1>9

\* A reader that fails takes back what it did not read.
LEMMA ReaderPromises ==
  ASSUME IInv, AsPromised, AsPromised', Reader
  PROVE  UNCHANGED promised \/ Promise!DeliverMore \/ Promise!SourceBreaks
<1>1. UNCHANGED <<environment, main, decompVars, placeholder, returned>>
  BY DEF Reader, ReaderLoop, ReaderRead, ReaderTest, ReaderPark, ReaderExit, ReaderResult
<1>2. main # "done"
  BY DEF IInv, Waited, Reader, ReaderLoop, ReaderRead, ReaderTest, ReaderPark, ReaderExit, ReaderResult
<1>3. reader_rc = "ok" \/ UNCHANGED <<reader_rc, read_offset>>
  BY DEF IInv, Told, Gone, Reader, ReaderLoop, ReaderRead, ReaderTest, ReaderPark, ReaderExit, ReaderResult
<1>4. reader_rc' # "fail" \/ read_offset' = read_offset
  BY <1>3 DEF Reader, ReaderLoop, ReaderRead, ReaderTest, ReaderPark, ReaderExit, ReaderResult
<1>5. \A f : UnitsFrom(f)' = UnitsFrom(f)
  BY <1>1, SameSizes
<1>6. PICK r, e : r = UnitsFrom(read_offset) /\ e = UnitsFrom(source_end)
  OBVIOUS
<1>7. r \in Nat /\ e \in Nat /\ r <= e
  BY <1>6, InBounds
<1>8. reader_rc = "fail" => reader_rc' = "fail" /\ read_offset' = read_offset
  BY <1>3
<1>9. Held' = Held \/ (Held = e /\ Held' = r)
  <2>1. CASE decomp_rc = "fail"
    BY <1>1, <2>1 DEF Held
  <2>2. CASE decomp_rc # "fail" /\ reader_rc = "fail"
    BY <1>1, <1>5, <1>8, <2>2 DEF Held
  <2>3. CASE decomp_rc # "fail" /\ reader_rc # "fail"
    <3>1. Held = e /\ decomp_rc' # "fail"
      BY <1>1, <1>6, <2>3 DEF Held
    <3>2. reader_rc' = "fail" => Held' = r
      BY <1>4, <1>5, <1>6, <3>1 DEF Held
    <3>3. reader_rc' # "fail" => Held' = e
      BY <1>1, <1>5, <1>6, <3>1 DEF Held
    <3> QED BY <3>1, <3>2, <3>3
  <2> QED BY <2>1, <2>2, <2>3
<1>10. Held' <= Held
  <2>1. Held \in 0 .. LargestSize /\ LargestSize \in Nat
    BY Sizes DEF AsPromised, LargestSize
  <2> QED BY <1>7, <1>9, <2>1
<1> QED BY <1>1, <1>2, <1>10, Advances DEF Reported

\* A decompressor that fails takes back what it did not hash.
LEMMA DecompPromises ==
  ASSUME IInv, AsPromised, AsPromised', Decompressor
  PROVE  UNCHANGED promised \/ Promise!DeliverMore \/ Promise!SourceBreaks
<1> USE DEF Decompressor, DecompLoop, DecompTest, DecompPark, DecompHeader, DecompPass, DecompInflate, DecompPut,
            DecompExit, DecompResult
<1>1. UNCHANGED <<environment, main, reader_rc, read_offset, placeholder, returned>>
  OBVIOUS
<1>2. main # "done"
  BY DEF IInv, Waited
<1>3. decomp_rc = "ok" \/ UNCHANGED <<decomp_rc, hashed>>
  BY DEF IInv, Told, Gone
<1>4. decomp_rc' # "fail" \/ hashed' = hashed
  BY <1>3 DEF DecompLeavesLoop, DecompReturns, DecompAfterPut
<1>5. \A f : UnitsFrom(f)' = UnitsFrom(f)
  BY <1>1, SameSizes
<1>6. Held' = Held \/ (decomp_rc' = "fail" /\ Held' = Len(hashed))
  <2>1. CASE decomp_rc = "fail"
    BY <1>3, <2>1 DEF Held
  <2>2. CASE decomp_rc # "fail" /\ decomp_rc' = "fail"
    BY <1>4, <2>2 DEF Held
  <2>3. CASE decomp_rc # "fail" /\ decomp_rc' # "fail"
    BY <1>1, <1>5, <2>3 DEF Held
  <2> QED BY <2>1, <2>2, <2>3
<1>7. Held' <= Held
  <2>1. Held \in 0 .. LargestSize /\ LargestSize \in Nat
    BY Sizes DEF AsPromised, LargestSize
  <2>2. Held <= Held /\ Len(hashed) <= Held
    BY <2>1 DEF AsPromised
  <2> QED BY <1>6, <2>2
<1> QED BY <1>1, <1>2, <1>7, Advances DEF Reported

\* The writer delivers.
LEMMA WriterPromises ==
  ASSUME IInv, AsPromised, AsPromised', Writer
  PROVE  UNCHANGED promised \/ Promise!DeliverMore \/ Promise!SourceBreaks
<1> USE DEF Writer, WriterLoop, WriterTest, WriterPark, WriterWrite, WriterExit, WriterResult
<1>1. UNCHANGED <<environment, main, reader_rc, read_offset, decomp_rc, hashed, returned>>
  OBVIOUS
<1>2. main # "done"
  BY DEF IInv, Waited
<1>3. Held' = Held
  <2>1. \A f : UnitsFrom(f)' = UnitsFrom(f)
    BY <1>1, SameSizes
  <2> QED BY <1>1, <2>1 DEF Held
<1>4. write_offset <= write_offset'
  <2>1. CASE placeholder' = placeholder
    BY <2>1 DEF AsPromised, write_offset
  <2>2. CASE placeholder' # placeholder
    <3> DEFINE n == IF Len(writer_buf) < BufSize THEN Len(writer_buf) ELSE BufSize
    <3>1. placeholder' = placeholder \o SubSeq(writer_buf, 1, n)
      BY <2>2
    <3>2. writer_buf \in Seq(Nat) /\ placeholder \in Seq(Nat)
      BY DEF IInv, Shapes
    <3>3. PICK m \in Nat : m = Len(writer_buf)
      BY <3>2
    <3>4. n \in 0 .. m
      BY <3>3
    <3> HIDE DEF n
    <3>5. SubSeq(writer_buf, 1, n) \in Seq(Nat)
      BY <3>2, <3>3, <3>4
    <3>6. PICK s \in Seq(Nat) : s = SubSeq(writer_buf, 1, n)
      BY <3>5
    <3>7. Len(placeholder') = Len(placeholder) + Len(s) /\ Len(s) \in Nat /\ Len(placeholder) \in Nat
      BY <3>1, <3>2, <3>6
    <3>8. PICK p \in Nat, q \in Nat : p = Len(placeholder) /\ q = Len(s)
      BY <3>7
    <3>9. Len(placeholder') = p + q /\ p <= p + q
      BY <3>7, <3>8
    <3> QED BY <3>8, <3>9 DEF write_offset
  <2> QED BY <2>1, <2>2
<1> QED BY <1>1, <1>2, <1>3, <1>4, Advances DEF Reported

\* Only behind the joins does the promise see the result.
LEMMA MainPromises ==
  ASSUME IInv, AsPromised, AsPromised', Main
  PROVE  UNCHANGED promised \/ Promise!Succeed \/ Promise!Fail
<1>1. UNCHANGED mainKeeps
  BY DEF Main, MainStarts, MainStartFails, MainWaits, MainTeardown, MainResult, MainJoin
<1>2. Held' = Held /\ LargestSize' = LargestSize
  <2>1. \A f : UnitsFrom(f)' = UnitsFrom(f)
    BY <1>1, SameSizes
  <2> QED BY <1>1, <2>1 DEF Held, LargestSize, NczSize
<1>3. Sink' = Sink
  BY <1>1, <1>2 DEF Sink, write_offset
<1>4. CASE MainStarts \/ MainStartFails \/ MainWaits \/ MainTeardown \/ MainResult
  <2>1. main # "done" /\ main' # "done"
    BY <1>4 DEF MainStarts, MainStartFails, MainWaits, MainTeardown, MainResult
  <2> QED BY <1>2, <1>3, <2>1 DEF promised, Reported
<1>5. CASE MainJoin
  <2>1. main = "join" /\ main' = "done" /\ returned' = returned
    BY <1>5 DEF MainJoin
  <2>2. returned \in {"ok", "fail"}
    BY <2>1 DEF IInv, Waited, TypeOK, Results
  <2>3. returned = "ok" => Sink = Promise!Prefix(Held)
    BY DEF IInv, Success, AsPromised
  <2> QED BY <1>2, <1>3, <2>1, <2>2, <2>3 DEF Promise!Succeed, Promise!Fail, Reported, Sink
<1> QED BY <1>4, <1>5 DEF Main

\* The three threads implement Delivery: whatever the sizes, the format and the faults, a step writes more
\* of what is held behind the placeholder, gives up what a failed thread did not pass on, reports the result, or changes
\* nothing that the promise sees.
THEOREM Refinement == Spec => KeepsPromise
<1> DEFINE PNext == Promise!DeliverMore \/ Promise!SourceBreaks \/ Promise!Succeed \/ Promise!Fail
<1>1. Init => Promise!Init
  <2> SUFFICES ASSUME Init PROVE Promise!Init
    OBVIOUS
  <2>1. AsPromised
    BY Starts, Promises
  <2>2. write_offset = 0 /\ Reported = "none"
    BY DEF Init, write_offset, Reported
  <2>3. Sink = Promise!Prefix(0) /\ Held \in 0 .. LargestSize
    BY <2>1, <2>2 DEF AsPromised
  <2> QED BY <2>2, <2>3 DEF Promise!Init, Sink, Reported
<1>2. IInv /\ AsPromised /\ AsPromised' /\ [Next]_vars => [PNext]_promised
  <2> SUFFICES ASSUME IInv, AsPromised, AsPromised', [Next]_vars PROVE [PNext]_promised
    OBVIOUS
  <2>1. CASE Reader \/ Decompressor \/ Writer
    BY <2>1, ReaderPromises, DecompPromises, WriterPromises
  <2>2. CASE Main
    BY <2>2, MainPromises
  <2>3. CASE Cancel \/ Finished \/ UNCHANGED vars
    <3>1. UNCHANGED <<ncz, source_end, main, returned, decomp_rc, hashed, reader_rc, read_offset, placeholder>>
      BY <2>3 DEF Cancel, Finished, vars
    <3>2. \A f : UnitsFrom(f)' = UnitsFrom(f)
      BY <3>1, SameSizes
    <3> QED BY <3>1, <3>2 DEF promised, Held, Sink, Reported, LargestSize, NczSize, write_offset
  <2> QED BY <2>1, <2>2, <2>3 DEF Next
<1>3. IInv => AsPromised
  BY Promises
<1> QED BY <1>1, <1>2, <1>3, Invariance, PTL
    DEF Spec, KeepsPromise, Promise!Spec, promised, Sink, Reported

-------------------------------------------------------------------------------
(* Threads that sleep *)

\* What a thread that sleeps, or is about to, waits for: nobody moves a vector without waking the
\* one who waits for it.  A failure and the end of the writer start the teardown.
Parked ==
  /\ reader \in {"park", "wait"} => Len(read_buffers) = Slots
  /\ decompressor \in {"park", "wait"} => read_buffers = <<>>
  /\ decompressor \in {"putpark", "putwait"} => Len(write_buffers) = Slots
  /\ writer \in {"park", "wait"} => write_buffers = <<>>
  /\ decompressor \in {"test", "park", "wait"} => decompress_offset < write_size
  /\ writer \in {"test", "park", "wait"} => write_offset < write_size
  /\ reader # "putwait" /\ writer # "putwait"
  /\ writer = "dead" \/ ~(read_result = "ok" /\ decompress_result = "ok" /\ write_result = "ok") => uevent_done
  /\ main = "join" => writer = "idle" \/ {reader, decompressor, writer} \subseteq {"result", "dead"}

\* The places of a thread that only somebody else can move.
Asleep == {"wait", "putwait", "dead"}
\* Nobody can move: all three threads sleep or are gone, and neither the cancel nor the done event
\* lets the installing thread go on; or it joins a thread that it will not wake again.
Stranded ==
  \/ main = "waiting" /\ ~cancelled /\ ~uevent_done /\ {reader, decompressor, writer} \subseteq Asleep
  \/ main = "join" /\ ~({reader, decompressor, writer} \cap {"wait", "putwait"} = {})
NobodyStranded == Stranded => Stuck

LEMMA ParkedStarts == ASSUME Init PROVE Parked
BY DEF Init, Parked

LEMMA ReaderParked == ASSUME IInv, Parked, Reader PROVE Parked'
<1>0. TypeOK /\ Shapes /\ Told /\ Waited /\ Len(read_buffers) \in Nat /\ read_buffers \in Seq(Seq(Nat))
  BY LenProperties DEF IInv, Shapes
<1>1. CASE ReaderLoop \/ ReaderRead \/ ReaderPark \/ ReaderExit
  BY <1>0, <1>1 DEF ReaderLoop, ReaderRead, ReaderPark, ReaderExit, ReaderReturns, Parked, Waited, write_offset,
     IsAnyRunning, Told
<1>2. CASE ReaderTest
  <2>1. read_buffers' = read_buffers \/ (read_buffers' = Append(read_buffers, reader_buf) /\ decompressor' \notin {"park", "wait"})
    BY <1>2 DEF ReaderTest
  <2>2. reader' \in {"loop", "park", "exit"} /\ (reader' = "park" => Len(read_buffers') = Slots)
    BY <1>2 DEF ReaderTest, ReaderReturns
  <2>3. decompressor' = decompressor \/ (decompressor = "wait" /\ decompressor' = "test")
    BY <1>2 DEF ReaderTest
  <2>4. main # "join" \/ writer = "idle"
    BY <1>0, <1>2 DEF Parked, ReaderTest
  <2>5. UNCHANGED <<writer, main, write_buffers, decompress_offset, write_size, placeholder, read_result,
                    decompress_result, write_result, uevent_done>>
    BY <1>2 DEF ReaderTest, readerKeeps, decompVars, writerVars
  <2> QED BY <2>1, <2>2, <2>3, <2>4, <2>5 DEF Parked, write_offset
<1>3. CASE ReaderResult
  <2>1. reader' = "dead" /\ Awake(decompressor, decompressor') /\ Awake(writer, writer') /\ reader = "result"
    BY <1>3, Wakes DEF ReaderResult, WakeAllThreads
  <2>2. /\ UNCHANGED <<main, read_buffers, write_buffers, decompress_offset, write_size, placeholder,
                       decompress_result, write_result>>
        /\ read_result' = reader_rc /\ uevent_done' = (uevent_done \/ reader_rc = "fail")
    BY <1>3 DEF ReaderResult, decompVars, writerVars
  <2>3. reader_rc \in {"ok", "fail"}
    BY <1>0 DEF TypeOK, Results
  <2> QED BY <2>1, <2>2, <2>3 DEF Parked, Awake, write_offset
<1> QED BY <1>1, <1>2, <1>3 DEF Reader

LEMMA WriterParked == ASSUME IInv, Parked, Writer PROVE Parked'
<1>0. TypeOK /\ Shapes /\ Told /\ Waited
  BY DEF IInv
<1>1. CASE WriterLoop \/ WriterPark \/ WriterExit
  BY <1>0, <1>1 DEF WriterLoop, WriterPark, WriterExit, WriterReturns, Parked, Waited, write_offset,
     IsAnyRunning, Told
<1>2. CASE WriterWrite
  BY <1>0, <1>2 DEF WriterWrite, WriterReturns, Parked, write_offset
<1>3. CASE WriterTest
  <2>1. /\ writer' \in {"write", "park", "exit"} /\ (writer' = "park" => write_buffers' = <<>>)
        /\ writer = "test" /\ decompressor # "putpark"
    BY <1>3 DEF WriterTest, WriterReturns
  <2>2. decompressor' = decompressor \/ (decompressor = "putwait" /\ decompressor' = "put")
    BY <1>3 DEF WriterTest
  <2>3. write_buffers' = write_buffers \/ decompressor' # "putwait"
    BY <1>3 DEF WriterTest
  <2>4. UNCHANGED <<reader, main, read_buffers, decompress_offset, write_size, placeholder, read_result,
                    decompress_result, write_result, uevent_done>>
    BY <1>3 DEF WriterTest, writerKeeps, decompVars, readerVars
  <2> QED BY <2>1, <2>2, <2>3, <2>4 DEF Parked, write_offset
<1>4. CASE WriterResult
  <2>1. writer' = "dead" /\ Awake(decompressor, decompressor') /\ Awake(reader, reader') /\ writer = "result"
    BY <1>4, Wakes DEF WriterResult, WakeAllThreads
  <2>2. /\ UNCHANGED <<main, read_buffers, write_buffers, decompress_offset, write_size, placeholder,
                       decompress_result, read_result>>
        /\ uevent_done' = TRUE
    BY <1>4 DEF WriterResult, decompVars, readerVars
  <2> QED BY <2>1, <2>2 DEF Parked, Awake, write_offset
<1> QED BY <1>1, <1>2, <1>3, <1>4 DEF Writer

\* The header decides the size before anything is written.
LEMMA HeaderParked == ASSUME IInv, Parked, DecompHeader PROVE Parked'
<1>0. TypeOK /\ Shapes /\ Feed /\ Inflating /\ Drain
  BY DEF IInv
<1>1. decompressor = "header" /\ decompressor' \in {"pass", "exit"} /\ write_size' \in {write_size, HeaderSize}
  BY DEF DecompHeader, DecompReturns
<1>2. CASE ncz
  <2>1. decomp_buf # <<>> /\ decomp_buf[1] = 0
    BY <1>0, <1>1, <1>2 DEF Inflating, Gone, Sending
  <2>2. PICK f \in Nat : Fed(f)
    BY <1>0 DEF Feed
  <2>3. decompress_offset = 0
    BY <2>1, <2>2, Sizes DEF Fed
  <2>4. Len(hashed) \in Nat /\ Len(inflate_buf) \in Nat /\ write_offset \in Nat
    BY <1>0, LenProperties DEF Shapes, write_offset
  <2>5. write_offset = 0
    BY <1>0, <2>3, <2>4 DEF Inflating, Drain
  <2>6. write_offset < HeaderSize
    BY <2>5, Sizes
  <2> QED BY <1>1, <2>6 DEF Parked, DecompHeader, DecompReturns, decompKeeps, readerVars, writerVars, write_offset
<1>3. CASE ~ncz
  <2>1. HeaderSize = NcaSize
    BY <1>3 DEF HeaderSize
  <2>2. write_size' = write_size
    BY <1>0, <1>1, <2>1 DEF Shapes
  <2> QED BY <1>1, <2>2 DEF Parked, DecompHeader, DecompReturns, decompKeeps, readerVars, writerVars, write_offset
<1> QED BY <1>2, <1>3

LEMMA DecompParked == ASSUME IInv, Parked, Decompressor PROVE Parked'
<1>0. TypeOK /\ Shapes /\ Told /\ Waited /\ Len(write_buffers) \in Nat /\ write_buffers \in Seq(Seq(Nat))
  BY LenProperties DEF IInv, Shapes
<1> USE DEF decompKeeps, readerVars, writerVars
<1>1. CASE DecompLoop
  <2>1. /\ decompressor = "loop" /\ decompressor' \in {"test", "put", "exit"}
        /\ decompressor' = "test" => decompress_offset < write_size
    BY <1>1 DEF DecompLoop, DecompLeavesLoop, DecompReturns
  <2> QED BY <1>1, <2>1 DEF DecompLoop, Parked, write_offset
<1>2. CASE DecompTest
  <2>1. /\ decompressor = "test" /\ reader # "park" /\ decompressor' \in {"header", "pass", "inflate", "park", "put", "exit"}
        /\ decompressor' = "park" => read_buffers' = <<>>
    BY <1>2 DEF DecompTest, DecompLeavesLoop, DecompReturns
  <2>2. reader' = reader \/ (reader = "wait" /\ reader' = "test")
    BY <1>2 DEF DecompTest
  <2>3. read_buffers' = read_buffers \/ reader' # "wait"
    BY <1>2 DEF DecompTest
  <2>4. UNCHANGED <<writer, main, write_buffers, decompress_offset, write_size, placeholder, read_result,
                    decompress_result, write_result, uevent_done>>
    BY <1>2 DEF DecompTest
  <2> QED BY <2>1, <2>2, <2>3, <2>4 DEF Parked, write_offset
<1>3. CASE DecompPark \/ DecompExit
  BY <1>0, <1>3 DEF DecompPark, DecompExit, Parked, write_offset
<1>4. CASE DecompHeader
  BY <1>4, HeaderParked
<1>5. CASE DecompPass
  BY <1>5 DEF DecompPass, Parked, write_offset
<1>6. CASE DecompInflate
  <2>1. decompressor = "inflate" /\ decompressor' \in {"inflate", "put", "exit", "loop"}
    BY <1>6 DEF DecompInflate, DecompReturns
  <2>2. UNCHANGED <<reader, writer, main, read_buffers, write_buffers, write_size, placeholder, read_result,
                    decompress_result, write_result, uevent_done>>
    BY <1>6 DEF DecompInflate
  <2> QED BY <2>1, <2>2 DEF Parked, write_offset
<1>7. CASE DecompPut
  <2>1. /\ decompressor = "put" /\ writer # "park" /\ decompressor' \in {"putpark", "inflate", "loop", "exit"}
        /\ decompressor' = "putpark" => Len(write_buffers') = Slots
    BY <1>7 DEF DecompPut, DecompAfterPut, DecompReturns
  <2>2. writer' = writer \/ (writer = "wait" /\ writer' = "test")
    BY <1>7 DEF DecompPut
  <2>3. write_buffers' = write_buffers \/ writer' # "wait"
    BY <1>7 DEF DecompPut
  <2>4. UNCHANGED <<reader, main, read_buffers, decompress_offset, write_size, placeholder, read_result,
                    decompress_result, write_result, uevent_done>>
    BY <1>7 DEF DecompPut
  <2> QED BY <2>1, <2>2, <2>3, <2>4 DEF Parked, write_offset
<1>8. CASE DecompResult
  <2>1. decompressor' = "dead" /\ Awake(reader, reader') /\ Awake(writer, writer') /\ decompressor = "result"
    BY <1>8, Wakes DEF DecompResult, WakeAllThreads
  <2>2. /\ UNCHANGED <<main, read_buffers, write_buffers, decompress_offset, write_size, placeholder,
                       read_result, write_result>>
        /\ decompress_result' = decomp_rc /\ uevent_done' = (uevent_done \/ decomp_rc = "fail")
    BY <1>8 DEF DecompResult
  <2>3. decomp_rc \in {"ok", "fail"}
    BY <1>0 DEF TypeOK, Results
  <2> QED BY <2>1, <2>2, <2>3 DEF Parked, Awake, write_offset
<1> QED BY <1>1, <1>2, <1>3, <1>4, <1>5, <1>6, <1>7, <1>8 DEF Decompressor

LEMMA MainParked == ASSUME IInv, Parked, Main \/ Cancel \/ Finished \/ UNCHANGED vars PROVE Parked'
<1>0. TypeOK /\ Told /\ Waited
  BY DEF IInv
<1> USE DEF mainKeeps, readerVars, decompVars, writerVars
<1>1. CASE MainStarts \/ MainStartFails
  BY <1>0, <1>1 DEF MainStarts, MainStartFails, Parked, Waited, write_offset
<1>2. CASE MainWaits \/ MainJoin
  BY <1>2 DEF MainWaits, MainJoin, Parked, write_offset
<1>3. CASE MainTeardown
  <2>1. CASE IsAnyRunning
    <3>1. Awake(reader, reader') /\ Awake(decompressor, decompressor') /\ Awake(writer, writer')
      BY <1>3, <2>1, Wakes DEF MainTeardown, WakeAllThreads
    <3>2. main = "teardown" /\ main' = main /\ UNCHANGED mainKeeps
      BY <1>3, <2>1 DEF MainTeardown
    <3> QED BY <3>1, <3>2 DEF Parked, Awake, write_offset
  <2>2. CASE ~IsAnyRunning
    BY <1>3, <2>2 DEF MainTeardown, Parked, write_offset
  <2> QED BY <2>1, <2>2
<1>4. CASE MainResult
  <2>1. {reader, decompressor, writer} \subseteq {"result", "dead"}
    BY <1>0, <1>4 DEF MainResult, Waited, Told, IsAnyRunning
  <2> QED BY <1>4, <2>1 DEF MainResult, Parked, write_offset
<1>5. CASE Cancel \/ Finished \/ UNCHANGED vars
  BY <1>5 DEF Cancel, Finished, vars, Parked, write_offset
<1> QED BY <1>1, <1>2, <1>3, <1>4, <1>5 DEF Main

\* With nothing failed and the whole file there, a thread that ended has left the sleepers nothing to wait for.
LEMMA NoSleepers == ASSUME IInv, Parked PROVE NobodyStranded
<1> SUFFICES ASSUME Stranded, ~Stuck PROVE FALSE
  BY DEF NobodyStranded
<1>0. TypeOK /\ Shapes /\ Told /\ Feed /\ Inflating /\ Drain /\ Through /\ Slots > 0
  BY DEF IInv
<1>1. main = "waiting"
  BY DEF Stranded, Stuck, Parked
<1>2. ~cancelled /\ ~uevent_done /\ {reader, decompressor, writer} \subseteq Asleep
  BY <1>1 DEF Stranded
<1>3. Healthy /\ writer = "wait"
  BY <1>2 DEF Parked, Healthy, Asleep
<1>4. write_buffers = <<>> /\ write_offset < write_size
  BY <1>3 DEF Parked
<1>5. decompressor \in {"wait", "dead"}
  BY <1>0, <1>2, <1>4 DEF Parked, Asleep
<1>6. UnitsFrom(NcaSize) = HeaderSize /\ HeaderSize \in Nat \ {0}
  BY Sizes
<1>7. reader = "dead" => read_offset = NcaSize
  <2>1. reader = "dead" => source_end = NcaSize
    BY <1>0, <1>1, <1>2 DEF Stuck, TypeOK
  <2> QED BY <1>0, <1>3, <2>1 DEF Told, Through, Healthy, Gone
<1>8. CASE decompressor = "wait"
  <2>1. read_buffers = <<>> /\ decompress_offset < write_size
    BY <1>8 DEF Parked
  <2>2. reader = "dead"
    BY <1>0, <1>2, <2>1 DEF Parked, Asleep
  <2>3. decomp_buf = <<>> /\ decompress_running
    BY <1>0, <1>8 DEF Inflating, Gone, Sending, Told
  <2>4. PICK f \in Nat : Fed(f)
    BY <1>0 DEF Feed
  <2>5. f = Unread
    BY <1>3, <2>1, <2>3, <2>4, Emptied DEF Fed
  <2>6. decompress_offset = HeaderSize
    BY <1>6, <1>7, <2>2, <2>4, <2>5 DEF Unread, Holding, Fed
  <2> QED BY <1>0, <1>6, <2>1, <2>6 DEF Inflating
<1>9. CASE decompressor = "dead"
  <2>1. /\ inflate_buf = <<>>
        /\ decompress_offset = HeaderSize \/ (~read_running /\ decompress_offset = UnitsFrom(read_offset))
    BY <1>0, <1>3, <1>9 DEF Told, Through, Healthy, Gone
  <2>2. ~read_running => reader = "dead"
    BY <1>0, <1>2 DEF Told, Asleep
  <2>3. decompress_offset = HeaderSize
    BY <1>6, <1>7, <2>1, <2>2
  <2>4. Len(hashed) = HeaderSize
    BY <1>0, <2>1, <2>3, LenProperties DEF Inflating, Shapes
  <2>5. writer_buf = <<>> /\ write_running
    BY <1>0, <1>3 DEF Drain, Gone, Told
  <2>6. write_offset + Len(writer_buf) = Unsent
    BY <1>0, <1>3, <1>4, <2>5, Emptied DEF Drain
  <2>7. write_offset = HeaderSize
    BY <1>0, <1>9, <2>4, <2>5, <2>6, LenProperties DEF Unsent, Sending, Shapes, write_offset
  <2> QED BY <1>0, <1>4, <1>6, <2>3, <2>7 DEF Inflating
<1> QED BY <1>5, <1>8, <1>9

\* A thread that ends wakes the others without their mutex (WakeAllThreads), and the wake is lost on one
\* between its test and its wait.  No such loss leaves everybody asleep: as long as the install waits for its
\* threads, some step can still be taken, unless the source ended short or a thread did not start (Stuck).
\* This is what safety says of Returns, for every size, ring and set of faults.
THEOREM NeverStranded == Spec => []NobodyStranded
<1>1. IInv /\ Parked /\ [Next]_vars => Parked'
  BY ReaderParked, DecompParked, WriterParked, MainParked DEF Next
<1> QED BY <1>1, ParkedStarts, NoSleepers, Invariance, PTL DEF Spec
===============================================================================
