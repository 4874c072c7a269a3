--------------------------- MODULE RemoteFileProofs ---------------------------
(***************************************************************************)
(* Proofs about RemoteFile for every length of the file, every size of the *)
(* buffer, of a request and of what libcurl hands over, every user and any *)
(* set of faults: what is on its way through a transfer is the part of the *)
(* file that its user will ask for next, and neither waits for the other.  *)
(***************************************************************************)
EXTENDS RemoteFile, SequenceTheorems, TLAPS

-------------------------------------------------------------------------------
(* The invariant *)

Obtained == Len(got)
\* where the next unit that the user takes out of the buffer belongs
Position == IF pc \in {"loop", "start", "pull", "judge"} THEN from + Obtained ELSE offset
\* and which unit of the file that one is
Place == Position - Moved
Buffered == Len(transfer.buffer)
Handed == Len(transfer.hand)
Unanswered == transfer.pc \in {"made", "connect"}
Receiving == transfer.pc \in {"perform", "callback"}

(* Where the user and the thread can be, given each other. *)
Control ==
  /\ pc = "start" <=> At("made")
  /\ pc = "start" => transfer.offset = from + Obtained /\ (Mode("http") \/ transfer.offset = offset)
  /\ pc \in {"pull", "judge"} => HasTransfer
  /\ pc = "resume" => ~HasTransfer
  /\ pc = "loop" /\ HasTransfer => offset = from + Obtained
  /\ pc \in {"loop", "moves", "reset", "resume"} => Mode("http")
  /\ pc \in {"pull", "judge"} => ~Mode("upload")
  /\ pc = "destroy" => Mode("device") /\ result = "none"
  /\ pc = "push" => Mode("upload")
  /\ Mode("device") /\ pc \in {"start", "pull", "judge"} => from = offset
  /\ pc = "push" => from = offset
  /\ m_cancelled => Mode("http")
  /\ ~At("callback") => transfer.hand = <<>>
  /\ transfer.finished => transfer.cancelled \/ Exited
  /\ transfer.error => Exited
  /\ transfer.pc \in {"connect", "callback"} => ~Mode("upload")
  /\ Unanswered => transfer.buffer = <<>> /\ transfer.status = 0 /\ transfer.at = 0
  /\ Mode("device") /\ pc # "closed" /\ (Unanswered \/ ~HasTransfer \/ pc = "destroy") => got = <<>>
  /\ Mode("device") /\ Unanswered /\ pc \in {"idle", "judge"} /\ Obtained < want => transfer.cancelled

(* Nobody gets further than the file, twice its length for a mount that trusts its *)
(* server. *)
Bounds ==
  /\ ~Mode("device") => from + want <= Length /\ offset <= Length
  /\ ~HasTransfer /\ pc # "closed" => offset <= Length
  /\ pc = "destroy" => from <= Length
  /\ HasTransfer /\ ~Mode("upload") =>
       Position + Buffered + Handed <= transfer.offset + transfer.at

(* The buffer begins with what the user takes next, and what libcurl will hand over *)
(* continues it. *)
Aligned ==
  HasTransfer /\ ~Mode("upload") =>
    /\ Refused => transfer.buffer = <<>>
    /\ Unanswered => transfer.offset = Position
    /\ ~transfer.error => transfer.buffer = Units(Place, Buffered)
    /\ Receiving /\ ~Refused =>
         /\ transfer.hand = Units(Place + Buffered, Handed)
         /\ transfer.at = Place + Buffered + Handed
    /\ Mode("device") /\ (At("ok") \/ (Exited /\ ~transfer.error)) =>
         Place + Buffered = Length

\* a read that comes up short while its transfer knows of no error has met the end
Judged ==
  Mode("device") /\ pc = "judge" /\ Obtained < want =>
    transfer.error \/ transfer.cancelled \/ from - Moved + Obtained = Length

\* The inductive invariant: together these facts survive every step of the thread, of its user and
\* of the main thread.
IInv == TypeOK /\ Control /\ Bounds /\ Aligned /\ BytesInOrder /\ Judged /\ ResultTrue

-------------------------------------------------------------------------------
(* Consecutive units *)

\* What Units(a, n) is: n of them, from a on.
LEMMA UnitsAre ==
  ASSUME NEW a \in Int, NEW n \in Nat
  PROVE  /\ Units(a, n) \in Seq(Int) /\ Len(Units(a, n)) = n
         /\ \A i \in 1 .. n : Units(a, n)[i] = a + i - 1
BY DEF Units

\* Units of the file are within its length.
LEMMA UnitsOfFile ==
  ASSUME NEW a \in Nat, NEW n \in Nat, a + n <= Length
  PROVE  Units(a, n) \in Seq(0 .. Length - 1)
BY SizesAssumption DEF Units

\* Units that continue others.
LEMMA UnitsConcat ==
  ASSUME NEW a \in Int, NEW m \in Nat, NEW n \in Nat
  PROVE  Units(a, m) \o Units(a + m, n) = Units(a, m + n)
<1>0. PICK b \in Int : b = a + m
  OBVIOUS
<1> DEFINE front == Units(a, m)
           back == Units(b, n)
<1>1. /\ front \in Seq(Int) /\ Len(front) = m /\ \A i \in 1 .. m : front[i] = a + i - 1
      /\ back \in Seq(Int) /\ Len(back) = n /\ \A i \in 1 .. n : back[i] = b + i - 1
  BY UnitsAre, <1>0
<1> HIDE DEF front, back
<1>2. PICK k \in Nat : k = m + n
  OBVIOUS
<1>3. Units(a, k) \in Seq(Int) /\ Len(Units(a, k)) = k /\ \A i \in 1 .. k : Units(a, k)[i] = a + i - 1
  BY UnitsAre
<1>4. /\ front \o back \in Seq(Int) /\ Len(front \o back) = k
      /\ \A i \in 1 .. k : (front \o back)[i] = IF i <= m THEN front[i] ELSE back[i - m]
  BY ZenonT(40), <1>1, <1>2, ConcatProperties
<1>5. ASSUME NEW i \in 1 .. k PROVE (front \o back)[i] = Units(a, k)[i]
  <2>1. CASE i <= m
    BY <2>1, <1>1, <1>3, <1>4
  <2>2. CASE i > m
    <3>1. PICK j \in 1 .. n : j = i - m
      BY <2>2, <1>2
    <3>2. back[j] = b + j - 1
      BY <1>1
    <3>3. (front \o back)[i] = back[j]
      BY <1>4, <2>2, <3>1
    <3>4. Units(a, k)[i] = a + i - 1 /\ b + j - 1 = a + i - 1
      BY <1>0, <1>3, <3>1
    <3> QED BY <3>2, <3>3, <3>4
  <2>3. i <= m \/ i > m
    OBVIOUS
  <2> QED BY <2>1, <2>2, <2>3
<1>6. front \o back = Units(a, k)
  BY <1>3, <1>4, <1>5, SeqEqual
<1> QED BY <1>0, <1>2, <1>6 DEF front, back

\* Units that are taken from the front of others.
LEMMA UnitsSplit ==
  ASSUME NEW a \in Int, NEW m \in Nat, NEW n \in 0 .. m
  PROVE  /\ SubSeq(Units(a, m), 1, n) = Units(a, n)
         /\ SubSeq(Units(a, m), n + 1, m) = Units(a + n, m - n)
<1> DEFINE all == Units(a, m)
<1>1. all \in Seq(Int) /\ Len(all) = m /\ \A i \in 1 .. m : all[i] = a + i - 1
  BY UnitsAre
<1> HIDE DEF all
<1>2. SubSeq(all, 1, n) = Units(a, n)
  <2>1. /\ SubSeq(all, 1, n) \in Seq(Int) /\ Len(SubSeq(all, 1, n)) = n
        /\ \A i \in 1 .. n : SubSeq(all, 1, n)[i] = all[i]
    BY <1>1, SubSeqProperties
  <2>2. Units(a, n) \in Seq(Int) /\ Len(Units(a, n)) = n /\ \A i \in 1 .. n : Units(a, n)[i] = a + i - 1
    BY UnitsAre
  <2> QED BY <1>1, <2>1, <2>2, SeqEqual
<1>3. SubSeq(all, n + 1, m) = Units(a + n, m - n)
  <2>1. PICK b \in Int, k \in Nat, o \in Nat : b = a + n /\ k = m - n /\ o = n + 1
    OBVIOUS
  <2>2. /\ SubSeq(all, o, m) \in Seq(Int) /\ Len(SubSeq(all, o, m)) = k
        /\ \A i \in 1 .. k : SubSeq(all, o, m)[i] = all[o + i - 1]
    BY <1>1, <2>1, SubSeqProperties
  <2>3. Units(b, k) \in Seq(Int) /\ Len(Units(b, k)) = k /\ \A i \in 1 .. k : Units(b, k)[i] = b + i - 1
    BY UnitsAre
  <2>4. ASSUME NEW i \in 1 .. k PROVE SubSeq(all, o, m)[i] = Units(b, k)[i]
    <3>1. PICK j \in 1 .. m : j = o + i - 1
      BY <2>1
    <3>2. all[j] = a + j - 1
      BY <1>1
    <3> QED BY <2>1, <2>2, <2>3, <3>1, <3>2
  <2>5. SubSeq(all, o, m) = Units(b, k)
    BY <2>2, <2>3, <2>4, SeqEqual
  <2> QED BY <2>1, <2>5
<1> QED BY <1>2, <1>3 DEF all

FileUnits == Seq(0 .. Length - 1)

\* Nothing is lost or added when the front of one sequence moves behind another.
LEMMA FrontMoves ==
  ASSUME NEW s \in FileUnits, NEW t \in FileUnits, NEW n \in 0 .. Len(t)
  PROVE  /\ (s \o SubSeq(t, 1, n)) \o SubSeq(t, n + 1, Len(t)) = s \o t
         /\ SubSeq(t, n + 1, Len(t)) \in FileUnits /\ Len(SubSeq(t, n + 1, Len(t))) = Len(t) - n
         /\ s \o SubSeq(t, 1, n) \in FileUnits /\ Len(s \o SubSeq(t, 1, n)) = Len(s) + n
<1> DEFINE S == 0 .. Length - 1
<1>0. s \in Seq(S) /\ t \in Seq(S) /\ FileUnits = Seq(S)
  BY DEF FileUnits
<1> HIDE DEF S
<1> DEFINE front == SubSeq(t, 1, n)
           back == SubSeq(t, n + 1, Len(t))
<1>1. /\ front \in Seq(S) /\ Len(front) = n
      /\ back \in Seq(S) /\ Len(back) = Len(t) - n
  BY <1>0, SubSeqProperties
<1>2. front \o back = t
  <2>1. SubSeq(t, 1, n) \o SubSeq(t, n + 1, Len(t)) = SubSeq(t, 1, Len(t))
    <3>1. 1 \in 1 .. Len(t) + 1 /\ n \in 1 - 1 .. Len(t) /\ Len(t) \in n .. Len(t)
      OBVIOUS
    <3> QED BY <1>0, <3>1, ConcatAdjacentSubSeq
  <2> QED BY <1>0, <2>1, SubSeqFull
<1> HIDE DEF front, back
<1>3. (s \o front) \o back = s \o (front \o back)
  <2>1. \A p, q \in Seq(S) : (s \o p) \o q = s \o (p \o q)
    BY SMTT(20), ConcatAssociative
  <2> QED BY <1>0, <1>1, <2>1
<1>4. s \o front \in Seq(S) /\ Len(s \o front) = Len(s) + n
  BY <1>0, <1>1, ConcatProperties
<1> QED BY <1>0, <1>1, <1>2, <1>3, <1>4 DEF front, back

\* What follows the units of one sequence follows those behind it.
LEMMA UnitsAssociate ==
  ASSUME NEW p \in FileUnits, NEW q \in FileUnits, NEW r \in FileUnits
  PROVE  (p \o q) \o r = p \o (q \o r)
<1> DEFINE S == 0 .. Length - 1
<1>1. p \in Seq(S) /\ q \in Seq(S) /\ r \in Seq(S)
  BY DEF FileUnits
<1> HIDE DEF S
<1>2. \A a, b, c \in Seq(S) : (a \o b) \o c = a \o (b \o c)
  BY ConcatAssociative
<1> QED BY <1>1, <1>2

-------------------------------------------------------------------------------
(* The invariant's steps *)

USE SettingsAssumption, SizesAssumption, RequestAssumption

\* What the types say of the sequences that the steps compute with.
LEMMA Typed ==
  ASSUME TypeOK
  PROVE  /\ transfer \in Transfers
         /\ transfer.hand \in Seq(0 .. Length - 1) /\ transfer.buffer \in Seq(0 .. Length - 1)
         /\ got \in Seq(0 .. Length - 1) /\ sent \in Seq(0 .. Length - 1)
         /\ transfer.error \in BOOLEAN /\ transfer.finished \in BOOLEAN /\ transfer.cancelled \in BOOLEAN
<1>1. transfer \in Transfers /\ got \in Seq(0 .. Length - 1) /\ sent \in Seq(0 .. Length - 1)
  BY DEF TypeOK, TransferTypeOK
<1> QED BY <1>1 DEF Transfers

\* The numbers that they compute with.
Counts ==
  /\ transfer.offset \in Nat /\ transfer.offset <= Length /\ transfer.at \in Nat /\ transfer.at <= Length
  /\ Handed \in Nat /\ Buffered \in Nat /\ Obtained \in Nat
  /\ offset \in Nat /\ from \in Nat /\ want \in Nat /\ Position \in Nat
  /\ Moved \in Nat /\ Place \in Int /\ Place = Position - Moved /\ (~Mode("device") => Moved = 0)
  /\ Obtained <= want /\ Length \in Nat /\ Len(<<>>) = 0
\* The counts are numbers, and within their bounds.
LEMMA Numbers ==
  ASSUME TypeOK
  PROVE  Counts
<1>1. offset \in Nat /\ from \in Nat /\ want \in Nat /\ Obtained <= want
  BY DEF TypeOK, TransferTypeOK, Obtained
<1>2. transfer.offset \in 0 .. Length /\ transfer.at \in 0 .. Length
  BY Typed DEF Transfers
<1>3. Handed \in Nat /\ Buffered \in Nat /\ Obtained \in Nat /\ Len(<<>>) = 0
  BY Typed, LenProperties, EmptySeq DEF Handed, Buffered, Obtained
<1>4. Position \in Nat
  BY <1>1, <1>3 DEF Position
<1>5. Moved \in Nat /\ (~Mode("device") => Moved = 0)
  BY <1>2 DEF Moved
<1>6. Place \in Int /\ Place = Position - Moved
  BY <1>4, <1>5 DEF Place
<1> QED BY <1>1, <1>2, <1>3, <1>4, <1>5, <1>6 DEF Counts

Places == {"none", "made", "connect", "perform", "callback", "ok", "failed", "wedged", "exited"}
Answers == {0, 200, 206, 416}
Spans == 0 .. Length
\* A transfer is a record of these sets, which the proofs need not look into.
LEMMA TransfersAre ==
  Transfers = [pc : Places, offset : Spans, at : Spans, status : Answers, code : Answers,
               hand : FileUnits, buffer : FileUnits, error : BOOLEAN, finished : BOOLEAN, cancelled : BOOLEAN]
BY DEF Transfers, Places, FileUnits, Answers, Spans

\* The thread is at another place, with another answer or other units.
LEMMA GoesWith ==
  ASSUME NEW t \in Transfers, NEW p \in Places, NEW h \in FileUnits
  PROVE  [t EXCEPT !.pc = p, !.hand = h] \in Transfers
BY TransfersAre

\* The same with an answer.
LEMMA GoesAnswered ==
  ASSUME NEW t \in Transfers, NEW p \in Places, NEW at \in Spans, NEW st \in Answers
  PROVE  [t EXCEPT !.pc = p, !.at = at, !.status = st] \in Transfers
BY TransfersAre

\* And with one that moves nothing.
LEMMA GoesRefused ==
  ASSUME NEW t \in Transfers, NEW p \in Places, NEW st \in Answers
  PROVE  [t EXCEPT !.pc = p, !.status = st] = [t EXCEPT !.pc = p, !.at = t.at, !.status = st]
BY TransfersAre

\* The same with units for the callback, and the place behind them.
LEMMA GoesCalling ==
  ASSUME NEW t \in Transfers, NEW p \in Places, NEW at \in Spans, NEW h \in FileUnits
  PROVE  [t EXCEPT !.pc = p, !.at = at, !.hand = h] \in Transfers
BY TransfersAre

\* The same with another buffer.
LEMMA GoesTaken ==
  ASSUME NEW t \in Transfers, NEW p \in Places, NEW h \in FileUnits, NEW b \in FileUnits
  PROVE  [t EXCEPT !.pc = p, !.hand = h, !.buffer = b] \in Transfers
BY TransfersAre

\* Only the buffer is another.
LEMMA Buffers ==
  ASSUME NEW t \in Transfers, NEW b \in FileUnits
  PROVE  [t EXCEPT !.buffer = b] \in Transfers
BY TransfersAre

\* No units at all.
LEMMA NoUnits == \A a \in Int : Units(a, 0) = <<>>
BY DEF Units

\* curl_easy_perform returns, whatever with and whyever.
LEMMA StepPerformed ==
  ASSUME IInv, NEW res \in {"ok", "failed", "wedged"}, Performed(res), Thread, UNCHANGED user,
         transfer.pc \in {"connect", "perform", "callback"},
         res = "ok" => At("perform") /\ ~Mode("upload") /\ transfer.at = Length
  PROVE  IInv'
<1> USE DEF IInv, Obtained, flags, user, call, Thread
<1>n. Counts
  BY Numbers
<1>a. transfer' \in Transfers
  <2>1. transfer \in Transfers /\ <<>> \in FileUnits /\ res \in Places
    BY Typed, EmptySeq DEF FileUnits, Places
  <2>2. [transfer EXCEPT !.pc = res, !.hand = <<>>] \in Transfers
    BY <2>1, GoesWith
  <2> QED BY <2>2 DEF Performed
<1>0. /\ transfer'.pc = res /\ transfer'.hand = <<>>
      /\ transfer'.offset = transfer.offset /\ transfer'.at = transfer.at
      /\ transfer'.status = transfer.status /\ transfer'.code = transfer.code
      /\ transfer'.buffer = transfer.buffer /\ transfer'.error = transfer.error
      /\ transfer'.finished = transfer.finished /\ transfer'.cancelled = transfer.cancelled
  BY Typed DEF Performed, Transfers
<1> HIDE DEF Performed
<1>1. TypeOK'
  BY <1>a, <1>0, Typed DEF TypeOK, TransferTypeOK
<1>2. Control'
  BY <1>0 DEF Control, At, HasTransfer, Exited, Unanswered, Mode
<1>3. Position' = Position /\ Place' = Place /\ Moved' = Moved
  <2>1. Position' = Position
    BY DEF Position
  <2>2. Moved' = Moved
    BY <1>0 DEF Moved, Mode
  <2> QED BY <2>1, <2>2 DEF Place
<1>b. Handed' = 0 /\ Buffered' = Buffered /\ HasTransfer /\ HasTransfer' /\ pc' = pc /\ offset' = offset
      /\ transfer'.pc \notin {"made", "connect", "perform", "callback", "exited"}
      /\ ~At("ok") /\ ~At("exited") /\ (~At("callback") => Handed = 0)
  BY <1>0, <1>n DEF Counts, Handed, Buffered, Control, At, HasTransfer
<1>c. setting' = setting /\ from' = from /\ want' = want /\ got' = got
  OBVIOUS
<1>4. Bounds'
  <2>1. ~Mode("upload") => Position + Buffered + Handed <= transfer.offset + transfer.at
    BY <1>b DEF Bounds
  <2>2. ~Mode("upload") => Position' + Buffered' + Handed' <= transfer'.offset + transfer'.at
    BY <2>1, <1>0, <1>b, <1>3, <1>n DEF Counts
  <2> QED BY <2>2, <1>b, <1>c DEF Bounds, Mode
<1>5. Aligned'
  <2>1. res = "ok" /\ ~Refused /\ ~Mode("upload") => Place + Buffered = Length
    BY <1>0, <1>b, <1>n DEF Counts, Aligned, Receiving, At
  <2> QED BY <2>1, <1>0, <1>b, <1>c, <1>3 DEF Aligned, HasTransfer, At, Mode, Refused, Unanswered,
     Receiving, Exited
<1>6. BytesInOrder'
  BY <1>0, <1>3 DEF BytesInOrder, HasTransfer, At, Mode
<1>7. Judged' /\ ResultTrue'
  BY <1>0, <1>3 DEF Judged, ResultTrue, Mode
<1> QED BY <1>1, <1>2, <1>4, <1>5, <1>6, <1>7

\* A transfer is told that nobody waits for it any more.
LEMMA StepCancelled ==
  ASSUME IInv, transfer' = Cancel(transfer), UNCHANGED <<setting, sent, m_cancelled, user>>,
         g_curl_shutdown' \in BOOLEAN
  PROVE  IInv'
<1> USE DEF IInv, Obtained, user, call
<1>n. Counts
  BY Numbers
<1>a. transfer' \in Transfers
  <2>1. [transfer EXCEPT !.cancelled = TRUE, !.finished = TRUE] \in Transfers
    BY ZenonT(40), Typed DEF Transfers
  <2> QED BY <2>1 DEF Cancel
<1>0. /\ transfer'.finished = TRUE /\ transfer'.cancelled = TRUE
      /\ transfer'.pc = transfer.pc /\ transfer'.offset = transfer.offset
      /\ transfer'.at = transfer.at /\ transfer'.status = transfer.status
      /\ transfer'.code = transfer.code /\ transfer'.buffer = transfer.buffer
      /\ transfer'.hand = transfer.hand /\ transfer'.error = transfer.error
  BY Typed DEF Cancel, Transfers
<1> HIDE DEF Cancel
<1>1. TypeOK'
  BY <1>a, <1>0, Typed DEF TypeOK, TransferTypeOK
<1>2. Control'
  BY <1>0 DEF Control, At, HasTransfer, Exited, Unanswered, Mode
<1>3. /\ Position' = Position /\ Buffered' = Buffered /\ Handed' = Handed
      /\ Place' = Place /\ Moved' = Moved
  <2>1. Position' = Position /\ Buffered' = Buffered /\ Handed' = Handed
    BY <1>0 DEF Position, Buffered, Handed
  <2>2. Moved' = Moved
    BY <1>0 DEF Moved, Mode
  <2> QED BY <2>1, <2>2 DEF Place
<1>4. Bounds'
  BY <1>0, <1>3 DEF Bounds, HasTransfer, At, Mode
<1>5. Aligned'
  BY <1>0, <1>3 DEF Aligned, HasTransfer, At, Mode, Refused, Unanswered, Receiving, Exited
<1>6. BytesInOrder'
  BY <1>0, <1>3 DEF BytesInOrder, HasTransfer, At, Mode
<1>7. Judged' /\ ResultTrue'
  BY <1>0, <1>3 DEF Judged, ResultTrue, Mode
<1> QED BY <1>1, <1>2, <1>4, <1>5, <1>6, <1>7


\* What the user sees is not touched by a step of the thread that leaves the buffer and the answer alone.
LEMMA UserKeeps ==
  ASSUME BytesInOrder, Judged, ResultTrue, UNCHANGED <<setting, sent, m_cancelled, user>>,
         transfer'.buffer = transfer.buffer, HasTransfer' = HasTransfer, transfer'.cancelled = transfer.cancelled,
         transfer'.status = transfer.status, transfer'.offset = transfer.offset,
         transfer.error => transfer'.error
  PROVE  /\ BytesInOrder' /\ Judged' /\ ResultTrue'
         /\ Position' = Position /\ Moved' = Moved /\ Place' = Place
<1> USE DEF user, call, Obtained
<1>1. Position' = Position
  BY DEF Position
<1>2. Moved' = Moved
  BY DEF Moved, Mode
<1>3. Place' = Place
  BY <1>1, <1>2 DEF Place
<1>4. BytesInOrder'
  BY <1>2 DEF BytesInOrder, Mode
<1>5. Judged' /\ ResultTrue'
  BY <1>2 DEF Judged, ResultTrue, Mode
<1> QED BY <1>1, <1>2, <1>3, <1>4, <1>5

\* The answer st, after which the thread goes on, or ends, at the place `to`.
Answered(st, at, to) ==
  /\ transfer' = [transfer EXCEPT !.pc = to, !.at = at, !.status = st]
  /\ to = "perform" => at = transfer.offset \/ (at = 0 /\ Fault("ignore") /\ st = 200)
  /\ to = "perform" /\ at = transfer.offset /\ Mode("http") /\ at > 0 => st = 206
  /\ to = "perform" /\ Mode("device") => at = transfer.offset - (IF st = 200 THEN transfer.offset ELSE 0)
  /\ to = "failed" => at = transfer.at

\* A step of that kind keeps the invariant.
LEMMA StepAnswered ==
  ASSUME IInv, At("connect"), Thread, UNCHANGED user,
         NEW st, NEW at, NEW to, st \in Answers, at \in Spans, to \in {"perform", "failed"}, Answered(st, at, to)
  PROVE  IInv'
<1> USE DEF IInv, Obtained, flags, user, call, Thread
<1>n. Counts
  BY Numbers
<1>2. At("connect") /\ UNCHANGED <<setting, flags, sent>>
  OBVIOUS
<1>a. transfer' \in Transfers
  <2>1. transfer \in Transfers /\ to \in Places
    BY Typed DEF Places
  <2>2. [transfer EXCEPT !.pc = to, !.at = at, !.status = st] \in Transfers
    BY <2>1, GoesAnswered
  <2> QED BY <2>2 DEF Answered
<1>0. /\ transfer'.pc = to /\ transfer'.at = at /\ transfer'.status = st
      /\ transfer'.offset = transfer.offset /\ transfer'.code = transfer.code
      /\ transfer'.buffer = transfer.buffer /\ transfer'.hand = transfer.hand
      /\ transfer'.error = transfer.error /\ transfer'.finished = transfer.finished
      /\ transfer'.cancelled = transfer.cancelled
  BY Typed DEF Answered, Transfers
<1>b. /\ HasTransfer' /\ HasTransfer /\ pc' = pc /\ offset' = offset /\ setting' = setting /\ from' = from
      /\ want' = want /\ got' = got /\ Handed' = 0 /\ Buffered' = 0 /\ transfer.buffer = <<>>
      /\ transfer.hand = <<>>
      /\ transfer.at = 0 /\ ~At("made")
  BY <1>0, <1>2, <1>n DEF Counts, Handed, Buffered, Control, At, HasTransfer, Unanswered
<1>c. Mode("device") /\ pc # "closed" => got = <<>> /\ Obtained = 0
  BY <1>2, <1>n DEF Counts, Control, Unanswered, At
<1>3. BytesInOrder' /\ Judged' /\ ResultTrue' /\ Position' = Position
  <2>1. Position' = Position
    BY DEF Position
  <2>2. ~Mode("device") => Moved' = 0 /\ Moved = 0
    BY <1>b DEF Moved, Mode
  <2>3. from' - Moved' \in Int
    BY <1>0, <1>b, <1>n DEF Counts, Moved
  <2>4. BytesInOrder'
    <3>1. CASE Mode("device")
      <4>1. Units(from' - Moved', 0) = <<>>
        BY <2>3, NoUnits
      <4> QED BY <3>1, <4>1, <1>b, <1>c DEF BytesInOrder, Mode
    <3>2. CASE ~Mode("device")
      BY <3>2, <2>2, <1>0, <1>2, <1>b DEF BytesInOrder, Mode
    <3> QED BY <3>1, <3>2
  <2>5. Mode("device") /\ pc \in {"idle", "judge"} /\ Obtained < want => transfer.cancelled
    BY <1>2 DEF Control, Unanswered, At
  <2>6. Judged' /\ ResultTrue'
    BY <2>5, <1>0, <1>2, <1>b DEF Judged, ResultTrue, Mode
  <2> QED BY <2>1, <2>4, <2>6
<1>4. TypeOK'
  BY <1>a, <1>0, <1>2, <1>b, Typed DEF TypeOK, TransferTypeOK
<1>5. Control'
  BY <1>0, <1>2, <1>b DEF Control, At, HasTransfer, Exited, Unanswered, Mode
<1>6. Bounds'
  <2>1. ~Mode("upload") => Position <= transfer.offset
    BY <1>b, <1>n DEF Counts, Bounds
  <2>2. ~Mode("upload") => Position' + Buffered' + Handed' <= transfer'.offset + transfer'.at
    BY <2>1, <1>0, <1>b, <1>3, <1>n DEF Counts, Spans
  <2> QED BY <2>2, <1>b DEF Bounds, Mode
<1>7. Aligned'
  <2>1. ~Mode("upload") => transfer.offset = Position
    BY <1>2, <1>b DEF Aligned, Unanswered, At
  <2>2. Place' = Position - Moved' /\ Place' \in Int
    BY <1>0, <1>b, <1>3, <1>n DEF Counts, Place, Moved
  <2>3. to = "perform" /\ Mode("device") => at = Place'
    BY <2>1, <2>2, <1>0, <1>b, <1>n DEF Answered, Counts, Moved, Mode
  <2>4. to = "perform" /\ Mode("http") /\ ~Refused' => at = Place'
    BY <2>1, <2>2, <1>0, <1>b, <1>n DEF Answered, Counts, Moved, Refused, Mode
  <2>5. Mode("http") \/ Mode("device") \/ Mode("upload")
    BY DEF TypeOK, TransferTypeOK, Mode, Modes
  <2>6. Units(Place', 0) = <<>>
    BY <2>2, NoUnits
  <2> QED BY <2>1, <2>2, <2>3, <2>4, <2>5, <2>6, <1>0, <1>b, <1>3, <1>n DEF Counts, Aligned, At, Mode,
       Unanswered, Receiving, Exited
<1> QED BY <1>3, <1>4, <1>5, <1>6, <1>7


\* The server answers: with the range, with all of the file, or with a refusal.
LEMMA StepAnswer ==
  ASSUME IInv, Answer, UNCHANGED user
  PROVE  IInv'
<1>1. At("connect") /\ Thread
  BY DEF Answer
<1>2. CASE /\ transfer.offset < Length
           /\ transfer' = [transfer EXCEPT !.pc = "perform", !.at = transfer.offset,
                                            !.status = IF transfer.offset = 0 /\ ~Mode("http") THEN 200 ELSE 206]
  <2> DEFINE st == IF transfer.offset = 0 /\ ~Mode("http") THEN 200 ELSE 206
  <2>1. st \in Answers /\ transfer.offset \in Spans /\ (Mode("http") => st = 206)
    BY Numbers DEF IInv, Counts, Answers, Spans
  <2>2. transfer' = [transfer EXCEPT !.pc = "perform", !.at = transfer.offset, !.status = st]
    BY <1>2
  <2>a. transfer.offset \in Nat /\ (transfer.offset # 0 => st = 206)
    BY Numbers DEF IInv, Counts
  <2> HIDE DEF st
  <2>3. Answered(st, transfer.offset, "perform")
    BY <2>1, <2>a, <2>2 DEF Answered
  <2> QED BY <1>1, <2>1, <2>3, StepAnswered
<1>3. CASE Fault("ignore") /\ transfer' = [transfer EXCEPT !.pc = "perform", !.at = 0, !.status = 200]
  <2>1. 0 \in Spans /\ 200 \in Answers
    BY DEF Spans, Answers
  <2>2. Answered(200, 0, "perform")
    <3>1. transfer.offset - transfer.offset = 0
      BY Numbers DEF IInv, Counts
    <3> QED BY <3>1, <1>3 DEF Answered
  <2> QED BY <1>1, <2>1, <2>2, StepAnswered
<1>4. CASE transfer' = [transfer EXCEPT !.pc = "failed", !.status = 416]
  <2>1. transfer \in Transfers /\ transfer.at \in Spans /\ 416 \in Answers /\ "failed" \in Places
    BY SMTT(20), Typed, Numbers DEF IInv, Counts, Spans, Answers, Places
  <2>2. Answered(416, transfer.at, "failed")
    <3>1. [transfer EXCEPT !.pc = "failed", !.status = 416]
            = [transfer EXCEPT !.pc = "failed", !.at = transfer.at, !.status = 416]
      BY ZenonT(40), <2>1, GoesRefused
    <3>2. transfer' = [transfer EXCEPT !.pc = "failed", !.at = transfer.at, !.status = 416]
      BY <1>4, <3>1, Zenon
    <3> QED BY <3>2 DEF Answered
  <2> QED BY <1>1, <2>1, <2>2, StepAnswered
<1> QED BY <1>2, <1>3, <1>4 DEF Answer

\* libcurl calls back with units of the body.
LEMMA StepBody ==
  ASSUME IInv, Body, UNCHANGED user
  PROVE  IInv'
<1> USE DEF IInv, flags, user, call, Thread
<1>n. Counts
  BY Numbers
<1>1. PICK n \in 1 .. Chunk :
        /\ transfer.at + n <= Length
        /\ transfer' = [transfer EXCEPT !.pc = "callback", !.at = @ + n, !.hand = Units(transfer.at, n)]
  BY DEF Body
<1>2. At("perform") /\ ~Mode("upload") /\ UNCHANGED <<setting, flags, sent>>
  BY DEF Body
<1>c. PICK h \in Seq(0 .. Length - 1), at \in 0 .. Length : h = Units(transfer.at, n) /\ Len(h) = n
                                                                 /\ at = transfer.at + n
  <2>1. transfer.at \in Nat /\ transfer.at \in Int /\ n \in Nat /\ transfer.at + n <= Length
    BY <1>1, <1>n DEF Counts
  <2>2. Units(transfer.at, n) \in Seq(0 .. Length - 1) /\ Len(Units(transfer.at, n)) = n
    BY <2>1, UnitsOfFile, UnitsAre
  <2> QED BY <2>1, <2>2
<1>d. transfer' = [transfer EXCEPT !.pc = "callback", !.at = at, !.hand = h]
  BY <1>1, <1>c
<1>a. transfer' \in Transfers
  <2>1. transfer \in Transfers /\ "callback" \in Places /\ h \in FileUnits /\ at \in Spans
    BY Typed DEF Places, FileUnits, Spans
  <2>2. [transfer EXCEPT !.pc = "callback", !.at = at, !.hand = h] \in Transfers
    BY <2>1, GoesCalling
  <2> QED BY <1>d, <2>2
<1>0. /\ transfer'.pc = "callback" /\ transfer'.at = at /\ transfer'.hand = h
      /\ transfer'.offset = transfer.offset /\ transfer'.status = transfer.status
      /\ transfer'.code = transfer.code /\ transfer'.buffer = transfer.buffer
      /\ transfer'.error = transfer.error /\ transfer'.finished = transfer.finished
      /\ transfer'.cancelled = transfer.cancelled
  BY <1>d, Typed DEF Transfers
<1>b. /\ HasTransfer' /\ HasTransfer /\ pc' = pc /\ offset' = offset /\ setting' = setting /\ from' = from
      /\ want' = want /\ got' = got /\ Handed = 0 /\ Handed' = n /\ Buffered' = Buffered /\ ~At("made")
      /\ ~At("exited")
      /\ at = transfer.at + n /\ Len(h) = n /\ n <= Chunk /\ n \in Nat
  BY <1>0, <1>1, <1>2, <1>c, <1>n DEF Counts, Handed, Buffered, Control, At, HasTransfer
<1>3. /\ BytesInOrder' /\ Judged' /\ ResultTrue'
      /\ Position' = Position /\ Moved' = Moved /\ Place' = Place
  BY <1>0, <1>2, <1>b, UserKeeps
<1>4. TypeOK'
  BY <1>a, <1>0, <1>2, <1>b, Typed DEF TypeOK, TransferTypeOK
<1>5. Control'
  BY <1>0, <1>2, <1>b DEF Control, Obtained, At, HasTransfer, Exited, Unanswered, Mode
<1>6. Bounds'
  <2>1. Position + Buffered + Handed <= transfer.offset + transfer.at
    BY <1>2, <1>b DEF Bounds
  <2>2. Position' + Buffered' + Handed' <= transfer'.offset + transfer'.at
    BY SMTT(20), <2>1, <1>0, <1>b, <1>3, <1>n DEF Counts
  <2> QED BY <2>2, <1>b DEF Bounds, Mode
<1>7. Aligned'
  <2>1. ~Refused => transfer.at = Place + Buffered
    BY <1>2, <1>b, <1>n DEF Counts, Aligned, Receiving, At
  <2> QED BY <2>1, <1>c, <1>0, <1>b, <1>3, <1>n DEF Counts, Aligned, At, Mode, Unanswered, Receiving,
       Exited, Refused
<1> QED BY <1>3, <1>4, <1>5, <1>6, <1>7

\* The callback puts the units into the buffer, or ends the transfer.
LEMMA StepPushData ==
  ASSUME IInv, PushData, UNCHANGED user
  PROVE  IInv'
<1>f. CASE Performed("failed")
  <2>1. At("callback") /\ Thread
    BY DEF PushData
  <2> QED BY <1>f, <2>1, StepPerformed DEF At
<1>t. CASE /\ ~Refused /\ ~Interrupted /\ ~transfer.finished /\ HasSpace
           /\ transfer' = [transfer EXCEPT !.pc = "perform", !.hand = <<>>, !.buffer = @ \o transfer.hand]
  <2> USE DEF IInv, Obtained, flags, user, call, Thread
  <2>n. Counts
    BY Numbers
  <2>1. At("callback") /\ UNCHANGED <<setting, flags, sent>>
    BY DEF PushData
  <2>2. PICK b \in FileUnits : b = transfer.buffer \o transfer.hand /\ Len(b) = Buffered + Handed
    <3>1. transfer.buffer \o transfer.hand \in FileUnits
          /\ Len(transfer.buffer \o transfer.hand) = Len(transfer.buffer) + Len(transfer.hand)
      BY Typed, ConcatProperties DEF FileUnits
    <3> QED BY <3>1 DEF Buffered, Handed
  <2>3. transfer' = [transfer EXCEPT !.pc = "perform", !.hand = <<>>, !.buffer = b]
    BY <1>t, <2>2
  <2>a. transfer' \in Transfers
    <3>1. transfer \in Transfers /\ <<>> \in FileUnits /\ "perform" \in Places
      BY Typed, EmptySeq DEF FileUnits, Places
    <3>2. [transfer EXCEPT !.pc = "perform", !.hand = <<>>, !.buffer = b] \in Transfers
      BY <3>1, GoesTaken
    <3> QED BY <2>3, <3>2
  <2>0. /\ transfer'.pc = "perform" /\ transfer'.hand = <<>> /\ transfer'.buffer = b
        /\ transfer'.offset = transfer.offset /\ transfer'.at = transfer.at
      /\ transfer'.status = transfer.status /\ transfer'.code = transfer.code
      /\ transfer'.error = transfer.error /\ transfer'.finished = transfer.finished
      /\ transfer'.cancelled = transfer.cancelled
    BY <2>3, Typed DEF Transfers
  <2>b. /\ HasTransfer' /\ HasTransfer /\ pc' = pc /\ offset' = offset /\ setting' = setting /\ from' = from
        /\ want' = want /\ got' = got /\ ~At("made") /\ ~At("exited") /\ ~Mode("upload") /\ ~Mode("upload")'
        /\ Handed' = 0 /\ Buffered' = Buffered + Handed /\ Buffered' <= MAX_BUFFER_SIZE /\ ~transfer.error
    BY <2>0, <2>1, <2>2, <2>n, <1>t DEF Counts, Handed, Buffered, Control, At, HasTransfer, Mode, HasSpace, Exited
  <2>3a. Position' = Position /\ Place' = Place /\ Moved' = Moved
    <3>1. Position' = Position
      BY DEF Position
    <3>2. Moved' = Moved
      BY <2>0, <2>b DEF Moved, Mode
    <3> QED BY <3>1, <3>2 DEF Place
  <2>4. TypeOK'
    <3>1. Len(transfer'.hand) <= Chunk
      BY <2>b DEF Handed
    <3>2. Len(transfer'.buffer) <= MAX_BUFFER_SIZE
      BY <2>b DEF Buffered
    <3> QED BY <3>1, <3>2, <2>a, <2>1, <2>b DEF TypeOK, TransferTypeOK
  <2>5. Control'
    BY <2>0, <2>1, <2>b DEF Control, At, HasTransfer, Exited, Unanswered, Mode
  <2>6. Bounds'
    <3>1. Position + Buffered + Handed <= transfer.offset + transfer.at
      BY <2>b DEF Bounds
    <3>2. Position' + Buffered' + Handed' <= transfer'.offset + transfer'.at
      BY <3>1, <2>0, <2>b, <2>3a, <2>n DEF Counts
    <3> QED BY <3>2, <2>b DEF Bounds, Mode
  <2>7. Aligned'
    <3>1. /\ transfer.at = Place + Buffered + Handed
          /\ transfer.buffer = Units(Place, Buffered)
          /\ transfer.hand = Units(Place + Buffered, Handed)
      BY <1>t, <2>1, <2>b, <2>n DEF Counts, Aligned, Receiving, At
    <3>2. Units(Place, Buffered) \o Units(Place + Buffered, Handed) = Units(Place, Buffered + Handed)
      <4>1. Place \in Int /\ Buffered \in Nat /\ Handed \in Nat
        BY <2>n DEF Counts
      <4> QED BY <4>1, UnitsConcat
    <3>3. transfer'.buffer = Units(Place, Buffered + Handed)
      BY <3>1, <3>2, <2>0, <2>2
    <3>4. Units(Place' + Buffered', 0) = <<>>
      BY <2>b, <2>3a, <2>n, NoUnits DEF Counts
    <3>5. transfer'.at = Place' + Buffered' + Handed'
      BY <3>1, <2>0, <2>b, <2>3a, <2>n DEF Counts
    <3>6. transfer'.buffer = Units(Place', Buffered')
      BY <3>3, <2>b, <2>3a
    <3>7. transfer'.hand = Units(Place' + Buffered', Handed')
      BY <3>4, <2>0, <2>b
    <3>8. ~Refused' /\ ~Unanswered' /\ ~At("ok")' /\ ~Exited'
      BY <1>t, <2>0, <2>b DEF Refused, Mode, Unanswered, At, Exited
    <3> QED BY <3>5, <3>6, <3>7, <3>8 DEF Aligned
  <2>8. BytesInOrder'
    BY <2>b, <2>3a DEF BytesInOrder, Mode
  <2>9. Judged' /\ ResultTrue'
    BY <2>0, <2>1, <2>b, <2>3a DEF Judged, ResultTrue, Mode
  <2> QED BY <2>4, <2>5, <2>6, <2>7, <2>8, <2>9
<1> QED BY <1>f, <1>t DEF PushData

\* libcurl takes units of an upload out of the buffer, or the callback ends the transfer.
LEMMA StepPullData ==
  ASSUME IInv, PullData, UNCHANGED user
  PROVE  IInv'
<1>f. CASE Performed("failed") /\ UNCHANGED sent
  <2>1. At("perform") /\ Thread
    BY <1>f DEF PullData, Thread
  <2> QED BY <1>f, <2>1, StepPerformed DEF At
<1>t. CASE LET n == Least(Chunk, Len(transfer.buffer)) IN
             /\ sent' = sent \o SubSeq(transfer.buffer, 1, n)
             /\ transfer' = [transfer EXCEPT !.buffer = SubSeq(@, n + 1, Len(@))]
  <2> USE DEF IInv, Obtained, flags, user, call
  <2>n. Counts
    BY Numbers
  <2>1. At("perform") /\ Mode("upload") /\ UNCHANGED <<setting, flags>>
    BY DEF PullData
  <2>2. PICK n \in 0 .. Len(transfer.buffer) : n = Least(Chunk, Len(transfer.buffer))
    BY <2>n DEF Counts, Buffered, Least
  <2>3. PICK b \in FileUnits : /\ b = SubSeq(transfer.buffer, n + 1, Len(transfer.buffer))
                               /\ Len(b) <= Buffered
                               /\ sent' \in FileUnits
                               /\ sent' \o b = sent \o transfer.buffer
    <3>1. sent \in FileUnits /\ transfer.buffer \in FileUnits
      BY Typed DEF FileUnits
    <3>2. /\ SubSeq(transfer.buffer, n + 1, Len(transfer.buffer)) \in FileUnits
          /\ Len(SubSeq(transfer.buffer, n + 1, Len(transfer.buffer))) = Len(transfer.buffer) - n
          /\ sent \o SubSeq(transfer.buffer, 1, n) \in FileUnits
          /\ (sent \o SubSeq(transfer.buffer, 1, n)) \o SubSeq(transfer.buffer, n + 1, Len(transfer.buffer))
               = sent \o transfer.buffer
      BY <3>1, FrontMoves
    <3>3. sent' = sent \o SubSeq(transfer.buffer, 1, n)
      BY <1>t, <2>2
    <3>4. Len(SubSeq(transfer.buffer, n + 1, Len(transfer.buffer))) <= Buffered
      BY <3>2, <2>n DEF Counts, Buffered
    <3> QED BY <3>2, <3>3, <3>4
  <2>4. transfer' = [transfer EXCEPT !.buffer = b]
    BY <1>t, <2>2, <2>3
  <2>a. transfer' \in Transfers
    <3>1. transfer \in Transfers
      BY Typed
    <3> QED BY <2>4, <3>1, Buffers
  <2>0. /\ transfer'.buffer = b
        /\ transfer'.pc = transfer.pc /\ transfer'.offset = transfer.offset
      /\ transfer'.at = transfer.at /\ transfer'.status = transfer.status
      /\ transfer'.code = transfer.code /\ transfer'.hand = transfer.hand
      /\ transfer'.error = transfer.error /\ transfer'.finished = transfer.finished
      /\ transfer'.cancelled = transfer.cancelled
    BY <2>4, Typed DEF Transfers
  <2>b. /\ HasTransfer' /\ HasTransfer /\ pc' = pc /\ offset' = offset /\ setting' = setting /\ from' = from
        /\ want' = want /\ got' = got /\ Buffered' <= Buffered /\ ~At("made") /\ ~At("exited")
        /\ m_cancelled' = m_cancelled /\ Mode("upload")' /\ ~Mode("device")'
    BY <2>0, <2>1, <2>3 DEF Handed, Buffered, At, HasTransfer, Mode
  <2>5. TypeOK'
    <3>1. Buffered' <= MAX_BUFFER_SIZE
      <4>1. Buffered <= MAX_BUFFER_SIZE /\ Buffered' = Len(b)
        BY <2>0 DEF TypeOK, TransferTypeOK, Buffered
      <4>2. Len(b) \in Nat
        BY LenProperties DEF FileUnits
      <4> QED BY <4>1, <4>2, <2>b, <2>n DEF Counts
    <3> QED BY <3>1, <2>a, <2>0, <2>1, <2>3, <2>b DEF TypeOK, TransferTypeOK, Buffered, FileUnits
  <2>6. Control'
    BY <2>0, <2>1, <2>b DEF Control, At, HasTransfer, Exited, Unanswered, Mode
  <2>7. Bounds' /\ Aligned'
    BY <2>b DEF Bounds, Aligned, Mode
  <2>8. BytesInOrder'
    <3>1. Moved' = Moved
      BY <2>0, <2>b DEF Moved, Mode
    <3> QED BY <3>1, <2>0, <2>3, <2>b DEF BytesInOrder, Mode
  <2>9. Judged' /\ ResultTrue'
    BY <2>b DEF Judged, ResultTrue, Mode
  <2> QED BY <2>5, <2>6, <2>7, <2>8, <2>9
<1> QED BY <1>f, <1>t DEF PullData

\* The thread stores what has come of the transfer and is gone.
LEMMA Stepthread_func ==
  ASSUME IInv, thread_func, UNCHANGED user
  PROVE  IInv'
<1> USE DEF IInv, Obtained, flags, user, call, Thread
<1>n. Counts
  BY Numbers
<1>1. /\ transfer.pc \in {"ok", "failed"} /\ UNCHANGED <<setting, flags, sent>>
      /\ transfer' = [transfer EXCEPT !.pc = "exited", !.finished = TRUE, !.error = At("failed"),
                                       !.code = transfer.status]
  BY DEF thread_func
<1>a. transfer' \in Transfers
  <2>1. transfer \in Transfers /\ At("failed") \in BOOLEAN
    BY Typed DEF At
  <2>2. \A t \in Transfers, e \in BOOLEAN :
          [t EXCEPT !.pc = "exited", !.finished = TRUE, !.error = e, !.code = t.status] \in Transfers
    <3>1. "exited" \in Places
      BY DEF Places
    <3> QED BY <3>1, TransfersAre
  <2> QED BY <1>1, <2>1, <2>2
<1>0. /\ transfer'.pc = "exited" /\ transfer'.finished = TRUE /\ transfer'.error = At("failed")
      /\ transfer'.offset = transfer.offset /\ transfer'.at = transfer.at
      /\ transfer'.status = transfer.status /\ transfer'.buffer = transfer.buffer
      /\ transfer'.hand = transfer.hand /\ transfer'.cancelled = transfer.cancelled
  BY <1>1, Typed DEF Transfers
<1>b. /\ HasTransfer' /\ HasTransfer /\ pc' = pc /\ offset' = offset /\ setting' = setting /\ from' = from
      /\ want' = want /\ got' = got /\ ~At("made") /\ ~At("exited") /\ m_cancelled' = m_cancelled
      /\ Handed' = Handed /\ Buffered' = Buffered /\ ~transfer.error
  BY <1>0, <1>1 DEF Handed, Buffered, Control, At, HasTransfer, Exited
<1>3. /\ BytesInOrder' /\ Judged' /\ ResultTrue'
      /\ Position' = Position /\ Moved' = Moved /\ Place' = Place
  BY <1>0, <1>1, <1>b, UserKeeps
<1>4. TypeOK'
  BY <1>a, <1>0, <1>1, <1>b DEF TypeOK, TransferTypeOK
<1>5. Control'
  BY <1>0, <1>1, <1>b DEF Control, At, HasTransfer, Exited, Unanswered, Mode
<1>6. Bounds'
  BY <1>0, <1>b, <1>3 DEF Bounds, Mode
<1>7. Aligned'
  BY ZenonT(40), <1>0, <1>1, <1>b, <1>3 DEF Aligned, At, Mode, Unanswered, Receiving, Exited, Refused,
       HasTransfer
<1> QED BY <1>3, <1>4, <1>5, <1>6, <1>7

\* A step of the thread.
LEMMA StepCurl ==
  ASSUME IInv, Curl
  PROVE  IInv'
<1>1. UNCHANGED user
  BY DEF Curl
<1>2. CASE BodyEnds
  BY <1>1, <1>2, StepPerformed DEF BodyEnds, At
<1>3. CASE Breaks
  BY <1>1, <1>3, StepPerformed DEF Breaks, Performing
<1>4. CASE Wedges
  BY <1>1, <1>4, StepPerformed DEF Wedges, Performing
<1>5. CASE progress_callback
  BY <1>1, <1>5, StepPerformed DEF progress_callback, Performing
<1>6. CASE Answer \/ Body \/ PushData \/ PullData \/ thread_func
  BY <1>1, <1>6, StepAnswer, StepBody, StepPushData, StepPullData, Stepthread_func
<1> QED BY <1>2, <1>3, <1>4, <1>5, <1>6 DEF Curl, CurlThread

-------------------------------------------------------------------------------
(* The steps of the user *)

\* A transfer that is not there, and one that has not begun.
LEMMA Fresh ==
  /\ NoTransfer \in Transfers /\ NoTransfer.pc = "none" /\ NoTransfer.hand = <<>>
  /\ ~NoTransfer.finished /\ ~NoTransfer.error /\ Len(NoTransfer.hand) = 0 /\ Len(NoTransfer.buffer) = 0
  /\ \A o \in Spans :
       /\ Made(o) \in Transfers /\ Made(o).pc = "made" /\ Made(o).offset = o /\ Made(o).at = 0 /\ Made(o).status = 0
       /\ Made(o).hand = <<>> /\ Made(o).buffer = <<>> /\ Len(Made(o).hand) = 0 /\ Len(Made(o).buffer) = 0
       /\ ~Made(o).error /\ ~Made(o).finished /\ ~Made(o).cancelled
<1>1. 0 \in Spans /\ 0 \in Answers /\ <<>> \in FileUnits /\ "none" \in Places /\ "made" \in Places /\ Len(<<>>) = 0
  BY EmptySeq DEF Spans, Answers, FileUnits, Places
<1>2. NoTransfer \in Transfers
  BY <1>1, TransfersAre DEF NoTransfer
<1>3. \A o \in Spans : Made(o) \in Transfers
  BY <1>1, <1>2, TransfersAre DEF Made
<1>4. \A o \in Spans : /\ Made(o).pc = "made" /\ Made(o).offset = o /\ Made(o).at = 0 /\ Made(o).status = 0
                       /\ Made(o).hand = <<>> /\ Made(o).buffer = <<>>
                       /\ ~Made(o).error /\ ~Made(o).finished /\ ~Made(o).cancelled
  BY DEF Made, NoTransfer
<1>5. /\ NoTransfer.pc = "none" /\ NoTransfer.hand = <<>> /\ NoTransfer.buffer = <<>>
      /\ ~NoTransfer.finished /\ ~NoTransfer.error
  BY DEF NoTransfer
<1> QED BY <1>1, <1>2, <1>3, <1>4, <1>5

\* Cancel() raises its two flags and leaves the rest alone.
Cancelling ==
  /\ transfer'.pc = transfer.pc /\ transfer'.offset = transfer.offset
      /\ transfer'.at = transfer.at /\ transfer'.status = transfer.status
      /\ transfer'.code = transfer.code /\ transfer'.buffer = transfer.buffer
      /\ transfer'.hand = transfer.hand /\ transfer'.error = transfer.error
  /\ \/ transfer'.finished = transfer.finished /\ transfer'.cancelled = transfer.cancelled
     \/ transfer'.finished = TRUE /\ transfer'.cancelled = TRUE
\* The transfer is cancelled, or left alone.
LEMMA Cancels ==
  ASSUME TypeOK, transfer' = Cancel(transfer) \/ UNCHANGED transfer, UNCHANGED <<setting, sent, flags>>
  PROVE  /\ transfer' \in Transfers /\ Cancelling /\ TransferTypeOK'
         /\ Buffered' = Buffered /\ Handed' = Handed /\ HasTransfer' = HasTransfer /\ Moved' = Moved
<1>1. transfer' \in Transfers
  <2>1. [transfer EXCEPT !.cancelled = TRUE, !.finished = TRUE] \in Transfers
    BY Typed, TransfersAre
  <2> QED BY <2>1, Typed DEF Cancel
<1>2. Cancelling
  BY Typed, TransfersAre DEF Cancel, Cancelling
<1>3. Buffered' = Buffered /\ Handed' = Handed /\ HasTransfer' = HasTransfer /\ Moved' = Moved
  BY <1>2 DEF Cancelling, Buffered, Handed, HasTransfer, At, Moved, Mode
<1>4. TransferTypeOK'
  <2>1. Len(transfer'.hand) <= Chunk
    BY <1>3 DEF Handed, TypeOK, TransferTypeOK
  <2>2. Len(transfer'.buffer) <= MAX_BUFFER_SIZE
    BY <1>3 DEF Buffered, TypeOK, TransferTypeOK
  <2> QED BY <2>1, <2>2, <1>1 DEF TypeOK, TransferTypeOK, flags
<1> QED BY <1>1, <1>2, <1>3, <1>4

\* The transfer is destroyed, and its user goes on without it.
LEMMA StepDestroyed ==
  ASSUME IInv, transfer' = NoTransfer,
         UNCHANGED <<setting, sent, flags, m_request_offset, from, want, got, stalls, code>>,
         offset' \in {offset, from}, ~Mode("device") \/ pc' # "closed" => offset' <= Length,
         pc' \in {"idle", "closed", "loop", "resume"}, pc' \in {"loop", "resume"} => Mode("http"),
         result' \in {result, "fail"}, pc' = "idle" => result' \in {"none", "fail"},
         pc # "closed", Mode("device") /\ pc' # "closed" => got = <<>>
  PROVE  IInv'
<1> USE DEF IInv, flags
<1>n. Counts
  BY Numbers
<1>0. transfer' \in Transfers /\ transfer'.pc = "none" /\ transfer'.hand = <<>> /\ ~transfer'.finished
      /\ ~transfer'.error /\ Len(transfer'.hand) = 0 /\ Len(transfer'.buffer) = 0
  BY Fresh
<1>1. TypeOK'
  <2>1. Len(transfer'.hand) <= Chunk
    BY <1>0
  <2>2. Len(transfer'.buffer) <= MAX_BUFFER_SIZE
    BY <1>0
  <2> QED BY <2>1, <2>2, <1>0 DEF TypeOK, TransferTypeOK
<1>2. Control'
  BY <1>0 DEF Control, At, HasTransfer, Exited, Unanswered, Mode
<1>3. Bounds' /\ Aligned'
  <2>1. ~HasTransfer'
    BY <1>0 DEF HasTransfer, At
  <2> QED BY <2>1 DEF Bounds, Aligned, Mode
<1>4. BytesInOrder'
  <2>1. CASE Mode("device")
    <3>1. from' - Moved' \in Int
      BY <1>0, <1>n DEF Counts, Moved, Transfers
    <3>2. Units(from' - Moved', 0) = <<>>
      BY <3>1, NoUnits
    <3> QED BY <2>1, <3>2, <1>n DEF Counts, BytesInOrder, Mode
  <2>2. CASE ~Mode("device")
    <3>1. Moved' = 0 /\ Moved = 0
      BY <2>2 DEF Moved, Mode
    <3> QED BY <3>1, <2>2, <1>0 DEF BytesInOrder, HasTransfer, At, Mode
  <2> QED BY <2>1, <2>2
<1>5. Judged' /\ ResultTrue'
  BY <1>0 DEF Judged, ResultTrue, HasTransfer, At, Mode
<1> QED BY <1>1, <1>2, <1>3, <1>4, <1>5

\* The thread is started, or cannot be.
LEMMA StepStartThread ==
  ASSUME IInv, StartThread
  PROVE  IInv'
<1> USE DEF IInv, flags
<1>n. Counts
  BY Numbers
<1>1. /\ pc = "start" /\ UNCHANGED <<setting, sent, flags, m_request_offset, from, want, got, stalls, code>>
  BY DEF StartThread, In
<1>2. /\ At("made") /\ HasTransfer /\ transfer.offset = from + Obtained /\ (Mode("http") \/ transfer.offset = offset)
      /\ transfer.buffer = <<>> /\ transfer.status = 0 /\ transfer.at = 0 /\ transfer.hand = <<>> /\ ~transfer.error
  BY <1>1 DEF Control, At, HasTransfer, Unanswered, Exited
<1>f. CASE /\ transfer' = NoTransfer
           /\ result' = "fail" /\ pc' = (IF Mode("upload") THEN "closed" ELSE "idle")
           /\ UNCHANGED offset
  <2>1. ~Mode("device") \/ pc' # "closed" => offset' <= Length
    BY <1>f, <1>1, <1>2, <1>n DEF Counts, Bounds, Mode
  <2>2. Mode("device") => got = <<>>
    BY <1>1, <1>2 DEF Control, Unanswered, At
  <2> QED BY <1>f, <1>1, <2>1, <2>2, StepDestroyed
<1>t. CASE /\ transfer' = [transfer EXCEPT !.pc = IF Mode("upload") THEN "perform" ELSE "connect"]
           /\ pc' = (IF Mode("upload") THEN "idle" ELSE "pull")
           /\ offset' = transfer.offset
           /\ UNCHANGED result
  <2> DEFINE p == IF Mode("upload") THEN "perform" ELSE "connect"
  <2>a. transfer' \in Transfers
    <3>1. p \in Places /\ transfer \in Transfers
      BY Typed DEF Places
    <3>2. transfer' = [transfer EXCEPT !.pc = p]
      BY <1>t
    <3> HIDE DEF p
    <3> QED BY <3>1, <3>2, TransfersAre
  <2>0. /\ transfer'.pc = p
        /\ transfer'.offset = transfer.offset /\ transfer'.at = transfer.at
      /\ transfer'.status = transfer.status /\ transfer'.code = transfer.code
      /\ transfer'.buffer = transfer.buffer /\ transfer'.hand = transfer.hand
      /\ transfer'.error = transfer.error /\ transfer'.finished = transfer.finished
      /\ transfer'.cancelled = transfer.cancelled
    BY <1>t, Typed DEF Transfers
  <2>b. /\ HasTransfer' /\ Buffered' = Buffered /\ Handed' = Handed
        /\ (~Mode("upload") => Position' = Position) /\ (Mode("upload") => offset' = offset) /\ Moved' = Moved
    BY <1>1, <1>2, <1>t, <2>0 DEF HasTransfer, At, Buffered, Handed, Obtained, Position, Moved, Mode
  <2>c. ~Mode("upload") => Place' = Place
    BY <2>b DEF Place
  <2>1. TypeOK'
    <3>1. Len(transfer'.hand) <= Chunk
      BY <2>0 DEF TypeOK, TransferTypeOK
    <3>2. Len(transfer'.buffer) <= MAX_BUFFER_SIZE
      BY <2>0 DEF TypeOK, TransferTypeOK
    <3>3. offset' \in 0 .. 2 * Length
      BY <1>t, <1>n DEF Counts
    <3> QED BY <3>1, <3>2, <3>3, <2>a, <1>1, <1>t DEF TypeOK, TransferTypeOK
  <2>2. Control'
    BY <2>0, <1>1, <1>2, <1>t DEF Control, At, HasTransfer, Exited, Unanswered, Mode
  <2>3. Bounds'
    BY <2>0, <2>b, <1>1, <1>t, <1>2, <1>n DEF Counts, Bounds, Mode
  <2>4. Aligned'
    BY <2>0, <2>b, <2>c, <1>1, <1>t, <1>2 DEF Aligned, Mode, Refused, Unanswered, Receiving, At, Exited
  <2>5. BytesInOrder'
    BY <2>0, <2>b, <1>1, <1>t, <1>2 DEF BytesInOrder, Mode
  <2>6. Judged' /\ ResultTrue'
    BY <2>0, <1>1, <1>t DEF Judged, ResultTrue, Mode, Modes
  <2> QED BY <2>1, <2>2, <2>3, <2>4, <2>5, <2>6
<1> QED BY <1>f, <1>t DEF StartThread, Goto

\* The user takes units out of the buffer, or is told that nothing more will come.
LEMMA StepPull ==
  ASSUME IInv, Pull
  PROVE  IInv'
<1> USE DEF IInv, flags
<1>n. Counts
  BY Numbers
<1>1. /\ pc = "pull" /\ UNCHANGED <<setting, sent, flags, offset, m_request_offset, from, want, result, code>>
      /\ HasTransfer /\ ~Mode("upload")
  BY DEF Pull, In, Control
<1>2. PICK n \in 0 .. Buffered :
        /\ n <= want - Obtained
        /\ PullsNothing => n = 0
        /\ got' = got \o SubSeq(transfer.buffer, 1, n)
        /\ transfer' = [transfer EXCEPT !.buffer = SubSeq(@, n + 1, Len(@))]
        /\ stalls' \in {stalls, 0}
        /\ \/ pc' = "pull"
           \/ pc' = "judge" /\ (PullsNothing \/ n = want - Obtained \/ (n = Buffered /\ transfer.finished))
  <2> DEFINE m == IF PullsNothing THEN 0 ELSE Least(want - Obtained, Buffered)
  <2>1. m \in 0 .. Buffered /\ m <= want - Obtained /\ (PullsNothing => m = 0)
    BY <1>n DEF Counts, Least
  <2>2. /\ got' = got \o SubSeq(transfer.buffer, 1, m)
        /\ transfer' = [transfer EXCEPT !.buffer = SubSeq(@, m + 1, Len(@))]
        /\ stalls' \in {stalls, 0}
        /\ \/ pc' = "pull"
           \/ pc' = "judge" /\ (PullsNothing \/ m = want - Obtained \/ (m = Buffered /\ transfer.finished))
    BY DEF Pull, Goto, Buffered, Obtained
  <2> HIDE DEF m
  <2> QED BY <2>1, <2>2
<1>3. PICK b \in FileUnits : b = SubSeq(transfer.buffer, n + 1, Len(transfer.buffer)) /\ Len(b) = Buffered - n
                             /\ got' \in FileUnits /\ Obtained' = Obtained + n
  <2>1. got \in FileUnits /\ transfer.buffer \in FileUnits /\ n \in 0 .. Len(transfer.buffer)
    BY Typed DEF FileUnits, Buffered
  <2>2. /\ SubSeq(transfer.buffer, n + 1, Len(transfer.buffer)) \in FileUnits
        /\ Len(SubSeq(transfer.buffer, n + 1, Len(transfer.buffer))) = Len(transfer.buffer) - n
        /\ got \o SubSeq(transfer.buffer, 1, n) \in FileUnits
        /\ Len(got \o SubSeq(transfer.buffer, 1, n)) = Len(got) + n
    BY <2>1, FrontMoves
  <2> QED BY <2>2, <1>2 DEF Buffered, Obtained
<1>4. transfer' = [transfer EXCEPT !.buffer = b]
  BY <1>2, <1>3
<1>a. transfer' \in Transfers
  <2>1. transfer \in Transfers
    BY Typed
  <2> QED BY <1>4, <2>1, Buffers
<1>0. /\ transfer'.buffer = b
      /\ transfer'.pc = transfer.pc /\ transfer'.offset = transfer.offset
      /\ transfer'.at = transfer.at /\ transfer'.status = transfer.status
      /\ transfer'.code = transfer.code /\ transfer'.hand = transfer.hand
      /\ transfer'.error = transfer.error /\ transfer'.finished = transfer.finished
      /\ transfer'.cancelled = transfer.cancelled
  BY <1>4, Typed DEF Transfers
<1>b. /\ HasTransfer' /\ Handed' = Handed /\ Buffered' = Buffered - n /\ n \in Nat /\ n <= Buffered
      /\ from' = from /\ want' = want /\ offset' = offset
  BY <1>0, <1>1, <1>3, <1>n DEF Counts, HasTransfer, At, Buffered, Handed
<1>c. Obtained' \in Nat /\ Obtained' = Obtained + n /\ Obtained' <= want
  <2>1. n <= want - Obtained
    BY <1>2
  <2>2. Obtained' = Obtained + n
    BY <1>3
  <2> QED BY <2>1, <2>2, <1>b, <1>n DEF Counts
<1>d. Position = from + Obtained /\ Position' = Position + n /\ Position' + Buffered' = Position + Buffered
      /\ Position' \in Nat /\ Buffered' \in Nat /\ Moved' = Moved
      /\ Place = from - Moved + Obtained /\ Place' = Place + n /\ Place' + Buffered' = Place + Buffered
  <2>1. Position = from + Obtained /\ Position' = from + Obtained'
    BY <1>1, <1>2, <1>b DEF Position
  <2>2. Moved' = Moved
    BY <1>0, <1>1 DEF Moved, Mode
  <2>3. Place = Position - Moved /\ Place' = Position' - Moved
    BY <2>2 DEF Place
  <2> QED BY <2>1, <2>2, <2>3, <1>b, <1>c, <1>n DEF Counts
<1>e. transfer.buffer = <<>> => n = 0 /\ b = <<>>
  <2>1. transfer.buffer = <<>> => Buffered = 0
    BY <1>n DEF Buffered, Counts
  <2>2. Len(b) = 0 => b = <<>>
    BY EmptySeq DEF FileUnits
  <2> QED BY <2>1, <2>2, <1>3, <1>b
<1>5. TypeOK'
  <2>1. Len(transfer'.hand) <= Chunk
    BY <1>0 DEF TypeOK, TransferTypeOK
  <2>2. Len(transfer'.buffer) <= MAX_BUFFER_SIZE
    <3>1. Buffered <= MAX_BUFFER_SIZE
      BY DEF TypeOK, TransferTypeOK, Buffered
    <3>2. Buffered' <= MAX_BUFFER_SIZE
      BY <3>1, <1>b, <1>n DEF Counts
    <3> QED BY <3>2 DEF Buffered
  <2>3. stalls' \in 0 .. Attempts
    <3>1. stalls \in 0 .. Attempts
      BY DEF TypeOK
    <3> QED BY <3>1, <1>2
  <2>4. Len(got') <= want
    BY <1>c DEF Obtained
  <2>5. TransferTypeOK'
    BY <2>1, <2>2, <1>a, <1>1 DEF TypeOK, TransferTypeOK
  <2>6. got' \in Seq(0 .. Length - 1) /\ pc' \in {"pull", "judge"}
    BY <1>2, <1>3 DEF FileUnits
  <2> QED BY <2>3, <2>4, <2>5, <2>6, <1>1 DEF TypeOK
<1>6. Control'
  <2>1. Unanswered => got' = got
    <3>1. Unanswered => SubSeq(transfer.buffer, 1, n) = <<>>
      BY <1>e, Typed DEF Control
    <3> QED BY <3>1, <1>2, Typed, ConcatEmptySeq
  <2>2. Mode("device") /\ Unanswered /\ pc' = "judge" /\ Obtained' < want => transfer.cancelled
    <3>1. n # want - Obtained \/ ~(Obtained' < want)
      BY <1>c, <1>n DEF Counts
    <3>2. Mode("device") /\ Unanswered => ~m_cancelled /\ ~transfer.error
      BY DEF Control, Unanswered, Exited, At, Mode
    <3>3. Unanswered /\ transfer.finished => transfer.cancelled
      BY DEF Control, Unanswered, Exited, At
    <3> QED BY <3>1, <3>2, <3>3, <1>2 DEF PullsNothing
  <2> QED BY <2>1, <2>2, <1>0, <1>1, <1>2, <1>e DEF Control, At, HasTransfer, Exited, Unanswered, Mode
<1>7. Bounds'
  <2>1. Position + Buffered + Handed <= transfer.offset + transfer.at
    BY <1>1 DEF Bounds
  <2>2. Position' + Buffered' + Handed' <= transfer'.offset + transfer'.at
    BY <2>1, <1>0, <1>b, <1>d, <1>n DEF Counts
  <2>3. setting' = setting /\ pc # "closed" /\ pc' # "destroy"
    BY <1>1, <1>2
  <2> QED BY <2>2, <2>3, <1>1, <1>b DEF Bounds, Mode
<1>8. ~transfer.error => transfer.buffer = Units(Place, Buffered)
  BY <1>1 DEF Aligned
<1>9. Aligned'
  <2>1. ~transfer.error => transfer'.buffer = Units(Place', Buffered')
    <3>1. SubSeq(Units(Place, Buffered), n + 1, Buffered) = Units(Place + n, Buffered - n)
      <4>1. Place \in Int /\ Buffered \in Nat /\ n \in 0 .. Buffered
        BY <1>n DEF Counts
      <4> QED BY <4>1, UnitsSplit
    <3>2. ~transfer.error => b = Units(Place + n, Buffered - n)
      BY <3>1, <1>8, <1>3 DEF Buffered
    <3> QED BY <3>2, <1>0, <1>b, <1>d
  <2>2. Unanswered => n = 0
    BY <1>e DEF Control
  <2>3. Unanswered => Position' = Position /\ Place' = Place
    BY <2>2, <1>d, <1>n DEF Counts
  <2>4. setting' = setting
    BY <1>1
  <2> QED BY SMTT(20), <2>1, <2>3, <2>4, <1>0, <1>1, <1>b, <1>d, <1>e DEF Aligned, Mode, Refused, Unanswered,
        Receiving, At, Exited
<1>10. got' = Units(from - Moved, Obtained')
  <2>1. got = Units(from - Moved, Obtained)
    BY <1>1 DEF BytesInOrder, Obtained
  <2>2. CASE transfer.error
    <3>1. n = 0
      BY <1>2, <2>2 DEF PullsNothing
    <3>2. SubSeq(transfer.buffer, 1, n) = <<>>
      BY <3>1, Typed
    <3>3. got' = got
      BY <3>2, <1>2, Typed, ConcatEmptySeq
    <3> QED BY <3>3, <2>1, <1>1 DEF Obtained
  <2>3. CASE ~transfer.error
    <3>1. SubSeq(Units(Place, Buffered), 1, n) = Units(Place, n)
      <4>1. Place \in Int /\ Buffered \in Nat /\ n \in 0 .. Buffered
        BY <1>n DEF Counts
      <4> QED BY <4>1, UnitsSplit
    <3>2. Units(from - Moved, Obtained) \o Units(from - Moved + Obtained, n) = Units(from - Moved, Obtained + n)
      <4>1. from - Moved \in Int /\ Obtained \in Nat /\ n \in Nat
        BY <1>n, <1>b DEF Counts
      <4> QED BY <4>1, UnitsConcat
    <3> QED BY <3>1, <3>2, <2>1, <2>3, <1>8, <1>2, <1>c, <1>d
  <2> QED BY <2>2, <2>3
<1>11. BytesInOrder'
  BY <1>10, <1>1, <1>b, <1>d DEF BytesInOrder, Mode, Obtained
<1>12. Judged'
  <2> SUFFICES ASSUME Mode("device"), pc' = "judge", Obtained' < want
               PROVE  transfer.error \/ transfer.cancelled \/ from - Moved + Obtained' = Length
    BY <1>0, <1>1, <1>d DEF Judged, Mode
  <2>1. CASE PullsNothing
    BY <2>1 DEF PullsNothing, Control, Mode
  <2>2. CASE n = Buffered /\ transfer.finished /\ ~transfer.error /\ ~transfer.cancelled
    <3>1. Exited
      BY <2>2 DEF Control
    <3>2. Place + Buffered = Length
      BY <3>1, <2>2, <1>1 DEF Aligned
    <3>3. from - Moved + Obtained' = Place + Buffered
      BY <2>2, <1>c, <1>d, <1>n DEF Counts
    <3> QED BY <3>2, <3>3
  <2>3. n # want - Obtained
    BY <1>c, <1>n DEF Counts
  <2> QED BY <2>1, <2>2, <2>3, <1>2
<1>13. ResultTrue'
  BY <1>2 DEF ResultTrue
<1> QED BY <1>5, <1>6, <1>7, <1>9, <1>11, <1>12, <1>13

\* The user puts units into the buffer of an upload, or finds that nobody takes them any more.
LEMMA StepPush ==
  ASSUME IInv, Push
  PROVE  IInv'
<1> USE DEF IInv, flags
<1>n. Counts
  BY Numbers
<1>1. /\ pc = "push" /\ UNCHANGED <<setting, sent, flags, m_request_offset, from, want, stalls, code>>
      /\ Mode("upload") /\ ~Mode("device") /\ ~Mode("http") /\ from = offset /\ from + want <= Length
  BY DEF Push, In, Control, Mode, Bounds
<1>2. PICK n \in Nat :
        /\ n <= want - Obtained /\ n <= MAX_BUFFER_SIZE - Buffered
        /\ got' = got \o Units(from + Obtained, n)
        /\ transfer' = [transfer EXCEPT !.buffer = @ \o Units(from + Obtained, n)]
        /\ \/ pc' = "push" /\ offset' = offset /\ result' = result
           \/ pc' = "idle" /\ offset' = from + Obtained' /\ result' \in {"fail", "ok"}
  <2> DEFINE m == IF transfer.error \/ transfer.finished THEN 0
                  ELSE Least(want - Obtained, MAX_BUFFER_SIZE - Buffered)
  <2>1. m \in Nat /\ m <= want - Obtained /\ m <= MAX_BUFFER_SIZE - Buffered
    <3>1. Buffered <= MAX_BUFFER_SIZE
      BY DEF TypeOK, TransferTypeOK, Buffered
    <3> QED BY <3>1, <1>n DEF Counts, Least
  <2>2. /\ got' = got \o Units(from + Obtained, m)
        /\ transfer' = [transfer EXCEPT !.buffer = @ \o Units(from + Obtained, m)]
        /\ \/ pc' = "push" /\ offset' = offset /\ result' = result
           \/ pc' = "idle" /\ offset' = from + Obtained' /\ result' \in {"fail", "ok"}
    BY <1>1 DEF Push, Goto, Return, Obtained, Buffered
  <2> HIDE DEF m
  <2> QED BY <2>1, <2>2
<1>m. n <= want - Obtained /\ from + want <= Length /\ from = offset
  BY <1>1, <1>2
<1>3. PICK k \in Nat : k = from + Obtained /\ k + n <= Length /\ k \in Int
  BY <1>m, <1>n DEF Counts
<1>4. /\ got' = Units(from, Obtained + n) /\ got' \in FileUnits /\ Obtained' = Obtained + n
  <2>1. got = Units(from, Obtained)
    BY <1>1, <1>n DEF Counts, BytesInOrder, Obtained
  <2>2. Units(from, Obtained) \o Units(from + Obtained, n) = Units(from, Obtained + n)
    <3>1. from \in Int /\ Obtained \in Nat /\ n \in Nat
      BY <1>n DEF Counts
    <3> QED BY ZenonT(40), <3>1, UnitsConcat
  <2>3. PICK l \in Nat : l = Obtained + n /\ from + l <= Length
    BY <1>3, <1>n DEF Counts
  <2>4. Units(from, l) \in FileUnits /\ Len(Units(from, l)) = l
    <3>1. from \in Nat /\ from \in Int
      BY <1>n DEF Counts
    <3> QED BY <2>3, <3>1, UnitsOfFile, UnitsAre DEF FileUnits
  <2> QED BY <2>1, <2>2, <2>3, <2>4, <1>2 DEF Obtained
<1>5. PICK b \in FileUnits : b = transfer.buffer \o Units(k, n) /\ Len(b) = Buffered + n
  <2>1. transfer.buffer \in FileUnits /\ Units(k, n) \in FileUnits /\ Len(Units(k, n)) = n
    BY Typed, <1>3, UnitsOfFile, UnitsAre DEF FileUnits
  <2>2. transfer.buffer \o Units(k, n) \in FileUnits
        /\ Len(transfer.buffer \o Units(k, n)) = Len(transfer.buffer) + Len(Units(k, n))
    BY <2>1, ConcatProperties DEF FileUnits
  <2> QED BY <2>1, <2>2 DEF Buffered
<1>6. transfer' = [transfer EXCEPT !.buffer = b]
  BY <1>2, <1>3, <1>5
<1>a. transfer' \in Transfers
  <2>1. transfer \in Transfers
    BY Typed
  <2> QED BY <1>6, <2>1, Buffers
<1>0. /\ transfer'.buffer = b
      /\ transfer'.pc = transfer.pc /\ transfer'.offset = transfer.offset
      /\ transfer'.at = transfer.at /\ transfer'.status = transfer.status
      /\ transfer'.code = transfer.code /\ transfer'.hand = transfer.hand
      /\ transfer'.error = transfer.error /\ transfer'.finished = transfer.finished
      /\ transfer'.cancelled = transfer.cancelled
  BY <1>6, Typed DEF Transfers
<1>7. TypeOK'
  <2>1. Len(transfer'.hand) <= Chunk
    BY <1>0 DEF TypeOK, TransferTypeOK
  <2>2. Len(transfer'.buffer) <= MAX_BUFFER_SIZE
    <3>1. Len(transfer'.buffer) = Buffered + n
      BY <1>0, <1>5
    <3>2. Buffered \in Nat /\ MAX_BUFFER_SIZE \in Nat
      BY <1>n DEF Counts
    <3> QED BY <3>1, <3>2, <1>2
  <2>3. Obtained' <= want /\ offset' \in 0 .. 2 * Length
    <3>1. offset \in 0 .. 2 * Length
      BY DEF TypeOK
    <3>2. Obtained' = Obtained + n /\ offset' \in {offset, from + Obtained'}
      BY <1>2, <1>4
    <3> QED BY <3>1, <3>2, <1>m, <1>n DEF Counts
  <2>4. Len(got') <= want
    BY <2>3 DEF Obtained
  <2>5. TransferTypeOK'
    BY <2>1, <2>2, <1>a, <1>1 DEF TypeOK, TransferTypeOK
  <2>6. got' \in Seq(0 .. Length - 1) /\ pc' \in {"push", "idle"} /\ result' \in {result, "fail", "ok"}
    BY <1>2, <1>4 DEF FileUnits
  <2> QED BY <2>3, <2>4, <2>5, <2>6, <1>1 DEF TypeOK
<1>8. Control'
  BY <1>0, <1>1, <1>2 DEF Control, At, HasTransfer, Exited, Unanswered, Mode
<1>9. Bounds' /\ Aligned'
  <2>1. offset' <= Length
    <3>1. Obtained' = Obtained + n /\ offset' \in {offset, from + Obtained'}
      BY <1>2, <1>4
    <3> QED BY <3>1, <1>m, <1>n DEF Counts
  <2> QED BY <2>1, <1>1, <1>2 DEF Bounds, Aligned, Mode
<1>10. HasTransfer => sent' \o transfer'.buffer = Units(0, from + Obtained')
  <2>1. HasTransfer => sent \o transfer.buffer = Units(0, k)
    BY <1>1, <1>3 DEF BytesInOrder, Obtained
  <2>2. sent \in FileUnits /\ transfer.buffer \in FileUnits /\ Units(k, n) \in FileUnits
    BY Typed, <1>3, UnitsOfFile DEF FileUnits
  <2>3. (sent \o transfer.buffer) \o Units(k, n) = sent \o (transfer.buffer \o Units(k, n))
    BY ZenonT(40), <2>2, UnitsAssociate
  <2>4. Units(0, k) \o Units(0 + k, n) = Units(0, k + n)
    <3>1. 0 \in Int
      OBVIOUS
    <3> QED BY <3>1, <1>3, UnitsConcat
  <2>5. 0 + k = k /\ k + n = from + Obtained'
    BY <1>3, <1>4, <1>n DEF Counts
  <2> QED BY <2>1, <2>3, <2>4, <2>5, <1>0, <1>1, <1>5
<1>11. BytesInOrder'
  <2>1. HasTransfer' = HasTransfer
    BY <1>0 DEF HasTransfer, At
  <2>2. got' = Units(from' - Moved', Obtained')
    <3>1. Moved' = 0
      BY <1>1 DEF Moved, Mode
    <3> QED BY <3>1, <1>1, <1>4, <1>n DEF Counts
  <2> QED BY <2>1, <2>2, <1>10, <1>1, <1>2 DEF BytesInOrder, Mode, Obtained
<1>12. Judged' /\ ResultTrue'
  BY <1>1, <1>2 DEF Judged, ResultTrue, Mode
<1> QED BY <1>7, <1>8, <1>9, <1>11, <1>12

\* A read of yati's source begins, with a jump if it is for another place.
LEMMA StepHttpRead ==
  ASSUME IInv, HttpRead
  PROVE  IInv'
<1> USE DEF IInv, flags
<1>n. Counts
  BY Numbers
<1>1. /\ pc = "idle" /\ UNCHANGED <<setting, sent, flags, offset, m_request_offset, code>>
      /\ Mode("http") /\ ~Mode("device") /\ ~Mode("upload") /\ Position = offset /\ ~At("made")
  BY DEF HttpRead, In, Mode, Position, Control
<1>2. PICK off \in 0 .. Length - 1, m \in 1 .. Request :
        /\ off + m <= Length
        /\ from' = off /\ want' = m /\ got' = <<>> /\ result' = "none"
        /\ IF HasTransfer /\ off # offset
           THEN transfer' = Cancel(transfer) /\ pc' = "moves"
           ELSE UNCHANGED transfer /\ pc' = "loop"
  BY DEF HttpRead, Goto
<1>3. stalls' = 0 /\ Obtained' = 0
  BY <1>2, EmptySeq DEF HttpRead, Obtained
<1>4. /\ transfer' \in Transfers /\ Cancelling /\ TransferTypeOK'
      /\ Buffered' = Buffered /\ Handed' = Handed /\ HasTransfer' = HasTransfer /\ Moved' = Moved
  BY <1>1, <1>2, Cancels
<1>5. TypeOK'
  <2>1. Len(got') <= want'
    BY <1>2, <1>3 DEF Obtained
  <2> QED BY <2>1, <1>4, <1>1, <1>2, <1>3 DEF TypeOK
<1>6. HasTransfer => Position' = Position /\ Place' = Place
  BY <1>1, <1>2, <1>3, <1>4, <1>n DEF Counts, Position, Place
<1>7. Control'
  BY <1>1, <1>2, <1>3, <1>4, <1>n DEF Counts, Control, Cancelling, At, HasTransfer, Exited, Unanswered, Mode
<1>8. Bounds'
  BY <1>1, <1>2, <1>4, <1>6 DEF Bounds, Cancelling, Mode
<1>9. Aligned'
  BY <1>1, <1>4, <1>6 DEF Aligned, Cancelling, Mode, Refused, Unanswered, Receiving, At, Exited
<1>10. BytesInOrder'
  <2>1. from' - Moved' = from' /\ from' \in Int
    BY <1>1, <1>2, <1>4, <1>n DEF Counts
  <2> QED BY <2>1, <1>1, <1>2, <1>3, NoUnits DEF BytesInOrder, Mode, Obtained
<1>11. Judged' /\ ResultTrue'
  BY <1>2 DEF Judged, ResultTrue
<1> QED BY <1>5, <1>7, <1>8, <1>9, <1>10, <1>11

\* What the user asks for next is what it has been, or the transfer has failed.
StaysThere ==
  \/ Position' = Position
  \/ Mode("device") /\ transfer.error /\ Position' \in Nat /\ Position' <= Position

\* The user goes on where it was, and the transfer is the same, or has been cancelled.
LEMMA StepSame ==
  ASSUME IInv, UNCHANGED <<setting, sent, flags, m_request_offset, from, want, got>>,
         UNCHANGED transfer \/ transfer' = Cancel(transfer),
         offset' \in Nat, offset' \in 0 .. 2 * Length,
         result' \in {"none", "ok", "fail", "cancelled"}, stalls' \in 0 .. Attempts, code' \in {0, 200, 206, 416},
         HasTransfer => StaysThere,
         pc' \in {"idle", "closed", "loop", "pull", "reset", "closing"},
         pc' = "loop" => ~HasTransfer \/ offset' = from + Obtained,
         pc' \in {"loop", "reset"} => Mode("http"),
         pc' = "pull" => HasTransfer /\ ~Mode("upload") /\ (Mode("device") => from = offset'),
         pc \notin {"start", "closed"}, Mode("device") /\ pc' = "idle" => pc = "judge",
         ~Mode("device") => offset' <= Length, ~HasTransfer /\ pc' # "closed" => offset' <= Length,
         Mode("upload") => offset' = offset /\ pc # "push",
         pc' = "idle" => ResultTrue'
  PROVE  IInv'
<1> USE DEF IInv, flags
<1>n. Counts
  BY Numbers
<1>4. /\ transfer' \in Transfers /\ Cancelling /\ TransferTypeOK'
      /\ Buffered' = Buffered /\ Handed' = Handed /\ HasTransfer' = HasTransfer /\ Moved' = Moved
  BY Cancels
<1>b. Obtained' = Obtained /\ ~At("made")
  BY DEF Obtained, Control, At
<1>5. TypeOK'
  <2>1. Len(got') <= want'
    BY DEF TypeOK
  <2> QED BY <2>1, <1>4 DEF TypeOK
<1>7. Control'
  BY <1>4, <1>b DEF Control, Cancelling, At, HasTransfer, Exited, Unanswered, Mode
<1>8. Bounds'
  <2>1. HasTransfer /\ ~Mode("upload") => Position + Buffered + Handed <= transfer.offset + transfer.at
    BY DEF Bounds
  <2>2. HasTransfer /\ ~Mode("upload") => Position' + Buffered' + Handed' <= transfer'.offset + transfer'.at
    BY <2>1, <1>4, <1>n DEF Counts, Cancelling, StaysThere
  <2>3. ~Mode("device") => from + want <= Length
    BY DEF Bounds
  <2> QED BY <2>2, <2>3, <1>4 DEF Bounds, Mode
<1>9. Aligned'
  <2>1. CASE Position' = Position
    <3>1. Place' = Place
      BY <2>1, <1>4 DEF Place
    <3> QED BY <2>1, <3>1, <1>4 DEF Aligned, Cancelling, Mode, Refused, Unanswered, Receiving, At, Exited
  <2>2. CASE Mode("device") /\ transfer.error
    <3>0. Exited
      BY <2>2 DEF Control
    <3>1. Exited' /\ transfer'.error /\ ~Unanswered' /\ ~Receiving' /\ ~At("ok")'
      BY <2>2, <3>0, <1>4 DEF Cancelling, Exited, Unanswered, Receiving, At
    <3>2. ~Refused'
      BY <2>2 DEF Refused, Mode
    <3> QED BY <2>2, <3>1, <3>2 DEF Aligned
  <2> QED BY <2>1, <2>2, <1>4 DEF Aligned, StaysThere
<1>10. BytesInOrder'
  BY <1>4 DEF BytesInOrder, Mode, Cancelling
<1>11. Judged' /\ ResultTrue'
  BY DEF Judged, ResultTrue
<1> QED BY <1>5, <1>7, <1>8, <1>9, <1>10, <1>11

\* A new transfer is made for what the user asks for next.
LEMMA StepMade ==
  ASSUME IInv, NEW o \in Spans, transfer' = Made(o), UNCHANGED <<setting, sent, flags, offset, stalls, code>>,
         pc' = "start", ~Mode("upload"), offset <= Length, from' \in Nat, o = from' + Obtained',
         Mode("http") \/ (Mode("device") /\ o = offset /\ from' = offset),
         ~Mode("device") => from' + want' <= Length,
         got' \in FileUnits, Obtained' <= want', want' \in 0 .. Request, from' \in 0 .. 2 * Length,
         m_request_offset' \in 0 .. Length, result' \in {"none", "ok", "fail", "cancelled"},
         got' = Units(from', Obtained'), Mode("device") => got' = <<>>
  PROVE  IInv'
<1> USE DEF IInv, flags
<1>0. /\ transfer' \in Transfers /\ transfer'.pc = "made" /\ transfer'.offset = o /\ transfer'.at = 0
      /\ transfer'.status = 0 /\ transfer'.hand = <<>> /\ transfer'.buffer = <<>>
      /\ Len(transfer'.hand) = 0 /\ Len(transfer'.buffer) = 0
      /\ ~transfer'.error /\ ~transfer'.finished /\ ~transfer'.cancelled
  BY Fresh
<1>b. HasTransfer' /\ Handed' = 0 /\ Buffered' = 0 /\ Position' = o /\ o \in Nat /\ Moved' = 0 /\ Place' = o
  BY <1>0 DEF HasTransfer, At, Handed, Buffered, Position, Spans, Moved, Place
<1>1. TypeOK'
  <2>1. TransferTypeOK'
    <3>1. Len(transfer'.hand) <= Chunk
      BY <1>0
    <3>2. Len(transfer'.buffer) <= MAX_BUFFER_SIZE
      BY <1>0
    <3> QED BY <3>1, <3>2, <1>0 DEF TypeOK, TransferTypeOK
  <2>2. Len(got') <= want'
    BY DEF Obtained
  <2> QED BY <2>1, <2>2 DEF TypeOK, FileUnits
<1>2. Control'
  BY <1>0, <1>b DEF Control, At, HasTransfer, Exited, Unanswered, Mode
<1>3. Bounds'
  BY <1>0, <1>b DEF Bounds, Mode
<1>4. Aligned'
  <2>1. Units(o, 0) = <<>>
    BY <1>b, NoUnits
  <2> QED BY <2>1, <1>0, <1>b DEF Aligned, Receiving, At, Exited
<1>5. BytesInOrder' /\ Judged' /\ ResultTrue'
  BY <1>b DEF BytesInOrder, Judged, ResultTrue, Mode, Obtained
<1> QED BY <1>1, <1>2, <1>3, <1>4, <1>5

\* The loop of a read: it is cancelled, goes on with its transfer, or makes one.
LEMMA StepHttpLoop ==
  ASSUME IInv, HttpLoop
  PROVE  IInv'
<1>n. Counts
  BY Numbers DEF IInv
<1>1. /\ pc = "loop" /\ UNCHANGED <<setting, sent, flags, offset, from, want, got, stalls, code>>
      /\ Mode("http") /\ ~Mode("device") /\ ~Mode("upload") /\ from + want <= Length /\ offset <= Length
      /\ (HasTransfer => offset = from + Obtained) /\ Position = from + Obtained
      /\ offset \in 0 .. 2 * Length /\ stalls \in 0 .. Attempts /\ code \in {0, 200, 206, 416}
      /\ result \in {"none", "ok", "fail", "cancelled"} /\ Obtained' = Obtained
  BY DEF HttpLoop, In, IInv, Control, Mode, Bounds, Position, Obtained, TypeOK
<1>2. CASE m_cancelled /\ Return("cancelled") /\ UNCHANGED <<transfer, m_request_offset>>
  <2>1. pc' = "idle" /\ result' = "cancelled" /\ UNCHANGED <<transfer, m_request_offset>>
    BY <1>2 DEF Return, Goto
  <2>2. HasTransfer => StaysThere
    BY <2>1, <1>1 DEF StaysThere, Position
  <2>3. ResultTrue'
    BY <2>1, <1>1, <1>2 DEF ResultTrue, Mode, flags
  <2> QED BY <1>1, <1>n, <2>1, <2>2, <2>3, StepSame DEF Counts
<1>3. CASE ~m_cancelled /\ HasTransfer /\ Goto("pull") /\ UNCHANGED <<transfer, m_request_offset, result>>
  <2>1. pc' = "pull" /\ UNCHANGED <<transfer, m_request_offset, result>> /\ HasTransfer
    BY <1>3 DEF Goto
  <2>2. HasTransfer => StaysThere
    BY <2>1, <1>1 DEF StaysThere, Position
  <2> QED BY <1>1, <1>n, <2>1, <2>2, StepSame DEF Counts
<1>4. CASE /\ ~m_cancelled /\ ~HasTransfer
           /\ transfer' = Made(from + Len(got)) /\ m_request_offset' = from + Len(got)
           /\ Goto("start") /\ UNCHANGED result
  <2>1. PICK o \in Spans : o = from + Obtained
    BY <1>1, <1>n DEF Counts, Spans
  <2>2. transfer' = Made(o) /\ m_request_offset' = o /\ pc' = "start" /\ result' = result /\ o = from' + Obtained'
    BY <2>1, <1>1, <1>4 DEF Obtained, Goto
  <2>3. got' \in FileUnits /\ Obtained' <= want' /\ want' \in 0 .. Request /\ from' \in 0 .. 2 * Length
        /\ from' \in Nat
        /\ got' = Units(from', Obtained')
    <3>1. got \in FileUnits /\ want \in 0 .. Request /\ from \in 0 .. 2 * Length
      BY DEF IInv, TypeOK, FileUnits
    <3>2. got = Units(from, Obtained)
      BY <1>1, <1>n DEF IInv, Counts, BytesInOrder, Obtained
    <3> QED BY <3>1, <3>2, <1>1, <1>n DEF Counts
  <2>4. o \in 0 .. Length
    BY DEF Spans
  <2> QED BY <1>1, <2>2, <2>3, <2>4, StepMade
<1> QED BY <1>2, <1>3, <1>4 DEF HttpLoop

\* What the transfer has brought is all, too little, or nobody's any more.
LEMMA StepHttpJudge ==
  ASSUME IInv, HttpJudge
  PROVE  IInv'
<1>n. Counts
  BY Numbers DEF IInv
<1>1. /\ pc = "judge" /\ UNCHANGED <<setting, sent, flags, m_request_offset, from, want, got, stalls>>
      /\ Mode("http") /\ ~Mode("device") /\ ~Mode("upload") /\ from + want <= Length /\ HasTransfer
      /\ Position = from + Obtained /\ Obtained' = Obtained /\ offset' = from + Obtained
      /\ stalls \in 0 .. Attempts /\ code \in {0, 200, 206, 416} /\ result \in {"none", "ok", "fail", "cancelled"}
  BY DEF HttpJudge, In, IInv, Control, Mode, Bounds, Position, Obtained, TypeOK
<1>2. offset' \in Nat /\ offset' <= Length /\ offset' \in 0 .. 2 * Length
  BY <1>1, <1>n DEF Counts
<1>3. /\ UNCHANGED transfer \/ transfer' = Cancel(transfer)
      /\ code' \in {0, 200, 206, 416}
      /\ \/ pc' = "idle" /\ result' = "cancelled" /\ m_cancelled
         \/ pc' = "idle" /\ result' = "ok" /\ Len(got) = want
         \/ pc' = "reset" /\ result' = result
  <2>1. transfer.code \in {0, 200, 206, 416}
    BY Typed DEF IInv, Transfers
  <2> QED BY <2>1, <1>1 DEF HttpJudge, Return, Goto
<1>4. HasTransfer => StaysThere
  BY <1>1, <1>3 DEF StaysThere, Position
<1>5. pc' = "idle" => ResultTrue'
  BY <1>1, <1>3 DEF ResultTrue, Mode, flags
<1> QED BY <1>1, <1>2, <1>3, <1>4, <1>5, StepSame

\* The source joins a thread, the file of a mount leaves it behind.
LEMMA StepLeaves ==
  ASSUME IInv, HttpJoins \/ DestroyTransfer \/ Closed
  PROVE  IInv'
<1>1. CASE HttpJoins
  <2>1. /\ transfer' = NoTransfer /\ pc' \in {"loop", "resume"} /\ Mode("http") /\ ~Mode("device")
        /\ UNCHANGED <<setting, sent, flags, offset, m_request_offset, from, want, got, result, stalls, code>>
    BY <1>1 DEF HttpJoins, Goto, call, IInv, Control, Mode
  <2>a. pc # "closed"
    BY <1>1 DEF HttpJoins
  <2>2. offset' <= Length
    BY <2>1 DEF IInv, Bounds
  <2> QED BY <2>1, <2>a, <2>2, StepDestroyed
<1>2. CASE DestroyTransfer
  <2>1. /\ transfer' = NoTransfer /\ pc' = "idle" /\ offset' = from /\ result = "none"
        /\ UNCHANGED <<setting, sent, flags, m_request_offset, from, want, got, result, stalls, code>>
    BY <1>2 DEF DestroyTransfer, In, Goto, call, IInv, Control
  <2>2. offset' <= Length
    BY <2>1, <1>2 DEF IInv, Bounds, DestroyTransfer, In
  <2>3. pc # "closed" /\ (Mode("device") => got = <<>>)
    BY <1>2 DEF IInv, Control, DestroyTransfer, In
  <2> QED BY <2>1, <2>2, <2>3, StepDestroyed
<1>3. CASE Closed
  <2>1. /\ transfer' = NoTransfer /\ pc' = "closed"
        /\ UNCHANGED <<setting, sent, flags, offset, m_request_offset, from, want, got, result, stalls, code>>
    BY <1>3 DEF Closed, In, Goto, call
  <2>2. ~Mode("device") \/ pc' # "closed" => offset' <= Length
    BY <2>1 DEF IInv, Bounds
  <2>3. pc # "closed"
    BY <1>3 DEF Closed, In
  <2> QED BY <2>1, <2>2, <2>3, StepDestroyed
<1> QED BY <1>1, <1>2, <1>3

\* A transfer that broke off is opened again, or given up.
LEMMA StepHttpResume ==
  ASSUME IInv, HttpResume
  PROVE  IInv'
<1>n. Counts
  BY Numbers DEF IInv
<1>1. /\ pc = "resume"
      /\ UNCHANGED <<setting, sent, flags, transfer, offset, m_request_offset, from, want, got, code>>
      /\ Mode("http") /\ ~Mode("device") /\ ~Mode("upload") /\ ~HasTransfer /\ offset <= Length
      /\ offset \in 0 .. 2 * Length /\ code \in {0, 200, 206, 416} /\ result \in {"none", "ok", "fail", "cancelled"}
  BY DEF HttpResume, In, IInv, Control, Mode, Bounds, TypeOK
<1>2. /\ stalls' \in 0 .. Attempts
      /\ \/ pc' = "idle" /\ result' = "fail"
         \/ pc' = "loop" /\ result' = result
  <2>1. stalls \in 0 .. Attempts
    BY DEF IInv, TypeOK
  <2> QED BY <2>1 DEF HttpResume, Return, Goto
<1>3. pc' = "idle" => ResultTrue'
  BY <1>2 DEF ResultTrue
<1> QED BY <1>1, <1>2, <1>3, <1>n, StepSame DEF Counts

\* A read of the file of a mount begins.
LEMMA Stepdevoptab_read ==
  ASSUME IInv, devoptab_read
  PROVE  IInv'
<1>n. Counts
  BY Numbers DEF IInv
<1>1. /\ pc = "idle" /\ UNCHANGED <<setting, sent, flags, offset, m_request_offset, stalls, code>>
      /\ Mode("device") /\ ~Mode("http") /\ ~Mode("upload") /\ Position = offset /\ ~At("made")
      /\ from' = offset /\ got' = <<>> /\ result' = "none" /\ want' \in 1 .. Request
  BY DEF devoptab_read, In, Begin, Mode, Position, IInv, Control
<1>2. Obtained' = 0 /\ got' \in FileUnits /\ Len(got') = 0 /\ offset \in 0 .. 2 * Length
  BY <1>1, EmptySeq DEF Obtained, FileUnits, IInv, TypeOK
<1>3. got' = Units(from', Obtained') /\ from' - Moved \in Int /\ got' = Units(from' - Moved, Obtained')
  BY <1>1, <1>2, <1>n, NoUnits DEF Counts
<1>4. CASE ~HasTransfer /\ transfer' = Made(offset) /\ pc' = "start"
  <2>1. offset <= Length /\ offset \in Spans /\ m_request_offset \in 0 .. Length
    BY <1>1, <1>4, <1>n DEF Counts, IInv, Bounds, Spans, TypeOK
  <2>2. offset = from' + Obtained' /\ from' \in Nat /\ Obtained' <= want' /\ want' \in 0 .. Request
        /\ from' \in 0 .. 2 * Length
    BY <1>1, <1>2, <1>n DEF Counts
  <2> QED BY <1>1, <1>2, <1>3, <1>4, <2>1, <2>2, StepMade
<1>5. CASE HasTransfer /\ UNCHANGED transfer /\ pc' = "pull"
  <2> USE DEF IInv, flags
  <2>0. /\ transfer' \in Transfers /\ Cancelling /\ TransferTypeOK'
        /\ Buffered' = Buffered /\ Handed' = Handed /\ HasTransfer' = HasTransfer /\ Moved' = Moved
    BY <1>1, <1>5, Cancels
  <2>1. TypeOK'
    BY <2>0, <1>1, <1>2, <1>5 DEF TypeOK, FileUnits
  <2>2. Position' = Position /\ Place' = Place
    BY <2>0, <1>1, <1>2, <1>5, <1>n DEF Counts, Position, Place
  <2>3. Control'
    BY <1>1, <1>5 DEF Control, At, HasTransfer, Exited, Unanswered, Mode
  <2>4. Bounds' /\ Aligned'
    BY <1>1, <1>5, <2>0, <2>2 DEF Bounds, Aligned, Mode, Refused, Unanswered, Receiving, At, Exited
  <2>5. BytesInOrder'
    BY <2>0, <1>1, <1>3 DEF BytesInOrder, Mode, Obtained
  <2>6. Judged' /\ ResultTrue'
    BY <1>5 DEF Judged, ResultTrue
  <2> QED BY <2>1, <2>3, <2>4, <2>5, <2>6
<1> QED BY <1>4, <1>5 DEF devoptab_read, Goto

\* A read of the file of a mount returns.
LEMMA StepDeviceJudge ==
  ASSUME IInv, DeviceJudge
  PROVE  IInv'
<1>n. Counts
  BY Numbers DEF IInv
<1>1. /\ pc = "judge" /\ UNCHANGED <<setting, sent, flags, transfer, m_request_offset, from, want, got, stalls, code>>
      /\ Mode("device") /\ ~Mode("http") /\ ~Mode("upload") /\ HasTransfer /\ from = offset
      /\ Position = from + Obtained /\ Obtained' = Obtained /\ pc' = "idle"
      /\ stalls \in 0 .. Attempts /\ code \in {0, 200, 206, 416}
  BY DEF DeviceJudge, In, IInv, Control, Mode, Bounds, Position, Obtained, TypeOK, Return, Goto
<1>2. \/ result' = "fail" /\ offset' = offset /\ transfer.error
      \/ result' = "ok" /\ offset' = offset + Obtained /\ (Obtained < want => ~transfer.error)
  BY DEF DeviceJudge, Return, Obtained
<1>3. offset' \in Nat /\ offset' \in 0 .. 2 * Length
  <2>1. Position + Buffered + Handed <= transfer.offset + transfer.at
    BY <1>1 DEF IInv, Bounds
  <2> QED BY <2>1, <1>1, <1>2, <1>n DEF Counts
<1>4. HasTransfer => StaysThere
  <2>1. Position' = offset'
    BY <1>1 DEF Position
  <2> QED BY <2>1, <1>1, <1>2, <1>n DEF Counts, StaysThere
<1>5. ResultTrue'
  <2>1. Obtained < want => transfer.error \/ transfer.cancelled \/ from - Moved + Obtained = Length
    BY <1>1 DEF IInv, Judged
  <2>2. Moved' = Moved
    BY <1>1 DEF Moved, Mode
  <2>3. result' = "ok" /\ Obtained < want => offset' - Moved = Length \/ transfer.cancelled
    BY <2>1, <1>1, <1>2, <1>n DEF Counts
  <2> QED BY <2>2, <2>3, <1>1 DEF ResultTrue, Mode, Obtained
<1> QED BY <1>1, <1>2, <1>3, <1>4, <1>5, StepSame

\* A jump of a mount's reader gives up the running transfer.
LEMMA Stepdevoptab_seek ==
  ASSUME IInv, devoptab_seek
  PROVE  IInv'
<1> USE DEF IInv, flags
<1>n. Counts
  BY Numbers
<1>1. /\ pc = "idle" /\ UNCHANGED <<setting, sent, flags, m_request_offset, want, stalls, code>>
      /\ Mode("device") /\ ~Mode("http") /\ ~Mode("upload") /\ Position = offset /\ ~At("made")
      /\ from' \in 0 .. Length /\ got' = <<>> /\ result' = "none"
      /\ \/ HasTransfer /\ transfer' = Cancel(transfer) /\ pc' = "destroy" /\ offset' = offset
         \/ ~HasTransfer /\ UNCHANGED <<transfer, pc>> /\ offset' = from'
  BY DEF devoptab_seek, In, Goto, Mode, Position, Control
<1>2. Obtained' = 0 /\ Len(got') = 0 /\ got' \in FileUnits
  BY <1>1, EmptySeq DEF Obtained, FileUnits
<1>0. /\ transfer' \in Transfers /\ Cancelling /\ TransferTypeOK'
      /\ Buffered' = Buffered /\ Handed' = Handed /\ HasTransfer' = HasTransfer /\ Moved' = Moved
  BY <1>1, Cancels
<1>3. TypeOK'
  BY <1>0, <1>1, <1>2, <1>n DEF Counts, TypeOK, FileUnits
<1>4. HasTransfer => Position' = Position /\ Place' = Place
  BY <1>0, <1>1 DEF Position, Place
<1>5. Control'
  BY <1>0, <1>1 DEF Control, Cancelling, At, HasTransfer, Exited, Unanswered, Mode
<1>6. Bounds' /\ Aligned'
  BY <1>0, <1>1, <1>4 DEF Bounds, Aligned, Cancelling, Mode, Refused, Unanswered, Receiving,
       At, Exited
<1>7. BytesInOrder'
  <2>1. from' - Moved' \in Int
    BY <1>0, <1>1, <1>n DEF Counts
  <2> QED BY <2>1, <1>1, <1>2, NoUnits DEF BytesInOrder, Mode, Obtained
<1>8. Judged' /\ ResultTrue'
  BY <1>1 DEF Judged, ResultTrue
<1> QED BY <1>3, <1>5, <1>6, <1>7, <1>8

\* A write begins.
LEMMA Stepdevoptab_write ==
  ASSUME IInv, devoptab_write
  PROVE  IInv'
<1> USE DEF IInv, flags
<1>n. Counts
  BY Numbers
<1>1. /\ pc = "idle" /\ pc' = "push"
      /\ UNCHANGED <<setting, sent, flags, transfer, offset, m_request_offset, stalls, code>>
      /\ Mode("upload") /\ ~Mode("http") /\ ~Mode("device") /\ ~At("made")
      /\ from' = offset /\ got' = <<>> /\ result' = "none" /\ want' \in 1 .. Request /\ offset + want' <= Length
  BY DEF devoptab_write, In, Begin, Goto, Mode, Control
<1>2. Obtained' = 0 /\ Len(got') = 0 /\ got' \in FileUnits /\ got' = Units(from', Obtained')
  BY <1>1, <1>n, EmptySeq, NoUnits DEF Counts, Obtained, FileUnits
<1>3. TypeOK'
  <2>1. TransferTypeOK'
    BY <1>1, Cancels
  <2> QED BY <2>1, <1>1, <1>2 DEF TypeOK, FileUnits
<1>4. Control'
  BY <1>1 DEF Control, At, HasTransfer, Exited, Unanswered, Mode
<1>5. Bounds' /\ Aligned'
  BY <1>1 DEF Bounds, Aligned, Mode, HasTransfer, At
<1>6. BytesInOrder'
  <2>1. from' + Len(got') = offset
    BY <1>1, <1>2, <1>n DEF Counts
  <2>2. HasTransfer' => sent \o transfer.buffer = Units(0, offset)
    BY <1>1 DEF BytesInOrder, HasTransfer, At
  <2>3. from' - Moved' = from'
    BY <1>1, <1>n DEF Counts, Moved, Mode
  <2> QED BY <2>1, <2>2, <2>3, <1>1, <1>2 DEF BytesInOrder, Mode, Obtained
<1>7. Judged' /\ ResultTrue'
  BY <1>1 DEF Judged, ResultTrue
<1> QED BY <1>3, <1>4, <1>5, <1>6, <1>7

\* The file is closed.
LEMMA StepClose ==
  ASSUME IInv, Close
  PROVE  IInv'
<1>1. /\ pc = "idle"
      /\ UNCHANGED <<setting, sent, flags, offset, m_request_offset, from, want, got, result, stalls, code>>
      /\ \/ HasTransfer /\ transfer' = Cancel(transfer) /\ pc' = "closing"
         \/ ~HasTransfer /\ UNCHANGED transfer /\ pc' = "closed"
  BY DEF Close, In, Goto, call
<1>2. offset \in Nat /\ offset \in 0 .. 2 * Length /\ result \in {"none", "ok", "fail", "cancelled"}
      /\ stalls \in 0 .. Attempts /\ code \in {0, 200, 206, 416}
  BY DEF IInv, TypeOK
<1>3. ~Mode("device") => offset' <= Length
  BY <1>1 DEF IInv, Bounds
<1>4. HasTransfer => StaysThere
  BY <1>1 DEF StaysThere, Position
<1> QED BY <1>1, <1>2, <1>3, <1>4, StepSame

-------------------------------------------------------------------------------
(* The theorems *)

\* The file begins with the invariant, before its first transfer or with one that has not begun.
LEMMA InitIInv == Init => IInv
<1> SUFFICES ASSUME Init PROVE IInv
  OBVIOUS
<1>1. /\ setting \in Settings /\ sent = <<>> /\ ~m_cancelled /\ ~g_curl_shutdown /\ offset = 0 /\ m_request_offset = 0
      /\ from = 0 /\ want = 0 /\ got = <<>> /\ result = "none" /\ stalls = 0 /\ code = 0
      /\ m_cancelled = FALSE /\ g_curl_shutdown = FALSE
      /\ \/ Mode("upload") /\ transfer = Made(0) /\ pc = "start"
         \/ ~Mode("upload") /\ transfer = NoTransfer /\ pc = "idle"
  BY DEF Init
<1>2. 0 \in Spans /\ Len(<<>>) = 0 /\ <<>> \in FileUnits /\ Obtained = 0 /\ Units(0, 0) = <<>>
  BY <1>1, EmptySeq, NoUnits DEF Spans, FileUnits, Obtained
<1>3. /\ transfer \in Transfers /\ transfer.hand = <<>> /\ Len(transfer.hand) = 0 /\ Len(transfer.buffer) = 0
      /\ ~transfer.finished /\ ~transfer.error
      /\ Mode("upload") => /\ transfer.pc = "made" /\ transfer.offset = 0 /\ transfer.at = 0 /\ transfer.status = 0
                           /\ transfer.buffer = <<>>
      /\ ~Mode("upload") => transfer.pc = "none"
  BY <1>1, <1>2, Fresh
<1>4. TypeOK
  <2>1. TransferTypeOK
    <3>1. Len(transfer.hand) <= Chunk
      BY <1>3
    <3>2. Len(transfer.buffer) <= MAX_BUFFER_SIZE
      BY <1>3
    <3> QED BY <3>1, <3>2, <1>1, <1>2, <1>3 DEF TransferTypeOK, FileUnits
  <2>2. Len(got) <= want
    BY <1>1, <1>2
  <2> QED BY <2>1, <2>2, <1>1, <1>2 DEF TypeOK, FileUnits
<1>5. Control
  BY <1>1, <1>2, <1>3 DEF Control, At, HasTransfer, Exited, Unanswered, Mode
<1>6. Bounds /\ Aligned
  BY <1>1, <1>2, <1>3 DEF Bounds, Aligned, HasTransfer, At, Mode
<1>7. BytesInOrder
  <2>1. sent \o transfer.buffer = <<>> \/ ~Mode("upload")
    BY <1>1, <1>3
  <2>2. Moved = 0
    BY <1>1, <1>3 DEF Moved, Mode, NoTransfer
  <2> QED BY <2>1, <2>2, <1>1, <1>2, <1>3 DEF BytesInOrder, HasTransfer, At, Obtained
<1>8. Judged /\ ResultTrue
  BY <1>1 DEF Judged, ResultTrue
<1> QED BY <1>4, <1>5, <1>6, <1>7, <1>8 DEF IInv

\* Every step keeps the invariant.
LEMMA NextIInv == IInv /\ [Next]_vars => IInv'
<1> SUFFICES ASSUME IInv, [Next]_vars PROVE IInv'
  OBVIOUS
<1>1. CASE Curl
  BY <1>1, StepCurl
<1>2. CASE StartThread \/ Pull \/ Push
  BY <1>2, StepStartThread, StepPull, StepPush
<1>3. CASE HttpLoop \/ HttpJudge \/ HttpResume \/ HttpRead
  BY <1>3, StepHttpLoop, StepHttpJudge, StepHttpResume, StepHttpRead
<1>4. CASE HttpJoins \/ DestroyTransfer \/ Closed
  BY <1>4, StepLeaves
<1>5. CASE devoptab_read \/ devoptab_seek \/ devoptab_write \/ DeviceJudge \/ Close
  BY <1>5, Stepdevoptab_read, Stepdevoptab_seek, Stepdevoptab_write, StepDeviceJudge, StepClose
<1>6. CASE CancelActiveCurlTransfers
  <2>1. g_curl_shutdown' \in BOOLEAN
    BY <1>6 DEF CancelActiveCurlTransfers, flags, IInv, TypeOK, TransferTypeOK
  <2> QED BY <1>6, <2>1, StepCancelled DEF CancelActiveCurlTransfers, flags
<1>7. CASE RequestCurlShutdown
  <2>1. CASE HasTransfer
    BY <1>7, <2>1, StepCancelled DEF RequestCurlShutdown
  <2>2. CASE ~HasTransfer
    <3>1. transfer' = transfer /\ UNCHANGED <<setting, sent, m_cancelled, user>> /\ g_curl_shutdown' = TRUE
      BY <1>7, <2>2 DEF RequestCurlShutdown
    <3>2. TypeOK'
      BY <3>1 DEF user, call, IInv, TypeOK, TransferTypeOK
    <3>3. Control' /\ Bounds' /\ Aligned'
      BY <3>1, <2>2 DEF user, call, IInv, Control, Bounds, Aligned, At, HasTransfer, Exited, Unanswered,
           Mode, Position,
         Buffered, Handed, Obtained
    <3>4. BytesInOrder' /\ Judged' /\ ResultTrue'
      BY <3>1 DEF user, call, IInv, BytesInOrder, Judged, ResultTrue, HasTransfer, At, Mode, Moved, Obtained
    <3> QED BY <3>2, <3>3, <3>4 DEF IInv
  <2> QED BY <2>1, <2>2
<1>8. CASE SignalCancel
  <2>1. UNCHANGED <<setting, transfer, sent, g_curl_shutdown, user>> /\ m_cancelled' = TRUE /\ Mode("http")
    BY <1>8 DEF SignalCancel
  <2>2. TypeOK'
    BY <2>1 DEF user, call, IInv, TypeOK, TransferTypeOK
  <2>3. Control' /\ Bounds' /\ Aligned'
    BY <2>1 DEF user, call, IInv, Control, Bounds, Aligned, At, HasTransfer, Exited, Unanswered, Mode, Position,
       Place, Moved, Buffered, Handed, Obtained, Refused, Receiving
  <2>4. BytesInOrder' /\ Judged' /\ ResultTrue'
    BY <2>1 DEF user, call, IInv, BytesInOrder, Judged, ResultTrue, HasTransfer, At, Mode, Moved, Obtained
  <2> QED BY <2>2, <2>3, <2>4 DEF IInv
<1>9. CASE UNCHANGED vars
  <2>1. UNCHANGED <<setting, transfer, sent, m_cancelled, g_curl_shutdown, user>>
    BY <1>9 DEF vars, flags
  <2>2. TypeOK'
    BY <2>1 DEF user, call, IInv, TypeOK, TransferTypeOK
  <2>3. Control' /\ Bounds' /\ Aligned'
    BY <2>1 DEF user, call, IInv, Control, Bounds, Aligned, At, HasTransfer, Exited, Unanswered, Mode, Position,
       Place, Moved, Buffered, Handed, Obtained, Refused, Receiving
  <2>4. BytesInOrder' /\ Judged' /\ ResultTrue'
    BY <2>1 DEF user, call, IInv, BytesInOrder, Judged, ResultTrue, HasTransfer, At, Mode, Moved, Obtained
  <2> QED BY <2>2, <2>3, <2>4 DEF IInv
<1> QED BY <1>1, <1>2, <1>3, <1>4, <1>5, <1>6, <1>7, <1>8, <1>9 DEF Next, Continues, Calls, MainThread, Ended

\* The invariant holds in every state that the file can reach.
THEOREM Invariance == Spec => []IInv
BY InitIInv, NextIInv, PTL DEF Spec

\* Every variable keeps its type: no buffer holds more than its size, no user is handed more than it asked for.
THEOREM Typing == Spec => []TypeOK
<1>1. IInv => TypeOK
  BY DEF IInv
<1> QED BY <1>1, Invariance, PTL

\* A read of yati's source gets the units of its offset, however often the transfer broke off and was opened
\* again and whatever the server answered; so does a read of a mount, but in a transfer whose range the server
\* ignored it gets those of the whole file, moved by the offset of the range.  libcurl is handed what was
\* written, in order and once.
THEOREM Order == Spec => []BytesInOrder
<1>1. IInv => BytesInOrder
  BY DEF IInv
<1> QED BY <1>1, Invariance, PTL

\* A read of yati's source that returns "ok" has all that it asked for, and one that returns "cancelled" was.  A
\* read of a mount that returns "ok" with less has met the end of what its transfer sends, or its transfer was
\* cancelled by somebody else, which it takes for that end.
THEOREM Truth == Spec => []ResultTrue
<1>1. IInv => ResultTrue
  BY DEF IInv
<1> QED BY <1>1, Invariance, PTL

-------------------------------------------------------------------------------
(* Calls that wait *)

\* Who waits for the thread has one that will not last: it has been told to end, or it raises
\* `finished` when it does.
Awaited ==
  /\ Exited => transfer.finished
  /\ pc \in {"moves", "reset", "closing"} => HasTransfer /\ transfer.cancelled
  /\ Mode("upload") => HasTransfer \/ pc = "closed"

\* The user waits for units, for room, or for the thread's end.
UserWaits ==
  \/ pc = "pull" /\ ~PullsNothing /\ ~transfer.finished /\ transfer.buffer = <<>> /\ Len(got) < want
  \/ /\ pc = "push" /\ ~transfer.error /\ ~transfer.finished
     /\ Len(transfer.buffer) = MAX_BUFFER_SIZE /\ Len(got) < want
  \/ pc \in {"moves", "reset"} /\ ~Exited
  \/ pc = "closing" /\ Mode("http") /\ ~Exited

\* The thread has not begun or does not come back, or one of its callbacks waits for the user.
ThreadWaits ==
  \/ transfer.pc \in {"none", "made", "wedged", "exited"}
  \/ At("callback") /\ ~Refused /\ ~Interrupted /\ ~transfer.finished /\ ~HasSpace
  \/ At("perform") /\ Mode("upload") /\ ~Interrupted /\ ~g_curl_shutdown /\ transfer.buffer = <<>>

NobodyStranded == UserWaits /\ ThreadWaits => Stuck

\* A step of the thread leaves the user and what it was told alone.
LEMMA ThreadAwaited == ASSUME IInv, Awaited, Curl PROVE Awaited'
<1>0. transfer \in [pc : Places, offset : Spans, at : Spans, status : Answers, code : Answers,
                   hand : FileUnits, buffer : FileUnits, error : BOOLEAN, finished : BOOLEAN, cancelled : BOOLEAN]
  BY Typed, TransfersAre DEF IInv
<1>1. /\ UNCHANGED <<setting, pc>> /\ HasTransfer /\ HasTransfer'
      /\ transfer'.cancelled = transfer.cancelled /\ (Exited' => transfer'.finished)
  <2>1. CASE Answer \/ Body \/ BodyEnds \/ Breaks \/ Wedges
    BY ZenonT(40), <1>0, <2>1 DEF Answer, Body, BodyEnds, Breaks, Wedges, Performed, Performing, Thread, At, HasTransfer,
      Exited, Curl, user
  <2>2. CASE PushData \/ PullData \/ progress_callback
    BY <1>0, <2>2 DEF PushData, PullData, progress_callback, Performed, Performing, Thread, At, HasTransfer,
      Exited, Curl, user
  <2>3. CASE thread_func
    BY <1>0, <2>3 DEF thread_func, Thread, At, HasTransfer, Exited, Curl, user
  <2> QED BY <2>1, <2>2, <2>3 DEF Curl, CurlThread
<1> QED BY <1>1 DEF Awaited, Mode

\* So do the steps of the user: whoever joins has cancelled first.
LEMMA UserAwaited == ASSUME IInv, Awaited, Continues \/ Calls PROVE Awaited'
<1>0. transfer \in [pc : Places, offset : Spans, at : Spans, status : Answers, code : Answers,
                   hand : FileUnits, buffer : FileUnits, error : BOOLEAN, finished : BOOLEAN, cancelled : BOOLEAN]
  BY Typed, TransfersAre DEF IInv
<1>1. CASE StartThread
  BY <1>0, <1>1 DEF StartThread, In, Goto, Return, At, HasTransfer, Exited, Awaited, Mode, NoTransfer, IInv, Control
<1>2. CASE Pull \/ Push
  BY <1>0, <1>2 DEF Pull, Push, In, Goto, Return, At, HasTransfer, Exited, Awaited, Mode
<1>3. CASE HttpLoop \/ HttpJudge \/ HttpResume
  BY ZenonT(40), <1>0, <1>3 DEF HttpLoop, HttpJudge, HttpResume, In, Goto, Return, At, HasTransfer, Exited, Awaited, Mode,
    IInv, Control, Made, NoTransfer, Cancel
<1>4. CASE HttpJoins \/ DestroyTransfer \/ Closed
  BY <1>0, <1>4 DEF HttpJoins, DestroyTransfer, Closed, In, Goto, At, HasTransfer, Exited, Awaited, Mode,
    IInv, Control, NoTransfer
<1>5. CASE DeviceJudge \/ devoptab_read \/ devoptab_write
  BY <1>0, <1>5 DEF DeviceJudge, devoptab_read, devoptab_write, In, Goto, Return, Begin, At, HasTransfer, Exited,
    Awaited, Mode, Made, NoTransfer
<1>6. CASE HttpRead \/ devoptab_seek \/ Close
  BY <1>0, <1>6 DEF HttpRead, devoptab_seek, Close, In, Goto, At, HasTransfer, Exited, Awaited, Mode, Cancel
<1> QED BY <1>1, <1>2, <1>3, <1>4, <1>5, <1>6 DEF Continues, Calls

\* The main thread only cancels.
LEMMA MainAwaited == ASSUME IInv, Awaited, MainThread \/ Ended \/ UNCHANGED vars PROVE Awaited'
<1>0. transfer \in [pc : Places, offset : Spans, at : Spans, status : Answers, code : Answers,
                   hand : FileUnits, buffer : FileUnits, error : BOOLEAN, finished : BOOLEAN, cancelled : BOOLEAN]
  BY Typed, TransfersAre DEF IInv
<1>1. CASE CancelActiveCurlTransfers \/ RequestCurlShutdown
  BY <1>0, <1>1 DEF CancelActiveCurlTransfers, RequestCurlShutdown, user, At, HasTransfer, Exited, Awaited, Mode, Cancel
<1>2. CASE SignalCancel \/ UNCHANGED vars
  BY <1>2 DEF SignalCancel, vars, user, At, HasTransfer, Exited, Awaited, Mode
<1> QED BY <1>1, <1>2 DEF MainThread, Ended

LEMMA AwaitedStarts == Init => Awaited
BY DEF Init, Awaited, Exited, At, HasTransfer, Mode, Made, NoTransfer

\* A user that waits for units has an empty buffer, into which any hand-over fits; one that waits for room has a
\* full one, of which libcurl takes; and one that joins has cancelled, which ends every wait of a callback.
LEMMA OneOfThemMoves == ASSUME IInv, Awaited PROVE NobodyStranded
<1> SUFFICES ASSUME UserWaits, ThreadWaits PROVE Stuck
  BY DEF NobodyStranded
<1>0. Control /\ transfer \in Transfers
  BY Typed DEF IInv
<1>1. HasTransfer
  BY <1>0 DEF UserWaits, Control, Awaited
<1>2. ~At("made")
  BY <1>0 DEF UserWaits, Control
<1>3. CASE Exited
  BY <1>3 DEF UserWaits, Awaited
<1>4. CASE At("wedged")
  BY <1>0, <1>4 DEF UserWaits, Control, Stuck, Exited, At
<1>5. CASE At("callback") \/ At("perform")
  <2>1. pc \in {"pull", "push"}
    BY <1>5 DEF UserWaits, ThreadWaits, Awaited, Interrupted, At, Exited
  <2>2. Len(<<>>) = 0 /\ Handed <= Chunk /\ Handed \in Nat
    BY Numbers DEF IInv, TypeOK, TransferTypeOK, Counts, Handed
  <2>3. CASE pc = "pull"
    <3>1. transfer.buffer = <<>> /\ ~Mode("upload")
      BY <1>0, <2>3 DEF UserWaits, Control
    <3>2. HasSpace
      BY <2>2, <3>1 DEF HasSpace, Handed
    <3> QED BY <1>5, <3>1, <3>2 DEF ThreadWaits, At
  <2>4. CASE pc = "push"
    <3>1. Mode("upload") /\ Len(transfer.buffer) = MAX_BUFFER_SIZE
      BY <1>0, <2>4 DEF UserWaits, Control
    <3>2. transfer.buffer = <<>>
      BY <1>0, <1>5, <3>1 DEF ThreadWaits, At, Control
    <3> QED BY <2>2, <3>1, <3>2
  <2> QED BY <2>1, <2>3, <2>4
<1> QED BY <1>1, <1>2, <1>3, <1>4, <1>5 DEF ThreadWaits, At, HasTransfer, Exited

\* The user and the callbacks of libcurl never wait for each other: whatever breaks, is cancelled or refused, a
\* call that has not returned, or the thread that it waits for, can go on, but for a thread that hangs in a
\* system call (Stuck).  This is what safety says of CallsReturn, for every file, buffer and request.
THEOREM NeverStranded == Spec => []NobodyStranded
<1>1. IInv /\ Awaited /\ [Next]_vars => Awaited'
  BY ThreadAwaited, UserAwaited, MainAwaited DEF Next
<1> QED BY <1>1, AwaitedStarts, OneOfThemMoves, Invariance, PTL DEF Spec
===============================================================================
