----------------------------- MODULE TransferCore -----------------------------
(***************************************************************************)
(* The multi-threaded transfer engine, TransferInternal: a reader thread   *)
(* fills a RingBuf<2> from rfunc, a writer thread empties it into wfunc,   *)
(* and the calling thread waits for progress, cancel or done.  With a pull *)
(* callback (TransferPull) the writer hands each buffer to the calling     *)
(* thread through the single pull_buffer instead.                          *)
(*                                                                         *)
(* Offsets count units; the bytes of unit i of the source are the number   *)
(* i, and a buffer is the source range [off, len] it was read from.  Every *)
(* step is one access to what the threads share, or one critical section.  *)
(***************************************************************************)
EXTENDS Integers

CONSTANTS Size,     \* write_size: units the caller asked to transfer
          BufSize,  \* read_buffer_size, in units
          Faults,   \* what may go wrong, a subset of AllFaults
          ForeignUnlock \* what mutexUnlock may do to another thread's mutex

AllFaults == {"read", "write", "pull", "start", "short", "cancel"}

ASSUME SizeAssumption == Size \in Nat
ASSUME BufSizeAssumption == BufSize \in Nat \ {0}
ASSUME FaultsAssumption == Faults \subseteq AllFaults
ASSUME ForeignUnlockAssumption == ForeignUnlock \in (SUBSET {"nothing", "releases"}) \ {{}}

INSTANCE RingBuf WITH Capacity <- 2

Buffer == [off : 0 .. Size, len : 0 .. Size]
NoBuffer == [off |-> 0, len |-> 0]

Threads == {"reader", "writer", "main"}
Free == "free"

VARIABLES
  pull,                  \* TRUE: TransferPull, FALSE: Transfer
  source_end,            \* units the source really holds
  reader, writer, main,  \* where each thread is
  reader_buf, writer_buf,\* the vectors local to the two thread functions
  reader_rc, writer_rc,  \* what they are about to return
  mutex, pull_mutex,     \* the owner, or Free
  write_buffers,
  pull_buffer, pull_buffer_offset,
  read_offset, write_offset,
  read_result, write_result, pull_result,
  read_running, write_running,
  uevent_done, uevent_progress,
  cancelled,             \* the ProgressBox's stop request and cancel event
  sink,                  \* sink[i]: the source unit delivered at offset i
  taken,                 \* units the pull callback has handed out
  returned               \* what TransferInternal returned

readerState == <<reader_buf, reader_rc, read_offset, read_result, read_running>>
writerState == <<writer_buf, writer_rc, write_offset, write_result, write_running>>
mainState == <<pull_result, taken, returned>>
pullBuf == <<pull_buffer, pull_buffer_offset>>
environment == <<pull, source_end, cancelled>>
vars == <<environment, reader, writer, main, readerState, writerState, mainState,
          mutex, pull_mutex, write_buffers, pullBuf, uevent_done, uevent_progress, sink>>

Empty == Size \* in sink: nothing delivered here yet

Init ==
  /\ pull \in BOOLEAN
  /\ source_end \in IF "short" \in Faults THEN 0 .. Size ELSE {Size}
  /\ reader = "idle" /\ writer = "idle" /\ main = "start"
  /\ reader_buf = NoBuffer /\ writer_buf = NoBuffer
  /\ reader_rc = "ok" /\ writer_rc = "ok"
  /\ mutex = Free /\ pull_mutex = Free
  /\ write_buffers = NewRing(NoBuffer)
  /\ pull_buffer = NoBuffer /\ pull_buffer_offset = 0
  /\ read_offset = 0 /\ write_offset = 0
  /\ read_result = "ok" /\ write_result = "ok" /\ pull_result = "ok"
  /\ read_running = TRUE /\ write_running = TRUE
  /\ uevent_done = FALSE /\ uevent_progress = FALSE
  /\ cancelled = FALSE
  /\ taken = 0 /\ returned = "none"
  /\ sink = [i \in 0 .. Size - 1 |-> Empty]

\* R_SUCCEEDED(GetResults()): four loads of flags that only ever go from
\* success to failure, so they read as if at once
Healthy == ~cancelled /\ read_result = "ok" /\ write_result = "ok" /\ pull_result = "ok"

IsAnyRunning == read_running \/ write_running

Deliver(at, buf) ==
  sink' = [i \in DOMAIN sink |->
             IF i \in at .. at + buf.len - 1 THEN buf.off + (i - at) ELSE sink[i]]

(***************************************************************************)
(* A parked thread is at "wait" (on can_read, can_write) or "pwait" (on    *)
(* can_pull_write, can_pull).  Woken, it takes the mutex again and goes on *)
(* WITHOUT testing its condition a second time.                            *)
(***************************************************************************)
Woken(thread) == CASE thread = "wait" -> "relock"
                   [] thread = "pwait" -> "prelock"
                   [] OTHER -> thread

\* mutexUnlock by t.  On a mutex another thread owns its effect is undefined: the
\* build may leave the mutex alone or release it under its owner.
AfterUnlock(t, owner) ==
  {m \in {owner, Free} : \/ m = Free /\ (owner \in {t, Free} \/ "releases" \in ForeignUnlock)
                         \/ m = owner /\ owner # t /\ "nothing" \in ForeignUnlock}

-------------------------------------------------------------------------------
(* The reader thread: readFunc, readFuncInternal, Read, SetWriteBuf.       *)

\* what no step of the reader ever touches
readerKeeps == <<environment, main, writerState, mainState, pull_mutex, pullBuf,
                 uevent_progress, sink>>

ReaderReturns(rc) == reader' = "exit" /\ reader_rc' = rc

ReaderLoop ==
  /\ reader = "loop"
  /\ IF read_offset < Size /\ Healthy
       THEN reader' = "read" /\ UNCHANGED reader_rc
       ELSE ReaderReturns("ok")
  /\ UNCHANGED <<readerKeeps, writer, reader_buf, read_offset, read_result, read_running,
                 mutex, write_buffers, uevent_done>>

\* mutant: Read without its std::min
ReadLengthsUnclamped == IF read_offset < source_end THEN 1 .. BufSize ELSE {0}

\* what rfunc may return at read_offset: some units, and 0 only at the source's end
ReadLengths ==
  IF read_offset < source_end
    THEN {n \in 1 .. BufSize : read_offset + n <= source_end}
    ELSE {0}

ReaderRead ==
  /\ reader = "read"
  /\ \/ \E n \in ReadLengths \ {0} :
          /\ reader_buf' = [off |-> read_offset, len |-> n]
          /\ read_offset' = read_offset + n
          /\ reader' = "lock"
          /\ UNCHANGED reader_rc
     \/ /\ 0 \in ReadLengths
        /\ ReaderReturns("ok")
        /\ UNCHANGED <<reader_buf, read_offset>>
     \/ /\ "read" \in Faults
        /\ ReaderReturns("fail")
        /\ UNCHANGED <<reader_buf, read_offset>>
  /\ UNCHANGED <<readerKeeps, writer, read_result, read_running, mutex, write_buffers,
                 uevent_done>>

ReaderLock ==
  /\ reader \in {"lock", "relock"}
  /\ mutex = Free
  /\ mutex' = "reader"
  /\ reader' = IF reader = "lock" THEN "check" ELSE "push"
  /\ UNCHANGED <<readerKeeps, writer, readerState, write_buffers, uevent_done>>

\* with a full ring and no writer SetWriteBuf succeeds, the mutex still locked
ReaderCheck ==
  /\ reader = "check"
  /\ reader' = CASE RingHasRoom(write_buffers) -> "push"
                 [] ~RingHasRoom(write_buffers) /\ write_running -> "park"
                 [] OTHER -> "loop"
  /\ UNCHANGED <<readerKeeps, writer, readerState, mutex, write_buffers, uevent_done>>

\* condvarWait(can_read) parks and releases the mutex in one step
ReaderPark ==
  /\ reader = "park"
  /\ reader' = "wait"
  /\ mutex' \in AfterUnlock("reader", mutex)
  /\ UNCHANGED <<readerKeeps, writer, readerState, write_buffers, uevent_done>>

ReaderPush ==
  /\ reader = "push"
  /\ mutex' \in AfterUnlock("reader", mutex)
  /\ \/ /\ Healthy
        /\ write_buffers' = Pushed(write_buffers, reader_buf)
        /\ reader_buf' = PushLeaves(write_buffers)
        /\ writer' = IF writer = "wait" THEN "relock" ELSE writer
        /\ reader' = "loop"
        /\ UNCHANGED reader_rc
     \/ /\ ~Healthy
        /\ ReaderReturns("fail")
        /\ UNCHANGED <<write_buffers, reader_buf, writer>>
  /\ UNCHANGED <<readerKeeps, read_offset, read_result, read_running, uevent_done>>

\* ON_SCOPE_EXIT: the flag goes down before the result is stored
ReaderExit ==
  /\ reader = "exit"
  /\ reader' = "result"
  /\ read_running' = FALSE
  /\ UNCHANGED <<readerKeeps, writer, reader_buf, reader_rc, read_offset, read_result,
                 mutex, write_buffers, uevent_done>>

\* SetReadResult: only a failure signals the done event
ReaderResult ==
  /\ reader = "result"
  /\ reader' = "dead"
  /\ read_result' = reader_rc
  /\ uevent_done' = (uevent_done \/ reader_rc = "fail")
  /\ UNCHANGED <<readerKeeps, writer, reader_buf, reader_rc, read_offset, read_running,
                 mutex, write_buffers>>

Reader == \/ ReaderLoop \/ ReaderRead \/ ReaderLock \/ ReaderCheck \/ ReaderPark
          \/ ReaderPush \/ ReaderExit \/ ReaderResult

-------------------------------------------------------------------------------
(* The writer thread: writeFunc, writeFuncInternal, GetWriteBuf, SetPullBuf. *)

writerKeeps == <<environment, readerState, mainState>>

WriterReturns(rc) == writer' = "exit" /\ writer_rc' = rc

WriterLoop ==
  /\ writer = "loop"
  /\ IF write_offset < Size /\ Healthy
       THEN writer' = "lock" /\ UNCHANGED writer_rc
       ELSE WriterReturns("ok")
  /\ UNCHANGED <<writerKeeps, reader, main, writer_buf, write_offset, write_result,
                 write_running, mutex, pull_mutex, write_buffers, pullBuf, uevent_done,
                 uevent_progress, sink>>

\* mutant: GetWriteBuf without its test of the ring
WriterLockUnchecked ==
  /\ writer \in {"lock", "relock"}
  /\ mutex = Free
  /\ mutex' = "writer"
  /\ writer' = "pop"
  /\ UNCHANGED <<writerKeeps, reader, main, writerState, pull_mutex, write_buffers,
                 pullBuf, uevent_done, uevent_progress, sink>>

WriterLock ==
  /\ writer \in {"lock", "relock"}
  /\ mutex = Free
  /\ mutex' = "writer"
  /\ writer' = IF writer = "lock" THEN "check" ELSE "pop"
  /\ UNCHANGED <<writerKeeps, reader, main, writerState, pull_mutex, write_buffers,
                 pullBuf, uevent_done, uevent_progress, sink>>

\* with an empty ring and no reader GetWriteBuf returns an empty buffer, the mutex
\* still locked, and the thread leaves its loop
WriterCheck ==
  /\ writer = "check"
  /\ \/ /\ ~RingIsEmpty(write_buffers)
        /\ writer' = "pop"
        /\ UNCHANGED <<writer_rc, writer_buf>>
     \/ /\ RingIsEmpty(write_buffers) /\ read_running
        /\ writer' = "park"
        /\ UNCHANGED <<writer_rc, writer_buf>>
     \/ /\ RingIsEmpty(write_buffers) /\ ~read_running
        /\ writer_buf' = NoBuffer
        /\ WriterReturns("ok")
  /\ UNCHANGED <<writerKeeps, reader, main, write_offset, write_result, write_running,
                 mutex, pull_mutex, write_buffers, pullBuf, uevent_done, uevent_progress,
                 sink>>

WriterPark ==
  /\ writer = "park"
  /\ writer' = "wait"
  /\ mutex' \in AfterUnlock("writer", mutex)
  /\ UNCHANGED <<writerKeeps, reader, main, writerState, pull_mutex, write_buffers,
                 pullBuf, uevent_done, uevent_progress, sink>>

WriterPop ==
  /\ writer = "pop"
  /\ mutex' \in AfterUnlock("writer", mutex)
  /\ \/ /\ Healthy
        /\ write_buffers' = Popped(write_buffers, writer_buf)
        /\ writer_buf' = PopGives(write_buffers)
        /\ reader' = IF reader = "wait" THEN "relock" ELSE reader
        /\ IF writer_buf'.len = 0
             THEN WriterReturns("ok")
             ELSE writer' = "deliver" /\ UNCHANGED writer_rc
     \/ /\ ~Healthy
        /\ WriterReturns("fail")
        /\ UNCHANGED <<write_buffers, writer_buf, reader>>
  /\ UNCHANGED <<writerKeeps, main, write_offset, write_result, write_running, pull_mutex,
                 pullBuf, uevent_done, uevent_progress, sink>>

\* wfunc, with the offset it is given; or the way into SetPullBuf
WriterDeliver ==
  /\ writer = "deliver"
  /\ \/ /\ ~pull
        /\ Deliver(write_offset, writer_buf)
        /\ writer' = "advance"
        /\ UNCHANGED writer_rc
     \/ /\ ~pull /\ "write" \in Faults
        /\ WriterReturns("fail")
        /\ UNCHANGED sink
     \/ /\ pull
        /\ writer' = "plock"
        /\ UNCHANGED <<writer_rc, sink>>
  /\ UNCHANGED <<writerKeeps, reader, main, writer_buf, write_offset, write_result,
                 write_running, mutex, pull_mutex, write_buffers, pullBuf, uevent_done,
                 uevent_progress>>

WriterPullLock ==
  /\ writer \in {"plock", "prelock"}
  /\ pull_mutex = Free
  /\ pull_mutex' = "writer"
  /\ writer' = IF writer = "prelock" \/ pull_buffer.len = 0 THEN "pput" ELSE "ppark"
  /\ UNCHANGED <<writerKeeps, reader, main, writerState, mutex, write_buffers, pullBuf,
                 uevent_done, uevent_progress, sink>>

WriterPullPark ==
  /\ writer = "ppark"
  /\ writer' = "pwait"
  /\ pull_mutex' \in AfterUnlock("writer", pull_mutex)
  /\ UNCHANGED <<writerKeeps, reader, main, writerState, mutex, write_buffers, pullBuf,
                 uevent_done, uevent_progress, sink>>

\* swaps the two vectors; `size`, what write_offset grows by, was taken before
WriterPullPut ==
  /\ writer = "pput"
  /\ pull_mutex' \in AfterUnlock("writer", pull_mutex)
  /\ \/ /\ Healthy
        /\ pull_buffer' = writer_buf
        /\ main' = IF main = "pwait" THEN "prelock" ELSE main
        /\ writer' = "advance"
        /\ UNCHANGED writer_rc
     \/ /\ ~Healthy
        /\ WriterReturns("fail")
        /\ UNCHANGED <<pull_buffer, main>>
  /\ UNCHANGED <<writerKeeps, reader, writer_buf, write_offset, write_result,
                 write_running, mutex, write_buffers, pull_buffer_offset, uevent_done,
                 uevent_progress, sink>>

\* mutant: write_offset grows by the buffer's capacity
WriterAdvanceByCapacity ==
  /\ writer = "advance"
  /\ writer' = "loop"
  /\ write_offset' = write_offset + BufSize
  /\ uevent_progress' = TRUE
  /\ UNCHANGED <<writerKeeps, reader, main, writer_buf, writer_rc, write_result,
                 write_running, mutex, pull_mutex, write_buffers, pullBuf, uevent_done,
                 sink>>

WriterAdvance ==
  /\ writer = "advance"
  /\ writer' = "loop"
  /\ write_offset' = write_offset + writer_buf.len
  /\ uevent_progress' = TRUE
  /\ UNCHANGED <<writerKeeps, reader, main, writer_buf, writer_rc, write_result,
                 write_running, mutex, pull_mutex, write_buffers, pullBuf, uevent_done,
                 sink>>

WriterExit ==
  /\ writer = "exit"
  /\ writer' = "result"
  /\ write_running' = FALSE
  /\ UNCHANGED <<writerKeeps, reader, main, writer_buf, writer_rc, write_offset,
                 write_result, mutex, pull_mutex, write_buffers, pullBuf, uevent_done,
                 uevent_progress, sink>>

\* mutant: SetWriteResult signals only a failure, as SetReadResult does
WriterResultSilent ==
  /\ writer = "result"
  /\ writer' = "dead"
  /\ write_result' = writer_rc
  /\ uevent_done' = (uevent_done \/ writer_rc = "fail")
  /\ UNCHANGED <<writerKeeps, reader, main, writer_buf, writer_rc, write_offset,
                 write_running, mutex, pull_mutex, write_buffers, pullBuf,
                 uevent_progress, sink>>

\* SetWriteResult signals the done event whatever the result
WriterResult ==
  /\ writer = "result"
  /\ writer' = "dead"
  /\ write_result' = writer_rc
  /\ uevent_done' = TRUE
  /\ UNCHANGED <<writerKeeps, reader, main, writer_buf, writer_rc, write_offset,
                 write_running, mutex, pull_mutex, write_buffers, pullBuf,
                 uevent_progress, sink>>

Writer == \/ WriterLoop \/ WriterLock \/ WriterCheck \/ WriterPark \/ WriterPop
          \/ WriterDeliver \/ WriterPullLock \/ WriterPullPark \/ WriterPullPut
          \/ WriterAdvance \/ WriterExit \/ WriterResult

-------------------------------------------------------------------------------
(* The calling thread: TransferInternal and, inside it, sfunc and GetPullBuf. *)

mainKeeps == <<environment, reader_buf, reader_rc, read_offset, read_result,
               writer_buf, writer_rc, write_offset, write_buffers>>

\* threadStart(&t_read), then threadStart(&t_write)
MainStart ==
  \/ /\ main = "start"
     /\ reader' = "loop" /\ main' = "start2"
     /\ UNCHANGED writer
  \/ /\ main = "start2"
     /\ writer' = "loop" /\ main' = IF pull THEN "sfunc" ELSE "waiting"
     /\ UNCHANGED reader

MainStarts ==
  /\ MainStart
  /\ UNCHANGED <<mainKeeps, write_result, read_running, write_running, mainState, mutex,
                 pull_mutex, pullBuf, uevent_done, uevent_progress, sink>>

\* SetStartFailed; sfunc returns what start() returned
MainStartFails ==
  /\ "start" \in Faults
  /\ main \in {"start", "start2"}
  /\ read_running' = (main = "start2")
  /\ write_running' = FALSE
  /\ write_result' = "fail"
  /\ uevent_done' = TRUE
  /\ main' = IF pull THEN "teardown" ELSE "waiting"
  /\ pull_result' = IF pull THEN "fail" ELSE pull_result
  /\ UNCHANGED <<mainKeeps, reader, writer, taken, returned, mutex, pull_mutex,
                 pullBuf, uevent_progress, sink>>

\* waitMulti looks at progress (cleared by the wait), then cancel, then done
MainWaits ==
  /\ main = "waiting"
  /\ \/ /\ uevent_progress
        /\ uevent_progress' = FALSE
        /\ UNCHANGED main
     \/ /\ ~uevent_progress /\ (cancelled \/ uevent_done)
        /\ main' = "teardown"
        /\ UNCHANGED uevent_progress
  /\ UNCHANGED <<mainKeeps, reader, writer, write_result, read_running, write_running,
                 pull_result, taken, returned, mutex, pull_mutex, pullBuf, uevent_done,
                 sink>>

\* sfunc ends and SetPullResult stores its result
SfuncReturns(rc) ==
  /\ main' = "teardown"
  /\ pull_result' = rc
  /\ uevent_done' = (uevent_done \/ rc = "fail")

pullKeeps == <<mainKeeps, reader, write_result, read_running, write_running,
               returned, mutex, uevent_progress>>

\* the consumer asks for data until it has it all; it fails when a pull fails, when
\* the far end does, or when it sees the cancel itself
MainSfunc ==
  /\ main = "sfunc"
  /\ \/ taken < Size /\ Healthy /\ main' = "plock" /\ UNCHANGED <<pull_result, uevent_done>>
     \/ taken < Size /\ ~Healthy /\ SfuncReturns("fail")
     \/ taken = Size /\ SfuncReturns("ok")
     \/ ("pull" \in Faults \/ cancelled) /\ SfuncReturns("fail")
  /\ UNCHANGED <<pullKeeps, writer, taken, pull_mutex, pullBuf, sink>>

MainPullLock ==
  /\ main \in {"plock", "prelock"}
  /\ pull_mutex = Free
  /\ pull_mutex' = "main"
  /\ main' = IF main = "plock" /\ pull_buffer.len = 0 THEN "ppark" ELSE "ptake"
  /\ UNCHANGED <<pullKeeps, writer, pull_result, taken, pullBuf, uevent_done, sink>>

MainPullPark ==
  /\ main = "ppark"
  /\ main' = "pwait"
  /\ pull_mutex' \in AfterUnlock("main", pull_mutex)
  /\ UNCHANGED <<pullKeeps, writer, pull_result, taken, pullBuf, uevent_done, sink>>

\* mutant: GetPullBuf copies from the start of pull_buffer every time
PullTakeFromStart(n) ==
  /\ Deliver(taken, [off |-> pull_buffer.off, len |-> n])
  /\ taken' = taken + n
  /\ main' = "sfunc"
  /\ IF n = pull_buffer.len - pull_buffer_offset
       THEN /\ pull_buffer' = NoBuffer
            /\ pull_buffer_offset' = 0
            /\ writer' = IF writer = "pwait" THEN "prelock" ELSE writer
       ELSE /\ pull_buffer_offset' = pull_buffer_offset + n
            /\ UNCHANGED <<pull_buffer, writer>>
  /\ UNCHANGED <<pull_result, uevent_done>>

\* copies up to what is left of pull_buffer; the last of it frees the buffer
PullTake(n) ==
  LET left == pull_buffer.len - pull_buffer_offset
  IN  /\ Deliver(taken, [off |-> pull_buffer.off + pull_buffer_offset, len |-> n])
      /\ taken' = taken + n
      /\ main' = "sfunc"
      /\ IF n = left
           THEN /\ pull_buffer' = NoBuffer
                /\ pull_buffer_offset' = 0
                /\ writer' = IF writer = "pwait" THEN "prelock" ELSE writer
           ELSE /\ pull_buffer_offset' = pull_buffer_offset + n
                /\ UNCHANGED <<pull_buffer, writer>>
      /\ UNCHANGED <<pull_result, uevent_done>>

MainPullTake ==
  /\ main = "ptake"
  /\ pull_mutex' \in AfterUnlock("main", pull_mutex)
  /\ \/ /\ Healthy
        /\ \E n \in 1 .. pull_buffer.len - pull_buffer_offset : PullTake(n)
     \/ /\ ~Healthy
        /\ SfuncReturns("fail")
        /\ UNCHANGED <<writer, taken, pullBuf, sink>>
  /\ UNCHANGED pullKeeps

\* one turn of the teardown loop: WakeAllThreads, which also unlocks both mutexes
MainTeardown ==
  /\ main = "teardown"
  /\ IF IsAnyRunning
       THEN /\ reader' = Woken(reader) /\ writer' = Woken(writer)
            /\ mutex' \in AfterUnlock("main", mutex)
            /\ pull_mutex' \in AfterUnlock("main", pull_mutex)
            /\ UNCHANGED main
       ELSE main' = "result" /\ UNCHANGED <<reader, writer, mutex, pull_mutex>>
  /\ UNCHANGED <<mainKeeps, write_result, read_running, write_running, mainState, pullBuf,
                 uevent_done, uevent_progress, sink>>

\* the result is taken before the scope exits join the threads
MainResult ==
  /\ main = "result"
  /\ main' = "join"
  /\ returned' = IF Healthy THEN "ok" ELSE "fail"
  /\ UNCHANGED <<mainKeeps, reader, writer, write_result, read_running, write_running,
                 pull_result, taken, mutex, pull_mutex, pullBuf, uevent_done,
                 uevent_progress, sink>>

MainJoin ==
  /\ main = "join"
  /\ {reader, writer} \subseteq {"idle", "dead"}
  /\ main' = "done"
  /\ UNCHANGED <<mainKeeps, reader, writer, write_result, read_running, write_running,
                 mainState, mutex, pull_mutex, pullBuf, uevent_done, uevent_progress, sink>>

Main == \/ MainStarts \/ MainStartFails \/ MainWaits \/ MainSfunc \/ MainPullLock
        \/ MainPullPark \/ MainPullTake \/ MainTeardown \/ MainResult \/ MainJoin

\* ProgressBox::RequestExit, at the user's word
Cancel ==
  /\ "cancel" \in Faults
  /\ ~cancelled /\ main # "done"
  /\ cancelled' = TRUE
  /\ UNCHANGED <<pull, source_end, reader, writer, main, readerState, writerState, mainState,
                 mutex, pull_mutex, write_buffers, pullBuf, uevent_done, uevent_progress,
                 sink>>

Finished == main = "done" /\ UNCHANGED vars

Next == Reader \/ Writer \/ Main \/ Cancel \/ Finished

Spec == Init /\ [][Next]_vars

\* the kernel runs every thread that can run, and rfunc, wfunc and the consumer return
FairSpec == Spec /\ WF_vars(Reader) /\ WF_vars(Writer) /\ WF_vars(Main)

-------------------------------------------------------------------------------
ThreadLabels == {"idle", "loop", "read", "lock", "relock", "check", "park", "wait",
                 "push", "pop", "deliver", "plock", "prelock", "ppark", "pwait", "pput",
                 "advance", "exit", "result", "dead"}
MainLabels == {"start", "start2", "waiting", "sfunc", "plock", "prelock", "ppark", "pwait",
               "ptake", "teardown", "result", "join", "done"}
Results == {"ok", "fail"}

\* Type invariant: every offset is within the transfer, every index within its ring.
TypeOK ==
  /\ pull \in BOOLEAN
  /\ source_end \in 0 .. Size
  /\ reader \in ThreadLabels /\ writer \in ThreadLabels /\ main \in MainLabels
  /\ reader_buf \in Buffer /\ writer_buf \in Buffer /\ pull_buffer \in Buffer
  /\ reader_rc \in Results /\ writer_rc \in Results
  /\ mutex \in Threads \cup {Free} /\ pull_mutex \in Threads \cup {Free}
  /\ write_buffers \in RingType(Buffer)
  /\ pull_buffer_offset \in 0 .. Size
  /\ read_offset \in 0 .. Size /\ write_offset \in 0 .. Size
  /\ read_result \in Results /\ write_result \in Results /\ pull_result \in Results
  /\ read_running \in BOOLEAN /\ write_running \in BOOLEAN
  /\ uevent_done \in BOOLEAN /\ uevent_progress \in BOOLEAN /\ cancelled \in BOOLEAN
  /\ taken \in 0 .. Size
  /\ sink \in [0 .. Size - 1 -> 0 .. Size]
  /\ returned \in Results \cup {"none"}

\* SetWriteBuf, GetWriteBuf, SetPullBuf and GetPullBuf test their condition with
\* `if` and not again after the wait.  Whatever woke it, a thread that is about to
\* touch a buffer and finds no failure finds the buffer as its wait asked for.
WokenForAReason ==
  Healthy =>
    /\ reader = "push" => RingHasRoom(write_buffers)
    /\ writer = "pop" => ~RingIsEmpty(write_buffers)
    /\ writer = "pput" => pull_buffer.len = 0
    /\ main = "ptake" => pull_buffer.len > pull_buffer_offset

\* Whatever fails and whenever, the sink never holds anything but the beginning of
\* the source: no unit lost, repeated or out of place.
InOrder == \E k \in 0 .. Size : \A i \in 0 .. Size - 1 : sink[i] = IF i < k THEN i ELSE Empty

\* Everything that could be read reaches the sink, in order, or the transfer fails:
\* TransferInternal implements the promise of Delivery.  A read that fails shortens the
\* source to what was read before it.
Promise == INSTANCE Delivery WITH
             source_end <- IF reader_rc = "fail" THEN read_offset ELSE source_end
KeepsPromise == Promise!Spec

\* The ways a thread can be stuck for good: it locked a mutex that an early return of
\* SetWriteBuf left locked; SetStartFailed raised the flag of a reader that had already
\* finished; in Transfer, the source stopped short and nobody cancels, so nothing wakes
\* the writer; in TransferPull, the source stopped short or a read failed or the user
\* cancelled, and nothing wakes the caller, who waits for data.
Stuck ==
  \/ reader = "lock" /\ mutex = "reader"
  \/ reader = "dead" /\ read_running
  \/ ~pull /\ reader = "dead" /\ writer = "wait" /\ source_end < Size /\ ~cancelled
  \/ pull /\ main = "pwait" /\ (source_end < Size \/ reader_rc = "fail" \/ cancelled)

\* A transfer returns, whatever fails and whenever, and also when the user cancels one
\* whose source stopped short: no interleaving of the waits, wakes and failures leaves a
\* thread parked in any other way than those.
Returns == <>(main = "done") \/ <>[]Stuck

\* "if any of the threads failed, wake up all threads so they can exit", and then
\* "returning due to fail" (TransferInternal): once a thread stored a failure, the
\* transfer comes to an end.
FailureEndsTransfer ==
  (read_result = "fail" \/ write_result = "fail") ~> (main = "done")
===============================================================================
