---------------------------- MODULE YatiPipeline ----------------------------
(***************************************************************************)
(* Writing one NCA into its placeholder: Yati::InstallNcaInternal runs a   *)
(* reader, a decompressor and a writer thread over two ring buffers.  The  *)
(* decompressor passes the units of a plain NCA on as they are; those of   *)
(* an NCZ it inflates, collects and flushes in pieces.                     *)
(*                                                                         *)
(* Unit i of the file is the number i, a vector is a sequence of units and *)
(* a ring a bounded queue, which RingQueue shows RingBuf to be.  All three *)
(* threads use their mutex the same way: test, wait until the test holds,  *)
(* move one vector, wake the peer.  Between the test and the wait they     *)
(* hold the mutex, which is why only those labels are steps of their own.  *)
(***************************************************************************)
EXTENDS Integers, Sequences

CONSTANTS NcaSize,   \* units of the file in its container
          BufSize,   \* read_buffer_size, in units
          Slots,     \* capacity of each ring
          Ratio,     \* units that one compressed unit inflates to
          FlushSize, \* INFLATE_BUFFER_MAX, in units
          Faults     \* what may go wrong, a subset of AllFaults

AllFaults == {"read", "decompress", "write", "start", "short", "cancel"}

ASSUME SizesAssumption ==
  /\ NcaSize \in Nat \ {0, 1} /\ BufSize \in Nat \ {0} /\ Slots \in Nat \ {0}
  /\ Ratio \in Nat \ {0} /\ FlushSize \in Nat /\ Ratio <= FlushSize
ASSUME FaultsAssumption == Faults \subseteq AllFaults

VARIABLES
  ncz,               \* the file is an NCZ: unit 1 is the section table, the rest compressed
  verify,            \* the hash was checked: not skipped, and the header not modified
  source_end,        \* units the source really holds
  reader, decompressor, writer, main, \* where each thread is
  reader_buf, reader_rc,
  decomp_buf,        \* what is left of the vector the decompressor popped
  inflate_buf,       \* inflated units not flushed yet
  outgoing,          \* the vector it is handing to SetWriteBuf
  flushing,          \* it is the last one, from behind the loop
  decomp_rc,
  writer_buf, writer_rc,
  read_buffers, write_buffers,
  read_offset, decompress_offset, write_size,
  read_result, decompress_result, write_result,
  read_running, decompress_running, write_running,
  hashed,            \* what went into the running sha256
  nca_hash,          \* what the final hash was taken of; << >> while there is none
  placeholder,       \* what was written, from offset 0 to write_offset
  uevent_done, cancelled, returned

environment == <<ncz, source_end, cancelled>>
readerVars == <<reader_buf, reader_rc, read_offset, read_result, read_running>>
decompVars == <<decomp_buf, inflate_buf, outgoing, flushing, decomp_rc, decompress_offset,
                write_size, decompress_result, decompress_running, hashed, nca_hash>>
writerVars == <<writer_buf, writer_rc, write_result, write_running, placeholder>>
outcome == <<returned, verify>>
vars == <<environment, reader, decompressor, writer, main, readerVars, decompVars,
          writerVars, read_buffers, write_buffers, uevent_done, outcome>>

\* the size the NCA header states
NczSize == 1 + Ratio * (NcaSize - 2)
HeaderSize == IF ncz THEN NczSize ELSE NcaSize
\* what unit i of the file becomes
Inflated(i) == IF ncz THEN [k \in 1 .. Ratio |-> Ratio * (i - 2) + k] ELSE <<i>>
Content == [i \in 1 .. HeaderSize |-> i - 1]
write_offset == Len(placeholder)

Init ==
  /\ ncz \in BOOLEAN /\ verify = FALSE
  /\ source_end \in IF "short" \in Faults THEN 0 .. NcaSize ELSE {NcaSize}
  /\ reader = "idle" /\ decompressor = "idle" /\ writer = "idle" /\ main = "start"
  /\ reader_buf = << >> /\ decomp_buf = << >> /\ inflate_buf = << >>
  /\ outgoing = << >> /\ flushing = FALSE /\ writer_buf = << >>
  /\ reader_rc = "ok" /\ decomp_rc = "ok" /\ writer_rc = "ok"
  /\ read_buffers = << >> /\ write_buffers = << >>
  /\ read_offset = 0 /\ decompress_offset = 0 /\ write_size = NcaSize
  /\ read_result = "ok" /\ decompress_result = "ok" /\ write_result = "ok"
  /\ read_running = TRUE /\ decompress_running = TRUE /\ write_running = TRUE
  /\ hashed = << >> /\ nca_hash = << >> /\ placeholder = << >>
  /\ uevent_done = FALSE /\ cancelled = FALSE /\ returned = "none"

\* R_SUCCEEDED(GetResults())
Healthy == ~cancelled /\ read_result = "ok" /\ decompress_result = "ok" /\ write_result = "ok"

IsAnyRunning == read_running \/ decompress_running \/ write_running

\* a woken thread takes its mutex and tests again
Woken(thread) == CASE thread = "wait" -> "test" [] thread = "putwait" -> "put"
                   [] OTHER -> thread

\* WakeAllThreads: no mutex is held or taken.  The threads but `others` have just
\* returned: a thread function ends with this call.
WakeAllThreads(others) ==
  /\ reader' = IF "reader" \in others THEN Woken(reader) ELSE "dead"
  /\ decompressor' = IF "decompressor" \in others THEN Woken(decompressor) ELSE "dead"
  /\ writer' = IF "writer" \in others THEN Woken(writer) ELSE "dead"

-------------------------------------------------------------------------------
(* The reader: readFunc, readFuncInternal, Read, SetDecompressBuf.         *)

readerKeeps == <<environment, writer, main, decompVars, writerVars, write_buffers, outcome>>

ReaderReturns(rc) == reader' = "exit" /\ reader_rc' = rc

ReaderLoop ==
  /\ reader = "loop"
  /\ IF read_offset < NcaSize /\ Healthy
       THEN reader' = "read" /\ UNCHANGED reader_rc
       ELSE ReaderReturns("ok")
  /\ UNCHANGED <<readerKeeps, decompressor, reader_buf, read_offset, read_result,
                 read_running, read_buffers, uevent_done>>

\* what one Read returns: the first asks for the header alone, and a source returns
\* nothing only at its end
ReadLengths ==
  LET most == IF read_offset = 0 THEN 1 ELSE BufSize
  IN  IF read_offset < source_end
        THEN {n \in 1 .. most : read_offset + n <= source_end} ELSE {0}

\* for an NCZ the section table behind the header is read at once, and not passed on
AfterRead(n) ==
  IF ncz /\ read_offset = 0 /\ read_offset + n < source_end
    THEN read_offset + n + 1 ELSE read_offset + n

ReaderRead ==
  /\ reader = "read"
  /\ \/ \E n \in ReadLengths \ {0} :
          /\ reader_buf' = [i \in 1 .. n |-> read_offset + (i - 1)]
          /\ read_offset' = AfterRead(n)
          /\ reader' = "test"
          /\ UNCHANGED reader_rc
     \/ /\ 0 \in ReadLengths
        /\ ReaderReturns("ok")
        /\ UNCHANGED <<reader_buf, read_offset>>
     \/ /\ "read" \in Faults
        /\ ReaderReturns("fail")
        /\ UNCHANGED <<reader_buf, read_offset>>
  /\ UNCHANGED <<readerKeeps, decompressor, read_result, read_running, read_buffers,
                 uevent_done>>

\* mutant: SetDecompressBuf that does not test for room
ReaderTestUnchecked ==
  /\ reader = "test" /\ decompressor # "park"
  /\ reader' = "loop"
  /\ read_buffers' = Append(read_buffers, reader_buf)
  /\ decompressor' = IF decompressor = "wait" THEN "test" ELSE decompressor
  /\ UNCHANGED <<readerKeeps, readerVars, uevent_done>>

\* SetDecompressBuf; with the ring full and the decompressor gone it succeeds and the
\* vector is dropped
ReaderTest ==
  /\ reader = "test" /\ decompressor # "park"
  /\ \/ /\ Healthy /\ Len(read_buffers) < Slots
        /\ read_buffers' = Append(read_buffers, reader_buf)
        /\ decompressor' = IF decompressor = "wait" THEN "test" ELSE decompressor
        /\ reader' = "loop"
        /\ UNCHANGED reader_rc
     \/ /\ Healthy /\ Len(read_buffers) = Slots
        /\ reader' = IF decompress_running THEN "park" ELSE "loop"
        /\ UNCHANGED <<read_buffers, decompressor, reader_rc>>
     \/ /\ ~Healthy
        /\ ReaderReturns("fail")
        /\ UNCHANGED <<read_buffers, decompressor>>
  /\ UNCHANGED <<readerKeeps, reader_buf, read_offset, read_result, read_running,
                 uevent_done>>

ReaderPark ==
  /\ reader = "park"
  /\ reader' = "wait"
  /\ UNCHANGED <<readerKeeps, decompressor, readerVars, read_buffers, uevent_done>>

ReaderExit ==
  /\ reader = "exit"
  /\ reader' = "result"
  /\ read_running' = FALSE
  /\ UNCHANGED <<readerKeeps, decompressor, reader_buf, reader_rc, read_offset,
                 read_result, read_buffers, uevent_done>>

\* SetReadResult
ReaderResult ==
  /\ reader = "result"
  /\ read_result' = reader_rc
  /\ uevent_done' = (uevent_done \/ reader_rc = "fail")
  /\ WakeAllThreads({"decompressor", "writer"})
  /\ UNCHANGED <<environment, main, decompVars, writerVars, write_buffers, outcome,
                 reader_buf, reader_rc, read_offset, read_running, read_buffers>>

Reader == ReaderLoop \/ ReaderRead \/ ReaderTest \/ ReaderPark \/ ReaderExit \/ ReaderResult

-------------------------------------------------------------------------------
(* The decompressor: decompressFunc, decompressFuncInternal, ncz_flush,    *)
(* GetDecompressBuf, SetWriteBuf.                                          *)

decompKeeps == <<environment, main, readerVars, writerVars, outcome>>

DecompReturns(rc) == decompressor' = "exit" /\ decomp_rc' = rc

\* behind the loop: flush what is left, then take the hash
DecompLeavesLoop ==
  IF inflate_buf # << >>
    THEN /\ decompressor' = "put"
         /\ outgoing' = inflate_buf /\ inflate_buf' = << >> /\ flushing' = TRUE
         /\ hashed' = hashed \o inflate_buf
         /\ UNCHANGED <<decomp_rc, nca_hash>>
    ELSE /\ DecompReturns("ok")
         /\ nca_hash' = hashed
         /\ UNCHANGED <<outgoing, flushing, inflate_buf, hashed>>

\* `buf` is only replaced by the next pop: an empty decomp_buf means it was used up
DecompLoop ==
  /\ decompressor = "loop"
  /\ IF decompress_offset < write_size /\ Healthy
       THEN /\ decompressor' = "test"
            /\ UNCHANGED <<outgoing, flushing, inflate_buf, hashed, decomp_rc, nca_hash>>
       ELSE DecompLeavesLoop
  /\ UNCHANGED <<decompKeeps, reader, writer, decomp_buf, decompress_offset, write_size,
                 decompress_result, decompress_running, read_buffers, write_buffers,
                 uevent_done>>

\* GetDecompressBuf; an empty ring without a reader gives an empty vector
DecompTest ==
  /\ decompressor = "test" /\ reader # "park"
  /\ \/ /\ Healthy /\ read_buffers # << >>
        /\ decomp_buf' = Head(read_buffers)
        /\ read_buffers' = Tail(read_buffers)
        /\ reader' = IF reader = "wait" THEN "test" ELSE reader
        /\ decompressor' = IF Head(read_buffers)[1] = 0 THEN "header"
                           ELSE IF ncz THEN "inflate" ELSE "pass"
        /\ UNCHANGED <<outgoing, flushing, inflate_buf, hashed, decomp_rc, nca_hash>>
     \/ /\ Healthy /\ read_buffers = << >> /\ read_running
        /\ decompressor' = "park"
        /\ UNCHANGED <<reader, read_buffers, decomp_buf, outgoing, flushing, inflate_buf,
                       hashed, decomp_rc, nca_hash>>
     \/ /\ Healthy /\ read_buffers = << >> /\ ~read_running
        /\ DecompLeavesLoop
        /\ UNCHANGED <<reader, read_buffers, decomp_buf>>
     \/ /\ ~Healthy
        /\ DecompReturns("fail")
        /\ UNCHANGED <<reader, read_buffers, decomp_buf, outgoing, flushing, inflate_buf,
                       hashed, nca_hash>>
  /\ UNCHANGED <<decompKeeps, writer, decompress_offset, write_size, decompress_result,
                 decompress_running, write_buffers, uevent_done>>

DecompPark ==
  /\ decompressor \in {"park", "putpark"}
  /\ decompressor' = IF decompressor = "park" THEN "wait" ELSE "putwait"
  /\ UNCHANGED <<decompKeeps, reader, writer, decompVars, read_buffers, write_buffers,
                 uevent_done>>

\* the header decides the size; checks, keys, ticket or placeholder may fail
DecompHeader ==
  /\ decompressor = "header"
  /\ \/ /\ write_size' = HeaderSize
        /\ decompressor' = "pass"
        /\ UNCHANGED decomp_rc
     \/ /\ "decompress" \in Faults
        /\ write_size' \in {write_size, HeaderSize}
        /\ DecompReturns("fail")
  /\ UNCHANGED <<decompKeeps, reader, writer, decomp_buf, inflate_buf, outgoing, flushing,
                 decompress_offset, decompress_result, decompress_running, hashed, nca_hash,
                 read_buffers, write_buffers, uevent_done>>

\* a plain NCA, and the header of an NCZ, go straight to SetWriteBuf
DecompPass ==
  /\ decompressor = "pass"
  /\ decompressor' = "put"
  /\ outgoing' = decomp_buf /\ decomp_buf' = << >>
  /\ hashed' = hashed \o decomp_buf
  /\ decompress_offset' = decompress_offset + Len(decomp_buf)
  /\ UNCHANGED <<decompKeeps, reader, writer, inflate_buf, flushing, decomp_rc, write_size,
                 decompress_result, decompress_running, nca_hash, read_buffers,
                 write_buffers, uevent_done>>

\* mutant: ncz_flush copies the rest from one unit too early
KeptForLaterTwice(inflated) == SubSeq(inflated, FlushSize, Len(inflated))

\* what ncz_flush keeps in inflate_buf beyond the piece it hands on
KeptForLater(inflated) == SubSeq(inflated, FlushSize + 1, Len(inflated))

\* one piece of compressed input: inflate it, and flush once enough has gathered
DecompInflate ==
  /\ decompressor = "inflate"
  /\ \/ /\ decomp_buf # << >> /\ Healthy
        /\ LET inflated == inflate_buf \o Inflated(Head(decomp_buf))
           IN  IF Len(inflated) >= FlushSize
                 THEN /\ decompressor' = "put"
                      /\ outgoing' = SubSeq(inflated, 1, FlushSize)
                      /\ inflate_buf' = KeptForLater(inflated)
                      /\ hashed' = hashed \o outgoing'
                 ELSE /\ inflate_buf' = inflated
                      /\ UNCHANGED <<decompressor, outgoing, hashed>>
        /\ decomp_buf' = Tail(decomp_buf)
        /\ decompress_offset' = decompress_offset + Ratio
        /\ UNCHANGED decomp_rc
     \/ /\ decomp_buf # << >> /\ (~Healthy \/ "decompress" \in Faults)
        /\ DecompReturns("fail")
        /\ UNCHANGED <<decomp_buf, inflate_buf, outgoing, decompress_offset, hashed>>
     \/ /\ decomp_buf = << >>
        /\ decompressor' = "loop"
        /\ UNCHANGED <<decomp_rc, decomp_buf, inflate_buf, outgoing, decompress_offset, hashed>>
  /\ UNCHANGED <<decompKeeps, reader, writer, flushing, write_size, decompress_result,
                 decompress_running, nca_hash, read_buffers, write_buffers, uevent_done>>

\* where SetWriteBuf returns to
DecompAfterPut ==
  IF flushing THEN DecompReturns("ok") /\ nca_hash' = hashed
  ELSE /\ decompressor' = IF decomp_buf # << >> THEN "inflate" ELSE "loop"
       /\ UNCHANGED <<decomp_rc, nca_hash>>

\* SetWriteBuf; with the ring full and the writer gone the vector is dropped
DecompPut ==
  /\ decompressor = "put" /\ writer # "park"
  /\ \/ /\ Healthy /\ Len(write_buffers) < Slots
        /\ write_buffers' = Append(write_buffers, outgoing)
        /\ writer' = IF writer = "wait" THEN "test" ELSE writer
        /\ DecompAfterPut
     \/ /\ Healthy /\ Len(write_buffers) = Slots /\ write_running
        /\ decompressor' = "putpark"
        /\ UNCHANGED <<write_buffers, writer, decomp_rc, nca_hash>>
     \/ /\ Healthy /\ Len(write_buffers) = Slots /\ ~write_running
        /\ DecompAfterPut
        /\ UNCHANGED <<write_buffers, writer>>
     \/ /\ ~Healthy
        /\ DecompReturns("fail")
        /\ UNCHANGED <<write_buffers, writer, nca_hash>>
  /\ UNCHANGED <<decompKeeps, reader, decomp_buf, inflate_buf, outgoing, flushing,
                 decompress_offset, write_size, decompress_result, decompress_running,
                 hashed, read_buffers, uevent_done>>

DecompExit ==
  /\ decompressor = "exit"
  /\ decompressor' = "result"
  /\ decompress_running' = FALSE
  /\ UNCHANGED <<decompKeeps, reader, writer, decomp_buf, inflate_buf, outgoing, flushing,
                 decomp_rc, decompress_offset, write_size, decompress_result, hashed, nca_hash,
                 read_buffers, write_buffers, uevent_done>>

\* SetDecompressResult
DecompResult ==
  /\ decompressor = "result"
  /\ decompress_result' = decomp_rc
  /\ uevent_done' = (uevent_done \/ decomp_rc = "fail")
  /\ WakeAllThreads({"reader", "writer"})
  /\ UNCHANGED <<decompKeeps, decomp_buf, inflate_buf, outgoing, flushing, decomp_rc,
                 decompress_offset, write_size, decompress_running, hashed, nca_hash,
                 read_buffers, write_buffers>>

Decompressor == \/ DecompLoop \/ DecompTest \/ DecompPark \/ DecompHeader \/ DecompPass
                \/ DecompInflate \/ DecompPut \/ DecompExit \/ DecompResult

-------------------------------------------------------------------------------
(* The writer: writeFunc, writeFuncInternal, GetWriteBuf.                  *)

writerKeeps == <<environment, reader, main, readerVars, decompVars, read_buffers, outcome>>

WriterReturns(rc) == writer' = "exit" /\ writer_rc' = rc

WriterLoop ==
  /\ writer = "loop"
  /\ IF write_offset < write_size /\ Healthy
       THEN writer' = "test" /\ UNCHANGED writer_rc
       ELSE WriterReturns("ok")
  /\ UNCHANGED <<writerKeeps, decompressor, writer_buf, write_result, write_running,
                 placeholder, write_buffers, uevent_done>>

\* mutant: GetWriteBuf asks whether the decompressor runs before it looks at the ring
WriterTestPeerFirst ==
  /\ writer = "test" /\ decompressor # "putpark"
  /\ \/ /\ decompress_running /\ write_buffers # << >>
        /\ writer_buf' = Head(write_buffers)
        /\ write_buffers' = Tail(write_buffers)
        /\ decompressor' = IF decompressor = "putwait" THEN "put" ELSE decompressor
        /\ writer' = "write"
        /\ UNCHANGED writer_rc
     \/ /\ decompress_running /\ write_buffers = << >>
        /\ writer' = "park"
        /\ UNCHANGED <<decompressor, write_buffers, writer_buf, writer_rc>>
     \/ /\ ~decompress_running
        /\ WriterReturns("ok")
        /\ UNCHANGED <<decompressor, write_buffers, writer_buf>>
  /\ UNCHANGED <<writerKeeps, write_result, write_running, placeholder, uevent_done>>

\* GetWriteBuf; an empty ring without a decompressor gives an empty vector
WriterTest ==
  /\ writer = "test" /\ decompressor # "putpark"
  /\ \/ /\ Healthy /\ write_buffers # << >>
        /\ writer_buf' = Head(write_buffers)
        /\ write_buffers' = Tail(write_buffers)
        /\ decompressor' = IF decompressor = "putwait" THEN "put" ELSE decompressor
        /\ writer' = "write"
        /\ UNCHANGED writer_rc
     \/ /\ Healthy /\ write_buffers = << >> /\ decompress_running
        /\ writer' = "park"
        /\ UNCHANGED <<decompressor, write_buffers, writer_buf, writer_rc>>
     \/ /\ Healthy /\ write_buffers = << >> /\ ~decompress_running
        /\ WriterReturns("ok")
        /\ UNCHANGED <<decompressor, write_buffers, writer_buf>>
     \/ /\ ~Healthy
        /\ WriterReturns("fail")
        /\ UNCHANGED <<decompressor, write_buffers, writer_buf>>
  /\ UNCHANGED <<writerKeeps, write_result, write_running, placeholder, uevent_done>>

WriterPark ==
  /\ writer = "park"
  /\ writer' = "wait"
  /\ UNCHANGED <<writerKeeps, decompressor, writerVars, write_buffers, uevent_done>>

\* one ncmContentStorageWritePlaceHolder, of at most read_buffer_size
WriterWrite ==
  /\ writer = "write"
  /\ LET n == IF Len(writer_buf) < BufSize THEN Len(writer_buf) ELSE BufSize
     IN  \/ /\ writer_buf # << >> /\ write_offset < write_size /\ Healthy
            /\ placeholder' = placeholder \o SubSeq(writer_buf, 1, n)
            /\ writer_buf' = SubSeq(writer_buf, n + 1, Len(writer_buf))
            /\ UNCHANGED <<writer, writer_rc>>
         \/ /\ writer_buf # << >> /\ write_offset < write_size /\ Healthy
            /\ "write" \in Faults
            /\ WriterReturns("fail")
            /\ UNCHANGED <<placeholder, writer_buf>>
         \/ /\ writer_buf = << >> \/ write_offset >= write_size \/ ~Healthy
            /\ writer' = "loop"
            /\ UNCHANGED <<placeholder, writer_buf, writer_rc>>
  /\ UNCHANGED <<writerKeeps, decompressor, write_result, write_running, write_buffers,
                 uevent_done>>

WriterExit ==
  /\ writer = "exit"
  /\ writer' = "result"
  /\ write_running' = FALSE
  /\ UNCHANGED <<writerKeeps, decompressor, writer_buf, writer_rc, write_result,
                 placeholder, write_buffers, uevent_done>>

\* mutant: SetWriteResult signals only a failure, as the other two do
WriterResultSilent ==
  /\ writer = "result"
  /\ write_result' = writer_rc
  /\ uevent_done' = (uevent_done \/ writer_rc = "fail")
  /\ WakeAllThreads({"reader", "decompressor"})
  /\ UNCHANGED <<environment, main, readerVars, decompVars, read_buffers, outcome,
                 writer_buf, writer_rc, write_running, placeholder, write_buffers>>

\* SetWriteResult signals the done event whatever the result
WriterResult ==
  /\ writer = "result"
  /\ write_result' = writer_rc
  /\ uevent_done' = TRUE
  /\ WakeAllThreads({"reader", "decompressor"})
  /\ UNCHANGED <<environment, main, readerVars, decompVars, read_buffers, outcome,
                 writer_buf, writer_rc, write_running, placeholder, write_buffers>>

Writer == WriterLoop \/ WriterTest \/ WriterPark \/ WriterWrite \/ WriterExit \/ WriterResult

-------------------------------------------------------------------------------
(* The installing thread: InstallNcaInternal from the thread starts on.    *)

mainKeeps == <<environment, readerVars, decompVars, writerVars, read_buffers, write_buffers,
               uevent_done>>

MainStarts ==
  /\ \/ main = "start" /\ reader' = "loop" /\ main' = "start2"
        /\ UNCHANGED <<decompressor, writer>>
     \/ main = "start2" /\ decompressor' = "loop" /\ main' = "start3"
        /\ UNCHANGED <<reader, writer>>
     \/ main = "start3" /\ writer' = "loop" /\ main' = "waiting"
        /\ UNCHANGED <<reader, decompressor>>
  /\ UNCHANGED <<mainKeeps, outcome>>

\* R_TRY(threadStart): straight to the scope exits, which join what was started
MainStartFails ==
  /\ "start" \in Faults
  /\ main \in {"start", "start2", "start3"}
  /\ main' = "join"
  /\ returned' = "fail"
  /\ UNCHANGED <<mainKeeps, reader, decompressor, writer, verify>>

\* waitMulti, for the cancel or the done event
MainWaits ==
  /\ main = "waiting"
  /\ cancelled \/ uevent_done
  /\ main' = "teardown"
  /\ UNCHANGED <<mainKeeps, reader, decompressor, writer, outcome>>

\* one turn of the teardown loop
MainTeardown ==
  /\ main = "teardown"
  /\ IF IsAnyRunning
       THEN WakeAllThreads({"reader", "decompressor", "writer"}) /\ UNCHANGED main
       ELSE main' = "result" /\ UNCHANGED <<reader, decompressor, writer>>
  /\ UNCHANGED <<mainKeeps, outcome>>

\* the results, then the hash against the content id; the joins come after
MainResult ==
  /\ main = "result"
  /\ main' = "join"
  /\ \/ /\ ~Healthy
        /\ returned' = "fail"
        /\ UNCHANGED verify
     \/ /\ Healthy
        /\ verify' \in BOOLEAN
        /\ returned' = IF verify' => nca_hash = Content THEN "ok" ELSE "fail"
  /\ UNCHANGED <<mainKeeps, reader, decompressor, writer>>

MainJoin ==
  /\ main = "join"
  /\ {reader, decompressor, writer} \subseteq {"idle", "dead"}
  /\ main' = "done"
  /\ UNCHANGED <<mainKeeps, reader, decompressor, writer, outcome>>

Main == MainStarts \/ MainStartFails \/ MainWaits \/ MainTeardown \/ MainResult \/ MainJoin

\* the user cancels the install
Cancel ==
  /\ "cancel" \in Faults
  /\ ~cancelled /\ main # "done"
  /\ cancelled' = TRUE
  /\ UNCHANGED <<ncz, source_end, reader, decompressor, writer, main, readerVars, decompVars,
                 writerVars, read_buffers, write_buffers, uevent_done, outcome>>

Finished == main = "done" /\ UNCHANGED vars

Next == Reader \/ Decompressor \/ Writer \/ Main \/ Cancel \/ Finished

Spec == Init /\ [][Next]_vars

\* the kernel runs every thread that can run, and the source and the storage answer
FairSpec ==
  Spec /\ WF_vars(Reader) /\ WF_vars(Decompressor) /\ WF_vars(Writer) /\ WF_vars(Main)

-------------------------------------------------------------------------------
Labels == {"idle", "loop", "read", "test", "park", "wait", "header", "pass", "inflate", "put",
           "putpark", "putwait", "write", "exit", "result", "dead"}
Results == {"ok", "fail"}

\* Type invariant: the rings stay within their slots, nothing past the stated size is
\* written and what gathers for a flush stays below twice INFLATE_BUFFER_MAX.
TypeOK ==
  /\ source_end \in 0 .. NcaSize /\ read_offset \in 0 .. NcaSize
  /\ {reader, decompressor, writer} \subseteq Labels
  /\ main \in {"start", "start2", "start3", "waiting", "teardown", "result", "join", "done"}
  /\ Len(read_buffers) <= Slots /\ Len(write_buffers) <= Slots
  /\ Len(reader_buf) <= BufSize /\ Len(decomp_buf) <= BufSize
  /\ Len(inflate_buf) < 2 * FlushSize
  /\ write_size \in {NcaSize, HeaderSize}
  /\ decompress_offset \in 0 .. HeaderSize /\ write_offset \in 0 .. HeaderSize
  /\ {reader_rc, decomp_rc, writer_rc, read_result, decompress_result, write_result}
       \subseteq Results
  /\ {read_running, decompress_running, write_running, flushing, uevent_done, cancelled}
       \subseteq BOOLEAN
  /\ returned \in Results \cup {"none"}

\* An install whose hash is checked never succeeds with an incomplete placeholder: what
\* the hash was taken of (decompressFuncInternal) has also been written
\* (writeFuncInternal), whichever thread left first.
VerifiedIsComplete == returned = "ok" /\ verify => placeholder = Content

\* The placeholder only ever holds the beginning of the NCA, inflated, in order and without a
\* gap, through both rings, the flushes and every failure; and also without the hash check a
\* success means all that the source held, as Delivery promises.  What a reader or a decompressor that failed left
\* behind counts as not held: their failure can be lost, and then only the hash tells.
UnitsFrom(n) == IF ncz /\ n > 1 THEN 1 + Ratio * (n - 2) ELSE n
Held == CASE decomp_rc = "fail" -> Len(hashed)
          [] decomp_rc # "fail" /\ reader_rc = "fail" -> UnitsFrom(read_offset)
          [] OTHER -> UnitsFrom(source_end)
LargestSize == IF NczSize < NcaSize THEN NcaSize ELSE NczSize
Promise == INSTANCE Delivery WITH
             Size <- LargestSize, source_end <- Held,
             returned <- IF main = "done" THEN returned ELSE "none",
             sink <- [i \in 0 .. LargestSize - 1 |->
                        IF i < write_offset THEN placeholder[i + 1] ELSE LargestSize]
KeepsPromise == Promise!Spec

\* The two ways to be stuck for good: the scope exits of a failed threadStart join threads
\* that nobody will wake; or the source ended short, the reader's wake fell between a test
\* and its wait, and nobody cancels.
Stuck ==
  \/ main = "join" /\ writer = "idle"
  \/ reader = "dead" /\ source_end < NcaSize /\ main = "waiting" /\ ~cancelled

\* InstallNcaInternal returns, whichever thread fails and whenever, and when the user
\* cancels: a wakeup lost between a test and its wait keeps no thread parked in any other
\* way, because the done event of a failed or of the last thread starts the teardown loop.
Returns == <>(main = "done") \/ <>[]Stuck
===============================================================================
