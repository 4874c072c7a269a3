---------------------------- MODULE CurlTransfer ----------------------------
(* One transfer of a remote file: PushPullThreadData, a thread in          *)
(* curl_easy_perform and a buffer between its callbacks and the user.      *)
(*                                                                         *)
(* Every wait in PullData and PushData ends after WAIT_TIMEOUT_NS and      *)
(* looks at the flags again, so a wait is a step that is not possible yet, *)
(* and the wakes, which only shorten it, are left out.  Cancel() sets two  *)
(* flags without the mutex; whoever tests one of them alone is as early or *)
(* as late as without the other, so they are set in one step.  A unit of   *)
(* the file is its number.  The server and libcurl are external.           *)
EXTENDS Integers, Sequences

CONSTANTS Settings,        \* who uses the file, and what may go wrong
          Length,          \* units of the file
          MAX_BUFFER_SIZE,
          Chunk            \* the most that libcurl hands over, or takes, at once
Modes == {"http", "device", "upload"} \* yati's source, a file of a mount, a file written there
AllFaults == {"start", "drop", "ignore", "status", "wedge", "cancel", "cancel_all", "shutdown"}
ASSUME SettingsAssumption == \A s \in Settings : s.mode \in Modes /\ s.faults \subseteq AllFaults
ASSUME SizesAssumption ==
  /\ Length \in Nat \ {0} /\ MAX_BUFFER_SIZE \in Nat \ {0} /\ Chunk \in 1 .. MAX_BUFFER_SIZE

VARIABLES
  setting,
  transfer,        \* the object and its thread
  sent,            \* of an upload: what libcurl has taken
  m_cancelled,     \* the flag of yati's source, the external_cancel of its transfers
  g_curl_shutdown
flags == <<m_cancelled, g_curl_shutdown>>

Mode(m) == setting.mode = m
Fault(f) == f \in setting.faults
Units(from, n) == [i \in 1 .. n |-> from + i - 1]
Least(a, b) == IF a < b THEN a ELSE b

\* hand: the units with which the data callback is called; status: that of the answer,
\* and code what the thread has stored of it; offset: of the range asked for
NoTransfer ==
  [pc |-> "none", offset |-> 0, at |-> 0, status |-> 0, hand |-> <<>>, buffer |-> <<>>,
   error |-> FALSE, finished |-> FALSE, cancelled |-> FALSE, code |-> 0]
Made(offset) == [NoTransfer EXCEPT !.pc = "made", !.offset = offset]
Cancel(t) == [t EXCEPT !.cancelled = TRUE, !.finished = TRUE]

At(pc) == transfer.pc = pc
Performing == transfer.pc \in {"connect", "perform"}
\* curl_easy_perform returns
Performed(res) == transfer' = [transfer EXCEPT !.pc = res, !.hand = <<>>]
Thread == UNCHANGED <<setting, flags, sent>>

-----------------------------------------------------------------------------
\* The answer.  yati's source asks for a range at offset 0 too.  A server may ignore the range and
\* send all of the file, or refuse; behind the end there is nothing to send.
Answer ==
  /\ At("connect")
  /\ \/ /\ transfer.offset < Length
        /\ transfer' = [transfer EXCEPT !.pc = "perform", !.at = transfer.offset,
                                         !.status = IF transfer.offset = 0 /\ ~Mode("http") THEN 200 ELSE 206]
     \/ /\ Fault("ignore")
        /\ transfer' = [transfer EXCEPT !.pc = "perform", !.at = 0, !.status = 200]
     \/ /\ transfer.offset >= Length \/ Fault("status")
        /\ transfer' = [transfer EXCEPT !.pc = "failed", !.status = 416]
  /\ Thread
Body ==
  /\ At("perform") /\ ~Mode("upload")
  /\ \E n \in 1 .. Chunk :
       /\ transfer.at + n <= Length
       /\ transfer' = [transfer EXCEPT !.pc = "callback", !.at = @ + n, !.hand = Units(transfer.at, n)]
  /\ Thread
BodyEnds ==
  /\ At("perform") /\ ~Mode("upload") /\ transfer.at = Length
  /\ Performed("ok")
  /\ Thread
\* the connection breaks, or nothing has come for CURLOPT_LOW_SPEED_TIME
Breaks == Performing /\ Fault("drop") /\ Performed("failed") /\ Thread
\* a system call that does not come back
Wedges == Performing /\ Fault("wedge") /\ Performed("wedged") /\ Thread

-----------------------------------------------------------------------------
Interrupted == transfer.error \/ transfer.cancelled \/ m_cancelled

\* mutant: units of an answer to another range are taken
RefusedNever == FALSE
\* The callback of yati's source takes only an answer to the range that it asked for.
Refused == Mode("http") /\ transfer.offset > 0 /\ transfer.status # 206

\* mutant: a callback fills the buffer up and beyond
HasSpaceLate == Len(transfer.buffer) < MAX_BUFFER_SIZE
HasSpace == Len(transfer.buffer) + Len(transfer.hand) <= MAX_BUFFER_SIZE
\* PushData in the data callback
PushData ==
  /\ At("callback")
  /\ \/ (Refused \/ Interrupted \/ transfer.finished) /\ Performed("failed")
     \/ /\ ~Refused /\ ~Interrupted /\ ~transfer.finished /\ HasSpace
        /\ transfer' = [transfer EXCEPT !.pc = "perform", !.hand = <<>>, !.buffer = @ \o transfer.hand]
  /\ Thread
\* PullData in the data callback of an upload.  `finished` is raised by the thread's own end, or
\* together with `cancelled`: the end of the body is never reached.
PullData ==
  /\ At("perform") /\ Mode("upload")
  /\ \/ Interrupted /\ Performed("failed") /\ UNCHANGED sent
     \/ /\ ~Interrupted /\ transfer.buffer # <<>>
        /\ LET n == Least(Chunk, Len(transfer.buffer)) IN
             /\ sent' = sent \o SubSeq(transfer.buffer, 1, n)
             /\ transfer' = [transfer EXCEPT !.buffer = SubSeq(@, n + 1, Len(@))]
  /\ UNCHANGED <<setting, flags>>
progress_callback ==
  Performing /\ (g_curl_shutdown \/ Interrupted) /\ Performed("failed") /\ Thread
\* thread_func behind curl_easy_perform
thread_func ==
  /\ transfer.pc \in {"ok", "failed"}
  /\ transfer' = [transfer EXCEPT !.pc = "exited", !.finished = TRUE, !.error = At("failed"),
                                   !.code = transfer.status]
  /\ Thread

CurlThread ==
  Answer \/ Body \/ BodyEnds \/ Breaks \/ Wedges \/ PushData \/ PullData \/ progress_callback \/ thread_func

Transfers ==
  [pc : {"none", "made", "connect", "perform", "callback", "ok", "failed", "wedged", "exited"},
   offset : 0 .. Length, at : 0 .. Length, status : {0, 200, 206, 416}, code : {0, 200, 206, 416},
   hand : Seq(0 .. Length - 1), buffer : Seq(0 .. Length - 1),
   error : BOOLEAN, finished : BOOLEAN, cancelled : BOOLEAN]
TransferTypeOK ==
  /\ setting \in Settings /\ m_cancelled \in BOOLEAN /\ g_curl_shutdown \in BOOLEAN
  /\ transfer \in Transfers
  /\ Len(transfer.hand) <= Chunk /\ Len(transfer.buffer) <= MAX_BUFFER_SIZE
  /\ sent \in Seq(0 .. Length - 1)
=============================================================================
