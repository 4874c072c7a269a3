----------------------------- MODULE RemoteFile -----------------------------
(* A remote file and its user: yati's source over HTTP, which opens a      *)
(* transfer again where one broke off; or a file of a mounted server that  *)
(* is read, with seeks, or written.  The main thread cancels all transfers *)
(* of the process at once, whoever uses them.                              *)
EXTENDS CurlTransfer

CONSTANTS Request,  \* the most that is asked for, or written, at once
          Attempts  \* how many attempts without a unit fit into RESUME_WINDOW_NS
ASSUME RequestAssumption == Request \in Nat \ {0} /\ Attempts \in Nat \ {0}

VARIABLES
  pc,         \* where the user is in its call
  offset,     \* state->offset, or m_offset
  m_request_offset,
  from, want, \* the read, or the write, under way: where, and how much
  got,        \* the units that it has got, or has put into the buffer
  result,     \* what the last call returned
  stalls,     \* attempts since something last arrived
  code        \* of the transfer that has ended
call == <<from, want, got, result>>
user == <<pc, offset, m_request_offset, call, stalls, code>>
vars == <<setting, transfer, sent, flags, user>>

Init ==
  /\ setting \in Settings
  /\ transfer = IF Mode("upload") THEN Made(0) ELSE NoTransfer
  /\ sent = <<>> /\ m_cancelled = FALSE /\ g_curl_shutdown = FALSE
  /\ pc = IF Mode("upload") THEN "start" ELSE "idle"
  /\ offset = 0 /\ m_request_offset = 0 /\ from = 0 /\ want = 0 /\ got = <<>> /\ result = "none"
  /\ stalls = 0 /\ code = 0

In(place) == pc = place /\ UNCHANGED <<setting, sent, flags>>
Goto(place) == pc' = place
Return(r) == result' = r /\ Goto("idle")
Begin(n) == want' = n /\ from' = offset /\ got' = <<>> /\ result' = "none"
HasTransfer == ~At("none")
Exited == At("exited")

\* CreateAndStart
StartThread ==
  /\ In("start")
  /\ \/ /\ transfer' = [transfer EXCEPT !.pc = IF Mode("upload") THEN "perform" ELSE "connect"]
        /\ Goto(IF Mode("upload") THEN "idle" ELSE "pull")
        /\ offset' = transfer.offset
        /\ UNCHANGED result
     \/ /\ Fault("start")
        /\ transfer' = NoTransfer
        /\ result' = "fail" /\ Goto(IF Mode("upload") THEN "closed" ELSE "idle")
        /\ UNCHANGED offset
  /\ UNCHANGED <<m_request_offset, from, want, got, stalls, code>>

PullsNothing == transfer.error \/ m_cancelled
\* PullData for the user: it waits until it has all, or nothing more will come
Pull ==
  /\ In("pull")
  /\ LET n == IF PullsNothing THEN 0 ELSE Least(want - Len(got), Len(transfer.buffer))
         ends == \/ PullsNothing \/ n = want - Len(got)
                 \/ n = Len(transfer.buffer) /\ transfer.finished
     IN /\ n > 0 \/ ends
        /\ got' = got \o SubSeq(transfer.buffer, 1, n)
        /\ transfer' = [transfer EXCEPT !.buffer = SubSeq(@, n + 1, Len(@))]
        /\ stalls' = IF n > 0 THEN 0 ELSE stalls
        /\ Goto(IF ends THEN "judge" ELSE "pull")
  /\ UNCHANGED <<offset, m_request_offset, from, want, result, code>>

-----------------------------------------------------------------------------
(* yati::source::Http.                                                     *)

\* every read asks for bytes inside the file; a jump ends the running transfer first
HttpRead ==
  /\ In("idle") /\ Mode("http")
  /\ \E off \in 0 .. Length - 1, n \in 1 .. Request :
       /\ off + n <= Length
       /\ from' = off /\ want' = n /\ got' = <<>> /\ result' = "none"
       /\ IF HasTransfer /\ off # offset
          THEN transfer' = Cancel(transfer) /\ Goto("moves")
          ELSE UNCHANGED transfer /\ Goto("loop")
  /\ stalls' = 0
  /\ UNCHANGED <<offset, m_request_offset, code>>
HttpLoop ==
  /\ In("loop")
  /\ \/ m_cancelled /\ Return("cancelled") /\ UNCHANGED <<transfer, m_request_offset>>
     \/ ~m_cancelled /\ HasTransfer /\ Goto("pull") /\ UNCHANGED <<transfer, m_request_offset, result>>
     \/ /\ ~m_cancelled /\ ~HasTransfer
        /\ transfer' = Made(from + Len(got)) /\ m_request_offset' = from + Len(got)
        /\ Goto("start") /\ UNCHANGED result
  /\ UNCHANGED <<offset, from, want, got, stalls, code>>
\* PullData has returned; a transfer that came up short is read for its code and destroyed
HttpJudge ==
  /\ In("judge") /\ Mode("http")
  /\ offset' = from + Len(got)
  /\ \/ m_cancelled /\ Return("cancelled") /\ UNCHANGED <<transfer, code>>
     \/ ~m_cancelled /\ Len(got) = want /\ Return("ok") /\ UNCHANGED <<transfer, code>>
     \/ /\ ~m_cancelled /\ Len(got) < want
        /\ code' = transfer.code /\ transfer' = Cancel(transfer)
        /\ Goto("reset") /\ UNCHANGED result
  /\ UNCHANGED <<m_request_offset, from, want, got, stalls>>
\* the destructor joins the thread
HttpJoins ==
  /\ pc \in {"moves", "reset"} /\ Exited
  /\ transfer' = NoTransfer
  /\ Goto(IF pc = "moves" THEN "loop" ELSE "resume")
  /\ UNCHANGED <<setting, sent, flags, offset, m_request_offset, call, stalls, code>>
\* mutant: every attempt begins a new window
HttpResumeForever ==
  /\ In("resume")
  /\ Goto("loop")
  /\ UNCHANGED <<transfer, offset, m_request_offset, call, stalls, code>>
\* an answer that will not change ends the read, and so does a window without a byte
HttpResume ==
  /\ In("resume")
  /\ LET hopeless == (code # 0 /\ m_request_offset # 0 /\ code # 206) \/ code >= 400 IN
       \/ hopeless /\ Return("fail") /\ UNCHANGED stalls
       \/ ~hopeless /\ stalls > 0 /\ Return("fail") /\ UNCHANGED stalls
       \/ ~hopeless /\ stalls < Attempts /\ stalls' = stalls + 1 /\ Goto("loop") /\ UNCHANGED result
  /\ UNCHANGED <<transfer, offset, m_request_offset, from, want, got, code>>

-----------------------------------------------------------------------------
(* A file of a MountCurlDevice.                                            *)

devoptab_read ==
  /\ In("idle") /\ Mode("device")
  /\ \E n \in 1 .. Request : Begin(n)
  /\ IF HasTransfer THEN UNCHANGED transfer /\ Goto("pull")
     ELSE transfer' = Made(offset) /\ Goto("start")
  /\ UNCHANGED <<offset, m_request_offset, stalls, code>>
\* mutant: the look at the error is left out
DeviceJudgeBlind ==
  /\ In("judge") /\ Mode("device")
  /\ Return("ok") /\ offset' = offset + Len(got)
  /\ UNCHANGED <<transfer, m_request_offset, from, want, got, stalls, code>>
\* "a short/empty read is either a genuine eof or a dropped transfer"
DeviceJudge ==
  /\ In("judge") /\ Mode("device")
  /\ IF Len(got) < want /\ transfer.error
     THEN Return("fail") /\ UNCHANGED offset
     ELSE Return("ok") /\ offset' = offset + Len(got)
  /\ UNCHANGED <<transfer, m_request_offset, from, want, got, stalls, code>>
devoptab_seek ==
  /\ In("idle") /\ Mode("device")
  /\ \E target \in 0 .. Length :
       /\ target # offset
       /\ from' = target \* target_offset
  /\ IF HasTransfer THEN transfer' = Cancel(transfer) /\ Goto("destroy") /\ UNCHANGED offset
     ELSE UNCHANGED <<transfer, pc>> /\ offset' = from'
  /\ result' = "none" /\ got' = <<>>
  /\ UNCHANGED <<m_request_offset, want, stalls, code>>
\* DestroyTransfer gives the thread 200 ms; one that is still there is left behind, with its
\* buffer and its handle
DestroyTransfer ==
  /\ In("destroy")
  /\ transfer' = NoTransfer
  /\ offset' = from
  /\ Goto("idle")
  /\ UNCHANGED <<m_request_offset, call, stalls, code>>

devoptab_write ==
  /\ In("idle") /\ Mode("upload")
  /\ \E n \in 1 .. Request : offset + n <= Length /\ Begin(n)
  /\ Goto("push")
  /\ UNCHANGED <<transfer, offset, m_request_offset, stalls, code>>
\* PushData for the user: it waits until all is in the buffer, or the thread is done
Push ==
  /\ In("push")
  /\ LET space == MAX_BUFFER_SIZE - Len(transfer.buffer)
         dead == transfer.error \/ transfer.finished
         n == IF dead THEN 0 ELSE Least(want - Len(got), space)
         ends == dead \/ n = want - Len(got)
     IN /\ n > 0 \/ ends
        /\ got' = got \o Units(from + Len(got), n)
        /\ transfer' = [transfer EXCEPT !.buffer = @ \o Units(from + Len(got), n)]
        /\ IF ends
           THEN Return(IF got' = <<>> THEN "fail" ELSE "ok") /\ offset' = from + Len(got')
           ELSE UNCHANGED <<pc, offset, result>>
  /\ UNCHANGED <<m_request_offset, from, want, stalls, code>>

-----------------------------------------------------------------------------
Close ==
  /\ In("idle")
  /\ IF HasTransfer THEN transfer' = Cancel(transfer) /\ Goto("closing")
     ELSE UNCHANGED transfer /\ Goto("closed")
  /\ UNCHANGED <<offset, m_request_offset, call, stalls, code>>
\* yati's source joins the thread, the file of a mount leaves it behind
Closed ==
  /\ In("closing")
  /\ Exited \/ ~Mode("http")
  /\ transfer' = NoTransfer /\ Goto("closed")
  /\ UNCHANGED <<offset, m_request_offset, call, stalls, code>>

-----------------------------------------------------------------------------
(* The main thread.                                                        *)

CancelActiveCurlTransfers ==
  /\ Fault("cancel_all") /\ HasTransfer /\ ~transfer.cancelled
  /\ transfer' = Cancel(transfer)
  /\ UNCHANGED <<setting, sent, flags, user>>
RequestCurlShutdown ==
  /\ Fault("shutdown") /\ ~g_curl_shutdown
  /\ g_curl_shutdown' = TRUE
  /\ transfer' = IF HasTransfer THEN Cancel(transfer) ELSE transfer
  /\ UNCHANGED <<setting, sent, m_cancelled, user>>
SignalCancel ==
  /\ Fault("cancel") /\ Mode("http") /\ ~m_cancelled
  /\ m_cancelled' = TRUE
  /\ UNCHANGED <<setting, transfer, sent, g_curl_shutdown, user>>

-----------------------------------------------------------------------------
MainThread == CancelActiveCurlTransfers \/ RequestCurlShutdown \/ SignalCancel
\* what the user goes on with once it has called
Continues ==
  \/ StartThread \/ Pull \/ Push \/ HttpLoop \/ HttpJudge \/ HttpJoins \/ HttpResume
  \/ DeviceJudge \/ DestroyTransfer \/ Closed
Calls == HttpRead \/ devoptab_read \/ devoptab_seek \/ devoptab_write \/ Close
Curl == CurlThread /\ UNCHANGED user

\* A thread in a system call that does not come back holds up whoever joins it, and a user of
\* a mount until it is told that nothing more will come.
Stuck == At("wedged") /\ (Mode("http") \/ ~transfer.finished)
Ended == (pc = "closed" \/ Stuck) /\ UNCHANGED vars

Next == Curl \/ Continues \/ Calls \/ MainThread \/ Ended
Spec == Init /\ [][Next]_vars /\ WF_vars(Curl) /\ WF_vars(Continues)

-----------------------------------------------------------------------------
Busy == pc \notin {"idle", "closed"}

\* Type invariant of the file and its transfer.
TypeOK ==
  /\ TransferTypeOK
  /\ pc \in {"idle", "closed", "start", "loop", "pull", "judge", "moves", "reset", "resume",
             "destroy", "push", "closing"}
  /\ offset \in 0 .. 2 * Length /\ m_request_offset \in 0 .. Length /\ from \in 0 .. 2 * Length
  /\ want \in 0 .. Request /\ got \in Seq(0 .. Length - 1) /\ Len(got) <= want
  /\ result \in {"none", "ok", "fail", "cancelled"} /\ stalls \in 0 .. Attempts /\ code \in {0, 200, 206, 416}

\* where the unit at the user's offset is in the file: a mount does not see that a server has
\* ignored the range, and takes the beginning of the file for what it asked for
Moved == IF Mode("device") /\ transfer.status = 200 THEN transfer.offset ELSE 0

\* Every unit lands where it belongs: a read gets those of its offset, whatever transfer it came
\* from and wherever an earlier one broke off, and an upload hands libcurl what was
\* written, in order and once.  Only a mount whose range the server has ignored gets other units:
\* those of the whole file, moved by the offset at which that transfer was opened.
BytesInOrder ==
  /\ pc # "closed" => got = Units(from - Moved, Len(got))
  /\ Mode("upload") /\ HasTransfer =>
       sent \o transfer.buffer = Units(0, IF pc = "push" THEN from + Len(got) ELSE offset)

\* What a read returns is so: yati's source succeeds with all that was asked for, and says
\* cancelled only of a cancel of its own; the file of a mount comes up short only where the units
\* of its transfer end, or in a transfer that somebody else has cancelled, which the code
\* takes for the end of the file.
ResultTrue ==
  pc = "idle" =>
    /\ Mode("http") /\ result = "ok" => Len(got) = want
    /\ Mode("http") /\ result = "cancelled" => m_cancelled
    /\ Mode("device") /\ result = "ok" /\ Len(got) < want => offset - Moved = Length \/ transfer.cancelled

\* "a missed wake costs at most this much, never a deadlock", and a transfer that does not die
\* is left behind "so the caller never freezes": every call on a file returns.
CallsReturn == Busy ~> (~Busy \/ Stuck)
=============================================================================
