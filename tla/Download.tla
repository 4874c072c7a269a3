------------------------------ MODULE Download ------------------------------
(* One request in the hands of a worker thread: DownloadInternal, from the   *)
(* check of the stop token to the file at its path.  A file is fetched into  *)
(* a temporary file of its own; an interrupted fetch is tried again, from    *)
(* where it broke off when the request may resume; the finished file takes   *)
(* the place of the old one by a deletion and a rename.                      *)
(*                                                                           *)
(* The server is external: it may change the file, break off, refuse a       *)
(* range, answer with an error, or not answer.  libcurl gives the progress   *)
(* callback its turn also while nothing arrives.  Nothing is buffered: the   *)
(* vector of a chunk has a capacity but no size, so each piece is written.   *)
(* A unit of a file is a pair of its version and its number.  Requests that  *)
(* write a file share one path.                                              *)
EXTENDS Integers, Sequences, FiniteSets, SequencesExt

CONSTANTS Settings,              \* the settings to run: kind of each request, what may go wrong
          MAX_THREADS, DOWNLOAD_MAX_ATTEMPTS,
          Length,                \* units of the file on the server
          Versions               \* how often the server may publish it
AllFaults == {"start", "storage", "drop", "change", "stop"}
Kinds == {"memory", "file", "cached"} \* no path; a path; a path and Flag_Cache
Request == UNION {DOMAIN s.kind : s \in Settings}
Thread == 1 .. MAX_THREADS
ASSUME SettingsAssumption == \A s \in Settings :
  /\ s.kind \in Seq(Kinds)
  /\ s.faults \subseteq AllFaults
ASSUME DownloadAssumption ==
  /\ MAX_THREADS \in Nat \ {0} /\ DOWNLOAD_MAX_ATTEMPTS \in Nat \ {0} /\ Length \in Nat \ {0} /\ Versions \in Nat \ {0}

VARIABLES
  setting,
  g_running,
  stopped,     \* the requests whose stop token has been told to stop
  thread,      \* ThreadEntry: where it is, m_api, and the locals of DownloadInternal
  temp,        \* the temporary file of the thread
  dst,         \* the file at the path
  server       \* the version the server has
environment == <<setting, server>>
download == <<thread, temp, dst>>

NoFile == <<>>
Leftover == [n \in 1 .. Length + 1 |-> <<0, n>>]
Idle == [pc |-> "wait", api |-> 0, attempt |-> 0, file_offset |-> 0, if_none_match |-> FALSE]
DownloadInit ==
  /\ setting \in Settings /\ g_running = TRUE /\ stopped = {} /\ server = 1
  /\ thread \in [Thread -> IF "start" \in setting.faults THEN {Idle, [Idle EXCEPT !.pc = "none"]} ELSE {Idle}]
  /\ temp = [k \in Thread |-> Leftover] /\ dst = [n \in 1 .. Length |-> <<0, n>>]

At(k, pc) == thread[k].pc = pc
Kind(k) == setting.kind[thread[k].api]
HasFile(k) == Kind(k) # "memory"
Fault(f) == f \in setting.faults
GivesUp(k) == ~g_running \/ thread[k].api \in stopped
CanResume(k) == Kind(k) = "file"
MaxAttempts(k) == IF HasFile(k) THEN DOWNLOAD_MAX_ATTEMPTS ELSE 1
Goto(k, pc) == thread' = [thread EXCEPT ![k].pc = pc]
\* The locals are gone and the temporary file is deleted.  The next one has another name, and
\* an earlier run of the application may have left a file of that name.
Return(k) ==
  /\ temp' = [temp EXCEPT ![k] = Leftover]
  /\ thread' = [thread EXCEPT ![k] = [Idle EXCEPT !.pc = "reply", !.api = thread[k].api]]
Others == UNCHANGED <<environment, g_running, stopped>>

\* the temporary file is truncated: it may be there already
Start(k) ==
  /\ At(k, "start")
  /\ \/ (GivesUp(k) \/ Fault("storage")) /\ Return(k)
     \/ /\ ~GivesUp(k)
        /\ thread' = [thread EXCEPT ![k].pc = "perform", ![k].attempt = 1,
                                     ![k].if_none_match = Kind(k) = "cached" /\ dst # NoFile]
        /\ temp' = [temp EXCEPT ![k] = IF HasFile(k) THEN NoFile ELSE @]
  /\ UNCHANGED dst /\ Others

\* File::Write at an offset: what lies behind the new units stays
Written(f, offset, units) ==
  SubSeq(f, 1, offset) \o units \o SubSeq(f, offset + Len(units) + 1, Len(f))
Body(from, upto) == [n \in 1 .. upto - from |-> <<server, from + n>>]
\* the temporary file when the server has sent its file up to a unit
WriteFileCallback(k, upto) ==
  IF HasFile(k) THEN Written(temp[k], thread[k].file_offset, Body(thread[k].file_offset, upto)) ELSE temp[k]

Received(k) ==
  /\ At(k, "perform")
  /\ \/ HasFile(k) /\ Goto(k, "delete") /\ temp' = [temp EXCEPT ![k] = WriteFileCallback(k, Length)]
     \/ ~HasFile(k) /\ Return(k)
  /\ UNCHANGED dst /\ Others
\* 304, to a request that was sent with what the cache knows of the file
NotModified(k) ==
  /\ At(k, "perform") /\ thread[k].if_none_match
  /\ Return(k)
  /\ UNCHANGED dst /\ Others

\* mutant: one attempt too many
LastAttemptLate(k) == thread[k].attempt > MaxAttempts(k)
LastAttempt(k) == thread[k].attempt = MaxAttempts(k)
\* A failed attempt has left the file f: another one goes on behind it if the request may
\* resume, and starts over if not.
Retry(k, f, offset) ==
  IF GivesUp(k) \/ LastAttempt(k) THEN Return(k)
  ELSE \/ LET from == IF CanResume(k) THEN offset ELSE 0 IN
            /\ thread' = [thread EXCEPT ![k].attempt = @ + 1, ![k].file_offset = from]
            /\ temp' = [temp EXCEPT ![k] = IF from = offset THEN f ELSE NoFile]
       \/ ~CanResume(k) /\ offset > 0 /\ Fault("storage") /\ Return(k)
\* the connection breaks: what has been written is where the next attempt goes on
Interrupted(k) ==
  /\ At(k, "perform") /\ Fault("drop")
  /\ \E upto \in thread[k].file_offset .. Length :
       Retry(k, WriteFileCallback(k, upto), IF HasFile(k) THEN upto ELSE 0)
  /\ UNCHANGED dst /\ Others
\* mutant: the whole file behind the part that is there
ResumeRejectedLate(k) ==
  /\ At(k, "perform") /\ thread[k].file_offset > 0
  /\ Goto(k, "delete")
  /\ temp' = [temp EXCEPT ![k] = Written(@, thread[k].file_offset, Body(0, Length))]
  /\ UNCHANGED dst /\ Others
\* the server ignores Range and sends the whole file: nothing of it is taken
ResumeRejected(k) ==
  /\ At(k, "perform") /\ thread[k].file_offset > 0
  /\ \/ Retry(k, NoFile, 0)
     \/ Fault("storage") /\ Return(k)
  /\ UNCHANGED dst /\ Others
\* an answer that is no success, or storage that takes no more
PerformFails(k) ==
  /\ At(k, "perform") /\ (Fault("drop") \/ Fault("storage")) /\ Return(k)
  /\ UNCHANGED dst /\ Others
\* the progress callback sees the stop
ProgressCallbackFunc2(k) ==
  /\ At(k, "perform") /\ GivesUp(k) /\ Return(k)
  /\ UNCHANGED dst /\ Others

DeleteFile(k) ==
  /\ At(k, "delete") /\ Goto(k, "rename")
  /\ dst' = NoFile \/ (Fault("storage") /\ UNCHANGED dst)
  /\ UNCHANGED temp /\ Others
\* fails where there is a file
RenameFile(k) ==
  /\ At(k, "rename")
  /\ \/ dst = NoFile /\ dst' = temp[k]
     \/ (dst # NoFile \/ Fault("storage")) /\ UNCHANGED dst
  /\ Return(k)
  /\ Others

Publish ==
  /\ Fault("change") /\ server < Versions /\ server' = server + 1
  /\ UNCHANGED <<setting, g_running, stopped, download>>

\* what the thread does by itself, and what the server decides
Works(k) ==
  Start(k) \/ ProgressCallbackFunc2(k) \/ DeleteFile(k) \/ RenameFile(k)
Responds(k) ==
  Received(k) \/ NotModified(k) \/ Interrupted(k) \/ ResumeRejected(k) \/ PerformFails(k)

\* The file at the path is absent or complete, unit for unit, whatever broke off on the
\* way, and of a request that never resumes it is one version of the server's file.
FileWhole ==
  dst # NoFile =>
    /\ Len(dst) = Length /\ \A n \in 1 .. Length : dst[n][2] = n
    /\ \/ \E r \in DOMAIN setting.kind : setting.kind[r] = "file"
       \/ \A n \in 1 .. Length : dst[n][1] = dst[1][1]
=============================================================================
