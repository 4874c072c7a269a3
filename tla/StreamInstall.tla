---------------------------- MODULE StreamInstall ----------------------------
(***************************************************************************)
(* BackgroundInstaller: files dropped over MTP or FTP are installed while  *)
(* they arrive.  A transport thread (haze, ftpsrv) holds the mutex of its  *)
(* g_shared_data through every call into the installer; one worker         *)
(* installs the current file from its Stream; the main thread opens the    *)
(* session, joins the old worker and starts the new one, and closes the    *)
(* session.  They share INSTALL_STATE, s_source and s_installing.          *)
(*                                                                         *)
(* The client may stop sending at any moment, the user may cancel, another *)
(* job may be under way.  One step is one access to what the threads       *)
(* share, or one critical section of s_mutex, of the session's mutex, of   *)
(* a g_shared_data or of a Stream.                                         *)
(***************************************************************************)
EXTENDS StreamBuffer, FiniteSets, SequencesExt

CONSTANTS Settings, \* the settings to run: what each client sends and what may go wrong
          Length,   \* chunks of a file
          Needed    \* how many of them yati reads of a title

Transports == {"mtp", "ftp"}
AllFaults == {"cancel", "busy", "install", "start", "interrupt", "web"}

ASSUME SettingsAssumption == \A s \in Settings :
  /\ s.load \in [Transports -> Nat] /\ s.kind \in {"title", "nro"} /\ s.faults \subseteq AllFaults
ASSUME LengthAssumption == Length \in Nat /\ Needed \in 1 .. Length

File == UNION {{<<t, n>> : n \in 1 .. s.load[t]} : t \in Transports, s \in Settings}
Origin(f) == f[1]
None == <<"none", 0>>

VARIABLES
  setting,           \* files per transport, their kind, the faults of this run
  upload,            \* upload[f], the client's side, and how many chunks it sent
  thread,            \* thread[t]: pc, file of the call, its local src and can_reuse_session
  queue, in_progress, failed, \* g_shared_data: current_file or queued_files
  INSTALL_STATE, s_source, s_installing, stream,
  events,            \* evman: files whose start the main thread has to see
  ui, handling,      \* where the main thread is, and the event it is at
  session,           \* App's m_active_install_session
  cancelled,         \* the sessions whose m_cancel_requested is set
  progress_active,   \* another ProgressBox is up
  worker,            \* the install thread
  outcome, marked    \* what RunInstall returned for f, what the session shows for f

host == <<setting, upload>>
front == <<queue, in_progress, failed>>
shared == <<INSTALL_STATE, s_source, s_installing>>
main == <<events, ui, handling>>
app == <<session, cancelled, progress_active>>
install == <<worker, outcome, marked>>
vars == <<host, thread, front, shared, stream, main, app, install>>

Idle == [pc |-> "idle", call |-> None, target |-> None, reuse |-> FALSE]
NoSession == [id |-> None, origin |-> "none", state |-> "none", current |-> None,
              todo |-> {}, from |-> None, grace |-> FALSE]
NoWorker == [pc |-> "none", from |-> None, id |-> None, got |-> << >>, rc |-> "none"]

Init ==
  /\ setting \in Settings
  /\ upload = [f \in File |-> [state |-> "new", sent |-> 0]]
  /\ thread = [t \in Transports |-> Idle]
  /\ queue = [t \in Transports |-> << >>] /\ in_progress = [t \in Transports |-> FALSE]
  /\ failed = {}
  /\ INSTALL_STATE = "none" /\ s_source = None /\ s_installing = FALSE
  /\ stream = [f \in File |-> NoStream]
  /\ events = << >> /\ ui = "events" /\ handling = None
  /\ session = NoSession /\ cancelled = {} /\ progress_active = FALSE
  /\ worker = NoWorker
  /\ outcome = [f \in File |-> "none"] /\ marked = [f \in File |-> "none"]

\* the session of transport t that takes files: origin, IsCancelRequested, ShouldExit
Takes(t) == session.origin = t /\ session.id \notin cancelled

\* App::GetProgressActive, App::HasActiveTransfer
Busy == progress_active \/ session # NoSession

Closed(f) == IF f = None THEN UNCHANGED stream ELSE stream' = [stream EXCEPT ![f] = Disabled(@)]

\* the installer gives the source back without a worker
GivesUp == Closed(s_source) /\ s_source' = None /\ s_installing' = FALSE

\* TransitionToSummary
Summary(s) == [s EXCEPT !.state = "summary"]

-------------------------------------------------------------------------------
(* A transport thread, in its vfs callbacks.                               *)

At(t, from) == thread[t].pc = from
Goto(t, to) == thread' = [thread EXCEPT ![t].pc = to]
Returns(t) == thread' = [thread EXCEPT ![t] = Idle]
Call(t) == thread[t].call

\* g_shared_data.mutex of t is held
Locked(t) == thread[t].pc \notin {"idle", "try", "summary"}

\* what an upload can be: refused by a write, closed when all was sent or cut before
Upload == {"new", "open", "refused", "closed", "cut"}
Over == {"closed", "cut"}

\* OpenFile, vfs_install_open: MTP has one current_file, FTP queues its files
Open(t) ==
  /\ At(t, "idle")
  /\ \E f \in File :
       /\ Origin(f) = t /\ f[2] <= setting.load[t] /\ upload[f].state = "new"
       /\ \A g \in File : Origin(g) = t /\ g[2] < f[2] =>
            upload[g].state \in Over \cup (IF t = "mtp" THEN {} ELSE {"open", "refused"})
       /\ upload' = [upload EXCEPT ![f].state = "open"]
       /\ queue' = [queue EXCEPT ![t] = Append(@, f)]
       /\ session' = IF t = "ftp" /\ session.origin = t
                       THEN [session EXCEPT !.todo = @ \cup {f}] ELSE session
  /\ Goto(t, "try")
  /\ UNCHANGED <<setting, in_progress, failed, shared, stream, main, cancelled,
                 progress_active, install>>

\* vfs_install_isfile_ready tries again while a file is queued
Poll ==
  /\ At("ftp", "idle")
  /\ queue["ftp"] # << >> /\ ~in_progress["ftp"]
  /\ Goto("ftp", "try")
  /\ UNCHANGED <<host, front, shared, stream, main, app, install>>

\* on_thing
Try(t) ==
  /\ At(t, "try")
  /\ IF in_progress[t] \/ queue[t] = << >> \/ Head(queue[t]) \in failed
       THEN Returns(t)
       ELSE thread' = [thread EXCEPT ![t].pc = "start", ![t].call = Head(queue[t])]
  /\ UNCHANGED <<host, front, shared, stream, main, app, install>>

\* OnInstallStart returns false: MTP forgets the file, FTP keeps it and fails it at last
Refuses(t) ==
  /\ Returns(t)
  /\ IF t = "mtp" THEN queue' = [queue EXCEPT ![t] = << >>] /\ UNCHANGED failed
     ELSE UNCHANGED queue /\ failed' \in {failed, failed \cup {Call(t)}}
  /\ UNCHANGED in_progress

\* the loop of OnInstallStart: the earlier file of the same session is waited for
Start(t) ==
  /\ At(t, "start")
  /\ Goto(t, IF session.origin = t THEN "start_wait" ELSE "start_check")
  /\ UNCHANGED <<host, front, shared, stream, main, app, install>>

StartWait(t) ==
  /\ At(t, "start_wait")
  /\ \/ ~s_installing /\ Goto(t, "start_check") /\ UNCHANGED front
     \/ s_installing /\ ~Takes(t) /\ Refuses(t)
  /\ UNCHANGED <<host, shared, stream, main, app, install>>

StartCheck(t) ==
  /\ At(t, "start_check")
  /\ IF ~Takes(t) /\ (Busy \/ s_installing)
       THEN Refuses(t)
       ELSE /\ thread' = [thread EXCEPT ![t].pc = "start_claim", ![t].reuse = Takes(t)]
            /\ UNCHANGED front
  /\ UNCHANGED <<host, shared, stream, main, app, install>>

\* mutant: a load and a store instead of the compare-and-exchange
StartClaimPlain(t) ==
  /\ At(t, "start_claim")
  /\ s_installing' = TRUE /\ Goto(t, "start_recheck")
  /\ UNCHANGED <<host, front, INSTALL_STATE, s_source, stream, main, app, install>>

\* the compare-and-exchange of s_installing
StartClaim(t) ==
  /\ At(t, "start_claim")
  /\ Goto(t, IF s_installing THEN "start" ELSE "start_recheck")
  /\ s_installing' = TRUE
  /\ UNCHANGED <<host, front, INSTALL_STATE, s_source, stream, main, app, install>>

\* the session may have closed since
StartRecheck(t) ==
  /\ At(t, "start_recheck")
  /\ IF IF thread[t].reuse THEN Takes(t) ELSE ~Busy
       THEN Goto(t, "start_publish") /\ UNCHANGED <<s_installing, front>>
       ELSE s_installing' = FALSE /\ Refuses(t)
  /\ UNCHANGED <<host, INSTALL_STATE, s_source, stream, main, app, install>>

StartPublish(t) ==
  /\ At(t, "start_publish")
  /\ stream' = [stream EXCEPT ![Call(t)] = NewStream]
  /\ s_source' = Call(t)
  /\ Goto(t, "start_announce")
  /\ UNCHANGED <<host, front, INSTALL_STATE, s_installing, main, app, install>>

StartAnnounce(t) ==
  /\ At(t, "start_announce")
  /\ INSTALL_STATE' = "none"
  /\ events' = Append(events, Call(t))
  /\ in_progress' = [in_progress EXCEPT ![t] = TRUE]
  /\ Returns(t)
  /\ UNCHANGED <<host, queue, failed, s_source, s_installing, stream, ui, handling, app,
                 install>>

\* WriteFile, vfs_install_write: FTP writes only the head of its queue, once it is ready
Write(t) ==
  /\ At(t, "idle")
  /\ \E f \in File :
       /\ Origin(f) = t /\ upload[f].state = "open" /\ upload[f].sent < Length
       /\ t = "ftp" => f = Head(queue[t]) /\ (in_progress[t] \/ f \in failed)
       /\ IF t = "ftp" /\ f \in failed
            THEN upload' = [upload EXCEPT ![f].state = "refused"] /\ UNCHANGED thread
            ELSE /\ thread' = [thread EXCEPT ![t].pc = "write", ![t].call = f]
                 /\ UNCHANGED upload
  /\ UNCHANGED <<setting, front, shared, stream, main, app, install>>

\* the callback answers the host: the chunk was taken, or it was not
Accepts(t) == upload' = [upload EXCEPT ![Call(t)].sent = @ + 1] /\ Returns(t)
Rejects(t) == upload' = [upload EXCEPT ![Call(t)].state = "refused"] /\ Returns(t)
Chunk(f) == <<f, upload[f].sent + 1>>

\* OnInstallWrite: the installer may be done with the file
WriteState(t) ==
  /\ At(t, "write")
  /\ IF INSTALL_STATE = "finished" THEN Accepts(t) ELSE Goto(t, "write_source") /\ UNCHANGED upload
  /\ UNCHANGED <<setting, front, shared, stream, main, app, install>>

WriteSource(t) ==
  /\ At(t, "write_source")
  /\ IF s_source = None THEN Rejects(t)
     ELSE /\ thread' = [thread EXCEPT ![t].pc = "push", ![t].target = s_source]
          /\ UNCHANGED upload
  /\ UNCHANGED <<setting, front, shared, stream, main, app, install>>

\* Stream::Push, before its lock
Push(t) ==
  /\ At(t, "push")
  /\ IF INSTALL_STATE = "finished" THEN Accepts(t) ELSE Goto(t, "push_lock") /\ UNCHANGED upload
  /\ UNCHANGED <<setting, front, shared, stream, main, app, install>>

PushPut(t) ==
  LET to == thread[t].target
  IN IF stream[to].active
       THEN stream' = [stream EXCEPT ![to] = Pushed(@, Chunk(Call(t)))] /\ Accepts(t)
       ELSE Rejects(t) /\ UNCHANGED stream

PushLock(t) ==
  /\ At(t, "push_lock")
  /\ IF MustWait(stream[thread[t].target])
       THEN Goto(t, "push_wait") /\ UNCHANGED <<upload, stream>>
       ELSE PushPut(t)
  /\ UNCHANGED <<setting, front, shared, main, app, install>>

\* mutant: after the wait it puts the chunk and goes round once more
PushWaitAgain(t) ==
  /\ At(t, "push_wait")
  /\ stream' = [stream EXCEPT ![thread[t].target] = Pushed(@, Chunk(Call(t)))]
  /\ upload' = [upload EXCEPT ![Call(t)].sent = @ + 1] /\ Goto(t, "push_lock")
  /\ UNCHANGED <<setting, front, shared, main, app, install>>

\* woken by a read or by the timeout, at any moment: there is no second wait
PushWait(t) ==
  /\ At(t, "push_wait")
  /\ PushPut(t)
  /\ UNCHANGED <<setting, front, shared, main, app, install>>

\* the client closes f: it was sent, it failed, or the client went away
Closes(t, f) ==
  /\ At(t, "idle")
  /\ Origin(f) = t
  /\ \/ upload[f].state = "refused"
     \/ upload[f].state = "open" /\ (upload[f].sent = Length \/ "interrupt" \in setting.faults)
  /\ upload' = [upload EXCEPT ![f] = [sent |-> 0,
                   state |-> IF upload[f].sent = Length THEN "closed" ELSE "cut"]]
  /\ queue' = [queue EXCEPT ![t] = RemoveFirst(@, f)]
  /\ Goto(t, IF t = "ftp" /\ queue'[t] = << >> THEN "summary" ELSE "try")
  /\ UNCHANGED <<setting, failed, shared, main, app, install>>

\* CloseFile, vfs_install_close: MTP closes the source whatever became of its own file,
\* FTP only when the file is the one in progress
Handed(t, f) == t = "mtp" \/ (in_progress[t] /\ f = Head(queue[t]))

\* mutant: OnInstallClose leaves the stream as it is
CloseKeepsStream(t) ==
  \E f \in File :
    /\ Closes(t, f)
    /\ in_progress' = [in_progress EXCEPT ![t] = @ /\ ~Handed(t, f)]
    /\ UNCHANGED stream

Close(t) ==
  \E f \in File :
    /\ Closes(t, f)
    /\ in_progress' = [in_progress EXCEPT ![t] = @ /\ ~Handed(t, f)]
    /\ IF Handed(t, f) THEN Closed(s_source) ELSE UNCHANGED stream

\* vfs_install_close, after its last file and outside the lock
CloseSummary ==
  /\ At("ftp", "summary")
  /\ session' = IF ~s_installing /\ session.origin = "ftp" THEN Summary(session) ELSE session
  /\ Goto("ftp", "try")
  /\ UNCHANGED <<host, front, shared, stream, main, cancelled, progress_active, install>>

\* what a call does once it is made, and the calls the client makes
InCall(t) ==
  \/ Try(t) \/ Start(t) \/ StartWait(t) \/ StartCheck(t) \/ StartClaim(t) \/ StartRecheck(t)
  \/ StartPublish(t) \/ StartAnnounce(t) \/ WriteState(t) \/ WriteSource(t) \/ Push(t)
  \/ PushLock(t) \/ PushWait(t) \/ (t = "ftp" /\ CloseSummary)
Client(t) == Open(t) \/ Write(t) \/ Close(t) \/ (t = "ftp" /\ Poll)

-------------------------------------------------------------------------------
(* The main thread: events, then the session's Update, then input.         *)

UiEvent ==
  /\ ui = "events"
  /\ IF events = << >> THEN ui' = "update" /\ UNCHANGED <<events, handling>>
     ELSE ui' = "handle" /\ handling' = Head(events) /\ events' = Tail(events)
  /\ UNCHANGED <<host, thread, front, shared, stream, app, install>>

\* the event of OnInstallStart: the other transport has the session
UiForeign ==
  /\ ui = "handle"
  /\ session # NoSession /\ session.origin # Origin(handling)
  /\ GivesUp /\ ui' = "events" /\ handling' = None
  /\ UNCHANGED <<host, thread, front, INSTALL_STATE, events, app, install>>

\* the session is made, with what FTP has queued, or given the file
UiSession ==
  /\ ui = "handle"
  /\ session = NoSession \/ session.origin = Origin(handling)
  /\ LET t == Origin(handling)
         open == [NoSession EXCEPT !.id = handling, !.origin = t,
                                   !.todo = IF t = "ftp" THEN ToSet(queue[t]) ELSE {}]
         base == IF session = NoSession THEN open ELSE session
     IN /\ session = NoSession /\ t = "ftp" => ~Locked(t)
        /\ session' = [base EXCEPT !.todo = @ \cup {handling}, !.from = s_source,
                                   !.current = handling, !.state = "installing"]
  /\ ui' = "join" /\ handling' = None
  /\ UNCHANGED <<host, thread, front, shared, stream, events, cancelled,
                 progress_active, install>>

\* JoinInstallThread
UiJoin ==
  /\ ui = "join" /\ worker = NoWorker
  /\ ui' = "spawn"
  /\ UNCHANGED <<host, thread, front, shared, stream, events, handling, app, install>>

\* mutant: the flag stays up
UiSpawnKeepsFlag ==
  /\ ui = "spawn" /\ ui' = "events"
  /\ \/ /\ worker' = [NoWorker EXCEPT !.pc = "start", !.from = session.from, !.id = session.id]
        /\ UNCHANGED <<s_source, s_installing, stream>>
     \/ /\ "start" \in setting.faults
        /\ Closed(s_source) /\ s_source' = None
        /\ UNCHANGED <<worker, s_installing>>
  /\ UNCHANGED <<host, thread, front, INSTALL_STATE, events, handling, app, outcome, marked>>

UiSpawn ==
  /\ ui = "spawn" /\ ui' = "events"
  /\ \/ /\ worker' = [NoWorker EXCEPT !.pc = "start", !.from = session.from, !.id = session.id]
        /\ UNCHANGED <<s_source, s_installing, stream>>
     \/ "start" \in setting.faults /\ GivesUp /\ UNCHANGED worker
  /\ UNCHANGED <<host, thread, front, INSTALL_STATE, events, handling, app, outcome, marked>>

\* web_upload_routes.cpp pushes a session of its own, on its thread, and ends it
WebOpens ==
  /\ "web" \in setting.faults /\ session = NoSession
  /\ session' = [NoSession EXCEPT !.id = <<"web", 1>>, !.origin = "web", !.state = "installing"]
  /\ UNCHANGED <<host, thread, front, shared, stream, main, cancelled, progress_active, install>>
WebEnds ==
  /\ session.origin = "web" /\ session.state = "installing"
  /\ session' = Summary(session)
  /\ UNCHANGED <<host, thread, front, shared, stream, main, cancelled, progress_active, install>>

Asks == session.state = "installing" /\ session.origin \in Transports

\* InstallSession::Update asks the transport, under its mutex, while the session installs;
\* the summary comes when three seconds find everything done
UiUpdate ==
  /\ ui = "update" /\ ui' = "input"
  /\ session' =
       IF ~Asks THEN session
       ELSE LET t == session.origin
                done == session.todo = {} /\ ~s_installing /\ queue[t] = << >> /\ ~in_progress[t]
            IN IF done /\ session.grace THEN Summary([session EXCEPT !.grace = FALSE])
               ELSE [session EXCEPT !.grace = done]
  /\ Asks => ~Locked(session.origin)
  /\ UNCHANGED <<host, thread, front, shared, stream, events, handling, cancelled,
                 progress_active, install>>

UiInput ==
  /\ ui = "input"
  /\ \/ ui' = "events" /\ UNCHANGED <<session, cancelled, progress_active, stream>>
     \/ /\ "cancel" \in setting.faults /\ session.state = "installing"
        /\ cancelled' = cancelled \cup {session.id} /\ Closed(session.from)
        /\ ui' = "cancelling" /\ UNCHANGED <<session, progress_active>>
     \/ /\ session.state = "summary"
        /\ session' = NoSession /\ Closed(session.from)
        /\ ui' = "events" /\ UNCHANGED <<cancelled, progress_active>>
     \/ /\ "busy" \in setting.faults
        /\ progress_active' = ~progress_active
        /\ ui' = "events" /\ UNCHANGED <<session, cancelled, stream>>
  /\ UNCHANGED <<host, thread, front, shared, events, handling, install>>

\* haze::CancelTransfer asks the transport too; then the session is popped
UiCancelling ==
  /\ ui = "cancelling" /\ ui' = "events"
  /\ session.origin = "mtp" => ~Locked("mtp")
  /\ session' = NoSession
  /\ UNCHANGED <<host, thread, front, shared, stream, events, handling, cancelled,
                 progress_active, install>>

Ui == UiEvent \/ UiForeign \/ UiSession \/ UiJoin \/ UiSpawn \/ UiUpdate \/ UiInput \/ UiCancelling

-------------------------------------------------------------------------------
(* The install thread.                                                     *)

Step(to) == worker' = [worker EXCEPT !.pc = to]
Cancelled == worker.id \in cancelled

WorkerStart ==
  /\ worker.pc = "start" /\ Step("read")
  /\ INSTALL_STATE' = "progress"
  /\ UNCHANGED <<host, thread, front, s_source, s_installing, stream, main, app, outcome, marked>>

\* RunInstall returns rc
Ends(rc) ==
  /\ worker' = [worker EXCEPT !.pc = "mark", !.rc = rc]
  /\ outcome' = [outcome EXCEPT ![worker.from] = rc]

\* RunInstall: ReadChunk until yati has what it needs of a title, or to the end of an nro
WorkerRead ==
  /\ worker.pc = "read" /\ ~Cancelled
  /\ LET s == stream[worker.from] IN
     /\ HasData(s)
     /\ stream' = [stream EXCEPT ![worker.from] = Drained(s)]
     /\ LET got == Append(worker.got, Head(s.buffer)) IN
        IF setting.kind = "title" /\ Len(got) = Needed
          THEN /\ worker' = [worker EXCEPT !.pc = "mark", !.rc = "ok", !.got = got]
               /\ outcome' = [outcome EXCEPT ![worker.from] = "ok"]
          ELSE worker' = [worker EXCEPT !.got = got] /\ UNCHANGED outcome
  /\ UNCHANGED <<host, thread, front, shared, main, app, marked>>

\* mutant: ReadChunk waits for ever
WorkerEndWaits ==
  /\ worker.pc = "read"
  /\ \/ Cancelled /\ Ends("fail")
     \/ "install" \in setting.faults /\ Ends("fail")
     \/ /\ AtEnd(stream[worker.from])
        /\ Ends(IF setting.kind = "nro" /\ worker.got # << >> THEN "ok" ELSE "fail")
  /\ UNCHANGED <<host, thread, front, shared, stream, main, app, marked>>

\* the end of the stream, 15 seconds without data, a failure of its own, or a cancel
WorkerEnd ==
  /\ worker.pc = "read"
  /\ \/ Cancelled /\ Ends("fail")
     \/ "install" \in setting.faults /\ Ends("fail")
     \/ Stalls(stream[worker.from]) /\ Ends("fail")
     \/ /\ AtEnd(stream[worker.from])
        /\ Ends(IF setting.kind = "nro" /\ worker.got # << >> THEN "ok" ELSE "fail")
  /\ UNCHANGED <<host, thread, front, shared, stream, main, app, marked>>

\* MarkPackageComplete(GetCurrentPackageIndex()), in a session that may be closed
WorkerMark ==
  /\ worker.pc = "mark" /\ Step("state")
  /\ IF session.id = worker.id
       THEN /\ marked' = [marked EXCEPT ![session.current] = worker.rc]
            /\ session' = [session EXCEPT !.todo = @ \ {session.current}]
       ELSE UNCHANGED <<marked, session>>
  /\ UNCHANGED <<host, thread, front, shared, stream, main, cancelled, progress_active, outcome>>

WorkerState ==
  /\ worker.pc = "state" /\ Step("release")
  /\ IF worker.rc = "ok" THEN INSTALL_STATE' = "finished" /\ UNCHANGED stream
     ELSE INSTALL_STATE' = "none" /\ Closed(worker.from)
  /\ UNCHANGED <<host, thread, front, s_source, s_installing, main, app, outcome, marked>>

WorkerRelease ==
  /\ worker.pc = "release"
  /\ s_source' = None /\ s_installing' = FALSE
  /\ IF Origin(worker.from) = "ftp" THEN Step("tail") ELSE worker' = NoWorker
  /\ UNCHANGED <<host, thread, front, INSTALL_STATE, stream, main, app, outcome, marked>>

\* HasActiveOrQueuedFiles, under ftpsrv's mutex, and then TransitionToSummary
WorkerTail ==
  /\ worker.pc = "tail" /\ ~Locked("ftp")
  /\ IF queue["ftp"] = << >> /\ ~in_progress["ftp"] THEN Step("summary") ELSE worker' = NoWorker
  /\ UNCHANGED <<host, thread, front, shared, stream, main, app, outcome, marked>>

WorkerSummary ==
  /\ worker.pc = "summary" /\ worker' = NoWorker
  /\ session' = IF session.id = worker.id THEN Summary(session) ELSE session
  /\ UNCHANGED <<host, thread, front, shared, stream, main, cancelled, progress_active,
                 outcome, marked>>

Worker == \/ WorkerStart \/ WorkerRead \/ WorkerEnd \/ WorkerMark \/ WorkerState
          \/ WorkerRelease \/ WorkerTail \/ WorkerSummary

-------------------------------------------------------------------------------
Next == (\E t \in Transports : InCall(t) \/ Client(t)) \/ WebOpens \/ WebEnds \/ Ui \/ Worker

\* The threads run; the client and the user owe nothing.  A thread that waits for a mutex
\* gets it (the kernel hands it to a waiter), hence the strong form for those that do.
Fairness == (\A t \in Transports : WF_vars(InCall(t))) /\ SF_vars(Ui) /\ SF_vars(Worker)

Spec == Init /\ [][Next]_vars /\ Fairness

-------------------------------------------------------------------------------
(* Properties                                                              *)

TypeOK ==
  /\ setting \in Settings
  /\ upload \in [File -> [state : Upload, sent : 0 .. Length]]
  /\ \A t \in Transports : thread[t].call \in File \cup {None} /\ thread[t].target \in File \cup {None}
  /\ queue \in [Transports -> Seq(File)] /\ in_progress \in [Transports -> BOOLEAN]
  /\ failed \subseteq File
  /\ INSTALL_STATE \in {"none", "progress", "finished"}
  /\ s_source \in File \cup {None} /\ s_installing \in BOOLEAN
  /\ \A f \in File : stream[f].buffer \in Seq(File \X (1 .. Length))
  /\ events \in Seq(File)
  /\ session.state \in {"none", "installing", "summary"} /\ session.todo \subseteq File
  /\ outcome \in [File -> {"none", "ok", "fail"}] /\ marked \in [File -> {"none", "ok", "fail"}]

\* The flag that keeps installs apart is handed from the transport that claimed it to the
\* event, to the main thread and to the worker: while it is up exactly one of them has it,
\* and whoever ends the install, on any path, lowers it (s_installing in OnInstallStart).
Claims == {t \in Transports : thread[t].pc \in {"start_recheck", "start_publish", "start_announce"}}
OneInstallAtATime ==
  Cardinality(Claims) + Len(events)
    + (IF ui \in {"handle", "join", "spawn"} THEN 1 ELSE 0)
    + (IF worker.pc \in {"start", "read", "mark", "state", "release"} THEN 1 ELSE 0)
  = IF s_installing THEN 1 ELSE 0

\* What an install reads is a piece of its own file from the front, without a gap: no chunk
\* of another file, of a refused one or of an earlier one reaches its stream.
OwnChunks ==
  /\ \A f \in File : \A i \in DOMAIN stream[f].buffer : stream[f].buffer[i][1] = f
  /\ worker.from # None =>
       LET chunks == worker.got \o stream[worker.from].buffer
       IN chunks = [i \in 1 .. Len(chunks) |-> <<worker.from, i>>]

\* So it is while only one transport is in use.
OwnChunksAlone == (\E t \in Transports : setting.load[t] = 0) => OwnChunks

\* The session shows for a file what the install of that file returned, although the worker
\* only knows "the current package" (MarkPackageComplete(GetCurrentPackageIndex())).
MarkedOwn == \A f \in File : marked[f] # "none" => marked[f] = outcome[f]

\* The two ways in which the main thread and a transport wait for each other: the transport
\* holds its mutex in OnInstallStart until an install ends that the main thread has not
\* started yet, and the main thread (InstallSession::Update), or the worker that it joins
\* (ftpsrv::HasActiveOrQueuedFiles), needs that mutex.
Stuck ==
  \E t \in Transports :
    /\ thread[t].pc = "start_wait" /\ s_installing /\ Takes(t)
    /\ \/ ui = "update" /\ Asks /\ events # << >>
       \/ ui = "join" /\ t = "ftp" /\ worker.pc = "tail"

\* Every install that was let in ends, whatever the client, the user or another job does,
\* except in those two deadlocks: no path leaves s_installing up and refuses all files
\* that come later.
InstallsEnd == s_installing ~> (~s_installing \/ Stuck)
==============================================================================
