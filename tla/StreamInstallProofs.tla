-------------------------- MODULE StreamInstallProofs --------------------------
(* For any number of files, any length, and whatever the clients, the user and   *)
(* other jobs do: the flag that keeps stream installs apart is in exactly one     *)
(* hand, a session shows for a file what the install of that file returned, and   *)
(* with one transport an install reads its own file from the front without a gap; *)
(* and whoever has the flag is never left waiting, but for two deadlocks.         *)
EXTENDS StreamInstall, FiniteSetTheorems, SequenceTheorems, TLAPS

\* the places where a transport, the main thread and the worker have the flag
Claiming == {"start_recheck", "start_publish", "start_announce"}
Handling == {"handle", "join", "spawn"}
Installing == {"start", "read", "mark", "state", "release"}

Count(b) == IF b THEN 1 ELSE 0
Claim(t) == Count(thread[t].pc \in Claiming)
Sent == Count(events # << >>)
InHands == Claim("mtp") + Claim("ftp") + Sent + Count(ui \in Handling) + Count(worker.pc \in Installing)

\* What is needed of the types: there is at most one event, and the places are fields.
Shape ==
  /\ DOMAIN thread = Transports /\ \A t \in Transports : "pc" \in DOMAIN thread[t]
  /\ "pc" \in DOMAIN worker
  /\ events = << >> \/ \E f : events = <<f>>

OneHand == Shape /\ InHands = Count(s_installing)

-----------------------------------------------------------------------------
(* The types. *)
Files == File \cup {None}
Ids == Files \cup {<<"web", 1>>}
Chunks == File \X (1 .. Length)
Starting == {"start", "start_wait", "start_check", "start_claim"} \cup Claiming
Pushing == {"push", "push_lock", "push_wait"}
Sending == {"write", "write_source"} \cup Pushing
Places == {"idle", "try", "summary"} \cup Starting \cup Sending
Threads == [pc : Places, call : Files, target : Files, reuse : BOOLEAN]
Uploads == [state : Upload, sent : 0 .. Length]
Streams == [active : BOOLEAN, buffer : Seq(Chunks)]
Sessions == [id : Ids, origin : Transports \cup {"none", "web"}, state : {"none", "installing", "summary"},
             current : Files, todo : SUBSET File, from : Files, grace : BOOLEAN]
Verdicts == {"none", "ok", "fail"}
Workers == [pc : {"none", "tail", "summary"} \cup Installing, from : Files, id : Ids, got : Seq(Chunks), rc : Verdicts]
Uis == {"events", "update", "input", "cancelling"} \cup Handling

FrontTypes ==
  /\ setting \in Settings /\ upload \in [File -> Uploads] /\ thread \in [Transports -> Threads]
  /\ queue \in [Transports -> Seq(File)] /\ in_progress \in [Transports -> BOOLEAN] /\ failed \subseteq File
InstallTypes ==
  /\ INSTALL_STATE \in {"none", "progress", "finished"} /\ s_source \in Files /\ s_installing \in BOOLEAN
  /\ stream \in [File -> Streams] /\ events \in Seq(File) /\ handling \in Files /\ ui \in Uis
  /\ session \in Sessions /\ worker \in Workers
  /\ outcome \in [File -> Verdicts] /\ marked \in [File -> Verdicts]
Types == FrontTypes /\ InstallTypes

-----------------------------------------------------------------------------
(* Where the file of a transport is. *)
Live == {"open", "refused"}
Queued(f) == f \in ToSet(queue[Origin(f)])
Announced(f) == thread[Origin(f)].pc = "start_announce" /\ thread[Origin(f)].call = f
First(f) == queue[Origin(f)] # << >> /\ Head(queue[Origin(f)]) = f
InProgress(f) == in_progress[Origin(f)] /\ First(f)

\* A start is about the first file of the queue, a write about an open one.
Called(t) ==
  LET f == thread[t].call
  IN /\ thread[t].pc \in Starting => f \in File /\ Origin(f) = t /\ First(f) /\ ~in_progress[t]
     /\ thread[t].pc \in Sending => /\ f \in File /\ Origin(f) = t
                                    /\ upload[f].state = "open" /\ upload[f].sent < Length
                                    /\ t = "ftp" => InProgress(f)
     /\ thread[t].pc \in Pushing => thread[t].target \in File

\* A queue has every file once, while it is open; MTP has one file open at a time.
Lined(t) ==
  /\ \A f \in ToSet(queue[t]) : Origin(f) = t /\ upload[f].state \in Live
  /\ IsInjective(queue[t])
  /\ in_progress[t] => queue[t] # << >>
OneByOne ==
  \A f, g \in File : Origin(f) = "mtp" /\ Origin(g) = "mtp" /\ g[2] < f[2] /\ upload[f].state # "new" => upload[g].state \in Over
Fronts ==
  /\ \A t \in Transports : Called(t) /\ Lined(t)
  /\ OneByOne
  /\ queue["mtp"] # << >> => in_progress["mtp"] \/ thread["mtp"].pc \in Starting \cup {"try"}
  /\ \A f \in failed : Origin(f) = "ftp"
  /\ \A f \in File : upload[f].state # "new" => setting.load[Origin(f)] # 0

-----------------------------------------------------------------------------
(* Whose file the source is: the one of whoever has the flag. *)
Passed ==
  /\ \A t \in Transports : thread[t].pc = "start_announce" => s_source = thread[t].call /\ worker.from # thread[t].call
  /\ events # << >> => s_source = Head(events)
  /\ ui = "handle" => s_source = handling
  /\ ui \in {"join", "spawn"} => s_source = session.from /\ session.id \in File
  /\ ui = "spawn" => worker = NoWorker
  /\ worker.pc \in Installing => s_source = worker.from
  /\ s_source \in File /\ s_source = worker.from => worker.pc \in Installing
  /\ events # << >> \/ ui \in Handling \/ worker.pc \in Installing => s_source \in File
  /\ worker.pc # "none" => worker.id \in File
  /\ events # << >> \/ ui \in Handling \/ worker.pc \in Installing \ {"release"} => INSTALL_STATE # "finished"

\* The current package of a session is the one whose source it has; a worker that looks at its
\* session finds its own file.
Opened ==
  /\ session.from = session.current
  /\ session.id \in File <=> session.origin \in Transports
  /\ worker.pc \in {"start", "read", "mark"} /\ session.id = worker.id => session.current = worker.from

\* No install has seen the file.
Unused(f) ==
  /\ outcome[f] = "none" /\ s_source # f /\ worker.from # f
  /\ ~stream[f].active /\ stream[f].buffer = << >> /\ upload[f].sent = 0

\* A file is installed once, so what its install returned is not replaced.
Fresh == \A f \in File : upload[f].state = "new" \/ (Queued(f) /\ ~Announced(f) /\ ~InProgress(f)) => Unused(f)
Returned ==
  /\ s_source \in File => outcome[s_source] = "none" \/ worker.pc \in {"mark", "state", "release"}
  /\ worker.pc = "mark" => outcome[worker.from] = worker.rc /\ worker.rc # "none"
  /\ MarkedOwn

\* A stream that takes chunks is the one of the file in progress, or its file is closed.
Current(f) == upload[f].state \in Live /\ (InProgress(f) \/ Announced(f))
Sourced ==
  /\ s_source \in File => Current(s_source) \/ (upload[s_source].state \in Over /\ ~stream[s_source].active)
  /\ \A f \in File : stream[f].active /\ upload[f].state \in Live => Current(f)

\* What the install of f has read of its chunks and will read next.
Taken(f) == IF worker.from = f THEN worker.got ELSE << >>
Arrived(f) == Taken(f) \o stream[f].buffer
Pieces(f, n) == [i \in 1 .. n |-> <<f, i>>]
Counted(f) == INSTALL_STATE # "finished" \/ thread[Origin(f)].pc \in {"start_announce", "push_lock", "push_wait"}
Whole(f) ==
  /\ Arrived(f) = Pieces(f, Len(Arrived(f)))
  /\ stream[f].active /\ upload[f].state = "open" /\ Counted(f) => Len(Arrived(f)) = upload[f].sent
Alone == \E t \in Transports : setting.load[t] = 0
Aimed(t) == thread[t].pc \in Pushing => thread[t].target = thread[t].call \/ ~stream[thread[t].target].active
Owned ==
  Alone =>
    /\ \A t \in Transports : Aimed(t)
    /\ \A f \in File : \A i \in DOMAIN stream[f].buffer : stream[f].buffer[i][1] = f
    /\ \A f \in File : f = worker.from \/ f = s_source => Whole(f)

IInv == OneHand /\ Types /\ Fronts /\ Passed /\ Opened /\ Fresh /\ Returned /\ Sourced /\ Owned

LEMMA Starts == Init => OneHand
<1> SUFFICES ASSUME Init PROVE OneHand
  OBVIOUS
<1>1. thread["mtp"].pc = "idle" /\ thread["ftp"].pc = "idle" /\ Shape
  BY DEF Init, Idle, NoWorker, Shape, Transports
<1>2. events = << >> /\ ui = "events" /\ worker.pc = "none" /\ s_installing = FALSE
  BY DEF Init, NoWorker
<1> QED
  BY <1>1, <1>2 DEF OneHand, InHands, Claim, Sent, Count, Claiming, Handling, Installing

-----------------------------------------------------------------------------
(* The transports. *)
\* A transport without the flag goes on without it.
LEMMA CallsOn ==
  ASSUME OneHand, NEW t \in Transports,
         DOMAIN thread' = Transports, \A u \in Transports : "pc" \in DOMAIN thread'[u] /\ (u # t => thread'[u] = thread[u]),
         thread'[t].pc \in Claiming <=> thread[t].pc \in Claiming,
         UNCHANGED <<events, ui, worker, s_installing>>
  PROVE  OneHand'
<1>1. Shape'
  BY DEF OneHand, Shape
<1>2. \A u \in Transports : thread'[u].pc \in Claiming <=> thread[u].pc \in Claiming
  OBVIOUS
<1>3. InHands' = InHands
  BY <1>2 DEF InHands, Claim, Sent, Count, Transports
<1> QED
  BY <1>1, <1>3 DEF OneHand

LEMMA Calls ==
  ASSUME OneHand, NEW t \in Transports,
         \/ Try(t) \/ Start(t) \/ StartWait(t) \/ StartCheck(t) \/ StartPublish(t) \/ WriteState(t) \/ WriteSource(t)
         \/ Push(t) \/ PushLock(t) \/ PushWait(t) \/ (t = "ftp" /\ CloseSummary) \/ Client(t)
  PROVE  OneHand'
<1>1. UNCHANGED <<events, ui, worker, s_installing>>
  BY DEF Try, Start, StartWait, StartCheck, StartPublish, WriteState, WriteSource, Push, PushLock, PushWait, CloseSummary,
         Client, Open, Write, Close, Closes, Poll, main, shared, install
<1> DEFINE OnlyOn == /\ DOMAIN thread' = Transports
                     /\ \A u \in Transports : "pc" \in DOMAIN thread'[u] /\ (u # t => thread'[u] = thread[u])
                     /\ thread'[t].pc \in Claiming <=> thread[t].pc \in Claiming
<1> USE DEF OneHand, Shape, Idle, At, Goto, Returns, Claiming, Transports
<1>2. CASE Try(t)
  <2>1. OnlyOn
    BY <1>2 DEF Try
  <2> QED BY <1>1, <2>1, CallsOn
<1>3. CASE Start(t)
  <2>1. OnlyOn
    BY <1>3 DEF Start
  <2> QED BY <1>1, <2>1, CallsOn
<1>4. CASE StartWait(t)
  <2>1. OnlyOn
    BY <1>4 DEF StartWait, Refuses
  <2> QED BY <1>1, <2>1, CallsOn
<1>5. CASE StartCheck(t)
  <2>1. OnlyOn
    BY <1>5 DEF StartCheck, Refuses
  <2> QED BY <1>1, <2>1, CallsOn
<1>6. CASE StartPublish(t)
  <2>1. OnlyOn
    BY <1>6 DEF StartPublish
  <2> QED BY <1>1, <2>1, CallsOn
<1>7. CASE WriteState(t)
  <2>1. OnlyOn
    BY <1>7 DEF WriteState, Accepts
  <2> QED BY <1>1, <2>1, CallsOn
<1>8. CASE WriteSource(t)
  <2>1. OnlyOn
    BY <1>8 DEF WriteSource, Rejects
  <2> QED BY <1>1, <2>1, CallsOn
<1>9. CASE Push(t)
  <2>1. OnlyOn
    BY <1>9 DEF Push, Accepts
  <2> QED BY <1>1, <2>1, CallsOn
<1>10. CASE PushLock(t)
  <2>1. OnlyOn
    BY <1>10 DEF PushLock, PushPut, Accepts, Rejects
  <2> QED BY <1>1, <2>1, CallsOn
<1>11. CASE PushWait(t)
  <2>1. OnlyOn
    BY <1>11 DEF PushWait, PushPut, Accepts, Rejects
  <2> QED BY <1>1, <2>1, CallsOn
<1>12. CASE t = "ftp" /\ CloseSummary
  <2>1. OnlyOn
    BY <1>12 DEF CloseSummary
  <2> QED BY <1>1, <2>1, CallsOn
<1>13. CASE Open(t)
  <2>1. OnlyOn
    BY <1>13 DEF Open
  <2> QED BY <1>1, <2>1, CallsOn
<1>14. CASE Write(t)
  <2>1. OnlyOn
    BY <1>14 DEF Write
  <2> QED BY <1>1, <2>1, CallsOn
<1>15. CASE Close(t)
  <2>1. OnlyOn
    BY <1>15 DEF Close, Closes
  <2> QED BY <1>1, <2>1, CallsOn
<1>16. CASE t = "ftp" /\ Poll
  <2>1. OnlyOn
    BY <1>16 DEF Poll
  <2> QED BY <1>1, <2>1, CallsOn
<1> QED
  BY <1>2, <1>3, <1>4, <1>5, <1>6, <1>7, <1>8, <1>9, <1>10, <1>11, <1>12, <1>13, <1>14, <1>15, <1>16 DEF Client

\* The compare-and-exchange gives the flag to one transport, and to none while it is up.
LEMMA ClaimsOnce == ASSUME OneHand, NEW t \in Transports, StartClaim(t) PROVE OneHand'
<1> USE DEF OneHand, Shape, Goto, At, Transports
<1>1. UNCHANGED <<events, ui, worker>> /\ s_installing' = TRUE
  BY DEF StartClaim, main, install
<1>2. Shape' /\ \A u \in Transports : u # t => thread'[u] = thread[u]
  BY <1>1 DEF StartClaim
<1>3. thread[t].pc \notin Claiming /\ (thread'[t].pc \in Claiming <=> ~s_installing)
  BY DEF StartClaim, Claiming
<1>4. InHands' = IF s_installing THEN InHands ELSE InHands + 1
  BY <1>1, <1>2, <1>3 DEF InHands, Claim, Sent, Count
<1> QED
  BY <1>1, <1>2, <1>4 DEF Count

\* A transport that has the flag gives it up or takes the next step with it; the event takes
\* it over.
LEMMA Hands ==
  ASSUME OneHand, NEW t \in Transports, StartRecheck(t) \/ StartAnnounce(t)
  PROVE  OneHand'
<1> USE DEF OneHand, Shape, Goto, At, Transports, Returns, Refuses, Idle
<1>1. thread[t].pc \in Claiming /\ UNCHANGED <<ui, worker>> /\ \A u \in Transports : u # t => thread'[u] = thread[u]
  BY DEF StartRecheck, StartAnnounce, main, install, Claiming
<1>2. InHands = 1 /\ s_installing /\ events = << >>
  BY <1>1 DEF InHands, Claim, Sent, Count
<1>3. CASE StartRecheck(t)
  <2>1. events' = events /\ Shape'
    BY <1>1, <1>3 DEF StartRecheck, main
  <2>2. \/ thread'[t].pc \in Claiming /\ s_installing' = s_installing
        \/ thread'[t].pc \notin Claiming /\ s_installing' = FALSE
    BY <1>3 DEF StartRecheck, Claiming
  <2>3. CASE thread'[t].pc \in Claiming /\ s_installing' = s_installing
    <3>1. InHands' = 1
      BY <1>1, <1>2, <2>1, <2>3 DEF InHands, Claim, Sent, Count
    <3> QED
      BY <1>2, <2>1, <2>3, <3>1 DEF Count
  <2>4. CASE thread'[t].pc \notin Claiming /\ s_installing' = FALSE
    <3>1. InHands' = 0
      BY <1>1, <1>2, <2>1, <2>4 DEF InHands, Claim, Sent, Count
    <3> QED
      BY <2>1, <2>4, <3>1 DEF Count
  <2> QED
    BY <2>2, <2>3, <2>4
<1>4. CASE StartAnnounce(t)
  <2>1. events' = <<thread[t].call>> /\ thread'[t].pc \notin Claiming /\ s_installing' = s_installing
    BY <1>2, <1>4 DEF StartAnnounce, Claiming, Call
  <2>2. Shape'
    BY <1>1, <1>4, <2>1 DEF StartAnnounce
  <2> QED
    BY <1>1, <1>2, <2>1, <2>2 DEF InHands, Claim, Sent, Count
<1> QED
  BY <1>3, <1>4

-----------------------------------------------------------------------------
(* The main thread. *)
LEMMA TakesEvent == ASSUME OneHand, UiEvent PROVE OneHand'
<1> USE DEF OneHand, Shape
<1>1. UNCHANGED <<thread, worker, s_installing>> /\ ui = "events"
  BY DEF UiEvent, shared, install
<1>2. CASE events = << >>
  BY <1>1, <1>2 DEF UiEvent, InHands, Claim, Sent, Count, Handling
<1>3. CASE events # << >>
  <2>1. ui' = "handle" /\ events' = << >>
    BY <1>3 DEF UiEvent
  <2> QED
    BY <1>1, <1>3, <2>1 DEF InHands, Claim, Sent, Count, Handling
<1> QED
  BY <1>2, <1>3

\* The main thread hands the flag to the worker it starts, or lowers it.
LEMMA Serves == ASSUME OneHand, UiForeign \/ UiSession \/ UiJoin \/ UiSpawn PROVE OneHand'
<1> USE DEF OneHand, Shape
<1>1. UNCHANGED <<thread, events>> /\ ui \in Handling
  BY DEF UiForeign, UiSession, UiJoin, UiSpawn, Handling
<1>2. InHands = 1 /\ s_installing /\ worker.pc \notin Installing
  BY <1>1 DEF InHands, Claim, Sent, Count
<1>3. \/ ui' \in Handling /\ UNCHANGED <<worker, s_installing>>
      \/ ui' \notin Handling /\ worker'.pc \in Installing /\ "pc" \in DOMAIN worker' /\ UNCHANGED s_installing
      \/ ui' \notin Handling /\ UNCHANGED worker /\ s_installing' = FALSE
  BY DEF UiForeign, UiSession, UiJoin, UiSpawn, Handling, Installing, GivesUp, install, shared, NoWorker
<1>4. Shape'
  BY <1>1, <1>3
<1>5. CASE ui' \in Handling /\ UNCHANGED <<worker, s_installing>>
  BY <1>1, <1>2, <1>4, <1>5 DEF InHands, Claim, Sent, Count
<1>6. CASE ui' \notin Handling /\ worker'.pc \in Installing /\ UNCHANGED s_installing
  BY <1>1, <1>2, <1>4, <1>6 DEF InHands, Claim, Sent, Count
<1>7. CASE ui' \notin Handling /\ UNCHANGED worker /\ s_installing' = FALSE
  BY <1>1, <1>2, <1>4, <1>7 DEF InHands, Claim, Sent, Count
<1> QED
  BY <1>3, <1>5, <1>6, <1>7

LEMMA Rests == ASSUME OneHand, UiUpdate \/ UiInput \/ UiCancelling \/ WebOpens \/ WebEnds PROVE OneHand'
<1>1. UNCHANGED <<thread, events, worker, s_installing>> /\ (ui' \in Handling <=> ui \in Handling)
  BY DEF UiUpdate, UiInput, UiCancelling, WebOpens, WebEnds, Handling, shared, install, main
<1> QED
  BY <1>1 DEF OneHand, Shape, InHands, Claim, Sent, Count

-----------------------------------------------------------------------------
(* The worker, which lowers the flag when it releases the source. *)
LEMMA Installs == ASSUME OneHand, Worker PROVE OneHand'
<1> USE DEF OneHand, Shape, Step, Ends
<1>1. UNCHANGED <<thread, events, ui>> /\ "pc" \in DOMAIN worker'
  BY DEF Worker, WorkerStart, WorkerRead, WorkerEnd, WorkerMark, WorkerState, WorkerRelease, WorkerTail, WorkerSummary, main, NoWorker
<1> DEFINE Keeps == (worker'.pc \in Installing <=> worker.pc \in Installing) /\ UNCHANGED s_installing
           Lowers == worker.pc \in Installing /\ worker'.pc \notin Installing /\ s_installing' = FALSE
<1> USE DEF Installing, shared, NoWorker
<1>2. CASE WorkerStart
  <2>1. Keeps BY <1>2 DEF WorkerStart
  <2> QED BY <1>1, <2>1 DEF InHands, Claim, Sent, Count
<1>3. CASE WorkerRead
  <2>1. Keeps BY <1>3 DEF WorkerRead
  <2> QED BY <1>1, <2>1 DEF InHands, Claim, Sent, Count
<1>4. CASE WorkerEnd
  <2>1. Keeps BY <1>4 DEF WorkerEnd
  <2> QED BY <1>1, <2>1 DEF InHands, Claim, Sent, Count
<1>5. CASE WorkerMark
  <2>1. Keeps BY <1>5 DEF WorkerMark
  <2> QED BY <1>1, <2>1 DEF InHands, Claim, Sent, Count
<1>6. CASE WorkerState
  <2>1. Keeps BY <1>6 DEF WorkerState
  <2> QED BY <1>1, <2>1 DEF InHands, Claim, Sent, Count
<1>7. CASE WorkerRelease
  <2>1. Lowers BY <1>7 DEF WorkerRelease
  <2>2. InHands = 1
    BY <2>1 DEF InHands, Claim, Sent, Count
  <2>3. InHands' = 0
    BY <1>1, <2>1, <2>2 DEF InHands, Claim, Sent, Count
  <2> QED BY <1>1, <2>1, <2>3 DEF Count
<1>8. CASE WorkerTail
  <2>1. Keeps BY <1>8 DEF WorkerTail
  <2> QED BY <1>1, <2>1 DEF InHands, Claim, Sent, Count
<1>9. CASE WorkerSummary
  <2>1. Keeps BY <1>9 DEF WorkerSummary
  <2> QED BY <1>1, <2>1 DEF InHands, Claim, Sent, Count
<1> QED
  BY <1>2, <1>3, <1>4, <1>5, <1>6, <1>7, <1>8, <1>9 DEF Worker

-----------------------------------------------------------------------------
-----------------------------------------------------------------------------
LEMMA FlagKept == ASSUME OneHand, [Next]_vars PROVE OneHand'
<1>1. CASE UNCHANGED vars
  BY <1>1 DEF OneHand, Shape, InHands, Claim, Sent, Count, vars, shared, main, install
<1>2. ASSUME NEW t \in Transports, InCall(t) PROVE OneHand'
  BY <1>2, Calls, ClaimsOnce, Hands DEF InCall
<1>3. ASSUME NEW t \in Transports, Client(t) PROVE OneHand'
  BY <1>3, Calls
<1>4. CASE Ui
  BY <1>4, TakesEvent, Serves, Rests DEF Ui
<1> QED
  BY <1>1, <1>2, <1>3, <1>4, Installs, Rests DEF Next

-----------------------------------------------------------------------------
(* Facts about files, queues and the flag. *)
LEMMA FileFacts ==
  /\ None \notin File /\ <<"web", 1>> \notin File /\ None # <<"web", 1>>
  /\ \A f \in File : Origin(f) \in Transports /\ f[2] \in Nat /\ f[2] >= 1
  /\ \A f, g \in File : Origin(f) = Origin(g) /\ f[2] = g[2] => f = g
<1>1. \A f \in File : \E t \in Transports, n \in Nat : n >= 1 /\ f = <<t, n>>
  BY SettingsAssumption DEF File
<1> QED
  BY <1>1 DEF None, Origin, Transports

LEMMA SettingFacts == ASSUME NEW s \in Settings PROVE s.load["mtp"] \in Nat /\ s.load["ftp"] \in Nat
BY SettingsAssumption DEF Transports

\* One file joins the end of a queue.
LEMMA Joins ==
  ASSUME NEW s \in Seq(File), NEW e \in File, IsInjective(s), e \notin ToSet(s)
  PROVE  /\ Append(s, e) \in Seq(File) /\ IsInjective(Append(s, e)) /\ Append(s, e) # << >>
         /\ ToSet(Append(s, e)) = ToSet(s) \cup {e}
         /\ Head(Append(s, e)) = IF s = << >> THEN e ELSE Head(s)
<1> DEFINE r == Append(s, e)
<1>1. r \in Seq(File) /\ Len(r) = Len(s) + 1 /\ DOMAIN r = 1 .. Len(s) + 1 /\ r[Len(s) + 1] = e /\ \A i \in 1 .. Len(s) : r[i] = s[i]
  BY AppendProperties
<1>2. DOMAIN s = 1 .. Len(s) /\ Len(s) \in Nat
  OBVIOUS
<1>3. r # << >> /\ Head(r) = r[1] /\ (s = << >> \/ (Len(s) >= 1 /\ Head(s) = s[1])) /\ (s = << >> <=> Len(s) = 0)
  BY <1>1
<1>4. IsInjective(r)
  BY <1>1, <1>2 DEF IsInjective, ToSet
<1>5. ToSet(r) = ToSet(s) \cup {e}
  BY <1>1, <1>2 DEF ToSet
<1> QED
  BY <1>1, <1>2, <1>3, <1>4, <1>5

\* One file leaves a queue.
LEMMA Leaves ==
  ASSUME NEW s \in Seq(File), NEW e \in File, IsInjective(s)
  PROVE  /\ RemoveFirst(s, e) \in Seq(File) /\ IsInjective(RemoveFirst(s, e))
         /\ ToSet(RemoveFirst(s, e)) = ToSet(s) \ {e}
         /\ s # << >> /\ Head(s) # e => RemoveFirst(s, e) # << >> /\ Head(RemoveFirst(s, e)) = Head(s)
<1> DEFINE r == RemoveFirst(s, e)
<1>1. DOMAIN s = 1 .. Len(s) /\ Len(s) \in Nat /\ \A i \in 1 .. Len(s) : s[i] \in File
  OBVIOUS
<1>2. CASE e \notin ToSet(s)
  <2>1. r = s
    BY <1>1, <1>2 DEF RemoveFirst, ToSet
  <2> QED
    BY <1>2, <2>1
<1>3. CASE e \in ToSet(s)
  <2>1. PICK k \in 1 .. Len(s) : s[k] = e
    BY <1>1, <1>3 DEF ToSet
  <2>2. {i \in 1 .. Len(s) : s[i] = e} = {k}
    BY <1>1, <2>1 DEF IsInjective
  <2>3. SelectInSeq(s, LAMBDA v : v = e) = k
    BY <2>1, <2>2 DEF SelectInSeq, Min
  <2>4. r = SubSeq(s, 1, k - 1) \o SubSeq(s, k + 1, Len(s))
    BY <2>1, <2>3 DEF RemoveFirst, RemoveAt
  <2>5. SubSeq(s, 1, k - 1) \in Seq(File) /\ Len(SubSeq(s, 1, k - 1)) = k - 1 /\ \A i \in 1 .. k - 1 : SubSeq(s, 1, k - 1)[i] = s[i]
    BY <1>1, <2>1, SubSeqProperties
  <2>6. /\ SubSeq(s, k + 1, Len(s)) \in Seq(File) /\ Len(SubSeq(s, k + 1, Len(s))) = Len(s) - k
        /\ \A i \in 1 .. Len(s) - k : SubSeq(s, k + 1, Len(s))[i] = s[i + k]
    <3> DEFINE m == k + 1
    <3>1. m \in Int /\ Len(s) \in Int /\ Len(s) - m + 1 = Len(s) - k /\ \A i \in m .. Len(s) : s[i] \in File
      BY <1>1, <2>1
    <3>2. \A i \in 1 .. Len(s) - k : m + i - 1 = i + k
      BY <1>1, <2>1
    <3>3. m <= Len(s) \/ (~(m <= Len(s)) /\ Len(s) - k = 0)
      <4> DEFINE n == Len(s)
      <4>1. n \in Nat /\ k \in 1 .. n
        BY <1>1, <2>1
      <4> HIDE DEF n
      <4>2. k + 1 <= n \/ (~(k + 1 <= n) /\ n - k = 0)
        BY <4>1
      <4> QED
        BY <4>2 DEF n
    <3> HIDE DEF m
    <3>4. /\ SubSeq(s, m, Len(s)) \in Seq(File) /\ Len(SubSeq(s, m, Len(s))) = IF m <= Len(s) THEN Len(s) - m + 1 ELSE 0
          /\ \A i \in 1 .. Len(s) - m + 1 : SubSeq(s, m, Len(s))[i] = s[m + i - 1]
      BY <3>1, SubSeqProperties
    <3>5. SubSeq(s, m, Len(s)) \in Seq(File) /\ Len(SubSeq(s, m, Len(s))) = Len(s) - k
      BY <3>1, <3>3, <3>4
    <3>6. \A i \in 1 .. Len(s) - k : SubSeq(s, m, Len(s))[i] = s[i + k]
      BY <3>1, <3>2, <3>4
    <3> QED
      BY <3>5, <3>6 DEF m
  <2>7. r \in Seq(File) /\ Len(r) = Len(s) - 1 /\ \A i \in 1 .. Len(s) - 1 : r[i] = IF i < k THEN s[i] ELSE s[i + 1]
    <3> HIDE DEF r
    <3> DEFINE a == SubSeq(s, 1, k - 1)
               b == SubSeq(s, k + 1, Len(s))
    <3>1. a \in Seq(File) /\ b \in Seq(File) /\ r = a \o b /\ Len(a) = k - 1 /\ Len(b) = Len(s) - k
      BY <2>4, <2>5, <2>6
    <3>2. \A i \in 1 .. k - 1 : a[i] = s[i]
      BY <2>5
    <3>3. \A i \in 1 .. Len(s) - k : b[i] = s[i + k]
      BY <2>6
    <3> HIDE DEF a, b
    <3>4. r \in Seq(File) /\ Len(r) = Len(a) + Len(b) /\ \A i \in 1 .. Len(a) + Len(b) : r[i] = IF i <= Len(a) THEN a[i] ELSE b[i - Len(a)]
      BY <3>1, ConcatProperties
    <3> QED
      BY <1>1, <2>1, <3>1, <3>2, <3>3, <3>4
  <2> HIDE DEF r
  <2>8. DOMAIN r = 1 .. Len(s) - 1
    BY <2>7
  <2>9. IsInjective(r)
    <3> SUFFICES ASSUME NEW i \in 1 .. Len(s) - 1, NEW j \in 1 .. Len(s) - 1, r[i] = r[j] PROVE i = j
      BY <2>8 DEF IsInjective
    <3> DEFINE at(n) == IF n < k THEN n ELSE n + 1
    <3>1. r[i] = s[at(i)] /\ r[j] = s[at(j)] /\ at(i) \in 1 .. Len(s) /\ at(j) \in 1 .. Len(s)
      BY <1>1, <2>1, <2>7
    <3>2. at(i) = at(j)
      BY <1>1, <3>1 DEF IsInjective
    <3> QED
      BY <1>1, <2>1, <3>2
  <2>10. ToSet(r) \subseteq ToSet(s) \ {e}
    <3> SUFFICES ASSUME NEW i \in 1 .. Len(s) - 1 PROVE r[i] \in ToSet(s) /\ r[i] # e
      BY <2>8 DEF ToSet
    <3>1. \E j \in 1 .. Len(s) : j # k /\ r[i] = s[j]
      BY <1>1, <2>1, <2>7
    <3> QED
      BY <1>1, <2>1, <3>1 DEF ToSet, IsInjective
  <2>11. ToSet(s) \ {e} \subseteq ToSet(r)
    <3> SUFFICES ASSUME NEW j \in 1 .. Len(s), s[j] # e PROVE s[j] \in ToSet(r)
      BY <1>1 DEF ToSet
    <3>1. \E i \in 1 .. Len(s) - 1 : r[i] = s[j]
      <4>1. CASE j < k
        BY <1>1, <2>1, <2>7, <4>1
      <4>2. CASE j > k
        <5>1. j - 1 \in 1 .. Len(s) - 1 /\ r[j - 1] = s[j]
          BY <1>1, <2>1, <2>7, <4>2
        <5> QED
          BY <5>1
      <4> QED
        BY <1>1, <2>1, <4>1, <4>2
    <3> QED
      BY <2>8, <3>1 DEF ToSet
  <2>12. ASSUME s # << >>, Head(s) # e PROVE r # << >> /\ Head(r) = Head(s)
    <3>1. Len(s) >= 1 /\ Head(s) = s[1] /\ k # 1
      BY <1>1, <2>1, <2>12
    <3>2. Len(r) >= 1 /\ r[1] = s[1]
      BY <1>1, <2>1, <2>7, <3>1
    <3> QED
      BY <2>7, <3>1, <3>2
  <2> QED
    BY <2>7, <2>9, <2>10, <2>11, <2>12 DEF r
<1> QED
  BY <1>2, <1>3

\* Who has the flag has it alone.
Exclusive ==
  /\ \A t \in Transports : thread[t].pc \in Claiming =>
       events = << >> /\ ui \notin Handling /\ worker.pc \notin Installing /\ \A u \in Transports : u # t => thread[u].pc \notin Claiming
  /\ events # << >> => ui \notin Handling /\ worker.pc \notin Installing
  /\ ui \in Handling => worker.pc \notin Installing

LEMMA Excludes == ASSUME OneHand PROVE Exclusive
<1> DEFINE A == thread["mtp"].pc \in Claiming
           B == thread["ftp"].pc \in Claiming
           C == events # << >>
           D == ui \in Handling
           E == worker.pc \in Installing
<1>1. Count(A) + Count(B) + Count(C) + Count(D) + Count(E) = Count(s_installing)
  BY DEF OneHand, InHands, Claim, Sent
<1> HIDE DEF A, B, C, D, E
<1>2. ~(A /\ B) /\ ~(A /\ C) /\ ~(A /\ D) /\ ~(A /\ E) /\ ~(B /\ C) /\ ~(B /\ D) /\ ~(B /\ E) /\ ~(C /\ D) /\ ~(C /\ E) /\ ~(D /\ E)
  BY <1>1 DEF Count
<1> QED
  BY <1>2 DEF A, B, C, D, E, Exclusive, Transports

-----------------------------------------------------------------------------
(* The initial states. *)
LEMMA StartsTyped == Init => IInv
<1> SUFFICES ASSUME Init PROVE IInv
  OBVIOUS
<1>1. \A t \in Transports : thread[t] = Idle /\ queue[t] = << >> /\ in_progress[t] = FALSE
  BY DEF Init
<1>2. \A f \in File : upload[f] = [state |-> "new", sent |-> 0] /\ stream[f] = NoStream /\ outcome[f] = "none" /\ marked[f] = "none"
  BY DEF Init
<1>3. Types
  <2>1. << >> \in Seq(File) /\ << >> \in Seq(Chunks) /\ Length \in Nat
    BY LengthAssumption
  <2>2. Idle \in Threads /\ NoStream \in Streams /\ NoSession \in Sessions /\ NoWorker \in Workers
    BY <2>1 DEF Idle, Threads, Places, Files, NoStream, Streams, NoSession, Sessions, Ids, NoWorker, Workers, Verdicts
  <2>3. [state |-> "new", sent |-> 0] \in Uploads
    BY <2>1 DEF Uploads, Upload
  <2> QED
    BY <2>1, <2>2, <2>3 DEF Init, Types, FrontTypes, InstallTypes, Files, Uis, Verdicts
<1>4. Fronts
  <2>1. \A t \in Transports : Called(t) /\ Lined(t)
    BY <1>1 DEF Called, Lined, Idle, Starting, Claiming, Sending, Pushing, ToSet, IsInjective
  <2> QED
    BY <1>1, <1>2, <2>1 DEF Fronts, OneByOne, Init, Transports
<1>5. Passed /\ Opened
  BY <1>1, FileFacts DEF Init, Passed, Opened, Idle, NoSession, NoWorker, Handling, Installing, Transports
<1>6. Fresh /\ Returned
  BY <1>2, FileFacts DEF Init, Fresh, Unused, Returned, MarkedOwn, NoWorker, NoStream
<1>7. Sourced /\ Owned
  BY <1>1, <1>2, FileFacts DEF Init, Sourced, Owned, Aimed, Idle, Pushing, NoStream, NoWorker
<1> QED
  BY <1>3, <1>4, <1>5, <1>6, <1>7, Starts DEF IInv

-----------------------------------------------------------------------------
(* The transports. *)
\* The session stays what it is, whatever it shows.
SameSession == session' \in Sessions /\ session'.id = session.id /\ session'.origin = session.origin
               /\ session'.current = session.current /\ session'.from = session.from
Moved(t) == thread' \in [Transports -> Threads] /\ \A u \in Transports : u # t => thread'[u] = thread[u]

\* A transport goes on, and nothing but its own place and the flag changes.
LEMMA GoesOn ==
  ASSUME IInv, OneHand', NEW t \in Transports, SameSession, Moved(t),
         UNCHANGED <<host, front, INSTALL_STATE, s_source, stream, main, install>>, s_installing' \in BOOLEAN,
         thread[t].pc # "start_announce", thread'[t].pc # "start_announce",
         Called(t)',
         t = "mtp" /\ queue[t] # << >> => in_progress[t] \/ thread'[t].pc \in Starting \cup {"try"},
         Alone => Aimed(t)',
         thread'[t].pc \in {"push_lock", "push_wait"} => thread[t].pc \in {"push_lock", "push_wait"} \/ INSTALL_STATE # "finished"
  PROVE  IInv'
<1> USE DEF IInv, Moved, SameSession, host, front, main, install
<1>1. Types'
  BY DEF Types, FrontTypes, InstallTypes
<1>2. \A f : (First(f)' <=> First(f)) /\ (InProgress(f)' <=> InProgress(f)) /\ (Queued(f)' <=> Queued(f))
  BY DEF First, InProgress, Queued
<1>3. \A f \in File : Announced(f)' <=> Announced(f)
  <2> SUFFICES ASSUME NEW f \in File PROVE Announced(f)' <=> Announced(f)
    OBVIOUS
  <2> QED
    BY FileFacts DEF Announced
<1>4. Fronts'
  <2>1. ASSUME NEW u \in Transports, u # t PROVE Called(u)'
    <3>1. Called(u) /\ thread'[u] = thread[u]
      BY <2>1 DEF Fronts
    <3> QED
      BY <1>2, <3>1 DEF Called
  <2>2. \A u \in Transports : Lined(u)'
    BY DEF Fronts, Lined
  <2> QED
    BY <2>1, <2>2 DEF Fronts, OneByOne, Transports
<1>5. Passed' /\ Opened'
  BY DEF Passed, Opened
<1>6. Fresh' /\ Returned'
  BY <1>2, <1>3 DEF Fresh, Unused, Returned, MarkedOwn
<1>7. Sourced'
  BY <1>2, <1>3 DEF Sourced, Current
<1>8. Owned'
  <2> SUFFICES ASSUME Alone PROVE Owned'
    BY DEF Owned, Alone
  <2>1. ASSUME NEW u \in Transports PROVE Aimed(u)'
    BY <2>1 DEF Owned, Aimed
  <2>2. \A f \in File : Counted(f)' => Counted(f)
    <3> SUFFICES ASSUME NEW f \in File, Counted(f)' PROVE Counted(f)
      OBVIOUS
    <3>1. Origin(f) \in Transports
      BY FileFacts
    <3> QED
      BY <3>1 DEF Counted
  <2>3. \A f \in File : Arrived(f)' = Arrived(f)
    BY DEF Arrived, Taken
  <2>4. \A f \in File : Whole(f) => Whole(f)'
    BY <2>2, <2>3 DEF Whole, Pieces
  <2> QED
    BY <2>1, <2>4 DEF Owned
<1> QED
  BY <1>1, <1>4, <1>5, <1>6, <1>7, <1>8

LEMMA Goes ==
  ASSUME Types, NEW t \in Transports, NEW to \in Places, Goto(t, to)
  PROVE  Moved(t) /\ thread'[t].pc = to /\ thread'[t].call = thread[t].call /\ thread'[t].target = thread[t].target
BY DEF Types, FrontTypes, Goto, Moved, Threads

LEMMA GoesIdle == ASSUME Types, NEW t \in Transports, Returns(t) PROVE Moved(t) /\ thread'[t] = Idle
<1>1. Idle \in Threads
  BY DEF Idle, Threads, Places, Files
<1> QED
  BY <1>1 DEF Types, FrontTypes, Returns, Moved

LEMMA SessionStays == ASSUME Types, UNCHANGED session PROVE SameSession
BY DEF Types, InstallTypes, SameSession

\* An idle transport owes nothing.
LEMMA IdleOwes == ASSUME NEW t \in Transports, thread'[t] = Idle PROVE Called(t)' /\ Aimed(t)'
BY DEF Idle, Called, Aimed, Starting, Claiming, Sending, Pushing

LEMMA KeepsPoll == ASSUME IInv, OneHand', Poll PROVE IInv'
<1>1. thread["ftp"].pc = "idle" /\ "ftp" \in Transports /\ "try" \in Places
  BY DEF Poll, At, Transports, Places
<1>2. Moved("ftp") /\ thread'["ftp"].pc = "try" /\ UNCHANGED session
  BY <1>1, Goes DEF Poll, IInv, app
<1>3. Called("ftp")' /\ Aimed("ftp")'
  BY <1>2 DEF Called, Aimed, Starting, Claiming, Sending, Pushing
<1>4. s_installing' \in BOOLEAN
  BY DEF Poll, shared, IInv, Types, InstallTypes
<1> QED
  BY <1>1, <1>2, <1>3, <1>4, GoesOn, SessionStays DEF IInv, Poll, shared

LEMMA KeepsTry == ASSUME IInv, OneHand', NEW t \in Transports, Try(t) PROVE IInv'
<1>1. thread[t].pc = "try" /\ UNCHANGED session /\ s_installing' \in BOOLEAN
  BY DEF Try, At, app, shared, IInv, Types, InstallTypes
<1>2. CASE Returns(t)
  <2>1. Moved(t) /\ thread'[t] = Idle
    BY <1>2, GoesIdle DEF IInv
  <2>2. thread'[t].pc = "idle" /\ Called(t)' /\ Aimed(t)'
    <3>1. thread'[t].pc = "idle"
      BY <2>1 DEF Idle
    <3> QED
      BY <2>1, <3>1, IdleOwes
  <2>3. t = "mtp" /\ queue[t] # << >> => in_progress[t]
    <3> SUFFICES ASSUME t = "mtp", queue[t] # << >>, ~in_progress[t] PROVE FALSE
      OBVIOUS
    <3>1. Head(queue[t]) \notin failed
      <4>1. Head(queue[t]) \in ToSet(queue[t])
        BY DEF IInv, Types, FrontTypes, ToSet
      <4> QED
        BY <4>1 DEF IInv, Fronts, Lined
    <3>2. thread' = [thread EXCEPT ![t].pc = "start", ![t].call = Head(queue[t])]
      BY <3>1 DEF Try
    <3>3. thread'[t].pc = "start"
      BY <3>2 DEF IInv, Types, FrontTypes, Threads
    <3> QED
      BY <2>2, <3>3
  <2> QED
    BY <1>1, <2>1, <2>2, <2>3, GoesOn, SessionStays DEF IInv, Try, shared
<1>3. CASE ~Returns(t)
  <2>1. thread' = [thread EXCEPT ![t].pc = "start", ![t].call = Head(queue[t])] /\ ~in_progress[t] /\ queue[t] # << >>
    BY <1>3 DEF Try
  <2>2. Head(queue[t]) \in File /\ Head(queue[t]) \in ToSet(queue[t])
    BY <2>1 DEF IInv, Types, FrontTypes, ToSet
  <2>3. Moved(t) /\ thread'[t].pc = "start" /\ thread'[t].call = Head(queue[t])
    BY <2>1, <2>2 DEF IInv, Types, FrontTypes, Moved, Threads, Files, Places, Starting
  <2>4. Origin(Head(queue[t])) = t /\ UNCHANGED <<queue, in_progress>>
    BY <2>2 DEF IInv, Fronts, Lined, Try, front
  <2>5. Called(t)' /\ Aimed(t)'
    BY <2>1, <2>2, <2>3, <2>4 DEF Called, Aimed, First, Starting, Claiming, Sending, Pushing
  <2>6. "start" \in Starting
    BY DEF Starting
  <2> QED
    BY <1>1, <2>3, <2>5, <2>6, GoesOn, SessionStays DEF IInv, Try, shared
<1> QED
  BY <1>2, <1>3

\* A start that goes on with the same file.
LEMMA StartsOn ==
  ASSUME IInv, OneHand', NEW t \in Transports, NEW to \in Starting, thread[t].pc \in Starting \ {"start_announce"},
         to # "start_announce", Moved(t), thread'[t].pc = to, thread'[t].call = thread[t].call,
         UNCHANGED <<host, front, INSTALL_STATE, s_source, stream, main, session, install>>, s_installing' \in BOOLEAN
  PROVE  IInv'
<1>1. Called(t)
  BY DEF IInv, Fronts
<1>2. First(thread[t].call)' <=> First(thread[t].call)
  BY DEF First, front
<1>3. to \notin Sending /\ to \notin {"push_lock", "push_wait"}
  BY DEF Starting, Claiming, Sending, Pushing
<1>4. Called(t)' /\ Aimed(t)'
  BY <1>1, <1>2, <1>3 DEF Called, Aimed, Sending, front
<1> QED
  BY <1>3, <1>4, GoesOn, SessionStays DEF IInv

\* OnInstallStart refuses: MTP forgets the file, FTP may fail it.
LEMMA Refused ==
  ASSUME IInv, OneHand', NEW t \in Transports, thread[t].pc \in Starting \ {"start_announce"}, Refuses(t),
         UNCHANGED <<host, INSTALL_STATE, s_source, stream, main, session, install>>, s_installing' \in BOOLEAN
  PROVE  IInv'
<1> DEFINE c == thread[t].call
<1>1. Moved(t) /\ thread'[t] = Idle /\ thread'[t].pc = "idle" /\ SameSession
  <2>1. Moved(t) /\ thread'[t] = Idle /\ SameSession
    BY GoesIdle, SessionStays DEF Refuses, IInv
  <2> QED
    BY <2>1 DEF Idle
<1>2. Called(t)' /\ Aimed(t)'
  BY <1>1, IdleOwes
<1>3. c \in File /\ Origin(c) = t /\ First(c) /\ ~in_progress[t]
  BY DEF IInv, Fronts, Called
<1>4. in_progress' = in_progress /\ failed' \subseteq failed \cup {c} /\ (t = "mtp" => failed' = failed)
  BY DEF Refuses, Call
<1>5. \/ queue' = queue
      \/ t = "mtp" /\ queue' = [queue EXCEPT ![t] = << >>]
  BY DEF Refuses
<1>6. queue' \in [Transports -> Seq(File)] /\ \A u \in Transports : queue'[u] = queue[u] \/ (u = "mtp" /\ u = t /\ queue'[u] = << >>)
  <2>1. queue \in [Transports -> Seq(File)] /\ << >> \in Seq(File)
    BY DEF IInv, Types, FrontTypes
  <2>2. CASE queue' = queue
    BY <2>1, <2>2
  <2>3. CASE t = "mtp" /\ queue' = [queue EXCEPT ![t] = << >>]
    BY <2>1, <2>3
  <2> QED
    BY <1>5, <2>2, <2>3
<1>7. Types'
  BY <1>1, <1>3, <1>4, <1>6 DEF IInv, Types, FrontTypes, InstallTypes, Moved, SameSession, host, main, install
<1>8. \A f \in File : (Queued(f)' => Queued(f)) /\ (InProgress(f)' <=> InProgress(f)) /\ (Announced(f)' <=> Announced(f))
  <2> SUFFICES ASSUME NEW f \in File PROVE (Queued(f)' => Queued(f)) /\ (InProgress(f)' <=> InProgress(f)) /\ (Announced(f)' <=> Announced(f))
    OBVIOUS
  <2>1. Origin(f) \in Transports
    BY FileFacts
  <2>2. ToSet(<< >>) = {}
    BY DEF ToSet
  <2>3. Queued(f)' => Queued(f)
    BY <1>6, <2>1, <2>2 DEF Queued
  <2>4. InProgress(f)' <=> InProgress(f)
    BY <1>3, <1>4, <1>6, <2>1 DEF InProgress, First
  <2>5. Announced(f)' <=> Announced(f)
    BY <1>1, <2>1 DEF Announced, Moved
  <2> QED
    BY <2>3, <2>4, <2>5
<1>9. Fronts'
  <2>1. ASSUME NEW u \in Transports, u # t PROVE Called(u)'
    <3>1. Called(u) /\ thread'[u] = thread[u] /\ queue'[u] = queue[u] /\ in_progress'[u] = in_progress[u] /\ upload' = upload
      BY <1>1, <1>4, <1>6, <2>1 DEF IInv, Fronts, Moved, host
    <3>2. \A f : Origin(f) = u => (First(f)' <=> First(f)) /\ (InProgress(f)' <=> InProgress(f))
      BY <3>1 DEF First, InProgress
    <3> QED
      BY <3>1, <3>2 DEF Called
  <2>2. ASSUME NEW u \in Transports PROVE Lined(u)'
    <3>1. Lined(u)
      BY DEF IInv, Fronts
    <3>2. CASE queue'[u] = queue[u]
      BY <1>4, <3>1, <3>2 DEF Lined, host
    <3>3. CASE u = t /\ queue'[u] = << >>
      BY <1>3, <1>4, <3>3 DEF Lined, ToSet, IsInjective
    <3> QED
      BY <1>6, <3>2, <3>3
  <2>3. queue'["mtp"] # << >> => in_progress'["mtp"] \/ thread'["mtp"].pc \in Starting \cup {"try"}
    <3>1. t = "mtp" => queue'[t] = << >>
      BY DEF Refuses, IInv, Types, FrontTypes
    <3> QED
      BY <1>1, <1>4, <1>6, <3>1 DEF IInv, Fronts, Moved, Transports
  <2>4. \A f \in failed' : Origin(f) = "ftp"
    BY <1>3, <1>4 DEF IInv, Fronts, Transports
  <2> QED
    BY <1>2, <2>1, <2>2, <2>3, <2>4 DEF IInv, Fronts, OneByOne, host
<1>10. Passed' /\ Opened'
  BY <1>1 DEF IInv, Passed, Opened, Moved, Idle, main, install
<1>11. Fresh' /\ Returned'
  BY <1>8 DEF IInv, Fresh, Unused, Returned, MarkedOwn, host, install
<1>12. Sourced'
  BY <1>8 DEF IInv, Sourced, Current, host
<1>13. Owned'
  <2> SUFFICES ASSUME Alone PROVE Owned'
    BY DEF Owned, Alone, host
  <2>1. ASSUME NEW u \in Transports PROVE Aimed(u)'
    BY <1>1, <1>2, <2>1 DEF IInv, Owned, Aimed, Moved
  <2>2. \A f \in File : Counted(f)' => Counted(f)
    <3> SUFFICES ASSUME NEW f \in File, Counted(f)' PROVE Counted(f)
      OBVIOUS
    <3>1. Origin(f) \in Transports
      BY FileFacts
    <3> QED
      BY <1>1, <3>1 DEF Counted, Moved
  <2>3. \A f \in File : Arrived(f)' = Arrived(f)
    BY DEF Arrived, Taken, install
  <2>4. \A f \in File : Whole(f) => Whole(f)'
    BY <2>2, <2>3 DEF Whole, Pieces, host
  <2> QED
    BY <2>1, <2>4 DEF IInv, Owned, install
<1> QED
  BY <1>7, <1>9, <1>10, <1>11, <1>12, <1>13 DEF IInv

LEMMA KeepsStarts ==
  ASSUME IInv, OneHand', NEW t \in Transports, Start(t) \/ StartWait(t) \/ StartCheck(t) \/ StartClaim(t) \/ StartRecheck(t)
  PROVE  IInv'
<1>1. /\ UNCHANGED <<host, INSTALL_STATE, s_source, stream, main, session, install>> /\ s_installing' \in BOOLEAN
      /\ thread[t].pc \in Starting \ {"start_announce"}
  BY DEF Start, StartWait, StartCheck, StartClaim, StartRecheck, shared, app, At, Starting, Claiming, IInv, Types, InstallTypes
<1>2. CASE Refuses(t)
  BY <1>1, <1>2, Refused
<1>3. CASE ~Refuses(t)
  <2>1. UNCHANGED front
    BY <1>3 DEF Start, StartWait, StartCheck, StartClaim, StartRecheck, front
  <2>2. \E to \in Starting \ {"start_announce"} :
          Goto(t, to) \/ \E b \in BOOLEAN : thread' = [thread EXCEPT ![t].pc = to, ![t].reuse = b]
    BY <1>3 DEF Start, StartWait, StartCheck, StartClaim, StartRecheck, Starting, Claiming, Takes
  <2>3. PICK to \in Starting \ {"start_announce"} :
          Goto(t, to) \/ \E b \in BOOLEAN : thread' = [thread EXCEPT ![t].pc = to, ![t].reuse = b]
    BY <2>2
  <2>4. to \in Places
    BY DEF Places
  <2>5. Moved(t) /\ thread'[t].pc = to /\ thread'[t].call = thread[t].call
    <3>1. CASE Goto(t, to)
      BY <2>4, <3>1, Goes DEF IInv
    <3>2. ASSUME NEW b \in BOOLEAN, thread' = [thread EXCEPT ![t].pc = to, ![t].reuse = b]
          PROVE  Moved(t) /\ thread'[t].pc = to /\ thread'[t].call = thread[t].call
      BY <2>4, <3>2 DEF IInv, Types, FrontTypes, Moved, Threads
    <3> QED
      BY <2>3, <3>1, <3>2
  <2> QED
    BY <1>1, <2>1, <2>5, StartsOn
<1> QED
  BY <1>2, <1>3

\* MTP has one file open.
LEMMA MtpHasOne ==
  ASSUME Fronts, NEW f \in File, NEW g \in File, Origin(f) = "mtp", Origin(g) = "mtp", upload[f].state \in Live, upload[g].state \in Live
  PROVE  f = g
<1>1. f[2] \in Nat /\ g[2] \in Nat /\ (f[2] = g[2] => f = g)
  BY FileFacts
<1>2. ~(f[2] < g[2]) /\ ~(g[2] < f[2])
  BY DEF Fronts, OneByOne, Live, Over
<1> QED
  BY <1>1, <1>2

\* A transport that writes a file has it in progress, if the file is queued at all.
LEMMA WritesInProgress ==
  ASSUME IInv, NEW t \in Transports, thread[t].pc \in Sending, Queued(thread[t].call)
  PROVE  InProgress(thread[t].call)
<1> DEFINE f == thread[t].call
<1>1. f \in File /\ Origin(f) = t /\ upload[f].state = "open" /\ (t = "ftp" => InProgress(f))
  BY DEF IInv, Fronts, Called
<1>2. CASE t = "mtp"
  <2>1. queue[t] # << >> /\ queue[t] \in Seq(File)
    BY <1>1 DEF Queued, ToSet, IInv, Types, FrontTypes
  <2>2. in_progress[t]
    BY <1>2, <2>1 DEF IInv, Fronts, Starting, Claiming, Sending, Pushing
  <2>3. Head(queue[t]) \in File /\ Head(queue[t]) \in ToSet(queue[t])
    BY <2>1 DEF ToSet
  <2>4. Head(queue[t]) = f
    BY <1>1, <1>2, <2>3, MtpHasOne DEF IInv, Fronts, Lined, Live
  <2> QED
    BY <1>1, <2>1, <2>2, <2>4 DEF InProgress, First
<1> QED
  BY <1>1, <1>2 DEF Transports

\* A transport is told whether a chunk was taken, without a stream.
LEMMA Answers ==
  ASSUME IInv, OneHand', NEW t \in Transports, NEW f \in File, Origin(f) = t, upload[f].state = "open",
         thread[t].pc # "start_announce", Moved(t), thread'[t].pc = "idle", Called(t)', Aimed(t)',
         upload' \in [File -> Uploads], \A g \in File : g # f => upload'[g] = upload[g],
         \/ upload'[f].state = "refused" /\ upload'[f].sent = upload[f].sent
         \/ upload'[f].state = "open" /\ INSTALL_STATE = "finished" /\ (Queued(f) => InProgress(f)),
         t = "mtp" /\ queue[t] # << >> => in_progress[t],
         UNCHANGED <<setting, front, shared, stream, main, session, install>>
  PROVE  IInv'
<1> USE DEF IInv, front, main, install, shared
<1>1. Types'
  BY DEF Types, FrontTypes, InstallTypes, Moved
<1>2. \A g \in File : (First(g)' <=> First(g)) /\ (InProgress(g)' <=> InProgress(g)) /\ (Queued(g)' <=> Queued(g))
  BY DEF First, InProgress, Queued
<1>3. \A g \in File : Announced(g)' <=> Announced(g)
  <2> SUFFICES ASSUME NEW g \in File PROVE Announced(g)' <=> Announced(g)
    OBVIOUS
  <2>1. Origin(g) \in Transports
    BY FileFacts
  <2> QED
    BY <2>1 DEF Announced, Moved
<1>4. \A g \in File : (upload'[g].state \in Live <=> upload[g].state \in Live) /\ (upload'[g].state \in Over <=> upload[g].state \in Over)
                      /\ (upload'[g].state = "new" <=> upload[g].state = "new")
  BY DEF Live, Over
<1>5. Fronts'
  <2>1. ASSUME NEW u \in Transports, u # t PROVE Called(u)'
    <3>1. Called(u) /\ thread'[u] = thread[u]
      BY <2>1 DEF Fronts, Moved
    <3>2. \A g \in File : Origin(g) = u => upload'[g] = upload[g]
      BY <2>1
    <3> QED
      BY <1>2, <3>1, <3>2 DEF Called
  <2>2. ASSUME NEW u \in Transports PROVE Lined(u)'
    <3>1. ToSet(queue[u]) \subseteq File
      BY DEF Types, FrontTypes, ToSet
    <3> QED
      BY <1>4, <3>1 DEF Fronts, Lined
  <2>3. OneByOne'
    BY <1>4 DEF Fronts, OneByOne
  <2>4. queue'["mtp"] # << >> => in_progress'["mtp"] \/ thread'["mtp"].pc \in Starting \cup {"try"}
    BY DEF Fronts, Moved, Transports
  <2>5. (\A g \in failed : Origin(g) = "ftp")' /\ \A g \in File : upload'[g].state # "new" => setting'.load[Origin(g)] # 0
    BY <1>4 DEF Fronts
  <2> QED
    BY <2>1, <2>2, <2>3, <2>4, <2>5 DEF Fronts
<1>6. Passed' /\ Opened'
  BY DEF Passed, Opened, Moved
<1>7. Fresh' /\ Returned'
  <2>1. ASSUME NEW g \in File, upload'[g].state = "new" \/ (Queued(g)' /\ ~Announced(g)' /\ ~InProgress(g)') PROVE Unused(g)'
    <3>1. Unused(g)
      BY <1>2, <1>3, <1>4, <2>1 DEF Fresh
    <3>2. upload'[g].sent = upload[g].sent
      BY <1>2, <2>1
    <3> QED
      BY <3>1, <3>2 DEF Unused
  <2> QED
    BY <2>1 DEF Fresh, Returned, MarkedOwn
<1>8. Sourced'
  BY <1>2, <1>3, <1>4 DEF Sourced, Current
<1>9. Owned'
  <2> SUFFICES ASSUME Alone PROVE Owned'
    BY DEF Owned, Alone
  <2>1. ASSUME NEW u \in Transports PROVE Aimed(u)'
    BY <2>1 DEF Owned, Aimed, Moved
  <2>2. \A g \in File : Counted(g)' => Counted(g)
    <3> SUFFICES ASSUME NEW g \in File, Counted(g)' PROVE Counted(g)
      OBVIOUS
    <3>1. Origin(g) \in Transports
      BY FileFacts
    <3> QED
      BY <3>1 DEF Counted, Moved
  <2>3. \A g \in File : Arrived(g)' = Arrived(g)
    BY DEF Arrived, Taken
  <2>4. \A g \in File : g # f /\ Whole(g) => Whole(g)'
    BY <2>2, <2>3 DEF Whole, Pieces
  <2>5. Whole(f) => Whole(f)'
    <3>1. upload'[f].state = "open" => ~Counted(f)'
      BY DEF Counted, Moved
    <3> QED
      BY <2>3, <3>1 DEF Whole, Pieces
  <2> QED
    BY <2>1, <2>4, <2>5 DEF Owned
<1> QED
  BY <1>1, <1>5, <1>6, <1>7, <1>8, <1>9

LEMMA Says ==
  ASSUME IInv, NEW t \in Transports, thread[t].pc \in Sending, Accepts(t) \/ Rejects(t)
  PROVE  LET f == thread[t].call
         IN /\ f \in File /\ Origin(f) = t /\ upload[f].state = "open" /\ upload[f].sent \in 0 .. Length /\ upload[f].sent < Length
            /\ Moved(t) /\ thread'[t] = Idle /\ thread'[t].pc = "idle" /\ Called(t)' /\ Aimed(t)'
            /\ upload' \in [File -> Uploads] /\ \A g \in File : g # f => upload'[g] = upload[g]
            /\ Accepts(t) => upload'[f].state = "open" /\ upload'[f].sent = upload[f].sent + 1
            /\ Rejects(t) => upload'[f].state = "refused" /\ upload'[f].sent = upload[f].sent
            /\ (t = "mtp" /\ queue[t] # << >> => in_progress[t])
<1> DEFINE f == thread[t].call
<1>1. f \in File /\ Origin(f) = t /\ upload[f].state = "open" /\ upload[f].sent < Length
  BY DEF IInv, Fronts, Called
<1>2. Moved(t) /\ thread'[t] = Idle
  BY GoesIdle DEF Accepts, Rejects, IInv
<1>3. thread'[t].pc = "idle"
  BY <1>2 DEF Idle
<1>4. Called(t)' /\ Aimed(t)'
  BY <1>2, IdleOwes
<1>5. upload \in [File -> Uploads] /\ Length \in Nat
  BY LengthAssumption DEF IInv, Types, FrontTypes
<1>6. upload[f].sent \in 0 .. Length /\ upload[f].state \in Upload
  BY <1>1, <1>5 DEF Uploads
<1>7. CASE Accepts(t)
  <2>1. upload' = [upload EXCEPT ![f].sent = upload[f].sent + 1] /\ upload[f].sent + 1 \in 0 .. Length
    BY <1>1, <1>5, <1>6, <1>7 DEF Accepts, Call
  <2>2. upload' \in [File -> Uploads] /\ upload'[f].state = "open" /\ upload'[f].sent = upload[f].sent + 1 /\ \A g \in File : g # f => upload'[g] = upload[g]
    BY <1>1, <1>5, <2>1 DEF Uploads
  <2>3. ~Rejects(t)
    BY <1>1, <1>5, <2>2 DEF Rejects, Call, Uploads
  <2> QED
    BY <1>1, <1>2, <1>3, <1>4, <1>6, <2>2, <2>3 DEF IInv, Fronts, Starting, Claiming, Sending, Pushing
<1>8. CASE Rejects(t)
  <2>1. upload' = [upload EXCEPT ![f].state = "refused"] /\ "refused" \in Upload
    BY <1>8 DEF Rejects, Call, Upload
  <2>2. upload' \in [File -> Uploads] /\ upload'[f].state = "refused" /\ upload'[f].sent = upload[f].sent /\ \A g \in File : g # f => upload'[g] = upload[g]
    BY <1>1, <1>5, <2>1 DEF Uploads
  <2>3. ~Accepts(t)
    BY <1>1, <1>5, <2>2 DEF Accepts, Call, Uploads
  <2> QED
    BY <1>1, <1>2, <1>3, <1>4, <1>6, <2>2, <2>3 DEF IInv, Fronts, Starting, Claiming, Sending, Pushing
<1> QED
  BY <1>7, <1>8

\* A write that goes on with its file.
LEMMA WritesOn ==
  ASSUME IInv, OneHand', NEW t \in Transports, NEW to \in Sending, thread[t].pc \in Sending, Moved(t),
         thread'[t].pc = to, thread'[t].call = thread[t].call,
         to \in Pushing => thread'[t].target \in File, Alone => Aimed(t)',
         to \in {"push_lock", "push_wait"} => thread[t].pc \in {"push_lock", "push_wait"} \/ INSTALL_STATE # "finished",
         UNCHANGED <<host, front, shared, stream, main, session, install>>
  PROVE  IInv'
<1>1. Called(t)
  BY DEF IInv, Fronts
<1>2. InProgress(thread[t].call)' <=> InProgress(thread[t].call)
  BY DEF InProgress, First, front
<1>3. to \notin Starting /\ thread[t].pc # "start_announce" /\ thread[t].pc \notin Starting \cup {"try"}
  BY DEF Starting, Claiming, Sending, Pushing
<1>4. Called(t)'
  BY <1>1, <1>2, <1>3 DEF Called, host
<1>5. t = "mtp" /\ queue[t] # << >> => in_progress[t]
  BY <1>3 DEF IInv, Fronts
<1>6. s_installing' \in BOOLEAN /\ SameSession /\ to # "start_announce"
  BY <1>3, SessionStays DEF IInv, Types, InstallTypes, shared, Starting, Claiming
<1> QED
  BY <1>3, <1>4, <1>5, <1>6, GoesOn DEF shared

LEMMA KeepsWrite == ASSUME IInv, OneHand', NEW t \in Transports, Write(t) PROVE IInv'
<1>1. thread[t].pc = "idle" /\ UNCHANGED <<setting, front, shared, stream, main, session, install>> /\ s_installing' \in BOOLEAN
  BY DEF Write, At, app, shared, IInv, Types, InstallTypes
<1>2. PICK f \in File :
       /\ Origin(f) = t /\ upload[f].state = "open" /\ upload[f].sent < Length
       /\ t = "ftp" => f = Head(queue[t]) /\ (in_progress[t] \/ f \in failed)
       /\ IF t = "ftp" /\ f \in failed
            THEN upload' = [upload EXCEPT ![f].state = "refused"] /\ UNCHANGED thread
            ELSE thread' = [thread EXCEPT ![t].pc = "write", ![t].call = f] /\ UNCHANGED upload
  BY DEF Write
<1>3. thread \in [Transports -> Threads] /\ upload \in [File -> Uploads]
  BY DEF IInv, Types, FrontTypes
<1>4. t = "mtp" /\ queue[t] # << >> => in_progress[t]
  BY <1>1 DEF IInv, Fronts, Starting, Claiming
<1>5. CASE t = "ftp" /\ f \in failed
  <2>1. "refused" \in Upload
    BY DEF Upload
  <2>2. upload' \in [File -> Uploads] /\ upload'[f].state = "refused" /\ upload'[f].sent = upload[f].sent /\ \A g \in File : g # f => upload'[g] = upload[g]
    BY <1>2, <1>3, <1>5, <2>1 DEF Uploads
  <2>3. Moved(t) /\ thread'[t].pc = "idle"
    BY <1>1, <1>2, <1>3, <1>5 DEF Moved
  <2>4. Called(t)' /\ Aimed(t)'
    BY <2>3 DEF Called, Aimed, Starting, Claiming, Sending, Pushing
  <2> QED
    BY <1>1, <1>2, <1>4, <2>2, <2>3, <2>4, Answers
<1>6. CASE ~(t = "ftp" /\ f \in failed)
  <2>1. thread' = [thread EXCEPT ![t].pc = "write", ![t].call = f] /\ UNCHANGED upload
    BY <1>2, <1>6
  <2>2. "write" \in Places /\ f \in Files
    BY DEF Places, Sending, Files
  <2>3. Moved(t) /\ thread'[t].pc = "write" /\ thread'[t].call = f
    BY <1>3, <2>1, <2>2 DEF Moved, Threads
  <2>4. t = "ftp" => InProgress(f)
    BY <1>2, <1>6 DEF InProgress, First, IInv, Fronts, Lined
  <2>5. t = "ftp" => InProgress(f)'
    BY <1>1, <2>4 DEF InProgress, First, front
  <2>6. Called(t)' /\ Aimed(t)'
    BY <1>2, <2>1, <2>3, <2>5 DEF Called, Aimed, Starting, Claiming, Pushing
  <2> QED
    BY <1>1, <1>4, <2>1, <2>3, <2>6, GoesOn, SessionStays DEF IInv, shared, host
<1> QED
  BY <1>5, <1>6

LEMMA KeepsAnswer ==
  ASSUME IInv, OneHand', NEW t \in Transports, thread[t].pc \in Sending,
         Rejects(t) \/ (Accepts(t) /\ INSTALL_STATE = "finished"),
         UNCHANGED <<setting, front, shared, stream, main, session, install>>
  PROVE  IInv'
<1> DEFINE f == thread[t].call
<1>1. /\ f \in File /\ Origin(f) = t /\ upload[f].state = "open"
      /\ Moved(t) /\ thread'[t].pc = "idle" /\ Called(t)' /\ Aimed(t)'
      /\ upload' \in [File -> Uploads] /\ \A g \in File : g # f => upload'[g] = upload[g]
      /\ Accepts(t) => upload'[f].state = "open" /\ upload'[f].sent = upload[f].sent + 1
      /\ Rejects(t) => upload'[f].state = "refused" /\ upload'[f].sent = upload[f].sent
      /\ (t = "mtp" /\ queue[t] # << >> => in_progress[t])
  BY Says
<1>2. Queued(f) => InProgress(f)
  BY WritesInProgress
<1>3. thread[t].pc # "start_announce"
  BY DEF Sending, Pushing
<1> HIDE DEF f
<1> QED
  BY <1>1, <1>2, <1>3, Answers

LEMMA KeepsWriting ==
  ASSUME IInv, OneHand', NEW t \in Transports, WriteState(t) \/ WriteSource(t) \/ Push(t)
  PROVE  IInv'
<1>1. UNCHANGED <<setting, front, shared, stream, main, session, install>> /\ thread[t].pc \in Sending
  BY DEF WriteState, WriteSource, Push, At, app, Sending, Pushing
<1>2. CASE Rejects(t) \/ (Accepts(t) /\ INSTALL_STATE = "finished")
  BY <1>1, <1>2, KeepsAnswer
<1>3. CASE ~(Rejects(t) \/ (Accepts(t) /\ INSTALL_STATE = "finished"))
  <2>1. UNCHANGED host
    BY <1>1, <1>3 DEF WriteState, WriteSource, Push, host
  <2>2. CASE WriteState(t)
    <3>1. Goto(t, "write_source") /\ "write_source" \in Sending /\ "write_source" \in Places
      BY <1>3, <2>2 DEF WriteState, Sending, Places
    <3>2. Moved(t) /\ thread'[t].pc = "write_source" /\ thread'[t].call = thread[t].call
      BY <3>1, Goes DEF IInv
    <3>3. "write_source" \notin Pushing /\ Aimed(t)'
      BY <3>2 DEF Pushing, Aimed
    <3> QED
      BY <1>1, <2>1, <3>1, <3>2, <3>3, WritesOn
  <2>3. CASE WriteSource(t)
    <3>1. thread' = [thread EXCEPT ![t].pc = "push", ![t].target = s_source] /\ s_source # None /\ thread[t].pc = "write_source"
      BY <1>3, <2>3 DEF WriteSource, At
    <3>2. s_source \in File /\ s_source \in Files /\ "push" \in Places /\ "push" \in Sending
      BY <3>1 DEF IInv, Types, InstallTypes, Files, Places, Sending, Pushing
    <3>3. Moved(t) /\ thread'[t].pc = "push" /\ thread'[t].call = thread[t].call /\ thread'[t].target = s_source
      BY <3>1, <3>2 DEF IInv, Types, FrontTypes, Moved, Threads
    <3>4. ASSUME Alone PROVE thread[t].call = s_source \/ ~stream[s_source].active
      <4> DEFINE f == thread[t].call
      <4>1. f \in File /\ Origin(f) = t /\ upload[f].state = "open" /\ (t = "ftp" => InProgress(f))
        BY <1>1 DEF IInv, Fronts, Called
      <4> SUFFICES ASSUME stream[s_source].active PROVE f = s_source
        OBVIOUS
      <4>2. Current(s_source)
        BY <3>2 DEF IInv, Sourced
      <4>3. setting.load[t] # 0 /\ setting.load[Origin(s_source)] # 0 /\ Origin(s_source) \in Transports
        BY <3>2, <4>1, <4>2, FileFacts DEF IInv, Fronts, Current, Live
      <4>4. Origin(s_source) = t
        BY <3>4, <4>3 DEF Alone, Transports
      <4>5. InProgress(s_source)
        BY <3>1, <4>2, <4>4 DEF Current, Announced
      <4>6. CASE t = "ftp"
        BY <4>1, <4>4, <4>5, <4>6 DEF InProgress, First
      <4>7. CASE t = "mtp"
        BY <3>2, <4>1, <4>2, <4>4, <4>7, MtpHasOne DEF IInv, Live, Current
      <4> QED
        BY <4>6, <4>7 DEF Transports
    <3>5. Alone => Aimed(t)'
      BY <1>1, <3>3, <3>4 DEF Aimed
    <3> QED
      BY <1>1, <2>1, <3>2, <3>3, <3>5, WritesOn
  <2>4. CASE Push(t)
    <3>1. Goto(t, "push_lock") /\ INSTALL_STATE # "finished" /\ thread[t].pc = "push"
      BY <1>3, <2>4 DEF Push, At
    <3>2. "push_lock" \in Sending /\ "push_lock" \in Places /\ "push" \in Pushing
      BY DEF Sending, Places, Pushing
    <3>3. Moved(t) /\ thread'[t].pc = "push_lock" /\ thread'[t].call = thread[t].call /\ thread'[t].target = thread[t].target
      BY <3>1, <3>2, Goes DEF IInv
    <3>4. thread[t].target \in File /\ (Alone => Aimed(t)')
      BY <1>1, <3>1, <3>2, <3>3 DEF IInv, Fronts, Called, Owned, Aimed
    <3> QED
      BY <1>1, <2>1, <3>1, <3>2, <3>3, <3>4, WritesOn
  <2> QED
    BY <2>2, <2>3, <2>4
<1> QED
  BY <1>2, <1>3

\* The next chunk of a file, behind those that have arrived.
LEMMA NextPiece ==
  ASSUME NEW f \in File, NEW a \in Seq(Chunks), NEW b \in Seq(Chunks), NEW n \in 0 .. Length, n < Length,
         a \o b = Pieces(f, Len(a \o b)), Len(a \o b) = n
  PROVE  LET c == a \o Append(b, <<f, n + 1>>)
         IN Append(b, <<f, n + 1>>) \in Seq(Chunks) /\ c = Pieces(f, Len(c)) /\ Len(c) = n + 1
<1> DEFINE x == <<f, n + 1>>
           s == a \o b
           c == Append(s, x)
<1>1. x \in Chunks /\ n \in Nat
  BY LengthAssumption DEF Chunks
<1> HIDE DEF x
<1>2. Append(b, x) \in Seq(Chunks) /\ s \in Seq(Chunks) /\ a \o Append(b, x) = c
  BY <1>1, AppendIsConcat, ConcatAssociative, ConcatProperties
<1>3. s = [i \in 1 .. n |-> <<f, i>>] /\ Len(s) = n
  BY DEF Pieces
<1>4. Len(c) = n + 1 /\ \A i \in 1 .. n + 1 : c[i] = IF i = n + 1 THEN x ELSE s[i]
  BY <1>1, <1>2, <1>3, AppendProperties
<1>5. c \in Seq(Chunks)
  BY <1>1, <1>2, AppendProperties
<1> HIDE DEF c, s
<1>6. \A i \in 1 .. n + 1 : c[i] = <<f, i>>
  <2>1. \A i \in 1 .. n : s[i] = <<f, i>>
    BY <1>3
  <2>2. \A i \in 1 .. n + 1 : i = n + 1 \/ i \in 1 .. n
    BY <1>1
  <2>3. c[n + 1] = <<f, n + 1>> /\ \A i \in 1 .. n : c[i] = s[i]
    BY <1>1, <1>4 DEF x
  <2> QED
    BY <2>1, <2>2, <2>3
<1>7. c = [i \in 1 .. n + 1 |-> <<f, i>>]
  <2>1. DOMAIN c = 1 .. n + 1 /\ c = [i \in DOMAIN c |-> c[i]]
    BY <1>4, <1>5
  <2> QED
    BY <1>6, <2>1
<1> QED
  BY <1>2, <1>4, <1>7 DEF Pieces, x

\* The chunk goes to the stream that the write found when it began.
LEMMA Puts ==
  ASSUME IInv, OneHand', NEW t \in Transports, thread[t].pc \in {"push_lock", "push_wait"}, stream[thread[t].target].active,
         stream' = [stream EXCEPT ![thread[t].target] = Pushed(@, Chunk(thread[t].call))], Accepts(t),
         UNCHANGED <<setting, front, shared, main, session, install>>
  PROVE  IInv'
<1> DEFINE f == thread[t].call
           to == thread[t].target
           x == <<f, upload[f].sent + 1>>
<1> USE DEF front, main, install, shared
<1>1. thread[t].pc \in Sending /\ thread[t].pc \in Pushing /\ thread[t].pc # "start_announce"
  BY DEF Sending, Pushing
<1>2. /\ f \in File /\ Origin(f) = t /\ upload[f].state = "open" /\ upload[f].sent \in 0 .. Length /\ upload[f].sent < Length
      /\ Moved(t) /\ thread'[t].pc = "idle" /\ Called(t)' /\ Aimed(t)'
      /\ upload' \in [File -> Uploads] /\ \A g \in File : g # f => upload'[g] = upload[g]
      /\ upload'[f].state = "open" /\ upload'[f].sent = upload[f].sent + 1
      /\ (t = "mtp" /\ queue[t] # << >> => in_progress[t])
  BY <1>1, Says
<1>3. to \in File /\ (Queued(f) => InProgress(f))
  BY <1>1, WritesInProgress DEF IInv, Fronts, Called
<1>4. x \in Chunks /\ stream \in [File -> Streams]
  BY <1>2, LengthAssumption DEF Chunks, IInv, Types, InstallTypes
<1>5. /\ stream' \in [File -> Streams] /\ \A g \in File : stream'[g].active = stream[g].active
      /\ stream'[to].buffer = Append(stream[to].buffer, x) /\ \A g \in File : g # to => stream'[g] = stream[g]
  <2>1. stream' = [stream EXCEPT ![to].buffer = Append(@, x)]
    BY <1>3, <1>4 DEF Pushed, Chunk
  <2>2. stream[to].buffer \in Seq(Chunks)
    BY <1>3, <1>4 DEF Streams
  <2>3. Append(stream[to].buffer, x) \in Seq(Chunks)
    BY <1>4, <2>2
  <2> DEFINE q == Append(stream[to].buffer, x)
  <2>4. stream[to] \in Streams /\ stream' = [stream EXCEPT ![to] = [stream[to] EXCEPT !.buffer = q]]
    BY <1>3, <1>4, <2>1
  <2> HIDE DEF x, to, q
  <2>5. /\ [stream[to] EXCEPT !.buffer = q] \in Streams /\ [stream[to] EXCEPT !.buffer = q].buffer = q
        /\ [stream[to] EXCEPT !.buffer = q].active = stream[to].active
    BY <2>3, <2>4 DEF Streams, q
  <2>6. stream' \in [File -> Streams] /\ stream'[to] = [stream[to] EXCEPT !.buffer = q] /\ \A g \in File : g # to => stream'[g] = stream[g]
    BY <1>3, <1>4, <2>4, <2>5
  <2> QED
    BY <2>5, <2>6 DEF q
<1> HIDE DEF f, to, x
<1> USE DEF IInv
<1>6. Types'
  BY <1>2, <1>5 DEF Types, FrontTypes, InstallTypes, Moved
<1>7. \A g \in File : (First(g)' <=> First(g)) /\ (InProgress(g)' <=> InProgress(g)) /\ (Queued(g)' <=> Queued(g))
  BY DEF First, InProgress, Queued
<1>8. \A g \in File : Announced(g)' <=> Announced(g)
  <2> SUFFICES ASSUME NEW g \in File PROVE Announced(g)' <=> Announced(g)
    OBVIOUS
  <2>1. Origin(g) \in Transports
    BY FileFacts
  <2> QED
    BY <1>1, <1>2, <2>1 DEF Announced, Moved
<1>9. \A g \in File : upload'[g].state = upload[g].state
  BY <1>2
<1>10. Fronts'
  <2>1. ASSUME NEW u \in Transports, u # t PROVE Called(u)'
    <3>1. Called(u) /\ thread'[u] = thread[u]
      BY <1>2, <2>1 DEF Fronts, Moved
    <3>2. \A g \in File : Origin(g) = u => upload'[g] = upload[g]
      BY <1>2, <2>1
    <3> QED
      BY <1>7, <3>1, <3>2 DEF Called
  <2>2. ASSUME NEW u \in Transports PROVE Lined(u)'
    <3>1. ToSet(queue[u]) \subseteq File
      BY DEF Types, FrontTypes, ToSet
    <3> QED
      BY <1>9, <3>1 DEF Fronts, Lined
  <2>3. OneByOne'
    BY <1>9 DEF Fronts, OneByOne
  <2>4. queue'["mtp"] # << >> => in_progress'["mtp"] \/ thread'["mtp"].pc \in Starting \cup {"try"}
    BY <1>2 DEF Fronts, Moved, Transports
  <2>5. (\A g \in failed : Origin(g) = "ftp")' /\ \A g \in File : upload'[g].state # "new" => setting'.load[Origin(g)] # 0
    BY <1>9 DEF Fronts
  <2> QED
    BY <1>2, <2>1, <2>2, <2>3, <2>4, <2>5 DEF Fronts
<1>11. Passed' /\ Opened'
  BY <1>2 DEF Passed, Opened, Moved
<1>12. Fresh' /\ Returned'
  <2>1. ASSUME NEW g \in File, upload'[g].state = "new" \/ (Queued(g)' /\ ~Announced(g)' /\ ~InProgress(g)') PROVE Unused(g)'
    <3>1. Unused(g)
      BY <1>7, <1>8, <1>9, <2>1 DEF Fresh
    <3>2. g # f
      BY <1>2, <1>3, <1>7, <2>1
    <3>3. g # to
      BY <3>1 DEF Unused, to
    <3> QED
      BY <1>2, <1>5, <3>1, <3>2, <3>3 DEF Unused
  <2> QED
    BY <2>1 DEF Fresh, Returned, MarkedOwn
<1>13. Sourced'
  BY <1>5, <1>7, <1>8, <1>9 DEF Sourced, Current
<1>14. Owned'
  <2> SUFFICES ASSUME Alone PROVE Owned'
    BY DEF Owned, Alone
  <2>1. to = f
    BY <1>1 DEF Owned, Aimed, to, f
  <2>2. ASSUME NEW u \in Transports PROVE Aimed(u)'
    <3>1. u # t /\ thread[u].pc \in Pushing => thread[u].target \in File
      BY DEF Fronts, Called
    <3> QED
      BY <1>2, <1>5, <3>1 DEF Owned, Aimed, Moved
  <2>3. ASSUME NEW g \in File, NEW i \in DOMAIN stream'[g].buffer PROVE stream'[g].buffer[i][1] = g
    <3>1. CASE g # f
      BY <1>5, <2>1, <2>3, <3>1 DEF Owned
    <3>2. CASE g = f
      <4>1. stream[f].buffer \in Seq(Chunks)
        BY <1>2, <1>4 DEF Streams
      <4>2. \A j \in DOMAIN stream[f].buffer : stream[f].buffer[j][1] = f
        BY <1>2 DEF Owned
      <4>3. stream'[f].buffer = Append(stream[f].buffer, x) /\ x[1] = f
        BY <1>5, <2>1 DEF x
      <4>4. PICK s \in Seq(Chunks) : s = stream[f].buffer
        BY <4>1
      <4>5. /\ Len(s) \in Nat /\ DOMAIN s = 1 .. Len(s) /\ DOMAIN Append(s, x) = 1 .. Len(s) + 1
            /\ Append(s, x)[Len(s) + 1] = x /\ \A j \in 1 .. Len(s) : Append(s, x)[j] = s[j]
        BY <1>4, AppendProperties, LenProperties
      <4>6. i \in 1 .. Len(s) + 1
        BY <2>3, <3>2, <4>3, <4>4, <4>5
      <4>7. Append(s, x)[i][1] = f
        BY <4>2, <4>3, <4>4, <4>5, <4>6
      <4> QED
        BY <3>2, <4>3, <4>4, <4>7
    <3> QED
      BY <3>1, <3>2
  <2>4. \A g \in File : Counted(g)' => Counted(g)
    <3> SUFFICES ASSUME NEW g \in File, Counted(g)' PROVE Counted(g)
      OBVIOUS
    <3>1. Origin(g) \in Transports
      BY FileFacts
    <3> QED
      BY <1>2, <3>1 DEF Counted, Moved
  <2>5. ASSUME NEW g \in File, g # f, Whole(g) PROVE Whole(g)'
    <3>1. stream'[g] = stream[g] /\ upload'[g] = upload[g] /\ worker' = worker
      BY <1>2, <1>5, <2>1, <2>5
    <3>2. Arrived(g)' = Arrived(g)
      BY <3>1 DEF Arrived, Taken
    <3> QED
      BY <2>4, <2>5, <3>1, <3>2 DEF Whole, Pieces
  <2>6. ASSUME NEW g \in File, g = f, g = worker.from \/ g = s_source PROVE Whole(g)'
    <3>1. Whole(g) /\ Counted(g) /\ stream[g].active
      BY <1>1, <1>2, <2>1, <2>6 DEF Owned, Counted, to
    <3>2. Arrived(g) = Pieces(g, Len(Arrived(g))) /\ Len(Arrived(g)) = upload[g].sent
      BY <1>2, <2>6, <3>1 DEF Whole
    <3> DEFINE a == Taken(g)
               b == stream[g].buffer
    <3>3. a \in Seq(Chunks) /\ b \in Seq(Chunks)
      BY <1>4 DEF Taken, Types, InstallTypes, Streams, Workers
    <3>4. a \o b = Pieces(g, Len(a \o b)) /\ Len(a \o b) = upload[g].sent
      BY <3>2 DEF Arrived
    <3>5. Arrived(g)' = a \o Append(b, <<g, upload[g].sent + 1>>)
      <4>1. Taken(g)' = a /\ stream'[g].buffer = Append(b, <<g, upload[g].sent + 1>>)
        BY <1>5, <2>1, <2>6 DEF Taken, x
      <4> QED
        BY <4>1 DEF Arrived
    <3> HIDE DEF a, b
    <3>6. upload[g].sent \in 0 .. Length /\ upload[g].sent < Length
      BY <1>2, <2>6
    <3> DEFINE c == a \o Append(b, <<g, upload[g].sent + 1>>)
    <3>7. c = Pieces(g, Len(c)) /\ Len(c) = upload[g].sent + 1
      BY <3>3, <3>4, <3>6, NextPiece
    <3>8. Arrived(g)' = c
      BY <3>5
    <3> HIDE DEF c
    <3>9. Arrived(g)' = Pieces(g, Len(Arrived(g)')) /\ Len(Arrived(g)') = upload'[g].sent
      BY <1>2, <2>6, <3>7, <3>8
    <3> QED
      BY <3>9 DEF Whole, Pieces
  <2> QED
    BY <2>2, <2>3, <2>5, <2>6 DEF Owned
<1> QED
  BY <1>6, <1>10, <1>11, <1>12, <1>13, <1>14

LEMMA KeepsPush == ASSUME IInv, OneHand', NEW t \in Transports, PushLock(t) \/ PushWait(t) PROVE IInv'
<1>1. UNCHANGED <<setting, front, shared, main, session, install>> /\ thread[t].pc \in {"push_lock", "push_wait"}
  BY DEF PushLock, PushWait, At, app
<1>2. thread[t].pc \in Sending /\ thread[t].pc \in Pushing
  BY <1>1 DEF Sending, Pushing
<1>3. CASE PushPut(t)
  <2>1. CASE stream[thread[t].target].active
    BY <1>1, <1>3, <2>1, Puts DEF PushPut, Call
  <2>2. CASE ~stream[thread[t].target].active
    BY <1>1, <1>2, <1>3, <2>2, KeepsAnswer DEF PushPut
  <2> QED
    BY <2>1, <2>2
<1>4. CASE ~PushPut(t)
  <2>1. Goto(t, "push_wait") /\ UNCHANGED <<host, stream>> /\ thread[t].pc = "push_lock"
    BY <1>1, <1>4 DEF PushLock, PushWait, At, host
  <2>2. "push_wait" \in Sending /\ "push_wait" \in Places
    BY DEF Sending, Places, Pushing
  <2>3. Moved(t) /\ thread'[t].pc = "push_wait" /\ thread'[t].call = thread[t].call /\ thread'[t].target = thread[t].target
    BY <2>1, <2>2, Goes DEF IInv
  <2>4. thread[t].target \in File /\ (Alone => Aimed(t)')
    BY <1>2, <2>1, <2>3 DEF IInv, Fronts, Called, Owned, Aimed
  <2> QED
    BY <1>1, <1>2, <2>1, <2>2, <2>3, <2>4, WritesOn
<1> QED
  BY <1>3, <1>4

\* A stream is made for a file that no install has seen.
LEMMA Publishes == ASSUME IInv, OneHand', NEW t \in Transports, NEW f \in File, f = thread[t].call, StartPublish(t) PROVE IInv'
<1> USE DEF IInv, front, main, install
<1>1. thread[t].pc = "start_publish" /\ UNCHANGED <<host, front, INSTALL_STATE, s_installing, main, session, install>>
  BY DEF StartPublish, At, app
<1>2. s_source' = f /\ stream' = [stream EXCEPT ![f] = NewStream] /\ "start_announce" \in Places
  BY DEF StartPublish, Call, Places, Starting, Claiming
<1>3. Moved(t) /\ thread'[t].pc = "start_announce" /\ thread'[t].call = f
  BY <1>2, Goes DEF StartPublish
<1>4. Origin(f) = t /\ First(f) /\ ~in_progress[t] /\ Queued(f)
  <2>1. Origin(f) = t /\ First(f) /\ ~in_progress[t]
    BY <1>1 DEF Fronts, Called, Starting, Claiming
  <2> QED
    BY <2>1 DEF First, Queued, ToSet, Types, FrontTypes
<1>5. Unused(f) /\ upload[f].state \in Live
  BY <1>1, <1>4 DEF Fresh, Announced, InProgress, Fronts, Lined, Queued
<1>6. events = << >> /\ ui \notin Handling /\ worker.pc \notin Installing /\ \A u \in Transports : thread[u].pc # "start_announce"
  BY <1>1, Excludes DEF Exclusive, Claiming
<1>7. stream' \in [File -> Streams] /\ stream'[f] = NewStream /\ \A g \in File : g # f => stream'[g] = stream[g]
  <2>1. NewStream \in Streams
    BY DEF NewStream, Streams
  <2> QED
    BY <1>2, <2>1 DEF Types, InstallTypes
<1>8. Types'
  BY <1>1, <1>2, <1>3, <1>7 DEF Types, FrontTypes, InstallTypes, Moved, host, Files
<1>9. \A g \in File : (First(g)' <=> First(g)) /\ (InProgress(g)' <=> InProgress(g)) /\ (Queued(g)' <=> Queued(g))
  BY <1>1 DEF First, InProgress, Queued
<1>10. \A g \in File : ~Announced(g) /\ (Announced(g)' <=> g = f)
  <2> SUFFICES ASSUME NEW g \in File PROVE ~Announced(g) /\ (Announced(g)' <=> g = f)
    OBVIOUS
  <2>1. Origin(g) \in Transports
    BY FileFacts
  <2> QED
    BY <1>3, <1>4, <1>6, <2>1 DEF Announced, Moved
<1>11. Fronts'
  <2>1. ASSUME NEW u \in Transports, u # t PROVE Called(u)'
    <3>1. Called(u) /\ thread'[u] = thread[u]
      BY <1>3, <2>1 DEF Fronts, Moved
    <3> QED
      BY <1>1, <1>9, <3>1 DEF Called, host
  <2>2. Called(t)'
    BY <1>1, <1>3, <1>4, <1>9 DEF Called, Sending, Pushing
  <2>3. \A u \in Transports : Lined(u)'
    BY <1>1 DEF Fronts, Lined, host
  <2>4. queue'["mtp"] # << >> => in_progress'["mtp"] \/ thread'["mtp"].pc \in Starting \cup {"try"}
    BY <1>1, <1>3 DEF Fronts, Moved, Transports, Starting, Claiming
  <2> QED
    BY <1>1, <2>1, <2>2, <2>3, <2>4 DEF Fronts, OneByOne, host
<1>12. Passed' /\ Opened'
  <2>1. ASSUME NEW u \in Transports, thread'[u].pc = "start_announce" PROVE s_source' = thread'[u].call /\ worker'.from # thread'[u].call
    BY <1>1, <1>2, <1>3, <1>5, <1>6, <2>1 DEF Moved, Unused
  <2>2. worker.from # s_source'
    BY <1>2, <1>5 DEF Unused
  <2> QED
    BY <1>1, <1>6, <2>1, <2>2 DEF Passed, Opened, Handling
<1>13. Fresh' /\ Returned'
  <2>1. ASSUME NEW g \in File, upload'[g].state = "new" \/ (Queued(g)' /\ ~Announced(g)' /\ ~InProgress(g)') PROVE Unused(g)'
    <3>1. Unused(g) /\ g # f
      BY <1>1, <1>5, <1>9, <1>10, <2>1 DEF Fresh, host, Live
    <3> QED
      BY <1>1, <1>2, <1>7, <3>1 DEF Unused, host
  <2>2. Returned'
    BY <1>1, <1>2, <1>5, <1>6 DEF Returned, MarkedOwn, Unused
  <2> QED
    BY <2>1, <2>2 DEF Fresh
<1>14. Sourced'
  BY <1>1, <1>2, <1>5, <1>7, <1>9, <1>10 DEF Sourced, Current, host
<1>15. Owned'
  <2> SUFFICES ASSUME Alone PROVE Owned'
    BY <1>1 DEF Owned, Alone, host
  <2>1. ASSUME NEW u \in Transports PROVE Aimed(u)'
    <3>1. CASE u = t
      BY <1>3, <3>1 DEF Aimed, Pushing
    <3>2. CASE u # t /\ thread[u].pc \in Pushing
      <4>1. thread[u].call \in File /\ Origin(thread[u].call) = u /\ upload[thread[u].call].state # "new"
        BY <3>2 DEF Fronts, Called, Sending
      <4>2. setting.load[u] # 0 /\ setting.load[t] # 0
        BY <1>4, <1>5, <4>1 DEF Fronts, Live
      <4> QED
        BY <3>2, <4>2 DEF Alone, Transports
    <3> QED
      BY <1>3, <3>1, <3>2 DEF Aimed, Moved
  <2>2. ASSUME NEW g \in File, NEW i \in DOMAIN stream'[g].buffer PROVE stream'[g].buffer[i][1] = g
    <3>1. CASE g = f
      BY <1>7, <2>2, <3>1 DEF NewStream
    <3> QED
      BY <1>7, <2>2, <3>1 DEF Owned
  <2>3. Whole(f)'
    <3>1. Arrived(f)' = << >> \o << >>
      BY <1>1, <1>5, <1>7 DEF Arrived, Taken, Unused, NewStream
    <3>2. Len(Arrived(f)') = 0 /\ Arrived(f)' = << >>
      BY <3>1
    <3>3. Pieces(f, 0) = << >> /\ upload'[f].sent = 0
      BY <1>1, <1>5 DEF Pieces, Unused, host
    <3> QED
      BY <3>2, <3>3 DEF Whole, Pieces
  <2>4. ASSUME NEW g \in File, g # f, g = worker.from PROVE Whole(g)'
    <3>1. Arrived(g)' = Arrived(g) /\ Whole(g)
      BY <1>1, <1>7, <2>4 DEF Arrived, Taken, Owned
    <3>2. stream'[g].active /\ upload'[g].state = "open" => upload[g].state # "new" /\ Current(g) /\ upload[g].state = "open" /\ stream[g].active
      BY <1>1, <1>7, <2>4 DEF Sourced, Live, host
    <3>3. stream'[g].active /\ upload'[g].state = "open" => Origin(g) # t
      BY <1>4, <1>10, <3>2 DEF Current, InProgress
    <3>4. Origin(g) \in Transports
      BY FileFacts
    <3>5. stream'[g].active /\ upload'[g].state = "open" /\ Counted(g)' => Counted(g)
      BY <1>1, <1>3, <3>3, <3>4 DEF Counted, Moved
    <3> QED
      BY <1>1, <3>1, <3>2, <3>5 DEF Whole, Pieces, host
  <2> QED
    BY <1>1, <1>2, <2>1, <2>2, <2>3, <2>4 DEF Owned
<1> QED
  BY <1>8, <1>11, <1>12, <1>13, <1>14, <1>15

\* The file is announced to the main thread, and is in progress.
LEMMA Announces == ASSUME IInv, OneHand', NEW t \in Transports, NEW f \in File, f = thread[t].call, StartAnnounce(t) PROVE IInv'
<1> USE DEF IInv, install
<1>1. /\ thread[t].pc = "start_announce" /\ INSTALL_STATE' = "none" /\ events' = Append(events, f)
      /\ in_progress' = [in_progress EXCEPT ![t] = TRUE] /\ Returns(t)
      /\ UNCHANGED <<host, queue, failed, s_source, s_installing, stream, ui, handling, session, install>>
  BY DEF StartAnnounce, At, app, Call
<1>2. Moved(t) /\ thread'[t] = Idle
  BY <1>1, GoesIdle
<1>3. thread'[t].pc = "idle"
  BY <1>2 DEF Idle
<1>4. Called(t)' /\ Aimed(t)'
  BY <1>2, IdleOwes
<1>5. Origin(f) = t /\ First(f) /\ ~in_progress[t] /\ s_source = f /\ worker.from # f
  BY <1>1 DEF Fronts, Called, Starting, Claiming, Passed
<1>6. /\ events = << >> /\ ui \notin Handling /\ worker.pc \notin Installing
      /\ \A u \in Transports : u # t => thread[u].pc # "start_announce"
  BY <1>1, Excludes DEF Exclusive, Claiming
<1>7. in_progress' \in [Transports -> BOOLEAN] /\ in_progress'[t] = TRUE /\ \A u \in Transports : u # t => in_progress'[u] = in_progress[u]
  BY <1>1 DEF Types, FrontTypes
<1>8. events' = <<f>> /\ events' \in Seq(File) /\ Head(events') = f
  BY <1>1, <1>6
<1>9. Types'
  BY <1>1, <1>2, <1>7, <1>8 DEF Types, FrontTypes, InstallTypes, Moved, host
<1>10. \A g \in File : (First(g)' <=> First(g)) /\ (Queued(g)' <=> Queued(g)) /\ (Announced(g) => g = f) /\ ~Announced(g)'
                       /\ (Announced(g) <=> g = f) /\ (InProgress(g)' <=> InProgress(g) \/ g = f) /\ (InProgress(g) => Origin(g) # t)
  <2> SUFFICES ASSUME NEW g \in File
               PROVE  /\ (First(g)' <=> First(g)) /\ (Queued(g)' <=> Queued(g)) /\ ~Announced(g)'
                      /\ (Announced(g) <=> g = f) /\ (InProgress(g)' <=> InProgress(g) \/ g = f) /\ (InProgress(g) => Origin(g) # t)
    OBVIOUS
  <2>1. Origin(g) \in Transports
    BY FileFacts
  <2>2. (First(g)' <=> First(g)) /\ (Queued(g)' <=> Queued(g))
    BY <1>1 DEF First, Queued
  <2>3. Announced(g) <=> g = f
    BY <1>1, <1>5, <1>6, <2>1 DEF Announced
  <2>4. ~Announced(g)'
    BY <1>2, <1>3, <1>6, <2>1 DEF Announced, Moved
  <2>5. InProgress(g) => Origin(g) # t
    BY <1>5 DEF InProgress
  <2>6. Origin(g) = t => (First(g) <=> g = f)
    BY <1>5 DEF First
  <2>7. InProgress(g)' <=> InProgress(g) \/ g = f
    BY <1>5, <1>7, <2>1, <2>2, <2>6 DEF InProgress
  <2> QED
    BY <2>2, <2>3, <2>4, <2>5, <2>7
<1>11. Fronts'
  <2>1. ASSUME NEW u \in Transports, u # t PROVE Called(u)'
    <3>1. Called(u) /\ thread'[u] = thread[u] /\ in_progress'[u] = in_progress[u]
      BY <1>2, <1>7, <2>1 DEF Fronts, Moved
    <3> QED
      BY <1>1, <1>10, <3>1 DEF Called, host
  <2>2. ASSUME NEW u \in Transports PROVE Lined(u)'
    BY <1>1, <1>5, <1>7 DEF Fronts, Lined, host, First
  <2>3. queue'["mtp"] # << >> => in_progress'["mtp"] \/ thread'["mtp"].pc \in Starting \cup {"try"}
    BY <1>1, <1>2, <1>7 DEF Fronts, Moved, Transports
  <2> QED
    BY <1>1, <1>4, <2>1, <2>2, <2>3 DEF Fronts, OneByOne, host
<1>12. Passed' /\ Opened'
  <2>1. ASSUME NEW u \in Transports PROVE thread'[u].pc # "start_announce"
    BY <1>2, <1>3, <1>6 DEF Moved
  <2> QED
    BY <1>1, <1>5, <1>6, <1>8, <2>1 DEF Passed, Opened, Handling
<1>13. Fresh' /\ Returned'
  BY <1>1, <1>10 DEF Fresh, Unused, Returned, MarkedOwn, host
<1>14. Sourced'
  BY <1>1, <1>10 DEF Sourced, Current, host
<1>15. Owned'
  <2> SUFFICES ASSUME Alone PROVE Owned'
    BY <1>1 DEF Owned, Alone, host
  <2>1. ASSUME NEW u \in Transports PROVE Aimed(u)'
    BY <1>1, <1>2, <1>4, <2>1 DEF Owned, Aimed, Moved
  <2>2. Whole(f)'
    <3>1. Whole(f) /\ Counted(f)
      BY <1>1, <1>5 DEF Owned, Counted
    <3>2. Arrived(f)' = Arrived(f)
      BY <1>1 DEF Arrived, Taken
    <3> QED
      BY <1>1, <3>1, <3>2 DEF Whole, Pieces, host
  <2>3. ASSUME NEW g \in File, g # f, g = worker.from PROVE Whole(g)'
    <3>1. Arrived(g)' = Arrived(g) /\ Whole(g)
      BY <1>1, <2>3 DEF Arrived, Taken, Owned
    <3>2. upload[f].state # "new" /\ Origin(g) \in Transports
      BY <1>5, FileFacts DEF Sourced, Current, Live, Over
    <3>3. ~(stream[g].active /\ upload[g].state = "open")
      <4> SUFFICES ASSUME stream[g].active, upload[g].state = "open" PROVE FALSE
        OBVIOUS
      <4>1. Current(g)
        BY DEF Sourced, Live
      <4>2. setting.load[Origin(g)] # 0 /\ setting.load[t] # 0
        BY <1>5, <3>2 DEF Fronts
      <4>3. Origin(g) # t
        BY <1>10, <2>3, <4>1 DEF Current
      <4> QED
        BY <3>2, <4>2, <4>3 DEF Alone, Transports
    <3> QED
      BY <1>1, <3>1, <3>3 DEF Whole, Pieces, host
  <2> QED
    BY <1>1, <1>5, <2>1, <2>2, <2>3 DEF Owned
<1> QED
  BY <1>9, <1>11, <1>12, <1>13, <1>14, <1>15

\* The client sends a new file.
LEMMA Opens == ASSUME IInv, OneHand', NEW t \in Transports, Open(t) PROVE IInv'
<1> USE DEF IInv, main, install, shared
<1>1. PICK f \in File :
       /\ Origin(f) = t /\ f[2] <= setting.load[t] /\ upload[f].state = "new"
       /\ \A g \in File : Origin(g) = t /\ g[2] < f[2] => upload[g].state \in Over \cup (IF t = "mtp" THEN {} ELSE {"open", "refused"})
       /\ upload' = [upload EXCEPT ![f].state = "open"]
       /\ queue' = [queue EXCEPT ![t] = Append(@, f)]
       /\ session' = IF t = "ftp" /\ session.origin = t THEN [session EXCEPT !.todo = @ \cup {f}] ELSE session
  BY DEF Open
<1>2. thread[t].pc = "idle" /\ UNCHANGED <<setting, in_progress, failed, shared, stream, main, install>>
  BY DEF Open, At
<1>3. Moved(t) /\ thread'[t].pc = "try"
  <2>1. "try" \in Places
    BY DEF Places
  <2> QED
    BY <2>1, Goes DEF Open
<1>4. SameSession
  BY <1>1 DEF SameSession, Types, InstallTypes, Sessions
<1>5. /\ upload' \in [File -> Uploads] /\ upload'[f].state = "open" /\ upload'[f].sent = upload[f].sent
      /\ \A g \in File : g # f => upload'[g] = upload[g]
  <2>1. "open" \in Upload
    BY DEF Upload
  <2> QED
    BY <1>1, <2>1 DEF Types, FrontTypes, Uploads
<1>6. \A u \in Transports : IsInjective(queue[u]) /\ f \notin ToSet(queue[u]) /\ queue[u] \in Seq(File)
  BY <1>1 DEF Fronts, Lined, Live, Types, FrontTypes
<1>7. /\ Append(queue[t], f) \in Seq(File) /\ IsInjective(Append(queue[t], f)) /\ Append(queue[t], f) # << >>
      /\ ToSet(Append(queue[t], f)) = ToSet(queue[t]) \cup {f}
      /\ Head(Append(queue[t], f)) = IF queue[t] = << >> THEN f ELSE Head(queue[t])
  BY <1>6, Joins
<1>8. queue' \in [Transports -> Seq(File)] /\ queue'[t] = Append(queue[t], f) /\ \A u \in Transports : u # t => queue'[u] = queue[u]
  BY <1>1, <1>7 DEF Types, FrontTypes
<1>9. Types'
  BY <1>2, <1>3, <1>4, <1>5, <1>8 DEF Types, FrontTypes, InstallTypes, Moved, SameSession
<1>10. \A g \in File : (Queued(g)' <=> Queued(g) \/ g = f) /\ (InProgress(g)' <=> InProgress(g)) /\ (Announced(g)' <=> Announced(g))
                       /\ ~Queued(f) /\ ~InProgress(f) /\ (First(g) => First(g)')
  <2> SUFFICES ASSUME NEW g \in File
               PROVE  /\ (Queued(g)' <=> Queued(g) \/ g = f) /\ (InProgress(g)' <=> InProgress(g)) /\ (Announced(g)' <=> Announced(g))
                      /\ ~Queued(f) /\ ~InProgress(f) /\ (First(g) => First(g)')
    OBVIOUS
  <2>1. Origin(g) \in Transports
    BY FileFacts
  <2>2. (Queued(g)' <=> Queued(g) \/ g = f) /\ ~Queued(f)
    BY <1>1, <1>6, <1>7, <1>8, <2>1 DEF Queued
  <2>3. ~First(f)
    BY <1>1, <1>6 DEF First, ToSet
  <2>4. First(g) => First(g)'
    BY <1>7, <1>8, <2>1 DEF First
  <2>5. in_progress[Origin(g)] => (First(g)' <=> First(g))
    BY <1>7, <1>8, <2>1 DEF First, Fronts, Lined
  <2>6. InProgress(g)' <=> InProgress(g)
    BY <1>2, <2>5 DEF InProgress
  <2>7. Announced(g)' <=> Announced(g)
    BY <1>2, <1>3, <2>1 DEF Announced, Moved
  <2> QED
    BY <2>2, <2>3, <2>4, <2>6, <2>7 DEF InProgress
<1>11. Fronts'
  <2>1. ASSUME NEW u \in Transports PROVE Called(u)'
    <3>1. CASE u = t
      BY <1>3, <3>1 DEF Called, Starting, Claiming, Sending, Pushing
    <3>2. CASE u # t
      <4>1. Called(u) /\ thread'[u] = thread[u]
        BY <1>3, <3>2 DEF Fronts, Moved
      <4>2. \A g \in File : Origin(g) = u => upload'[g] = upload[g]
        BY <1>1, <1>5, <3>2
      <4> QED
        BY <1>2, <1>10, <4>1, <4>2 DEF Called
    <3> QED
      BY <3>1, <3>2
  <2>2. ASSUME NEW u \in Transports PROVE Lined(u)'
    <3>1. Lined(u)
      BY DEF Fronts
    <3>2. \A g \in ToSet(queue'[u]) : Origin(g) = u /\ upload'[g].state \in Live
      <4>1. ToSet(queue[u]) \subseteq File
        BY <1>6 DEF ToSet
      <4> QED
        BY <1>1, <1>5, <1>6, <1>7, <1>8, <3>1, <4>1 DEF Lined, Live
    <3>3. IsInjective(queue'[u]) /\ (in_progress'[u] => queue'[u] # << >>)
      BY <1>2, <1>7, <1>8, <3>1 DEF Lined
    <3> QED
      BY <3>2, <3>3 DEF Lined
  <2>3. OneByOne'
    <3> SUFFICES ASSUME NEW a \in File, NEW b \in File, Origin(a) = "mtp", Origin(b) = "mtp", b[2] < a[2], upload'[a].state # "new"
                 PROVE  upload'[b].state \in Over
      BY DEF OneByOne
    <3>1. CASE a = f
      <4>1. b # f /\ upload[b].state \in Over
        BY <1>1, <3>1, FileFacts
      <4> QED
        BY <1>5, <4>1
    <3>2. CASE a # f
      <4>1. upload[b].state \in Over
        BY <1>5, <3>2 DEF Fronts, OneByOne
      <4> QED
        BY <1>1, <1>5, <4>1 DEF Over
    <3> QED
      BY <3>1, <3>2
  <2>4. queue'["mtp"] # << >> => in_progress'["mtp"] \/ thread'["mtp"].pc \in Starting \cup {"try"}
    BY <1>2, <1>3, <1>8 DEF Fronts, Moved, Transports
  <2>5. \A g \in File : upload'[g].state # "new" => setting'.load[Origin(g)] # 0
    <3>1. f[2] \in Nat /\ f[2] >= 1
      BY FileFacts
    <3>2. setting.load[t] \in Nat
      BY SettingFacts DEF Types, FrontTypes, Transports
    <3>3. setting.load[t] # 0
      BY <1>1, <3>1, <3>2
    <3> QED
      BY <1>1, <1>2, <1>5, <3>3 DEF Fronts
  <2> QED
    BY <1>2, <2>1, <2>2, <2>3, <2>4, <2>5 DEF Fronts
<1>12. Unused(f)
  BY <1>1 DEF Fresh
<1>13. Passed' /\ Opened'
  <2>1. ASSUME NEW u \in Transports, thread'[u].pc = "start_announce" PROVE s_source' = thread'[u].call /\ worker'.from # thread'[u].call
    BY <1>2, <1>3, <2>1 DEF Moved, Passed
  <2> QED
    BY <1>2, <1>4, <2>1 DEF Passed, Opened, SameSession
<1>14. Fresh' /\ Returned'
  <2>1. ASSUME NEW g \in File, upload'[g].state = "new" \/ (Queued(g)' /\ ~Announced(g)' /\ ~InProgress(g)') PROVE Unused(g)'
    <3>1. Unused(g)
      BY <1>5, <1>10, <1>12, <2>1 DEF Fresh
    <3> QED
      BY <1>2, <1>5, <3>1 DEF Unused
  <2> QED
    BY <1>2, <2>1 DEF Fresh, Returned, MarkedOwn
<1>15. Sourced'
  <2>1. s_source # f /\ ~stream[f].active
    BY <1>12 DEF Unused
  <2> QED
    BY <1>2, <1>5, <1>10, <2>1 DEF Sourced, Current
<1>16. Owned'
  <2> SUFFICES ASSUME Alone PROVE Owned'
    BY <1>2 DEF Owned, Alone
  <2>1. ASSUME NEW u \in Transports PROVE Aimed(u)'
    BY <1>2, <1>3 DEF Owned, Aimed, Moved, Pushing
  <2>2. \A g \in File : Counted(g)' => Counted(g)
    <3> SUFFICES ASSUME NEW g \in File, Counted(g)' PROVE Counted(g)
      OBVIOUS
    <3>1. Origin(g) \in Transports
      BY FileFacts
    <3> QED
      BY <1>2, <1>3, <3>1 DEF Counted, Moved
  <2>3. ASSUME NEW g \in File, g = worker.from \/ g = s_source PROVE Whole(g)'
    <3>1. g # f /\ Whole(g)
      BY <1>12, <2>3 DEF Unused, Owned
    <3>2. Arrived(g)' = Arrived(g)
      BY <1>2 DEF Arrived, Taken
    <3> QED
      BY <1>2, <1>5, <2>2, <3>1, <3>2 DEF Whole, Pieces
  <2> QED
    BY <1>2, <2>1, <2>3 DEF Owned
<1> QED
  BY <1>9, <1>11, <1>13, <1>14, <1>15, <1>16

\* vfs_install_close, after the last file.
LEMMA KeepsSummary == ASSUME IInv, OneHand', CloseSummary PROVE IInv'
<1>1. thread["ftp"].pc = "summary" /\ "ftp" \in Transports /\ "try" \in Places
  BY DEF CloseSummary, At, Transports, Places
<1>2. Moved("ftp") /\ thread'["ftp"].pc = "try"
  BY <1>1, Goes DEF CloseSummary, IInv
<1>3. SameSession
  BY DEF CloseSummary, Summary, SameSession, IInv, Types, InstallTypes, Sessions
<1>4. Called("ftp")' /\ Aimed("ftp")'
  BY <1>2 DEF Called, Aimed, Starting, Claiming, Sending, Pushing
<1>5. s_installing' \in BOOLEAN
  BY DEF CloseSummary, shared, IInv, Types, InstallTypes
<1> QED
  BY <1>1, <1>2, <1>3, <1>4, <1>5, GoesOn DEF CloseSummary, shared

-----------------------------------------------------------------------------
(* Streams are closed, by whoever closes them. *)
Quieter ==
  /\ stream' \in [File -> Streams]
  /\ \A g \in File : stream'[g].buffer = stream[g].buffer /\ (stream'[g].active => stream[g].active)

LEMMA Quiets == ASSUME Types, UNCHANGED stream PROVE Quieter
BY DEF Types, InstallTypes, Quieter

LEMMA Shuts == ASSUME Types, NEW f \in Files, Closed(f) PROVE Quieter /\ (f \in File => ~stream'[f].active)
<1>1. stream \in [File -> Streams]
  BY DEF Types, InstallTypes
<1>2. CASE f = None
  BY <1>2, FileFacts, Quiets DEF Closed
<1>3. CASE f # None
  <2>1. f \in File /\ stream' = [stream EXCEPT ![f] = [stream[f] EXCEPT !.active = FALSE]]
    BY <1>3 DEF Files, Closed, Disabled
  <2>2. stream[f] \in Streams
    BY <1>1, <2>1
  <2> DEFINE q == [stream[f] EXCEPT !.active = FALSE]
  <2>3. q \in Streams /\ ~q.active /\ q.buffer = stream[f].buffer
    BY <2>2 DEF Streams
  <2> HIDE DEF q
  <2>5. stream' = [stream EXCEPT ![f] = q]
    BY <2>1 DEF q
  <2>6. stream' \in [File -> Streams] /\ stream'[f] = q /\ \A g \in File : g # f => stream'[g] = stream[g]
    BY <1>1, <2>1, <2>3, <2>5
  <2>7. ASSUME NEW g \in File PROVE stream'[g].buffer = stream[g].buffer /\ (stream'[g].active => stream[g].active)
    <3>1. CASE g = f
      BY <2>3, <2>6, <3>1
    <3>2. CASE g # f
      BY <2>6, <3>2
    <3> QED
      BY <3>1, <3>2
  <2>8. ~stream'[f].active
    BY <2>3, <2>6
  <2>9. Quieter
    BY <2>6, <2>7, Zenon DEF Quieter
  <2> QED
    BY <2>8, <2>9
<1> QED
  BY <1>2, <1>3

\* What an install reads and has read is the same when streams are closed.
LEMMA QuietWhole ==
  ASSUME Quieter, NEW f \in File, Whole(f), worker'.from = worker.from, worker'.got = worker.got,
         upload'[f] = upload[f] \/ upload'[f].state # "open", Counted(f)' => Counted(f)
  PROVE  Whole(f)'
<1>1. Arrived(f)' = Arrived(f)
  BY DEF Arrived, Taken, Quieter
<1> QED
  BY <1>1 DEF Whole, Pieces, Quieter

-----------------------------------------------------------------------------
\* The client closes its file, and with it the stream the file is read from.
LEMMA KeepsClose == ASSUME IInv, OneHand', NEW t \in Transports, Close(t) PROVE IInv'
<1> USE DEF IInv, main, install, shared
<1>1. PICK f \in File :
       /\ Closes(t, f)
       /\ in_progress' = [in_progress EXCEPT ![t] = @ /\ ~Handed(t, f)]
       /\ IF Handed(t, f) THEN Closed(s_source) ELSE UNCHANGED stream
  BY DEF Close
<1>2. /\ thread[t].pc = "idle" /\ UNCHANGED <<setting, failed, shared, main, session, install>>
      /\ Origin(f) = t /\ upload[f].state \in Live
      /\ queue' = [queue EXCEPT ![t] = RemoveFirst(@, f)]
      /\ upload' = [upload EXCEPT ![f] = [sent |-> 0, state |-> IF upload[f].sent = Length THEN "closed" ELSE "cut"]]
      /\ \E to \in {"summary", "try"} : Goto(t, to)
  BY <1>1 DEF Closes, At, app, Live
<1>3. PICK to \in {"summary", "try"} : Goto(t, to)
  BY <1>2
<1>4. Moved(t) /\ thread'[t].pc = to /\ to \in {"summary", "try"} /\ (t = "mtp" => to = "try")
  <2>1. to \in Places
    BY DEF Places
  <2>2. Moved(t) /\ thread'[t].pc = to
    BY <1>3, <2>1, Goes
  <2>3. t = "mtp" => thread'[t].pc = "try"
    <3>1. "try" \in Places
      BY DEF Places
    <3>2. t = "mtp" => Goto(t, "try")
      BY <1>1 DEF Closes
    <3> QED
      BY <3>1, <3>2, Goes
  <2> QED
    BY <2>2, <2>3
<1>5. upload' \in [File -> Uploads] /\ upload'[f].state \in Over /\ \A g \in File : g # f => upload'[g] = upload[g]
  <2> DEFINE x == [sent |-> 0, state |-> IF upload[f].sent = Length THEN "closed" ELSE "cut"]
  <2>1. x \in Uploads /\ x.state \in Over
    BY LengthAssumption DEF Uploads, Upload, Over
  <2> HIDE DEF x
  <2>2. upload' = [upload EXCEPT ![f] = x]
    BY <1>2 DEF x
  <2> QED
    BY <2>1, <2>2 DEF Types, FrontTypes
<1>6. Quieter
  BY <1>1, Shuts, Quiets DEF Types, InstallTypes
<1>7. \A u \in Transports : IsInjective(queue[u]) /\ queue[u] \in Seq(File)
  BY DEF Fronts, Lined, Types, FrontTypes
<1>8. /\ RemoveFirst(queue[t], f) \in Seq(File) /\ IsInjective(RemoveFirst(queue[t], f))
      /\ ToSet(RemoveFirst(queue[t], f)) = ToSet(queue[t]) \ {f}
      /\ queue[t] # << >> /\ Head(queue[t]) # f => RemoveFirst(queue[t], f) # << >> /\ Head(RemoveFirst(queue[t], f)) = Head(queue[t])
  BY <1>7, Leaves
<1>9. queue' \in [Transports -> Seq(File)] /\ queue'[t] = RemoveFirst(queue[t], f) /\ \A u \in Transports : u # t => queue'[u] = queue[u]
  BY <1>2, <1>8 DEF Types, FrontTypes
<1>10. /\ in_progress' \in [Transports -> BOOLEAN] /\ (in_progress'[t] <=> in_progress[t] /\ ~Handed(t, f))
       /\ \A u \in Transports : u # t => in_progress'[u] = in_progress[u]
  <2>1. in_progress \in [Transports -> BOOLEAN] /\ (in_progress[t] /\ ~Handed(t, f)) \in BOOLEAN
    BY DEF Types, FrontTypes
  <2> QED
    BY <1>1, <2>1
<1>11. \A g \in File : Announced(g)' <=> Announced(g)
  <2> SUFFICES ASSUME NEW g \in File PROVE Announced(g)' <=> Announced(g)
    OBVIOUS
  <2>1. Origin(g) \in Transports
    BY FileFacts
  <2> QED
    BY <1>2, <1>4, <2>1 DEF Announced, Moved
<1>12. \A g \in File : (Queued(g)' <=> Queued(g) /\ g # f)
  <2> SUFFICES ASSUME NEW g \in File PROVE Queued(g)' <=> Queued(g) /\ g # f
    OBVIOUS
  <2>1. Origin(g) \in Transports
    BY FileFacts
  <2> QED
    BY <1>2, <1>8, <1>9, <2>1 DEF Queued
\* The other files of the transport are not MTP's, and none but the first of FTP is in progress.
<1>13. \A g \in File : g # f /\ upload[g].state \in Live => (InProgress(g)' <=> InProgress(g)) /\ (Queued(g) /\ First(g) => First(g)')
  <2> SUFFICES ASSUME NEW g \in File, g # f, upload[g].state \in Live
               PROVE  (InProgress(g)' <=> InProgress(g)) /\ (Queued(g) /\ First(g) => First(g)')
    OBVIOUS
  <2>1. Origin(g) \in Transports
    BY FileFacts
  <2>2. CASE Origin(g) # t
    BY <1>9, <1>10, <2>1, <2>2 DEF InProgress, First
  <2>3. CASE Origin(g) = t
    <3>1. t = "ftp"
      BY <1>2, <2>3, MtpHasOne DEF Transports
    <3>2. Handed(t, f) <=> in_progress[t] /\ f = Head(queue[t])
      BY <3>1 DEF Handed
    <3>3. First(g) => First(g)'
      BY <1>8, <1>9, <2>3 DEF First
    <3>4. InProgress(g) => InProgress(g)'
      BY <1>10, <2>3, <3>2, <3>3 DEF InProgress, First
    <3>5. in_progress'[t] => queue[t] # << >> /\ Head(queue[t]) # f
      BY <1>10, <3>2 DEF Fronts, Lined
    <3>6. InProgress(g)' => InProgress(g)
      BY <1>8, <1>9, <1>10, <2>3, <3>5 DEF InProgress, First
    <3> QED
      BY <3>3, <3>4, <3>6
  <2> QED
    BY <2>2, <2>3
<1>14. Types'
  BY <1>2, <1>4, <1>5, <1>6, <1>9, <1>10 DEF Types, FrontTypes, InstallTypes, Moved, Quieter
<1>15. Fronts'
  <2>1. ASSUME NEW u \in Transports PROVE Called(u)'
    <3>1. CASE u = t
      BY <1>4, <3>1 DEF Called, Starting, Claiming, Sending, Pushing
    <3>2. CASE u # t
      <4>1. Called(u) /\ thread'[u] = thread[u] /\ queue'[u] = queue[u] /\ in_progress'[u] = in_progress[u]
        BY <1>4, <1>9, <1>10, <3>2 DEF Fronts, Moved
      <4>2. \A g \in File : Origin(g) = u => upload'[g] = upload[g] /\ (First(g)' <=> First(g)) /\ (InProgress(g)' <=> InProgress(g))
        BY <1>2, <1>5, <3>2, <4>1 DEF First, InProgress
      <4> QED
        BY <1>2, <4>1, <4>2 DEF Called
    <3> QED
      BY <3>1, <3>2
  <2>2. ASSUME NEW u \in Transports PROVE Lined(u)'
    <3>1. Lined(u) /\ ToSet(queue[u]) \subseteq File
      BY <1>7 DEF Fronts, ToSet
    <3>2. CASE u # t
      <4>1. f \notin ToSet(queue[u])
        BY <1>2, <3>1, <3>2 DEF Lined
      <4> QED
        BY <1>5, <1>9, <1>10, <3>1, <3>2, <4>1 DEF Lined
    <3>3. CASE u = t
      <4>1. \A g \in ToSet(queue'[t]) : Origin(g) = t /\ upload'[g].state \in Live
        BY <1>5, <1>8, <1>9, <3>1, <3>3 DEF Lined
      <4>2. in_progress'[t] => queue'[t] # << >>
        <5> SUFFICES ASSUME in_progress'[t] PROVE queue'[t] # << >>
          OBVIOUS
        <5>1. in_progress[t] /\ ~Handed(t, f) /\ queue[t] # << >>
          BY <1>10, <3>1, <3>3 DEF Lined
        <5>2. Head(queue[t]) # f
          BY <5>1 DEF Handed
        <5> QED
          BY <1>8, <1>9, <5>1, <5>2
      <4> QED
        BY <1>8, <1>9, <3>3, <4>1, <4>2 DEF Lined
    <3> QED
      BY <3>2, <3>3
  <2>3. OneByOne'
    <3> SUFFICES ASSUME NEW a \in File, NEW b \in File, Origin(a) = "mtp", Origin(b) = "mtp", b[2] < a[2], upload'[a].state # "new"
                 PROVE  upload'[b].state \in Over
      BY DEF OneByOne
    <3>1. upload[a].state # "new"
      BY <1>2, <1>5 DEF Live
    <3>2. upload[b].state \in Over
      BY <3>1 DEF Fronts, OneByOne
    <3> QED
      BY <1>5, <3>2
  <2>4. queue'["mtp"] # << >> => in_progress'["mtp"] \/ thread'["mtp"].pc \in Starting \cup {"try"}
    BY <1>4, <1>9, <1>10 DEF Fronts, Moved, Transports
  <2>5. \A g \in File : upload'[g].state # "new" => setting'.load[Origin(g)] # 0
    BY <1>2, <1>5 DEF Fronts, Live
  <2> QED
    BY <1>2, <2>1, <2>2, <2>3, <2>4, <2>5 DEF Fronts
<1>16. Passed' /\ Opened'
  <2>1. ASSUME NEW u \in Transports, thread'[u].pc = "start_announce" PROVE s_source' = thread'[u].call /\ worker'.from # thread'[u].call
    BY <1>2, <1>4, <2>1 DEF Moved, Passed
  <2> QED
    BY <1>2, <2>1 DEF Passed, Opened
<1>17. Fresh' /\ Returned'
  <2>1. ASSUME NEW g \in File, upload'[g].state = "new" \/ (Queued(g)' /\ ~Announced(g)' /\ ~InProgress(g)') PROVE Unused(g)'
    <3>1. g # f
      BY <1>5, <1>12, <2>1 DEF Over
    <3>2. upload'[g] = upload[g]
      BY <1>5, <3>1
    <3>3. Queued(g)' => Queued(g) /\ upload[g].state \in Live
      <4>1. Origin(g) \in Transports
        BY FileFacts
      <4> QED
        BY <1>12, <4>1 DEF Fronts, Lined, Queued
    <3>4. Unused(g)
      BY <1>11, <1>13, <2>1, <3>1, <3>2, <3>3 DEF Fresh
    <3> QED
      BY <1>2, <1>6, <3>2, <3>4 DEF Unused, Quieter
  <2> QED
    BY <1>2, <2>1 DEF Fresh, Returned, MarkedOwn
<1>18. Sourced'
  <2>1. ASSUME s_source \in File PROVE Current(s_source)' \/ (upload'[s_source].state \in Over /\ ~stream'[s_source].active)
    <3>1. Current(s_source) \/ (upload[s_source].state \in Over /\ ~stream[s_source].active)
      BY <2>1 DEF Sourced
    <3>2. CASE s_source = f
      <4>1. InProgress(f)
        BY <1>2, <3>1, <3>2 DEF Current, Live, Over, Announced
      <4>2. Handed(t, f)
        BY <1>2, <4>1 DEF Handed, InProgress, First
      <4>3. ~stream'[f].active
        <5>1. Closed(f)
          BY <1>1, <3>2, <4>2
        <5> QED
          BY <5>1, Shuts DEF Files
      <4> QED
        BY <1>5, <3>2, <4>3
    <3>3. CASE s_source # f
      <4>1. upload'[s_source] = upload[s_source] /\ (stream'[s_source].active => stream[s_source].active)
        BY <1>5, <1>6, <2>1, <3>3 DEF Quieter
      <4>2. Current(s_source) => Current(s_source)'
        BY <1>2, <1>11, <1>13, <2>1, <3>3, <4>1 DEF Current
      <4> QED
        BY <3>1, <4>1, <4>2
    <3> QED
      BY <3>2, <3>3
  <2>2. ASSUME NEW g \in File, stream'[g].active, upload'[g].state \in Live PROVE Current(g)'
    <3>1. g # f /\ upload'[g] = upload[g] /\ stream[g].active
      BY <1>5, <1>6, <2>2 DEF Live, Over, Quieter
    <3>2. Current(g)
      BY <2>2, <3>1 DEF Sourced
    <3> QED
      BY <1>11, <1>13, <2>2, <3>1, <3>2 DEF Current
  <2> QED
    BY <1>2, <2>1, <2>2 DEF Sourced
<1>19. Owned'
  <2> SUFFICES ASSUME Alone PROVE Owned'
    BY <1>2 DEF Owned, Alone
  <2>1. ASSUME NEW u \in Transports PROVE Aimed(u)'
    <3>1. thread[u].pc \in Pushing => thread[u].target \in File
      BY DEF Fronts, Called
    <3> QED
      BY <1>4, <1>6, <3>1 DEF Owned, Aimed, Moved, Pushing, Quieter
  <2>2. \A g \in File : Counted(g)' => Counted(g)
    <3> SUFFICES ASSUME NEW g \in File, Counted(g)' PROVE Counted(g)
      OBVIOUS
    <3>1. Origin(g) \in Transports
      BY FileFacts
    <3> QED
      BY <1>2, <1>4, <3>1 DEF Counted, Moved
  <2>3. ASSUME NEW g \in File, g = worker.from \/ g = s_source PROVE Whole(g)'
    <3>1. Whole(g)
      BY <2>3 DEF Owned
    <3>2. upload'[g] = upload[g] \/ upload'[g].state # "open"
      BY <1>5 DEF Over
    <3> QED
      BY <1>2, <1>6, <2>2, <3>1, <3>2, QuietWhole
  <2>4. ASSUME NEW g \in File, NEW i \in DOMAIN stream'[g].buffer PROVE stream'[g].buffer[i][1] = g
    BY <1>6, <2>4 DEF Owned, Quieter
  <2> QED
    BY <1>2, <2>1, <2>3, <2>4 DEF Owned
<1> QED
  BY <1>14, <1>15, <1>16, <1>17, <1>18, <1>19

-----------------------------------------------------------------------------
(* The main thread, the web session and the worker, which leave the transports alone. *)
LEMMA Elsewhere ==
  ASSUME IInv, OneHand', UNCHANGED <<host, thread, front>>, InstallTypes', Passed', Opened', Returned',
         s_source' \in {s_source, None}, worker'.from \in {worker.from, s_source, None},
         INSTALL_STATE = "finished" => INSTALL_STATE' = "finished",
         \A g \in File : g # worker.from => outcome'[g] = outcome[g] /\ stream'[g].buffer = stream[g].buffer,
         \A g \in File : stream'[g].active => stream[g].active,
         Alone => \A g \in File : \A i \in DOMAIN stream'[g].buffer : stream'[g].buffer[i][1] = g,
         \A g \in File : g = worker'.from \/ g = s_source' => Arrived(g)' = Arrived(g) /\ (g = worker.from \/ g = s_source)
  PROVE  IInv'
<1> USE DEF IInv, host, front
<1>1. Types'
  BY DEF Types, FrontTypes
<1>2. \A g : (First(g)' <=> First(g)) /\ (InProgress(g)' <=> InProgress(g)) /\ (Queued(g)' <=> Queued(g)) /\ (Announced(g)' <=> Announced(g))
  BY DEF First, InProgress, Queued, Announced
<1>3. Fronts'
  BY DEF Fronts, Called, Lined, OneByOne, First, InProgress
<1>4. Fresh'
  <2>1. ASSUME NEW g \in File, upload'[g].state = "new" \/ (Queued(g)' /\ ~Announced(g)' /\ ~InProgress(g)') PROVE Unused(g)'
    <3>1. Unused(g)
      BY <1>2, <2>1 DEF Fresh
    <3>2. g # worker.from /\ g # s_source /\ g # None
      BY <3>1, FileFacts DEF Unused
    <3> QED
      BY <3>1, <3>2 DEF Unused
  <2> QED
    BY <2>1 DEF Fresh
<1>5. Sourced'
  <2>1. \A g \in File : Current(g)' <=> Current(g)
    BY <1>2 DEF Current
  <2>2. s_source' \in File => s_source' = s_source
    BY FileFacts
  <2> QED
    BY <2>1, <2>2 DEF Sourced
<1>6. Owned'
  <2> SUFFICES ASSUME Alone PROVE Owned'
    BY DEF Owned, Alone
  <2>1. ASSUME NEW u \in Transports PROVE Aimed(u)'
    <3>1. thread[u].pc \in Pushing => thread[u].target \in File
      BY DEF Fronts, Called
    <3> QED
      BY <3>1 DEF Owned, Aimed
  <2>2. ASSUME NEW g \in File, g = worker'.from \/ g = s_source' PROVE Whole(g)'
    <3>1. Whole(g) /\ Arrived(g)' = Arrived(g) /\ (Counted(g)' => Counted(g))
      BY <2>2 DEF Owned, Counted
    <3> QED
      BY <3>1 DEF Whole, Pieces
  <2> QED
    BY <2>1, <2>2 DEF Owned
<1> QED
  BY <1>1, <1>3, <1>4, <1>5, <1>6

\* Without the worker, and with streams that are at most closed.
LEMMA Aside ==
  ASSUME IInv, OneHand', UNCHANGED <<host, thread, front, INSTALL_STATE, worker, outcome, marked>>, Quieter,
         s_source' \in {s_source, None}, s_installing' \in BOOLEAN, session' \in Sessions,
         events' \in Seq(File), handling' \in Files, ui' \in Uis, Passed', Opened'
  PROVE  IInv'
<1>1. InstallTypes'
  BY FileFacts DEF IInv, Types, InstallTypes, Quieter, Files
<1>2. Returned'
  BY FileFacts DEF IInv, Returned, MarkedOwn
<1>3. \A g \in File : Arrived(g)' = Arrived(g)
  BY DEF Arrived, Taken, Quieter
<1>4. Alone => \A g \in File : \A i \in DOMAIN stream'[g].buffer : stream'[g].buffer[i][1] = g
  BY DEF IInv, Owned, Quieter
<1>5. \A g \in File : g = s_source' => g = s_source
  BY FileFacts
<1>6. \A g \in File : stream'[g].active => stream[g].active
  BY DEF Quieter
<1>7. \A g \in File : stream'[g].buffer = stream[g].buffer
  BY DEF Quieter
<1> QED
  BY <1>1, <1>2, <1>3, <1>4, <1>5, <1>6, <1>7, Elsewhere

LEMMA KeepsEvent == ASSUME IInv, OneHand', UiEvent PROVE IInv'
<1> USE DEF IInv
<1>1. ui = "events" /\ UNCHANGED <<host, thread, front, INSTALL_STATE, s_source, s_installing, session, worker, outcome, marked>> /\ Quieter
  BY Quiets DEF UiEvent, shared, app, install
<1>2. s_installing' \in BOOLEAN /\ session' \in Sessions
  BY <1>1 DEF Types, InstallTypes
<1>3. Opened'
  BY <1>1 DEF Opened
<1>4. CASE events = << >>
  <2>1. ui' = "update" /\ UNCHANGED <<events, handling>>
    BY <1>4 DEF UiEvent
  <2>2. events' \in Seq(File) /\ handling' \in Files /\ ui' \in Uis
    BY <2>1 DEF Types, InstallTypes, Uis
  <2>3. Passed'
    BY <1>1, <2>1 DEF Passed, Handling
  <2> QED
    BY <1>1, <1>2, <1>3, <2>2, <2>3, Aside
<1>5. CASE events # << >>
  <2>1. ui' = "handle" /\ handling' = Head(events) /\ events' = << >> /\ handling' = s_source
    BY <1>5 DEF UiEvent, OneHand, Shape, Passed
  <2>2. s_source \in File
    BY <1>5 DEF Passed
  <2>3. events' \in Seq(File) /\ handling' \in Files /\ ui' \in Uis
    BY <2>1, <2>2 DEF Uis, Files, Handling
  <2>4. worker.pc \notin Installing
    BY <1>5, Excludes DEF Exclusive
  <2>5. Passed'
    BY <1>1, <1>5, <2>1, <2>2, <2>4 DEF Passed, Handling
  <2> QED
    BY <1>1, <1>2, <1>3, <2>3, <2>5, Aside
<1> QED
  BY <1>4, <1>5

\* The source is given back, by whoever has the flag.
LEMMA KeepsForeign == ASSUME IInv, OneHand', UiForeign PROVE IInv'
<1> USE DEF IInv
<1>1. /\ ui = "handle" /\ GivesUp /\ ui' = "events" /\ handling' = None
      /\ UNCHANGED <<host, thread, front, INSTALL_STATE, events, session, worker, outcome, marked>>
  BY DEF UiForeign, app, install
<1>2. Quieter /\ s_source' = None /\ s_installing' = FALSE
  BY <1>1, Shuts DEF GivesUp, Types, InstallTypes
<1>3. events = << >> /\ worker.pc \notin Installing /\ \A t \in Transports : thread[t].pc # "start_announce"
  BY <1>1, Excludes DEF Exclusive, Claiming, Handling
<1>4. Passed' /\ Opened'
  BY <1>1, <1>2, <1>3, FileFacts DEF Passed, Opened, Handling
<1>5. session' \in Sessions /\ events' \in Seq(File) /\ handling' \in Files /\ ui' \in Uis
  BY <1>1 DEF Types, InstallTypes, Files, Uis
<1> QED
  BY <1>1, <1>2, <1>4, <1>5, Aside

LEMMA KeepsSession == ASSUME IInv, OneHand', UiSession PROVE IInv'
<1> USE DEF IInv
<1>1. /\ ui = "handle" /\ ui' = "join" /\ handling' = None
      /\ UNCHANGED <<host, thread, front, INSTALL_STATE, s_source, s_installing, events, worker, outcome, marked>> /\ Quieter
  BY Quiets DEF UiSession, shared, install
<1>2. s_source = handling /\ handling \in File /\ Origin(handling) \in Transports
  BY <1>1, FileFacts DEF Passed, Handling
<1>3. events = << >> /\ worker.pc \notin Installing /\ \A t \in Transports : thread[t].pc # "start_announce"
  BY <1>1, Excludes DEF Exclusive, Claiming, Handling
<1>4. ToSet(queue[Origin(handling)]) \subseteq File
  BY <1>2 DEF Types, FrontTypes, ToSet
<1>5. \E todo \in SUBSET File : LET base == IF session = NoSession THEN [NoSession EXCEPT !.id = handling, !.origin = Origin(handling), !.todo = todo]
                                            ELSE session
        IN session' = [base EXCEPT !.todo = @ \cup {handling}, !.from = s_source, !.current = handling, !.state = "installing"]
  BY <1>4 DEF UiSession
<1>6. NoSession \in Sessions /\ session \in Sessions
  BY DEF NoSession, Sessions, Ids, Files, Types, InstallTypes
<1>7. PICK base \in Sessions : /\ base.id \in File /\ base.origin \in Transports
                               /\ session' = [base EXCEPT !.todo = @ \cup {handling}, !.from = s_source, !.current = handling, !.state = "installing"]
  <2>1. PICK todo \in SUBSET File : LET base == IF session = NoSession THEN [NoSession EXCEPT !.id = handling, !.origin = Origin(handling), !.todo = todo]
                                                ELSE session
          IN session' = [base EXCEPT !.todo = @ \cup {handling}, !.from = s_source, !.current = handling, !.state = "installing"]
    BY <1>5
  <2>2. CASE session = NoSession
    <3> DEFINE base == [NoSession EXCEPT !.id = handling, !.origin = Origin(handling), !.todo = todo]
    <3>1. base \in Sessions /\ base.id = handling /\ base.origin = Origin(handling)
      BY <1>2, <1>6 DEF Sessions, Ids, Files
    <3>2. session' = [base EXCEPT !.todo = @ \cup {handling}, !.from = s_source, !.current = handling, !.state = "installing"]
      BY <2>1, <2>2
    <3> HIDE DEF base
    <3> QED
      BY <1>2, <3>1, <3>2
  <2>3. CASE session # NoSession
    <3>1. session.origin \in Transports
      BY <1>2, <2>3 DEF UiSession
    <3>2. session.id \in File
      BY <3>1 DEF Opened
    <3> QED
      BY <1>6, <2>1, <2>3, <3>1, <3>2
  <2> QED
    BY <2>2, <2>3
<1>8. /\ session' \in Sessions /\ session'.id = base.id /\ session'.origin = base.origin
      /\ session'.from = s_source /\ session'.current = s_source
  <2>1. handling \in Files
    BY <1>2 DEF Files
  <2> QED
    BY <1>2, <1>7, <2>1 DEF Sessions
<1>9. Passed' /\ Opened'
  BY <1>1, <1>2, <1>3, <1>7, <1>8 DEF Passed, Opened, Handling, Installing
<1>10. s_installing' \in BOOLEAN /\ events' \in Seq(File) /\ handling' \in Files /\ ui' \in Uis
  BY <1>1 DEF Types, InstallTypes, Files, Uis, Handling
<1> QED
  BY <1>1, <1>8, <1>9, <1>10, Aside

LEMMA KeepsJoin == ASSUME IInv, OneHand', UiJoin PROVE IInv'
<1> USE DEF IInv
<1>1. /\ ui = "join" /\ worker = NoWorker /\ ui' = "spawn" /\ Quieter
      /\ UNCHANGED <<host, thread, front, INSTALL_STATE, s_source, s_installing, events, handling, session, worker, outcome, marked>>
  BY Quiets DEF UiJoin, shared, app, install
<1>2. Passed' /\ Opened'
  BY <1>1 DEF Passed, Opened, Handling
<1>3. s_installing' \in BOOLEAN /\ session' \in Sessions /\ events' \in Seq(File) /\ handling' \in Files /\ ui' \in Uis
  BY <1>1 DEF Types, InstallTypes, Uis, Handling
<1> QED
  BY <1>1, <1>2, <1>3, Aside

\* The worker starts with the source of the session, of which nothing is read yet.
LEMMA KeepsSpawn == ASSUME IInv, OneHand', UiSpawn PROVE IInv'
<1> USE DEF IInv
<1>1. /\ ui = "spawn" /\ ui' = "events"
      /\ UNCHANGED <<host, thread, front, INSTALL_STATE, events, handling, session, outcome, marked>>
  BY DEF UiSpawn, app
<1>2. s_source = session.from /\ s_source \in File /\ session.id \in File /\ worker = NoWorker
  BY <1>1 DEF Passed, Handling
<1>3. events = << >> /\ worker.pc \notin Installing /\ \A t \in Transports : thread[t].pc # "start_announce"
  BY <1>1, Excludes DEF Exclusive, Claiming, Handling
<1>4. session' \in Sessions /\ events' \in Seq(File) /\ handling' \in Files /\ ui' \in Uis
  BY <1>1 DEF Types, InstallTypes, Uis
<1>5. CASE GivesUp /\ UNCHANGED worker
  <2>1. Quieter /\ s_source' = None /\ s_installing' = FALSE
    BY <1>5, Shuts DEF GivesUp, Types, InstallTypes
  <2>2. Passed' /\ Opened'
    BY <1>1, <1>3, <1>5, <2>1, FileFacts DEF Passed, Opened, Handling
  <2> QED
    BY <1>1, <1>4, <1>5, <2>1, <2>2, Aside
<1>6. CASE /\ worker' = [NoWorker EXCEPT !.pc = "start", !.from = session.from, !.id = session.id]
           /\ UNCHANGED <<s_source, s_installing, stream>>
  <2>1. worker' = [pc |-> "start", from |-> s_source, id |-> session.id, got |-> << >>, rc |-> "none"]
    BY <1>2, <1>6 DEF NoWorker
  <2>2. worker' \in Workers
    BY <1>2, <2>1 DEF Workers, Files, Ids, Installing, Verdicts
  <2>3. InstallTypes'
    BY <1>1, <1>4, <1>6, <2>2 DEF Types, InstallTypes
  <2>4. Passed' /\ Opened'
    BY <1>1, <1>2, <1>3, <1>6, <2>1 DEF Passed, Opened, Handling, Installing
  <2>5. s_source \in File /\ worker'.pc # "mark"
    BY <1>2, <2>1
  <2>6. Returned'
    <3>1. outcome[s_source] = "none"
      BY <1>2, <1>3 DEF Returned, Installing
    <3> QED
      BY <1>1, <1>6, <2>5, <3>1 DEF Returned, MarkedOwn
  <2>7. \A g \in File : g = worker'.from \/ g = s_source' => Arrived(g)' = Arrived(g) /\ g = s_source
    <3>1. worker.from = None /\ worker'.got = << >> /\ worker'.from = s_source
      BY <1>2, <2>1 DEF NoWorker
    <3> QED
      BY <1>6, <3>1, FileFacts DEF Arrived, Taken
  <2>8. Alone => \A g \in File : \A i \in DOMAIN stream'[g].buffer : stream'[g].buffer[i][1] = g
    BY <1>6 DEF Owned
  <2>9. /\ s_source' \in {s_source, None} /\ worker'.from \in {worker.from, s_source, None}
        /\ INSTALL_STATE = "finished" => INSTALL_STATE' = "finished"
    <3>1. worker'.from = s_source
      BY <2>1
    <3> QED
      BY <1>1, <1>6, <3>1
  <2>10. \A g \in File : outcome'[g] = outcome[g] /\ stream'[g].buffer = stream[g].buffer
    BY <1>1, <1>6
  <2>11. \A g \in File : stream'[g].active => stream[g].active
    BY <1>6
  <2> QED
    BY <1>1, <2>3, <2>4, <2>6, <2>7, <2>8, <2>9, <2>10, <2>11, Elsewhere
<1> QED
  BY <1>5, <1>6 DEF UiSpawn

LEMMA KeepsUpdate == ASSUME IInv, OneHand', UiUpdate \/ WebEnds PROVE IInv'
<1> USE DEF IInv
<1>1. /\ UNCHANGED <<host, thread, front, INSTALL_STATE, s_source, s_installing, events, handling, worker, outcome, marked>> /\ Quieter
      /\ ui' = ui \/ (ui = "update" /\ ui' = "input")
  BY Quiets DEF UiUpdate, WebEnds, shared, main, install
<1>2. SameSession
  <2>1. session \in Sessions
    BY DEF Types, InstallTypes
  <2>2. ASSUME NEW b \in BOOLEAN, NEW st \in {session.state, "summary"}, session' = [[session EXCEPT !.grace = b] EXCEPT !.state = st]
        PROVE  SameSession
    BY <2>1, <2>2 DEF SameSession, Sessions
  <2>3. CASE session' = session
    BY <2>3, SessionStays
  <2>4. CASE session' = [session EXCEPT !.state = "summary"]
    BY <2>1, <2>4 DEF SameSession, Sessions
  <2>5. ASSUME NEW b \in BOOLEAN, session' = [session EXCEPT !.grace = b] PROVE SameSession
    BY <2>1, <2>5 DEF SameSession, Sessions
  <2>6. CASE UiUpdate
    <3>1. CASE ~Asks
      BY <2>3, <2>6, <3>1 DEF UiUpdate
    <3>2. CASE Asks
      <4> DEFINE t == session.origin
                 done == session.todo = {} /\ ~s_installing /\ queue[t] = << >> /\ ~in_progress[t]
      <4>1. session' = IF done /\ session.grace THEN Summary([session EXCEPT !.grace = FALSE]) ELSE [session EXCEPT !.grace = done]
        BY <2>6, <3>2 DEF UiUpdate
      <4>2. done \in BOOLEAN /\ FALSE \in BOOLEAN
        OBVIOUS
      <4> HIDE DEF done
      <4> QED
        BY <2>2, <2>5, <4>1, <4>2 DEF Summary
    <3> QED
      BY <3>1, <3>2
  <2>7. CASE WebEnds
    BY <2>4, <2>7 DEF WebEnds, Summary
  <2> QED
    BY <2>6, <2>7
<1>3. Passed' /\ Opened'
  BY <1>1, <1>2 DEF Passed, Opened, SameSession, Handling
<1>4. s_installing' \in BOOLEAN /\ session' \in Sessions /\ events' \in Seq(File) /\ handling' \in Files /\ ui' \in Uis
  BY <1>1, <1>2 DEF Types, InstallTypes, Uis, SameSession
<1> QED
  BY <1>1, <1>3, <1>4, Aside

\* The user cancels or closes the session, another job begins or ends, a web session begins.
LEMMA KeepsInput == ASSUME IInv, OneHand', UiInput \/ UiCancelling \/ WebOpens PROVE IInv'
<1> USE DEF IInv
<1>1. /\ UNCHANGED <<host, thread, front, INSTALL_STATE, s_source, s_installing, events, handling, worker, outcome, marked>>
      /\ ui' \in {"events", "cancelling"} \/ (ui' = ui /\ session = NoSession)
      /\ ui \notin Handling \/ (ui' = ui /\ session = NoSession)
  <2>1. CASE UiInput
    <3>1. ui = "input" /\ ui' \in {"events", "cancelling"}
      BY <2>1 DEF UiInput
    <3>2. UNCHANGED <<host, thread, front, INSTALL_STATE, s_source, s_installing, events, handling, worker, outcome, marked>>
      BY <2>1 DEF UiInput, shared, install
    <3> QED
      BY <3>1, <3>2 DEF Handling
  <2>2. CASE UiCancelling
    BY <2>2 DEF UiCancelling, shared, install, Handling
  <2>3. CASE WebOpens
    BY <2>3 DEF WebOpens, shared, main, install
  <2> QED
    BY <2>1, <2>2, <2>3
<1>2. Quieter
  <2>1. CASE Closed(session.from)
    <3>1. session.from \in Files
      BY DEF Types, InstallTypes, Sessions
    <3> QED
      BY <2>1, <3>1, Shuts
  <2>2. CASE UNCHANGED stream
    BY <2>2, Quiets
  <2> QED
    BY <2>1, <2>2 DEF UiInput, UiCancelling, WebOpens
<1>3. session' = session \/ session' = NoSession \/ session' = [NoSession EXCEPT !.id = <<"web", 1>>, !.origin = "web", !.state = "installing"]
  BY DEF UiInput, UiCancelling, WebOpens
<1>4. session' \in Sessions /\ (session' = session \/ (session'.id \notin File /\ session'.origin \notin Transports /\ session'.from = session'.current))
  <2>1. session \in Sessions /\ NoSession \in Sessions
    BY DEF Types, InstallTypes, NoSession, Sessions, Ids, Files
  <2>2. [NoSession EXCEPT !.id = <<"web", 1>>, !.origin = "web", !.state = "installing"] \in Sessions
    BY DEF NoSession, Sessions, Ids, Files, Transports
  <2>3. NoSession.id \notin File /\ NoSession.origin \notin Transports /\ NoSession.from = NoSession.current
    BY FileFacts DEF NoSession, Transports
  <2>4. ASSUME session' = [NoSession EXCEPT !.id = <<"web", 1>>, !.origin = "web", !.state = "installing"]
        PROVE  session'.id \notin File /\ session'.origin \notin Transports /\ session'.from = session'.current
    BY <2>4, FileFacts DEF NoSession, Transports
  <2>5. CASE session' = session
    BY <2>1, <2>5
  <2>6. CASE session' = NoSession
    BY <2>1, <2>3, <2>6
  <2>7. CASE session' = [NoSession EXCEPT !.id = <<"web", 1>>, !.origin = "web", !.state = "installing"]
    BY <2>2, <2>4, <2>7
  <2> QED
    BY <1>3, <2>5, <2>6, <2>7
<1>5. ui' \in {"join", "spawn"} => ui' = ui /\ session.id = None
  BY <1>1 DEF NoSession
<1>6. ui' \notin {"join", "spawn"}
  BY <1>1, <1>5, FileFacts DEF Passed
<1>7. Passed'
  BY <1>1, <1>6 DEF Passed, Handling
<1>8. Opened'
  <2>1. worker.pc \in {"start", "read", "mark"} => worker.id \in File
    BY DEF Passed
  <2> QED
    BY <1>1, <1>4, <2>1 DEF Opened
<1>9. s_installing' \in BOOLEAN /\ events' \in Seq(File) /\ handling' \in Files /\ ui' \in Uis
  BY <1>1 DEF Types, InstallTypes, Uis
<1> QED
  BY <1>1, <1>2, <1>4, <1>7, <1>8, <1>9, Aside

LEMMA KeepsUi == ASSUME IInv, OneHand', Ui \/ WebOpens \/ WebEnds PROVE IInv'
BY KeepsEvent, KeepsForeign, KeepsSession, KeepsJoin, KeepsSpawn, KeepsUpdate, KeepsInput DEF Ui

-----------------------------------------------------------------------------
(* The worker. *)
LEMMA WorkerIs ==
  ASSUME IInv, worker.pc \in Installing
  PROVE  /\ s_source = worker.from /\ worker.from \in File /\ worker.id \in File
         /\ events = << >> /\ ui \notin Handling /\ \A t \in Transports : thread[t].pc # "start_announce"
         /\ worker \in Workers /\ worker.got \in Seq(Chunks)
         /\ stream[worker.from] \in Streams /\ stream[worker.from].buffer \in Seq(Chunks)
<1>1. /\ s_source = worker.from /\ worker.from \in File /\ worker.id \in File
      /\ events = << >> /\ ui \notin Handling /\ \A t \in Transports : thread[t].pc \notin Claiming
  BY Excludes DEF IInv, Exclusive, Passed, Installing
<1>2. worker \in Workers /\ worker.got \in Seq(Chunks) /\ stream[worker.from] \in Streams
  BY <1>1 DEF IInv, Types, InstallTypes, Workers
<1>3. stream[worker.from].buffer \in Seq(Chunks)
  BY <1>2 DEF Streams
<1> QED
  BY <1>1, <1>2, <1>3 DEF Claiming

\* A step of the worker that leaves the source, the streams and what it has read.
LEMMA Works ==
  ASSUME IInv, OneHand', UNCHANGED <<host, thread, front, s_source, s_installing, main>>, worker.pc \in Installing,
         worker' \in Workers, worker'.from = worker.from, worker'.id = worker.id, worker'.got = worker.got, worker'.pc \in Installing,
         INSTALL_STATE' \in {"none", "progress", "finished"}, Quieter, SameSession,
         outcome' \in [File -> Verdicts], marked' \in [File -> Verdicts], Returned',
         INSTALL_STATE = "finished" => INSTALL_STATE' = "finished",
         worker'.pc = "release" \/ INSTALL_STATE' # "finished",
         worker'.pc \in {"start", "read", "mark"} => worker.pc \in {"start", "read", "mark"},
         \A g \in File : g # worker.from => outcome'[g] = outcome[g]
  PROVE  IInv'
<1> USE DEF IInv
<1>1. /\ s_source = worker.from /\ worker.from \in File /\ worker.id \in File
      /\ events = << >> /\ ui \notin Handling /\ \A t \in Transports : thread[t].pc # "start_announce"
  BY WorkerIs
<1>2. InstallTypes'
  BY DEF Types, InstallTypes, SameSession, Quieter, main
<1>3. Passed' /\ Opened'
  BY <1>1 DEF Passed, Opened, SameSession, main, Handling, Installing
<1>4. \A g \in File : Arrived(g)' = Arrived(g)
  BY DEF Arrived, Taken, Quieter
<1>5. Alone => \A g \in File : \A i \in DOMAIN stream'[g].buffer : stream'[g].buffer[i][1] = g
  BY DEF Owned, Quieter
<1>6. \A g \in File : (stream'[g].active => stream[g].active)
  BY DEF Quieter
<1>7. \A g \in File : stream'[g].buffer = stream[g].buffer
  BY DEF Quieter
<1> QED
  BY <1>1, <1>2, <1>3, <1>4, <1>5, <1>6, <1>7, Elsewhere

LEMMA WorkerGoes ==
  ASSUME Types, NEW to \in {"none", "tail", "summary"} \cup Installing, worker' = [worker EXCEPT !.pc = to]
  PROVE  /\ worker' \in Workers /\ worker'.pc = to /\ worker'.from = worker.from /\ worker'.id = worker.id
         /\ worker'.got = worker.got /\ worker'.rc = worker.rc
BY DEF Types, InstallTypes, Workers

LEMMA KeepsBegin == ASSUME IInv, OneHand', WorkerStart PROVE IInv'
<1> USE DEF IInv
<1>1. /\ worker.pc = "start" /\ worker' = [worker EXCEPT !.pc = "read"] /\ INSTALL_STATE' = "progress"
      /\ UNCHANGED <<host, thread, front, s_source, s_installing, main, session, outcome, marked>> /\ Quieter /\ SameSession
  BY Quiets, SessionStays DEF WorkerStart, Step, app
<1>2. worker.pc \in Installing /\ "read" \in Installing
  BY <1>1 DEF Installing
<1>3. worker' \in Workers /\ worker'.pc = "read" /\ worker'.from = worker.from /\ worker'.id = worker.id /\ worker'.got = worker.got
  BY <1>1, <1>2, WorkerGoes
<1>4. INSTALL_STATE # "finished"
  BY <1>1 DEF Passed, Installing
<1>5. Returned'
  BY <1>1, <1>3 DEF Returned, MarkedOwn
<1>6. outcome' \in [File -> Verdicts] /\ marked' \in [File -> Verdicts]
  BY <1>1 DEF Types, InstallTypes
<1> QED
  BY <1>1, <1>2, <1>3, <1>4, <1>5, <1>6, Works

\* RunInstall has an end, and nothing was shown for the file before.
LEMMA KeepsEnd == ASSUME IInv, OneHand', WorkerEnd PROVE IInv'
<1> USE DEF IInv
<1>1. PICK rc \in {"ok", "fail"} :
       /\ worker.pc = "read" /\ worker' = [worker EXCEPT !.pc = "mark", !.rc = rc] /\ outcome' = [outcome EXCEPT ![worker.from] = rc]
       /\ UNCHANGED <<host, thread, front, INSTALL_STATE, s_source, s_installing, main, session, marked>>
  BY DEF WorkerEnd, Ends, shared, app
<1>2. Quieter /\ SameSession
  BY <1>1, Quiets, SessionStays DEF WorkerEnd
<1>3. worker.pc \in Installing /\ "mark" \in Installing
  BY <1>1 DEF Installing
<1>4. s_source = worker.from /\ worker.from \in File /\ worker \in Workers
  BY <1>3, WorkerIs
<1>5. /\ worker' \in Workers /\ worker'.pc = "mark" /\ worker'.from = worker.from /\ worker'.id = worker.id
      /\ worker'.got = worker.got /\ worker'.rc = rc
  BY <1>1, <1>3, <1>4 DEF Workers, Verdicts
<1>6. INSTALL_STATE # "finished" /\ INSTALL_STATE' \in {"none", "progress", "finished"}
  BY <1>1 DEF Passed, Installing, Types, InstallTypes
<1>7. outcome' \in [File -> Verdicts] /\ marked' \in [File -> Verdicts] /\ outcome'[worker.from] = rc
      /\ \A g \in File : g # worker.from => outcome'[g] = outcome[g]
  BY <1>1, <1>4 DEF Types, InstallTypes, Verdicts
<1>8. marked[worker.from] = "none"
  BY <1>1, <1>4 DEF Returned, MarkedOwn
<1>9. Returned'
  <2>1. MarkedOwn'
    BY <1>1, <1>7, <1>8 DEF Returned, MarkedOwn
  <2> QED
    BY <1>4, <1>5, <1>7, <2>1 DEF Returned
<1> QED
  BY <1>1, <1>2, <1>3, <1>5, <1>6, <1>7, <1>9, Works


\* The chunk that is read goes from the buffer to what was read.
LEMMA Passes ==
  ASSUME NEW a \in Seq(Chunks), NEW b \in Seq(Chunks), b # << >>
  PROVE  /\ Append(a, Head(b)) \in Seq(Chunks) /\ Tail(b) \in Seq(Chunks) /\ Append(a, Head(b)) \o Tail(b) = a \o b
         /\ \A i \in DOMAIN Tail(b) : i + 1 \in DOMAIN b /\ Tail(b)[i] = b[i + 1]
<1>1. Head(b) \in Chunks /\ Tail(b) \in Seq(Chunks) /\ Head(b) = b[1] /\ Len(b) \in Nat \ {0}
  BY HeadTailProperties, EmptySeq
<1>2. Append(a, Head(b)) \in Seq(Chunks) /\ Append(a, Head(b)) = a \o <<Head(b)>> /\ <<Head(b)>> \in Seq(Chunks)
  BY <1>1, AppendProperties, AppendIsConcat
<1>3. b = <<Head(b)>> \o Tail(b)
  <2>1. SubSeq(b, 1, Len(b)) = <<b[1]>> \o SubSeq(b, 2, Len(b))
    BY <1>1, SubSeqRecursiveFirst
  <2>2. SubSeq(b, 1, Len(b)) = b /\ Tail(b) = SubSeq(b, 2, Len(b))
    BY SubSeqFull, TailIsSubSeq
  <2> QED
    BY <1>1, <2>1, <2>2
<1>4. Append(a, Head(b)) \o Tail(b) = a \o b
  <2>1. (a \o <<Head(b)>>) \o Tail(b) = a \o (<<Head(b)>> \o Tail(b))
    BY <1>1, <1>2, ConcatAssociative
  <2> QED
    BY <1>2, <1>3, <2>1
<1>5. \A i \in DOMAIN Tail(b) : i + 1 \in DOMAIN b /\ Tail(b)[i] = b[i + 1]
  BY <1>1, HeadTailProperties
<1> QED
  BY <1>1, <1>2, <1>4, <1>5

LEMMA KeepsRead == ASSUME IInv, OneHand', WorkerRead PROVE IInv'
<1> USE DEF IInv
<1> DEFINE f == worker.from
           b == stream[f].buffer
<1>1. /\ worker.pc = "read" /\ b # << >> /\ stream' = [stream EXCEPT ![f] = Drained(stream[f])]
      /\ UNCHANGED <<host, thread, front, INSTALL_STATE, s_source, s_installing, main, session, marked>>
  BY DEF WorkerRead, HasData, shared, app
<1>2. PICK got : got = Append(worker.got, Head(b))
  OBVIOUS
<1>3. \/ worker' = [worker EXCEPT !.pc = "mark", !.rc = "ok", !.got = got] /\ outcome' = [outcome EXCEPT ![f] = "ok"]
      \/ worker' = [worker EXCEPT !.got = got] /\ UNCHANGED outcome
  BY <1>2 DEF WorkerRead
<1>4. worker.pc \in Installing /\ "mark" \in Installing
  BY <1>1 DEF Installing
<1>5. /\ s_source = f /\ f \in File /\ events = << >> /\ ui \notin Handling /\ \A t \in Transports : thread[t].pc # "start_announce"
      /\ worker \in Workers /\ worker.got \in Seq(Chunks) /\ stream[f] \in Streams /\ b \in Seq(Chunks)
  BY <1>4, WorkerIs
<1>6. /\ got \in Seq(Chunks) /\ Tail(b) \in Seq(Chunks) /\ got \o Tail(b) = worker.got \o b
      /\ \A i \in DOMAIN Tail(b) : i + 1 \in DOMAIN b /\ Tail(b)[i] = b[i + 1]
  BY <1>1, <1>2, <1>5, Passes
<1>7. /\ worker' \in Workers /\ worker'.pc \in {"read", "mark"} /\ worker'.from = f /\ worker'.id = worker.id /\ worker'.got = got
      /\ worker'.pc = "mark" => worker'.rc = "ok"
  <2>1. CASE worker' = [worker EXCEPT !.pc = "mark", !.rc = "ok", !.got = got]
    BY <1>4, <1>5, <1>6, <2>1 DEF Workers, Verdicts
  <2>2. CASE worker' = [worker EXCEPT !.got = got]
    BY <1>1, <1>5, <1>6, <2>2 DEF Workers
  <2> QED
    BY <1>3, <2>1, <2>2
<1>8. /\ outcome' \in [File -> Verdicts] /\ \A g \in File : g # f => outcome'[g] = outcome[g]
      /\ IF worker'.pc = "mark" THEN outcome'[f] = "ok" ELSE outcome'[f] = outcome[f]
  <2>1. CASE worker' = [worker EXCEPT !.pc = "mark", !.rc = "ok", !.got = got] /\ outcome' = [outcome EXCEPT ![f] = "ok"]
    <3>1. worker'.pc = "mark"
      BY <1>5, <2>1 DEF Workers
    <3> QED
      BY <1>5, <2>1, <3>1 DEF Types, InstallTypes, Verdicts
  <2>2. CASE worker' = [worker EXCEPT !.got = got] /\ UNCHANGED outcome
    <3>1. worker'.pc = "read"
      BY <1>1, <1>5, <2>2 DEF Workers
    <3> QED
      BY <2>2, <3>1 DEF Types, InstallTypes
  <2> QED
    BY <1>3, <2>1, <2>2
<1>9. /\ stream' \in [File -> Streams] /\ stream'[f].buffer = Tail(b) /\ stream'[f].active = stream[f].active
      /\ \A g \in File : g # f => stream'[g] = stream[g]
  <2> DEFINE q == [stream[f] EXCEPT !.buffer = Tail(b)]
  <2>1. q \in Streams /\ q.buffer = Tail(b) /\ q.active = stream[f].active
    BY <1>5, <1>6 DEF Streams
  <2>2. stream' = [stream EXCEPT ![f] = q]
    BY <1>1 DEF Drained
  <2> HIDE DEF q
  <2> QED
    BY <1>5, <2>1, <2>2 DEF Types, InstallTypes
<1> HIDE DEF b
<1>10. InstallTypes'
  BY <1>1, <1>7, <1>8, <1>9 DEF Types, InstallTypes, main
<1>11. INSTALL_STATE # "finished" /\ worker.id \in File
  BY <1>1 DEF Passed, Installing
<1>12. Passed' /\ Opened'
  <2>1. SameSession
    BY <1>1, SessionStays
  <2> QED
    BY <1>1, <1>5, <1>7, <1>11, <2>1 DEF Passed, Opened, main, Handling, Installing, SameSession
<1>13. Returned'
  <2>1. marked[f] = "none" /\ outcome[f] = "none"
    BY <1>1, <1>5 DEF Returned, MarkedOwn
  <2>2. MarkedOwn'
    BY <1>1, <1>8, <2>1 DEF Returned, MarkedOwn
  <2> QED
    BY <1>1, <1>5, <1>7, <1>8, <2>1, <2>2 DEF Returned
<1>14. Alone => \A g \in File : \A i \in DOMAIN stream'[g].buffer : stream'[g].buffer[i][1] = g
  <2> SUFFICES ASSUME Alone, NEW g \in File, NEW i \in DOMAIN stream'[g].buffer PROVE stream'[g].buffer[i][1] = g
    OBVIOUS
  <2>1. CASE g = f
    <3>1. i \in DOMAIN Tail(b) /\ stream'[g].buffer[i] = b[i + 1] /\ i + 1 \in DOMAIN b
      BY <1>6, <1>9, <2>1
    <3>2. \A j \in DOMAIN b : b[j][1] = f
      BY <1>5 DEF Owned, b
    <3> QED
      BY <2>1, <3>1, <3>2
  <2>2. CASE g # f
    BY <1>9, <2>2 DEF Owned
  <2> QED
    BY <2>1, <2>2
<1>15. Arrived(f)' = Arrived(f)
  <2>1. worker'.from = f /\ worker'.got = got /\ stream'[f].buffer = Tail(b)
    BY <1>7, <1>9
  <2>2. Taken(f)' = got /\ Taken(f) = worker.got
    BY <2>1 DEF Taken
  <2>3. got \o Tail(b) = worker.got \o b
    BY <1>6
  <2> QED
    BY <2>1, <2>2, <2>3 DEF Arrived, b
<1>16. \A g \in File : g = worker'.from \/ g = s_source' => Arrived(g)' = Arrived(g) /\ (g = worker.from \/ g = s_source)
  <2> SUFFICES ASSUME NEW g \in File, g = worker'.from \/ g = s_source'
               PROVE  Arrived(g)' = Arrived(g) /\ (g = worker.from \/ g = s_source)
    OBVIOUS
  <2>1. g = f
    BY <1>1, <1>5, <1>7
  <2>2. g = worker.from /\ Taken(g)' = got /\ Taken(g) = worker.got /\ stream'[g].buffer = Tail(b) /\ stream[g].buffer = b
    BY <1>7, <1>9, <2>1 DEF Taken, b
  <2> QED
    BY <1>6, <2>2 DEF Arrived
<1>17. \A g \in File : g # worker.from => outcome'[g] = outcome[g] /\ stream'[g].buffer = stream[g].buffer
  BY <1>8, <1>9
<1>18. \A g \in File : stream'[g].active => stream[g].active
  BY <1>9
<1>19. s_source' \in {s_source, None} /\ worker'.from \in {worker.from, s_source, None}
       /\ (INSTALL_STATE = "finished" => INSTALL_STATE' = "finished")
  BY <1>1, <1>7
<1> QED
  BY <1>1, <1>10, <1>12, <1>13, <1>14, <1>16, <1>17, <1>18, <1>19, Elsewhere

\* The session that is still open shows for its current package, which is the worker's, its result.
LEMMA KeepsMark == ASSUME IInv, OneHand', WorkerMark PROVE IInv'
<1> USE DEF IInv
<1>1. /\ worker.pc = "mark" /\ worker' = [worker EXCEPT !.pc = "state"]
      /\ UNCHANGED <<host, thread, front, INSTALL_STATE, s_source, s_installing, main, stream, outcome>> /\ Quieter
  BY Quiets DEF WorkerMark, Step, shared
<1>2. worker.pc \in Installing /\ "state" \in Installing
  BY <1>1 DEF Installing
<1>3. worker' \in Workers /\ worker'.pc = "state" /\ worker'.from = worker.from /\ worker'.id = worker.id /\ worker'.got = worker.got
  BY <1>1, <1>2, WorkerGoes
<1>4. INSTALL_STATE # "finished" /\ INSTALL_STATE' \in {"none", "progress", "finished"}
  BY <1>1 DEF Passed, Installing, Types, InstallTypes
<1>5. worker.from \in File /\ s_source = worker.from /\ worker \in Workers
  BY <1>2, WorkerIs
<1>6. SameSession
  <2>1. session \in Sessions
    BY DEF Types, InstallTypes
  <2>2. CASE session' = session
    BY <2>2, SessionStays
  <2>3. CASE session' = [session EXCEPT !.todo = @ \ {session.current}]
    BY <2>1, <2>3 DEF SameSession, Sessions
  <2> QED
    BY <2>2, <2>3 DEF WorkerMark
<1>7. outcome[worker.from] = worker.rc /\ worker.rc \in Verdicts /\ worker.rc # "none"
  BY <1>1, <1>5 DEF Returned, Workers
<1>8. marked' = marked \/ marked' = [marked EXCEPT ![worker.from] = worker.rc]
  BY <1>1 DEF WorkerMark, Opened
<1>9. marked' \in [File -> Verdicts] /\ \A g \in File : marked'[g] = marked[g] \/ marked'[g] = outcome[g]
  BY <1>5, <1>7, <1>8 DEF Types, InstallTypes
<1>10. Returned'
  BY <1>1, <1>3, <1>5, <1>9 DEF Returned, MarkedOwn
<1>11. outcome' \in [File -> Verdicts]
  BY <1>1 DEF Types, InstallTypes
<1> QED
  BY <1>1, <1>2, <1>3, <1>4, <1>6, <1>9, <1>10, <1>11, Works

LEMMA KeepsState == ASSUME IInv, OneHand', WorkerState PROVE IInv'
<1> USE DEF IInv
<1>1. /\ worker.pc = "state" /\ worker' = [worker EXCEPT !.pc = "release"]
      /\ UNCHANGED <<host, thread, front, s_source, s_installing, main, session, outcome, marked>>
      /\ INSTALL_STATE' \in {"none", "finished"} /\ (UNCHANGED stream \/ Closed(worker.from))
  BY DEF WorkerState, Step, app
<1>2. worker.pc \in Installing /\ "release" \in Installing
  BY <1>1 DEF Installing
<1>3. worker' \in Workers /\ worker'.pc = "release" /\ worker'.from = worker.from /\ worker'.id = worker.id /\ worker'.got = worker.got
  BY <1>1, <1>2, WorkerGoes
<1>4. INSTALL_STATE # "finished"
  BY <1>1 DEF Passed, Installing
<1>5. worker.from \in Files
  BY <1>2, WorkerIs DEF Files
<1>6. Quieter /\ SameSession
  BY <1>1, <1>5, Shuts, Quiets, SessionStays
<1>7. Returned'
  BY <1>1, <1>3 DEF Returned, MarkedOwn
<1>8. outcome' \in [File -> Verdicts] /\ marked' \in [File -> Verdicts]
  BY <1>1 DEF Types, InstallTypes
<1> QED
  BY <1>1, <1>2, <1>3, <1>4, <1>6, <1>7, <1>8, Works

\* A step of the worker that has no source, or gives its own back.
LEMMA Lets ==
  ASSUME IInv, OneHand', UNCHANGED <<host, thread, front, INSTALL_STATE, main, stream, outcome, marked>>, SameSession,
         s_installing' \in BOOLEAN, s_source' \in {s_source, None}, worker.pc # "none",
         s_source' = s_source => worker.pc \notin Installing, s_source' = None => worker.pc \in Installing \/ s_source = None,
         worker' = NoWorker \/ \E to \in {"tail", "summary"} : worker' = [worker EXCEPT !.pc = to]
  PROVE  IInv'
<1> USE DEF IInv
<1>1. worker.id \in File /\ worker \in Workers /\ NoWorker \in Workers
  BY DEF Passed, Types, InstallTypes, NoWorker, Workers, Files, Ids, Verdicts
<1>2. /\ worker' \in Workers /\ worker'.pc \in {"none", "tail", "summary"}
      /\ \/ worker'.pc = "none" /\ worker'.from = None
         \/ worker'.from = worker.from /\ worker'.id = worker.id /\ worker'.got = worker.got
  <2>1. CASE worker' = NoWorker
    BY <1>1, <2>1 DEF NoWorker
  <2>2. ASSUME NEW to \in {"tail", "summary"}, worker' = [worker EXCEPT !.pc = to]
        PROVE  worker' \in Workers /\ worker'.pc \in {"none", "tail", "summary"}
               /\ worker'.from = worker.from /\ worker'.id = worker.id /\ worker'.got = worker.got
    BY <2>2, WorkerGoes
  <2> QED
    BY <2>1, <2>2
<1>3. InstallTypes'
  BY <1>2, FileFacts DEF Types, InstallTypes, main, SameSession, Files
<1>4. s_source' = None => events = << >> /\ ui \notin Handling /\ \A t \in Transports : thread[t].pc # "start_announce"
  <2>1. CASE worker.pc \in Installing
    BY <2>1, WorkerIs
  <2>2. CASE s_source = None
    BY <2>2, FileFacts DEF Passed, Fronts, Called, Starting, Claiming
  <2> QED
    BY <2>1, <2>2
<1>5. s_source \in File /\ s_source' = s_source => s_source # worker.from
  BY DEF Passed
<1>6. Passed' /\ Opened'
  BY <1>1, <1>2, <1>4, <1>5, FileFacts DEF Passed, Opened, main, SameSession, Handling, Installing, NoWorker
<1>7. Returned'
  <2>1. MarkedOwn'
    BY DEF Returned, MarkedOwn
  <2>2. s_source' \in File => outcome'[s_source'] = "none"
    BY FileFacts DEF Returned, Installing
  <2>3. worker'.pc # "mark"
    BY <1>2
  <2> QED
    BY <2>1, <2>2, <2>3 DEF Returned
<1>8. \A g \in File : g = worker'.from \/ g = s_source' => Arrived(g)' = Arrived(g) /\ (g = worker.from \/ g = s_source)
  <2> SUFFICES ASSUME NEW g \in File, g = worker'.from \/ g = s_source'
               PROVE  Arrived(g)' = Arrived(g) /\ (g = worker.from \/ g = s_source)
    OBVIOUS
  <2>1. g # None
    BY FileFacts
  <2>2. CASE g = worker'.from
    BY <1>2, <2>1, <2>2 DEF Arrived, Taken
  <2>3. CASE g = s_source' /\ g # worker'.from
    <3>1. g = s_source /\ g # worker.from
      BY <1>5, <2>1, <2>3
    <3> QED
      BY <2>3, <3>1 DEF Arrived, Taken
  <2> QED
    BY <2>2, <2>3
<1>9. Alone => \A g \in File : \A i \in DOMAIN stream'[g].buffer : stream'[g].buffer[i][1] = g
  BY DEF Owned
<1>10. worker'.from \in {worker.from, s_source, None}
  BY <1>2
<1> QED
  BY <1>3, <1>6, <1>7, <1>8, <1>9, <1>10, Elsewhere

LEMMA KeepsLetting == ASSUME IInv, OneHand', WorkerRelease \/ WorkerTail \/ WorkerSummary PROVE IInv'
<1> USE DEF IInv
<1>1. CASE WorkerRelease
  <2>1. /\ worker.pc = "release" /\ s_source' = None /\ s_installing' = FALSE
        /\ worker' = NoWorker \/ worker' = [worker EXCEPT !.pc = "tail"]
        /\ UNCHANGED <<host, thread, front, INSTALL_STATE, main, stream, outcome, marked, session>>
    BY <1>1 DEF WorkerRelease, Step, app
  <2>2. worker.pc \in Installing
    BY <2>1 DEF Installing
  <2>3. s_source # None
    BY <2>2, WorkerIs, FileFacts
  <2> QED
    BY <2>1, <2>2, <2>3, SessionStays, Lets
<1>2. CASE WorkerTail
  <2>1. /\ worker.pc = "tail" /\ (worker' = NoWorker \/ worker' = [worker EXCEPT !.pc = "summary"])
        /\ UNCHANGED <<host, thread, front, INSTALL_STATE, s_source, s_installing, main, stream, outcome, marked, session>>
    BY <1>2 DEF WorkerTail, Step, shared, app
  <2>2. worker.pc \notin Installing
    BY <2>1 DEF Installing
  <2>3. s_installing' \in BOOLEAN
    BY <2>1 DEF Types, InstallTypes
  <2> QED
    BY <2>1, <2>2, <2>3, SessionStays, Lets
<1>3. CASE WorkerSummary
  <2>1. /\ worker.pc = "summary" /\ worker' = NoWorker
        /\ UNCHANGED <<host, thread, front, INSTALL_STATE, s_source, s_installing, main, stream, outcome, marked>>
    BY <1>3 DEF WorkerSummary, shared
  <2>2. worker.pc \notin Installing
    BY <2>1 DEF Installing
  <2>3. s_installing' \in BOOLEAN
    BY <2>1 DEF Types, InstallTypes
  <2>4. SameSession
    BY <1>3 DEF WorkerSummary, Summary, SameSession, Types, InstallTypes, Sessions
  <2> QED
    BY <2>1, <2>2, <2>3, <2>4, Lets
<1> QED
  BY <1>1, <1>2, <1>3

LEMMA KeepsWorker == ASSUME IInv, OneHand', Worker PROVE IInv'
BY KeepsBegin, KeepsRead, KeepsEnd, KeepsMark, KeepsState, KeepsLetting DEF Worker

-----------------------------------------------------------------------------
(* The invariant, and what follows from it. *)
LEMMA KeepsCall == ASSUME IInv, OneHand', NEW t \in Transports, InCall(t) PROVE IInv'
<1>1. CASE Try(t) \/ (t = "ftp" /\ CloseSummary)
  BY <1>1, KeepsTry, KeepsSummary
<1>2. CASE Start(t) \/ StartWait(t) \/ StartCheck(t) \/ StartClaim(t) \/ StartRecheck(t)
  BY <1>2, KeepsStarts
<1>3. CASE StartPublish(t) \/ StartAnnounce(t)
  <2>1. thread[t].pc \in Starting
    BY <1>3 DEF StartPublish, StartAnnounce, At, Starting, Claiming
  <2>2. PICK f \in File : f = thread[t].call
    BY <2>1 DEF IInv, Fronts, Called
  <2> QED
    BY <1>3, <2>2, Publishes, Announces
<1>4. CASE WriteState(t) \/ WriteSource(t) \/ Push(t)
  BY <1>4, KeepsWriting
<1>5. CASE PushLock(t) \/ PushWait(t)
  BY <1>5, KeepsPush
<1> QED
  BY <1>1, <1>2, <1>3, <1>4, <1>5 DEF InCall

LEMMA KeepsNothing == ASSUME IInv, OneHand', UNCHANGED vars PROVE IInv'
<1> USE DEF IInv
<1>1. UNCHANGED <<host, thread, front, INSTALL_STATE, s_source, s_installing, main, session, worker, outcome, marked>> /\ Quieter
  BY Quiets DEF vars, shared, app, install
<1>2. s_installing' \in BOOLEAN /\ session' \in Sessions /\ events' \in Seq(File) /\ handling' \in Files /\ ui' \in Uis
  BY <1>1 DEF Types, InstallTypes, main
<1>3. Passed' /\ Opened'
  BY <1>1 DEF Passed, Opened, main
<1> QED
  BY <1>1, <1>2, <1>3, Aside DEF main

\* IInv is inductive.
LEMMA Inductive == ASSUME IInv, [Next]_vars PROVE IInv'
<1>1. OneHand'
  BY FlagKept DEF IInv
<1>2. ASSUME NEW t \in Transports, InCall(t) \/ Client(t) PROVE IInv'
  BY <1>1, <1>2, KeepsCall, Opens, KeepsWrite, KeepsClose, KeepsPoll DEF Client
<1>3. CASE Ui \/ WebOpens \/ WebEnds
  BY <1>1, <1>3, KeepsUi
<1>4. CASE Worker
  BY <1>1, <1>4, KeepsWorker
<1>5. CASE UNCHANGED vars
  BY <1>1, <1>5, KeepsNothing
<1> QED
  BY <1>2, <1>3, <1>4, <1>5 DEF Next

\* In every reachable state the flag is in one hand, and who has it tells whose file the source
\* is, what its install has read and what the session may show for it.
THEOREM Invariance == Spec => []IInv
<1>1. Init => IInv
  BY StartsTyped
<1>2. IInv /\ [Next]_vars => IInv'
  BY Inductive
<1> QED
  BY <1>1, <1>2, PTL DEF Spec

LEMMA TypedAsStated == IInv => TypeOK
<1> SUFFICES ASSUME IInv PROVE TypeOK
  OBVIOUS
<1> USE DEF IInv, Types, FrontTypes, InstallTypes
<1>1. \A t \in Transports : thread[t].call \in File \cup {None} /\ thread[t].target \in File \cup {None}
  BY DEF Threads, Files
<1>2. \A f \in File : stream[f].buffer \in Seq(File \X (1 .. Length))
  BY DEF Streams, Chunks
<1>3. session.state \in {"none", "installing", "summary"} /\ session.todo \subseteq File
  BY DEF Sessions
<1> QED
  BY <1>1, <1>2, <1>3 DEF TypeOK, Uploads, Files, Verdicts

\* TypeOK: what the clients, the transports, the main thread and the worker have of a file.
THEOREM Typing == Spec => []TypeOK
BY Invariance, TypedAsStated, PTL

\* MarkedOwn: the worker knows only "the current package", and that is its own while the session
\* is the one it was started in, so what is shown is what the install of that file returned.
THEOREM ShownIsOwn == Spec => []MarkedOwn
<1>1. IInv => MarkedOwn
  BY DEF IInv, Returned
<1> QED
  BY <1>1, Invariance, PTL

\* OwnChunksAlone: with one transport in use, no chunk of another file, of a refused one or of an
\* earlier one is in what an install reads.
THEOREM ReadsOwn == Spec => []OwnChunksAlone
<1>1. IInv => OwnChunksAlone
  <2> SUFFICES ASSUME IInv, Alone PROVE OwnChunks
    BY DEF OwnChunksAlone, Alone
  <2>1. \A f \in File : \A i \in DOMAIN stream[f].buffer : stream[f].buffer[i][1] = f
    BY DEF IInv, Owned
  <2>2. ASSUME worker.from # None
        PROVE  LET chunks == worker.got \o stream[worker.from].buffer IN chunks = [i \in 1 .. Len(chunks) |-> <<worker.from, i>>]
    <3>1. worker.from \in File
      BY <2>2 DEF IInv, Types, InstallTypes, Workers, Files
    <3>2. Whole(worker.from)
      BY <3>1 DEF IInv, Owned
    <3> QED
      BY <3>2 DEF Whole, Pieces, Arrived, Taken
  <2> QED
    BY <2>1, <2>2 DEF OwnChunks
<1> QED
  BY <1>1, Invariance, PTL

\* OneInstallAtATime counts with Cardinality and Len what the invariant counts place by place.
LEMMA CountedAsStated == OneHand => OneInstallAtATime
<1> SUFFICES ASSUME OneHand PROVE OneInstallAtATime
  OBVIOUS
<1>1. Len(events) = Sent
  <2>1. CASE events = << >>
    BY <2>1 DEF Sent, Count
  <2>2. ASSUME NEW f, events = <<f>> PROVE Len(events) = Sent
    BY <2>2 DEF Sent, Count
  <2> QED
    BY <2>1, <2>2 DEF OneHand, Shape
<1>2. Cardinality(Claims) = Claim("mtp") + Claim("ftp")
  <2>1. Claims \subseteq {"mtp", "ftp"} /\ ("mtp" \in Claims <=> Claim("mtp") = 1) /\ ("ftp" \in Claims <=> Claim("ftp") = 1)
    BY DEF Claims, Transports, Claim, Count, Claiming
  <2>2. CASE "mtp" \in Claims /\ "ftp" \in Claims
    <3>1. Claims = {"mtp"} \cup {"ftp"}
      BY <2>1, <2>2, Zenon
    <3>2. IsFiniteSet({"mtp"}) /\ Cardinality({"mtp"}) = 1 /\ "ftp" \notin {"mtp"}
      BY FS_Singleton
    <3>3. Cardinality({"mtp"} \cup {"ftp"}) = 2
      BY <3>2, FS_AddElement
    <3> QED
      BY <2>1, <2>2, <3>1, <3>3
  <2>3. CASE Claims = {"mtp"}
    <3>1. Cardinality({"mtp"}) = 1
      BY FS_Singleton
    <3> QED
      BY <2>1, <2>3, <3>1 DEF Claim, Count
  <2>4. CASE Claims = {"ftp"}
    <3>1. Cardinality({"ftp"}) = 1
      BY FS_Singleton
    <3> QED
      BY <2>1, <2>4, <3>1 DEF Claim, Count
  <2>5. CASE Claims = {}
    BY <2>1, <2>5, FS_EmptySet DEF Claim, Count
  <2> QED
    BY <2>1, <2>2, <2>3, <2>4, <2>5
<1> QED
  BY <1>1, <1>2 DEF OneHand, InHands, OneInstallAtATime, Count, Handling, Installing

\* OneInstallAtATime: the compare-and-exchange of OnInstallStart lets one install in, and each
\* path of it, in whatever thread, lowers s_installing once.
THEOREM OneHandOnTheFlag == Spec => []OneInstallAtATime
<1>1. IInv => OneInstallAtATime
  BY CountedAsStated DEF IInv
<1> QED
  BY <1>1, Invariance, PTL

-----------------------------------------------------------------------------
(* Waits. *)

\* A thread that has to wait: a transport between calls, or in OnInstallStart behind an earlier install; the
\* main thread for the mutex of a transport or for the old worker; the worker for the mutex of ftpsrv.
CallWaits(t) == thread[t].pc = "idle" \/ (thread[t].pc = "start_wait" /\ s_installing /\ Takes(t))
NeedsMutex(t) ==
  \/ ui = "handle" /\ session = NoSession /\ Origin(handling) = "ftp" /\ t = "ftp"
  \/ ui = "update" /\ Asks /\ t = session.origin
  \/ ui = "cancelling" /\ session.origin = "mtp" /\ t = "mtp"
UiWaits == (ui = "join" /\ worker # NoWorker) \/ \E t \in Transports : NeedsMutex(t) /\ Locked(t)
WorkerWaits == worker.pc = "none" \/ (worker.pc = "tail" /\ Locked("ftp"))

\* The main thread can go on, or the thread can that it waits for: the one that holds the mutex, the worker
\* that it joins, or the one that this worker waits for.
UiComesOn ==
  \/ ~UiWaits
  \/ \E t \in Transports : NeedsMutex(t) /\ Locked(t) /\ ~CallWaits(t)
  \/ ui = "join" /\ (~WorkerWaits \/ (Locked("ftp") /\ ~CallWaits("ftp")))

\* Whoever has the flag can go on, or the one can that it waits for.
FlagMoves ==
  s_installing =>
    \/ \E t \in Transports : thread[t].pc \in Claiming /\ ~CallWaits(t)
    \/ worker.pc \in Installing /\ ~WorkerWaits
    \/ (events # << >> \/ ui \in Handling) /\ UiComesOn
NobodyStranded == FlagMoves \/ Stuck

\* A cancel is under way only in a session that has been told of it; a worker is somewhere.
Told ==
  /\ ui = "cancelling" => session.id \in cancelled /\ session.state # "none"
  /\ worker.pc = "none" => worker = NoWorker

LEMMA ToldStarts == Init => Told
BY DEF Init, Told, NoWorker

\* The name of a session and what it has been told stay while the main thread is in CancelTransfer.
LEMMA ToldKept == ASSUME IInv, Told, [Next]_vars PROVE Told'
<1>0. session \in Sessions /\ worker \in Workers
  BY DEF IInv, Types, InstallTypes
<1> DEFINE SameUi == UNCHANGED <<ui, cancelled>>
           SameId == session'.id = session.id /\ (session.state # "none" => session'.state # "none")
           SameWorker == worker' = worker \/ worker' = NoWorker \/ worker'.pc # "none"
<1>1. ASSUME SameUi, SameId, SameWorker PROVE Told'
  BY <1>1 DEF Told, NoWorker
<1>2. ASSUME NEW t \in Transports, InCall(t) \/ Client(t) PROVE Told'
  <2>1. SameUi /\ worker' = worker
    BY <1>2 DEF InCall, Client, Try, Start, StartWait, StartCheck, StartClaim, StartRecheck, StartPublish, StartAnnounce,
      WriteState, WriteSource, Push, PushLock, PushWait, CloseSummary, Open, Write, Close, Closes, Poll, main, app, install
  <2>2. CASE Open(t)
    <3>1. SameId
      BY <1>0, <2>2 DEF Open, Sessions
    <3> QED BY <1>1, <2>1, <3>1
  <2>3. CASE CloseSummary
    <3>1. SameId
      BY <1>0, <2>3 DEF CloseSummary, Summary, Sessions
    <3> QED BY <1>1, <2>1, <3>1
  <2>4. CASE ~Open(t) /\ ~CloseSummary
    <3>1. session' = session
      BY <1>2, <2>4 DEF InCall, Client, Try, Start, StartWait, StartCheck, StartClaim, StartRecheck, StartPublish, StartAnnounce,
        WriteState, WriteSource, Push, PushLock, PushWait, Write, Close, Closes, Poll, app
    <3> QED BY <1>1, <2>1, <3>1
  <2> QED BY <2>2, <2>3, <2>4
<1>3. CASE WebOpens \/ WebEnds
  <2>1. UNCHANGED <<ui, cancelled, worker>>
    BY <1>3 DEF WebOpens, WebEnds, main, install
  <2>2. CASE WebOpens
    BY <2>1, <2>2 DEF WebOpens, Told, NoSession
  <2>3. CASE WebEnds
    <3>1. SameId
      BY <1>0, <2>3 DEF WebEnds, Summary, Sessions
    <3> QED BY <1>1, <2>1, <3>1
  <2> QED BY <1>3, <2>2, <2>3
<1>4. CASE Ui
  <2>1. CASE UiInput
    BY <2>1 DEF UiInput, Told, install
  <2>2. CASE UiSpawn
    BY <2>2 DEF UiSpawn, Told, NoWorker
  <2>3. CASE UiEvent \/ UiForeign \/ UiSession \/ UiJoin \/ UiUpdate \/ UiCancelling
    BY <2>3 DEF UiEvent, UiForeign, UiSession, UiJoin, UiUpdate, UiCancelling, Told, install
  <2> QED BY <1>4, <2>1, <2>2, <2>3 DEF Ui
<1>5. CASE Worker
  <2>1. SameUi
    BY <1>5 DEF Worker, WorkerStart, WorkerRead, WorkerEnd, WorkerMark, WorkerState, WorkerRelease, WorkerTail, WorkerSummary, main, app
  <2>2. SameId
    BY <1>0, <1>5 DEF Worker, WorkerStart, WorkerRead, WorkerEnd, WorkerMark, WorkerState, WorkerRelease, WorkerTail, WorkerSummary,
      app, Summary, Sessions
  <2>3. SameWorker
    BY <1>0, <1>5 DEF Worker, WorkerStart, WorkerRead, WorkerEnd, WorkerMark, WorkerState, WorkerRelease, WorkerTail, WorkerSummary,
      Step, Ends, Workers
  <2> QED BY <1>1, <2>1, <2>2, <2>3
<1>6. CASE UNCHANGED vars
  BY <1>1, <1>6 DEF vars, main, app, install
<1> QED BY <1>2, <1>3, <1>4, <1>5, <1>6 DEF Next

\* A transport waits with its mutex only in a session that is there and not cancelled; so the main thread waits
\* for it, or the worker does, only in the two ways of Stuck.
LEMMA FlagNotStranded == ASSUME IInv, Told PROVE NobodyStranded
<1> SUFFICES ASSUME s_installing, ~Stuck PROVE FlagMoves
  BY DEF NobodyStranded, FlagMoves
<1>0. OneHand /\ Exclusive /\ worker \in Workers
  BY Excludes DEF IInv, Types, InstallTypes
<1>1. \/ \E t \in Transports : thread[t].pc \in Claiming
      \/ worker.pc \in Installing
      \/ events # << >> \/ ui \in Handling
  BY <1>0 DEF OneHand, InHands, Claim, Sent, Count, Transports
<1>2. CASE \E t \in Transports : thread[t].pc \in Claiming
  BY <1>2 DEF FlagMoves, CallWaits, Claiming
<1>3. CASE worker.pc \in Installing
  BY <1>3 DEF FlagMoves, WorkerWaits, Installing
<1>4. CASE events # << >> \/ ui \in Handling
  <2>1. ASSUME NEW t \in Transports, Locked(t), CallWaits(t) PROVE thread[t].pc = "start_wait" /\ Takes(t)
    BY <2>1 DEF Locked, CallWaits
  <2>2. CASE ui = "join" /\ worker # NoWorker
    <3>1. worker.pc \in {"tail", "summary"}
      BY <1>0, <2>2 DEF Exclusive, Told, Workers, Handling
    <3>2. WorkerWaits => worker.pc = "tail" /\ Locked("ftp")
      BY <3>1 DEF WorkerWaits
    <3>3. WorkerWaits => ~CallWaits("ftp")
      BY <2>1, <2>2, <3>2 DEF Stuck, Transports
    <3>4. UiComesOn
      BY <2>2, <3>2, <3>3 DEF UiComesOn
    <3> QED BY <1>4, <3>4 DEF FlagMoves
  <2>3. ASSUME NEW t \in Transports, NeedsMutex(t), Locked(t) PROVE ~CallWaits(t)
    <3>1. SUFFICES ASSUME thread[t].pc = "start_wait", Takes(t) PROVE FALSE
      BY <2>1, <2>3
    <3>2. CASE ui = "handle"
      BY <2>3, <3>1, <3>2 DEF NeedsMutex, Takes, NoSession
    <3>3. CASE ui = "update"
      BY <1>4, <2>3, <3>1, <3>3 DEF NeedsMutex, Stuck, Handling
    <3>4. CASE ui = "cancelling"
      BY <3>1, <3>4 DEF Told, Takes
    <3> QED BY <2>3, <3>2, <3>3, <3>4 DEF NeedsMutex
  <2>4. CASE ~(ui = "join" /\ worker # NoWorker)
    BY <1>4, <2>3, <2>4 DEF FlagMoves, UiComesOn, UiWaits
  <2> QED BY <2>2, <2>4
<1> QED BY <1>1, <1>2, <1>3, <1>4

\* The one that has the flag can always go on, or the one that it waits for can, whatever the clients, the user
\* and other jobs do, but for the two deadlocks of Stuck, of the main thread with a transport in OnInstallStart:
\* s_installing is never up without somebody under way to lower it.  This is what safety says of InstallsEnd, for any number of files.
THEOREM NeverStranded == Spec => []NobodyStranded
<1>1. IInv /\ Told /\ [Next]_vars => Told'
  BY ToldKept
<1> QED BY <1>1, ToldStarts, FlagNotStranded, Invariance, PTL DEF Spec
==============================================================================
