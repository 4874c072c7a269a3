---------------------------- MODULE DownloadPool ----------------------------
(* The pool of download threads: the main thread adds requests to a queue,   *)
(* one queue thread hands them to MAX_THREADS workers, a worker that is done *)
(* pushes an event, and the main thread calls the callback unless the token  *)
(* of the request was told to stop meanwhile.  Events that wake a thread     *)
(* clear themselves.  RequestShutdown may come at any moment, from the       *)
(* applet hook or from the end of the application.                           *)
EXTENDS Download

VARIABLES
  entries,      \* ThreadQueue::m_entries
  queue,        \* where the queue thread is, pop_count, and the worker it looks at
  queue_event,  \* its m_uevent
  event,        \* m_uevent of each worker
  in_progress,  \* m_in_progress of each worker
  events,       \* evman: the requests whose callback the main thread has to call
  calls,        \* how often the callback of a request was called
  asked,        \* the requests that were added
  main          \* where the main thread is
pool == <<entries, queue, queue_event, event, in_progress>>
app == <<events, calls, asked, main>>
vars == <<environment, g_running, stopped, download, pool, app>>

Init ==
  /\ DownloadInit
  /\ entries = <<>> /\ queue_event = FALSE
  /\ queue \in [pc : IF Fault("start") THEN {"wait", "none"} ELSE {"wait"}, pop_count : {0}, look : {1}]
  /\ event = [k \in Thread |-> FALSE] /\ in_progress = [k \in Thread |-> FALSE]
  /\ events = <<>> /\ calls = [r \in Request |-> 0] /\ asked = {} /\ main = "loop"

\* the mutex of the queue
Locked == queue.pc = "scan"
Loop == IF g_running THEN "wait" ELSE "dead"

-----------------------------------------------------------------------------
(* The main thread                                                           *)
\* mutant: without the mutex
AddUnlocked(r) ==
  /\ main = "loop" /\ g_running /\ r = Cardinality(asked) + 1 /\ asked' = asked \cup {r}
  /\ entries' = Append(entries, r) \/ entries' = <<r>> \o entries
  /\ queue_event' = TRUE
  /\ UNCHANGED <<environment, g_running, stopped, download, queue, event, in_progress, events, calls, main>>
\* mutant: the queue is not told
AddSilent(r) ==
  /\ main = "loop" /\ g_running /\ r = Cardinality(asked) + 1 /\ asked' = asked \cup {r}
  /\ ~Locked
  /\ entries' = Append(entries, r) \/ entries' = <<r>> \o entries
  /\ UNCHANGED <<environment, g_running, stopped, download, queue, queue_event, event, in_progress, events, calls, main>>
\* ToFileAsync, ToMemoryAsync, numbered as they come: to the back, or to the front with Priority::High
Add(r) ==
  /\ main = "loop" /\ g_running /\ r = Cardinality(asked) + 1 /\ asked' = asked \cup {r}
  /\ ~Locked
  /\ entries' = Append(entries, r) \/ entries' = <<r>> \o entries
  /\ queue_event' = TRUE
  /\ UNCHANGED <<environment, g_running, stopped, download, queue, event, in_progress, events, calls, main>>
\* a menu goes away, and its token with it: of interest before the callback is called
Stop(r) ==
  /\ Fault("stop") /\ main = "loop" /\ g_running
  /\ r \in asked \ stopped /\ calls[r] = 0 /\ stopped' = stopped \cup {r}
  /\ UNCHANGED <<environment, g_running, download, pool, app>>
Deliver ==
  /\ main = "loop" /\ events # <<>> /\ events' = Tail(events)
  /\ calls' = IF Head(events) \in stopped THEN calls ELSE [calls EXCEPT ![Head(events)] = @ + 1]
  /\ UNCHANGED <<environment, g_running, stopped, download, pool, asked, main>>
RequestShutdown ==
  /\ main = "loop" /\ g_running' = FALSE
  /\ queue_event' = TRUE /\ event' = [k \in Thread |-> TRUE]
  /\ UNCHANGED <<environment, stopped, download, entries, queue, in_progress, app>>
\* the destructor of App: shut down, and every menu is destroyed
Quit ==
  /\ main = "loop" /\ main' = "exit"
  /\ g_running' = FALSE /\ queue_event' = TRUE /\ event' = [k \in Thread |-> TRUE]
  /\ stopped' = asked
  /\ UNCHANGED <<environment, download, entries, queue, in_progress, events, calls, asked>>
\* ThreadQueue::Close, and ThreadEntry::Close of each worker
JoinQueue ==
  /\ main = "exit" /\ queue.pc \in {"dead", "none"} /\ main' = "join"
  /\ UNCHANGED <<environment, g_running, stopped, download, pool, events, calls, asked>>
JoinThreads ==
  /\ main = "join" /\ (\A k \in Thread : thread[k].pc \in {"dead", "none"}) /\ main' = "ended"
  /\ UNCHANGED <<environment, g_running, stopped, download, pool, events, calls, asked>>

-----------------------------------------------------------------------------
(* The queue thread                                                          *)
QueueOnly == UNCHANGED <<environment, g_running, stopped, temp, dst, app>>
QueueWakes ==
  /\ queue.pc = "wait" /\ queue_event /\ queue_event' = FALSE
  /\ queue' = [queue EXCEPT !.pc = IF g_running THEN "lock" ELSE "dead"]
  /\ UNCHANGED <<thread, entries, event, in_progress>> /\ QueueOnly
QueueLocks ==
  /\ queue.pc = "lock"
  /\ queue' = [pc |-> IF entries = <<>> THEN Loop ELSE "scan", pop_count |-> 0, look |-> 1]
  /\ UNCHANGED <<thread, entries, queue_event, event, in_progress>> /\ QueueOnly
QueueReturns ==
  /\ queue.pc = "scan" /\ ~g_running /\ queue' = [queue EXCEPT !.pc = "dead"]
  /\ UNCHANGED <<thread, entries, queue_event, event, in_progress>> /\ QueueOnly
HasEntry == queue.pop_count < Len(entries)
LooksOn ==
  /\ queue.pc = "scan" /\ HasEntry /\ queue.look \in Thread /\ in_progress[queue.look]
  /\ queue' = [queue EXCEPT !.look = @ + 1]
  /\ UNCHANGED <<thread, entries, queue_event, event, in_progress>> /\ QueueOnly
\* the flag is all that says that a worker is there
Setup ==
  /\ queue.pc = "scan" /\ HasEntry /\ queue.look \in Thread /\ ~in_progress[queue.look]
  /\ LET k == queue.look IN
     /\ thread' = [thread EXCEPT ![k].api = entries[queue.pop_count + 1]]
     /\ in_progress' = [in_progress EXCEPT ![k] = TRUE] /\ event' = [event EXCEPT ![k] = TRUE]
  /\ queue' = [queue EXCEPT !.pop_count = @ + 1, !.look = 1]
  /\ UNCHANGED <<entries, queue_event>> /\ QueueOnly
QueuePops ==
  /\ queue.pc = "scan" /\ (~HasEntry \/ queue.look \notin Thread)
  /\ entries' = SubSeq(entries, queue.pop_count + 1, Len(entries))
  /\ queue' = [pc |-> Loop, pop_count |-> 0, look |-> 1]
  /\ UNCHANGED <<thread, queue_event, event, in_progress>> /\ QueueOnly
QueueThread == QueueWakes \/ QueueLocks \/ QueueReturns \/ LooksOn \/ Setup \/ QueuePops

-----------------------------------------------------------------------------
(* A worker                                                                  *)
Wakes(k) ==
  /\ At(k, "wait") /\ event[k] /\ event' = [event EXCEPT ![k] = FALSE]
  /\ Goto(k, IF g_running THEN "start" ELSE "dead")
  /\ UNCHANGED <<temp, dst, entries, queue, queue_event, in_progress, app>> /\ Others
Reply(k) ==
  /\ At(k, "reply") /\ Goto(k, "free")
  /\ events' = IF GivesUp(k) THEN events ELSE Append(events, thread[k].api)
  /\ UNCHANGED <<temp, dst, pool, calls, asked, main>> /\ Others
\* m_api means nothing from here on
Frees(k) ==
  /\ At(k, "free") /\ thread' = [thread EXCEPT ![k] = [Idle EXCEPT !.pc = "signal"]]
  /\ in_progress' = [in_progress EXCEPT ![k] = FALSE]
  /\ UNCHANGED <<temp, dst, entries, queue, queue_event, event, app>> /\ Others
Signals(k) ==
  /\ At(k, "signal") /\ Goto(k, Loop) /\ queue_event' = TRUE
  /\ UNCHANGED <<temp, dst, entries, queue, event, in_progress, app>> /\ Others
WorkerThread(k) ==
  Wakes(k) \/ Reply(k) \/ Frees(k) \/ Signals(k) \/ (Works(k) /\ UNCHANGED <<pool, app>>)

-----------------------------------------------------------------------------
Exit == JoinQueue \/ JoinThreads
User == (\E r \in DOMAIN setting.kind : Add(r) \/ Stop(r)) \/ RequestShutdown \/ Quit
Server == ((\E k \in Thread : Responds(k)) \/ Publish) /\ UNCHANGED <<pool, app>>
Next == User \/ Server \/ Deliver \/ Exit \/ QueueThread \/ \E k \in Thread : WorkerThread(k)

\* the threads and the main loop run; the server owes no answer
Fairness ==
  WF_vars(QueueThread) /\ (\A k \in Thread : WF_vars(WorkerThread(k))) /\ WF_vars(Deliver) /\ WF_vars(Exit)
Spec == Init /\ [][Next]_vars /\ Fairness

-----------------------------------------------------------------------------
\* every variable holds what the code's declarations and its assertion in Setup allow
TypeOK ==
  /\ g_running \in BOOLEAN /\ stopped \subseteq Request
  /\ \A k \in Thread : thread[k].attempt \in 0 .. DOWNLOAD_MAX_ATTEMPTS /\ thread[k].file_offset \in 0 .. Length
  /\ entries \in Seq(Request) /\ queue.pop_count \in 0 .. Len(entries) /\ queue.look \in 1 .. MAX_THREADS + 1
  /\ queue_event \in BOOLEAN /\ event \in [Thread -> BOOLEAN]
  /\ in_progress \in [Thread -> BOOLEAN] /\ events \in Seq(Request)
  /\ \A k \in Thread : thread[k].pc \in {"start", "perform", "delete", "rename", "reply", "free"} => in_progress[k]

\* A request that was added is in one hand as long as nobody stops it: the queue's, a
\* worker's or the main thread's, until its callback has been called, and once.
Queued(r) == {n \in queue.pop_count + 1 .. Len(entries) : entries[n] = r}
Held(r) == {k \in Thread : in_progress[k] /\ thread[k].api = r /\ thread[k].pc # "free"}
Hands(r) == Cardinality(Queued(r)) + Cardinality(Held(r)) + Cardinality({n \in DOMAIN events : events[n] = r}) + calls[r]
InOneHand ==
  \A r \in Request :
    /\ Hands(r) <= 1
    /\ r \in asked \ stopped /\ g_running => Hands(r) = 1

\* A request can wait for ever only behind servers that do not answer, or because a thread
\* did not start; and the application always gets through its exit.
Busy(k) == in_progress[k] /\ thread[k].pc \in {"perform", "none"}
Excused(r) ==
  \/ queue.pc = "none"
  \/ \E k \in Held(r) : Busy(k)
  \/ Queued(r) # {} /\ \A k \in Thread : Busy(k)
NobodyWaits ==
  /\ \A r \in Request : <>[](g_running /\ r \in asked \ stopped /\ calls[r] = 0) => <>[]Excused(r)
  /\ main = "exit" ~> main = "ended"
=============================================================================
