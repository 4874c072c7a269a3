---------------------------- MODULE SessionQueue ----------------------------
(* The queue of a PC install session (ui/menus/dbi): the session thread      *)
(* (Menu::ThreadFunction) analyses what the PC lists, lets the user review   *)
(* it, installs it, and polls the PC's live queue all along; the main thread *)
(* ticks, confirms, skips and cancels.  Both own the queue under m_mutex,    *)
(* but the live update of the review copies it, analyses without the lock    *)
(* and stores the result.                                                    *)
(*                                                                           *)
(* The PC is external: whenever it is asked it may list any packages in any  *)
(* order with any ticks, or fail.  Targets and sizes are left out: a package *)
(* fits or does not fit (full).  The sorted order of the console is any      *)
(* order, as the PC's is.                                                    *)
EXTENDS Integers, Sequences, FiniteSets, SequencesExt
CONSTANTS Packages, Compressed, MaxQueue, MaxLinkRetries
ASSUME SessionAssumption == IsFiniteSet(Packages) /\ Compressed \subseteq Packages /\ MaxQueue \in Nat /\ MaxLinkRetries \in Nat

VARIABLES
  queue,     \* m_queue
  state,     \* m_state
  requested, \* m_install_requested
  cancel,    \* m_cancel_requested
  skip,      \* m_skip_requested
  gate,      \* m_skip_gate
  current,   \* m_current_package
  signal,    \* the cancel event of the usb device: it clears itself
  pc,        \* where the session thread is
  i,         \* its loop over the queue
  fresh,     \* new_queue and changed, between the copy and the store
  run,       \* attempt, install_rc and user_skipped of the package, and whether the hook ran since CheckCancelled
  failed,    \* m_session_failed
  protocol,  \* of the host: dbi with selection sync, dbi or tinfoil without, or goldleaf
  dialog,    \* the OptionBox on the screen
  popped     \* SetPop was called: the menu goes away
VARIABLES    \* history
  shown,     \* packages passed and then listed unticked
  yes        \* the user confirmed a skip of the package at i
console == <<requested, dialog, popped>>
package == <<gate, current, i, run, failed>>
history == <<shown, yes>>
vars == <<queue, state, cancel, skip, signal, pc, fresh, protocol, console, package, history>>

Orders == {s \in UNION {[1 .. m -> Packages] : m \in 0 .. Cardinality(Packages)} : IsInjective(s)}
Lists == {[x \in DOMAIN s |-> [name |-> s[x], selected |-> s[x] \in ticked]] : s \in Orders, ticked \in SUBSET Packages}
\* the same without the order
Listed == {Range(items) : items \in Lists}
Entry(n, sel, ok, later) ==
  [name |-> n, selected |-> sel, ok |-> ok, isel |-> later /\ sel, deferred |-> later, dirty |-> FALSE, armed |-> FALSE, result |-> "none"]
Names(q) == {q[k].name : k \in DOMAIN q}
IndexOf(q, n) == CHOOSE k \in DOMAIN q : q[k].name = n
Installed(e) == e.result = "installed"
Ready(e) == e.selected /\ e.ok
sync == protocol = "sync"   \* HasSelectionSync
NoDialog == [kind |-> "none", pkg |-> 0]
NoFresh == [queue |-> <<>>, todo |-> {}, changed |-> FALSE]
NoRun == [attempt |-> 0, rc |-> "none", skipped |-> FALSE, polled |-> FALSE]

Init ==
  /\ queue = <<>> /\ state = "waiting" /\ pc = "connect" /\ protocol \in {"sync", "plain", "goldleaf"}
  /\ requested = FALSE /\ cancel = FALSE /\ skip = FALSE /\ signal = FALSE /\ popped = FALSE /\ failed = FALSE
  /\ gate = [package |-> 0, open |-> FALSE, accepted |-> FALSE]
  /\ current = 1 /\ i = 0 /\ fresh = NoFresh /\ run = NoRun /\ dialog = NoDialog
  /\ shown = {} /\ yes = FALSE

-----------------------------------------------------------------------------
(* The session thread: connection, first list, review. *)
Go(to) == pc' = to
Quiet == UNCHANGED <<console, skip, protocol>>
Ends(s) == Go("end") /\ state' = s /\ Quiet /\ UNCHANGED <<queue, cancel, signal, fresh, package, history>>
\* the user stopped the session before it installs: every place that looks at the flag
StopsEarly == pc \in {"connect", "analyse", "review"} /\ cancel /\ Ends("cancelled")
\* the host lists its packages; stream hosts are refused
Connect ==
  /\ pc = "connect" /\ ~cancel
  /\ \/ Go("analyse") /\ state' = "analysing" /\ UNCHANGED failed
     \/ Go("end") /\ state' = "failed" /\ failed' = TRUE
  /\ Quiet /\ UNCHANGED <<queue, cancel, signal, fresh, gate, current, i, run, history>>
ConnectCancelled ==
  /\ pc = "connect" /\ signal /\ signal' = FALSE /\ Go("end") /\ state' = "cancelled"
  /\ Quiet /\ UNCHANGED <<queue, cancel, fresh, package, history>>
\* one package of the list; an analysis that fails leaves it unticked
Appended(n, ok) == queue' = Append(queue, Entry(n, ok, ok, FALSE))
Analyse ==
  /\ pc = "analyse" /\ ~cancel
  /\ \E n \in Packages \ Names(queue), ok \in BOOLEAN : Appended(n, ok)
  /\ Quiet /\ UNCHANGED <<state, cancel, signal, pc, fresh, package, history>>
AnalyseCancelled ==
  /\ pc = "analyse" /\ signal /\ signal' = FALSE
  /\ \E n \in Packages \ Names(queue) : Appended(n, FALSE)
  /\ Quiet /\ UNCHANGED <<state, cancel, pc, fresh, package, history>>
\* the console sees the review, for the first time or because it went back to it,
Analysed ==
  /\ pc = "analyse" \/ (pc = "wait" /\ state \notin {"summary", "cancelled"})
  /\ ~cancel /\ Go("reviewing") /\ state' = "review" /\ i' = 0
  /\ Quiet /\ UNCHANGED <<queue, cancel, signal, fresh, gate, current, run, failed, history>>
\* and only then the request goes away, also one that came in between
ForgetRequest ==
  /\ pc = "reviewing" /\ Go("review") /\ requested' = FALSE
  /\ UNCHANGED <<queue, state, cancel, skip, signal, fresh, protocol, dialog, popped, package, history>>

\* a poll of the review: first the console's changes, when there are any (the plan also goes out for other reasons)
SendQueuePlan ==
  /\ pc = "review" /\ ~requested /\ ~cancel /\ sync
  /\ Go("sending")
  /\ Quiet /\ UNCHANGED <<queue, state, cancel, signal, fresh, package, history>>
PlanUnchanged ==
  /\ pc = "review" /\ ~requested /\ ~cancel /\ sync
  /\ \A k \in DOMAIN queue : ~queue[k].dirty
  /\ Go("fetch") /\ Quiet /\ UNCHANGED <<queue, state, cancel, signal, fresh, package, history>>
\* the marks go away, also those of ticks that came while the plan was on its way
Unmarked == [k \in DOMAIN queue |-> [queue[k] EXCEPT !.dirty = FALSE]]
PlanSent ==
  /\ pc = "sending" /\ Go("fetch")
  /\ queue' = Unmarked
  /\ Quiet /\ UNCHANGED <<state, cancel, signal, fresh, package, history>>
PlanNotSent ==
  /\ pc = "sending" /\ Go("fetch")
  /\ signal' \in {FALSE, signal}
  /\ Quiet /\ UNCHANGED <<queue, state, cancel, fresh, package, history>>
\* the review is over: one more look at the PC's list
LastFetch ==
  /\ pc = "review" /\ requested /\ ~cancel
  /\ Go(IF sync THEN "lastfetch" ELSE "begin")
  /\ Quiet /\ UNCHANGED <<queue, state, cancel, signal, fresh, package, history>>
After == CASE pc = "fetch" -> "review" [] pc = "lastfetch" -> "begin" [] pc = "apply" -> "review" [] pc = "lastapply" -> "begin"
FetchFails ==
  /\ pc \in {"fetch", "lastfetch"} /\ Go(After) /\ signal' \in {FALSE, signal}
  /\ Quiet /\ UNCHANGED <<queue, state, cancel, fresh, package, history>>
\* ApplyLiveQueue, review: the copy of the queue takes the PC's ticks but for rows
\* the console has marked, or for all of them for 1.5 s after a plan (inFlight)
Reviewed(it, inFlight) ==
  IF it.name \notin Names(queue) THEN Entry(it.name, it.selected, TRUE, FALSE)
  ELSE LET e == queue[IndexOf(queue, it.name)] IN
       IF e.dirty \/ inFlight THEN e ELSE [e EXCEPT !.selected = it.selected /\ e.ok]
Copy ==
  /\ pc \in {"fetch", "lastfetch"} /\ Go(IF pc = "fetch" THEN "apply" ELSE "lastapply")
  /\ \E items \in Lists, inFlight \in BOOLEAN :
       LET new == [x \in DOMAIN items |-> Reviewed(items[x], inFlight)] IN
       fresh' = [queue |-> new, todo |-> Names(items) \ Names(queue),
                 changed |-> \/ Names(items) # Names(queue)
                             \/ \E e \in Range(new) : e.selected # queue[IndexOf(queue, e.name)].selected]
  /\ Quiet /\ UNCHANGED <<queue, state, cancel, signal, package, history>>
\* the packages the PC has added are analysed over usb, without the lock
AnalysedNew(n, ok) ==
  LET k == IndexOf(fresh.queue, n) IN
  fresh' = [fresh EXCEPT !.todo = @ \ {n}, !.queue[k].ok = ok, !.queue[k].selected = @ /\ ok]
AnalyseNew ==
  /\ pc \in {"apply", "lastapply"} /\ \E n \in fresh.todo, ok \in BOOLEAN : AnalysedNew(n, ok)
  /\ Quiet /\ UNCHANGED <<queue, state, cancel, signal, pc, package, history>>
AnalyseNewCancelled ==
  /\ pc \in {"apply", "lastapply"} /\ signal /\ signal' = FALSE /\ \E n \in fresh.todo : AnalysedNew(n, FALSE)
  /\ Quiet /\ UNCHANGED <<queue, state, cancel, pc, package, history>>
\* the copy replaces the queue; after the last one the plan is made again, if it changed
Planned(q) == [k \in DOMAIN q |-> [q[k] EXCEPT !.isel = Ready(q[k])]]
Store ==
  /\ pc \in {"apply", "lastapply"} /\ fresh.todo = {} /\ Go(After) /\ fresh' = NoFresh
  /\ queue' = IF pc = "lastapply" /\ fresh.changed THEN Planned(fresh.queue) ELSE fresh.queue
  /\ Quiet /\ UNCHANGED <<state, cancel, signal, package, history>>

-----------------------------------------------------------------------------
(* The session thread: installing. *)
\* the marks are read in the review only
Begin ==
  /\ pc = "begin" /\ Go("head") /\ i' = 1 /\ state' = "installing" /\ queue' = Unmarked
  /\ Quiet /\ UNCHANGED <<cancel, signal, fresh, gate, current, run, failed, history>>
Future == {queue[k].name : k \in i + 1 .. Len(queue)}
Frozen == {queue[k].name : k \in 1 .. i}
\* the last place in front of the active one where the package was passed without being installed
Passed(n) == {k \in 1 .. i - 1 : queue[k].name = n /\ ~Installed(queue[k])}
Retries(it) == it.name \in Frozen \ Future /\ Passed(it.name) # {}
Arms(it) == Retries(it) /\ ~it.selected
Again(it) == Retries(it) /\ it.selected /\ queue[Max(Passed(it.name))].armed
Behind(it) == it.name \in Future \/ it.name \notin Frozen \/ Again(it)
Relisted(it) ==
  IF it.name \in Future
  THEN LET e == queue[i + IndexOf(SubSeq(queue, i + 1, Len(queue)), it.name)] IN [e EXCEPT !.selected = it.selected]
  ELSE Entry(it.name, it.selected, TRUE, TRUE)
\* what is ticked and readable is planned; a package that does not fit loses its tick
Replanned(e, full) ==
  IF ~Ready(e) THEN [e EXCEPT !.isel = FALSE]
  ELSE IF e.name \in full THEN [e EXCEPT !.isel = FALSE, !.selected = FALSE] ELSE [e EXCEPT !.isel = TRUE]
\* mutant: the right to be queued again is not used up
FrozenPartArmed(items) ==
  [k \in 1 .. i |-> IF \E it \in items : Arms(it) /\ k = Max(Passed(it.name)) THEN [queue[k] EXCEPT !.armed = TRUE] ELSE queue[k]]
\* ApplyLiveQueue while installing: up to the active package nothing changes but the
\* right to be queued again, behind it the PC's list counts, in the order of the list
FrozenPart(items) ==
  [k \in 1 .. i |->
     LET mine == {it \in items : Retries(it) /\ k = Max(Passed(it.name))} IN
     [queue[k] EXCEPT !.armed = IF \E it \in mine : Arms(it) THEN TRUE
                                ELSE IF \E it \in mine : Again(it) THEN FALSE ELSE @]]
Named(items) == {it.name : it \in items}
LiveUpdate ==
  \E items \in Listed, behind \in Lists :
    /\ Range(behind) = {it \in items : Behind(it)}
    /\ i + Len(behind) <= MaxQueue
    /\ \E full \in SUBSET Named({it \in Range(behind) : it.selected}) :
         queue' = FrozenPart(items) \o [x \in DOMAIN behind |-> Replanned(Relisted(behind[x]), full)]
    /\ shown' = (shown \ Named({it \in items : Again(it)})) \cup Named({it \in items : Arms(it)})
\* the loop head: a live fetch, which may fail
LoopHead ==
  /\ pc = "head" /\ i <= Len(queue) /\ Go("take")
  /\ \/ sync /\ LiveUpdate /\ UNCHANGED signal
     \/ UNCHANGED <<queue, shown>> /\ signal' \in {FALSE, signal}
  /\ Quiet /\ UNCHANGED <<state, cancel, fresh, package, yes>>
LoopEnds ==
  /\ pc = "head" /\ i > Len(queue) /\ Go("finish")
  /\ Quiet /\ UNCHANGED <<queue, state, cancel, signal, fresh, package, history>>
Next1 == i' = i + 1 /\ Go("head")
PassOver ==
  /\ pc = "take" /\ ~queue[i].isel /\ Next1
  /\ Quiet /\ UNCHANGED <<queue, state, cancel, signal, fresh, gate, current, run, failed, history>>
Take ==
  /\ pc = "take" /\ queue[i].isel
  /\ skip' = FALSE /\ current' = i /\ run' = NoRun /\ yes' = FALSE
  /\ Go(IF cancel THEN "finish" ELSE IF queue[i].deferred THEN "analyseone" ELSE "open")
  /\ UNCHANGED <<queue, state, cancel, signal, fresh, console, protocol, gate, i, failed, shown>>
\* a package the PC added while installing is analysed when its turn comes
DeferredAnalysis(ok) ==
  /\ pc = "analyseone" /\ Go(IF ok THEN "open" ELSE "status")
  /\ queue' = [queue EXCEPT ![i].ok = ok, ![i].deferred = FALSE, ![i].result = IF ok THEN @ ELSE "failed"]
  /\ Quiet /\ UNCHANGED <<state, cancel, fresh, package, history>>
AnalyseOne == \E ok \in BOOLEAN : DeferredAnalysis(ok) /\ UNCHANGED signal
AnalyseOneCancelled == signal /\ signal' = FALSE /\ DeferredAnalysis(FALSE)
Open ==
  /\ pc = "open" /\ Go("install") /\ gate' = [package |-> i, open |-> TRUE, accepted |-> FALSE]
  /\ Quiet /\ UNCHANGED <<queue, state, cancel, signal, fresh, current, i, run, failed, history>>
\* the PostReadHook of the install: a poll after a read; CheckCancelled comes before the next read
Hook ==
  /\ pc = "install" /\ sync /\ ~run.polled /\ run' = [run EXCEPT !.polled = TRUE]
  /\ \/ LiveUpdate /\ UNCHANGED signal
     \/ signal /\ signal' = FALSE /\ UNCHANGED <<queue, shown>>
  /\ Quiet /\ UNCHANGED <<state, cancel, pc, fresh, gate, current, i, failed, yes>>
CheckCancelled ==
  /\ pc = "install" /\ run.polled /\ ~cancel /\ ~skip /\ run' = [run EXCEPT !.polled = FALSE]
  /\ Quiet /\ UNCHANGED <<queue, state, cancel, signal, pc, fresh, gate, current, i, failed, history>>
Returns(rc) ==
  /\ pc = "install" /\ Go("close") /\ run' = [run EXCEPT !.rc = rc, !.polled = FALSE]
  /\ Quiet /\ UNCHANGED <<queue, state, cancel, fresh, gate, current, i, failed, history>>
InstallEnds == \E rc \in {"installed", "failed"} : Returns(rc) /\ UNCHANGED signal
\* CheckCancelled between two steps of the install
InstallStops == (cancel \/ skip) /\ Returns("cancelled") /\ UNCHANGED signal
\* the blocked transfer is woken
InstallCancelled == signal /\ signal' = FALSE /\ Returns("cancelled")
\* the link drops: a bounded number of attempts, from the start of the package
LinkLost ==
  /\ pc = "install" /\ run' = [run EXCEPT !.rc = "link", !.polled = FALSE]
  /\ Go(IF run.attempt >= MaxLinkRetries \/ cancel \/ skip THEN "close" ELSE "relink")
  /\ Quiet /\ UNCHANGED <<queue, state, cancel, signal, fresh, gate, current, i, failed, history>>
Relink ==
  /\ pc = "relink" /\ Go("install") /\ run' = [NoRun EXCEPT !.attempt = run.attempt + 1]
  /\ Quiet /\ UNCHANGED <<queue, state, cancel, signal, fresh, gate, current, i, failed, history>>
RelinkFails ==
  /\ pc = "relink" /\ Go("close") /\ signal' \in {FALSE, signal}
  /\ Quiet /\ UNCHANGED <<queue, state, cancel, fresh, package, history>>
\* mutant: the wake of a skip that came too late is left behind
CloseSignalKept(skipped) == signal
\* PackageSkipGate::Close, and what is left of the skip's wake goes away under the same lock
CloseSignal(skipped) == IF skipped THEN FALSE ELSE signal
Close ==
  /\ pc = "close" /\ Go("record") /\ gate' = [gate EXCEPT !.open = FALSE]
  /\ LET skipped == gate.open /\ gate.accepted IN run' = [run EXCEPT !.skipped = skipped] /\ signal' = CloseSignal(skipped)
  /\ Quiet /\ UNCHANGED <<queue, state, cancel, fresh, current, i, failed, history>>
\* a cancelled transfer that nobody skipped is a cancelled session
Record ==
  LET cancelled == cancel \/ (~run.skipped /\ run.rc = "cancelled")
      fatal == ~run.skipped /\ run.rc = "link"
      went == ~run.skipped /\ run.rc = "installed"
      result == CASE run.skipped -> "skipped" [] went -> run.rc [] cancelled -> "cancelled" [] OTHER -> "failed" IN
  /\ pc = "record"
  /\ queue' = [queue EXCEPT ![i].result = result, ![i].selected = @ /\ ~went]
  /\ cancel' = cancelled /\ failed' = (failed \/ (fatal /\ ~cancelled))
  /\ Go(IF cancelled THEN "finish" ELSE "status")
  /\ run' = NoRun
  /\ Quiet /\ UNCHANGED <<state, signal, fresh, gate, current, i, history>>
\* SendPackageStatus, whose failure is only logged; a broken session ends the loop
Status ==
  /\ pc = "status" /\ signal' \in {FALSE, signal}
  /\ IF failed THEN Go("finish") /\ UNCHANGED i ELSE Next1
  /\ Quiet /\ UNCHANGED <<queue, state, cancel, fresh, gate, current, run, failed, history>>
\* finish_usb_session has timeouts of its own
Finish ==
  /\ pc = "finish" /\ Go("wait") /\ state' = IF cancel THEN "cancelled" ELSE "summary"
  /\ signal' \in {FALSE, signal}
  /\ Quiet /\ UNCHANGED <<queue, cancel, fresh, package, history>>
Leave ==
  /\ pc = "wait" /\ cancel /\ Ends("cancelled")

-----------------------------------------------------------------------------
(* The main thread. *)
Steady == UNCHANGED <<pc, i, current, run, failed, protocol, fresh>>
Still == Steady /\ UNCHANGED state
Reviewing == state = "review" /\ dialog = NoDialog /\ ~popped
Toggle(ks) == queue' = [k \in DOMAIN queue |-> IF k \in ks /\ queue[k].ok THEN [queue[k] EXCEPT !.selected = ~@, !.dirty = TRUE] ELSE queue[k]]
\* X on one row, or Y on all
Tick ==
  /\ Reviewing /\ ~requested
  /\ \E ks \in {{k} : k \in DOMAIN queue} \cup {DOMAIN queue} : Toggle(ks)
  /\ Still /\ UNCHANGED <<cancel, skip, signal, gate, console, history>>
SortQueue ==
  /\ Reviewing /\ ~requested
  /\ \E s \in [DOMAIN queue -> DOMAIN queue] : IsInjective(s) /\ queue' = [k \in DOMAIN queue |-> queue[s[k]]]
  /\ Still /\ UNCHANGED <<cancel, skip, signal, gate, console, history>>
\* ConfirmInstallPlan on the queue q
Confirm(q) ==
  IF requested THEN queue' = q /\ UNCHANGED <<requested, skip>>
  ELSE queue' = Planned(q) /\ skip' = FALSE /\ requested' = TRUE
\* ContinueStartInstall: nothing ticked, a question about space, or the plan is confirmed
Continue(q) ==
  \/ (\A k \in DOMAIN q : ~Ready(q[k])) /\ queue' = q /\ dialog' = NoDialog /\ UNCHANGED <<requested, skip>>
  \/ /\ \E k \in DOMAIN q : Ready(q[k])
     /\ \/ Confirm(q) /\ dialog' = NoDialog
        \/ queue' = q /\ dialog' = [NoDialog EXCEPT !.kind = "space"] /\ UNCHANGED <<requested, skip>>
\* with no tick anywhere the focused row is ticked
Focused(k) == IF (\A x \in DOMAIN queue : ~Ready(queue[x])) /\ queue[k].ok THEN [queue EXCEPT ![k].selected = TRUE] ELSE queue
StartInstall ==
  /\ Reviewing
  /\ \E k \in DOMAIN queue :
       \/ Continue(Focused(k))
       \/ /\ \E x \in DOMAIN queue : Focused(k)[x].name \in Compressed /\ Ready(Focused(k)[x])
          /\ queue' = Focused(k) /\ dialog' = [NoDialog EXCEPT !.kind = "applet"] /\ UNCHANGED <<requested, skip>>
  /\ Still /\ UNCHANGED <<cancel, signal, gate, popped, history>>
\* Applet Mode: skip the compressed packages, or try anyway
Skimmed == [k \in DOMAIN queue |-> IF queue[k].selected /\ queue[k].name \in Compressed
                                   THEN [queue[k] EXCEPT !.selected = FALSE, !.dirty = TRUE] ELSE queue[k]]
AnswerApplet ==
  /\ dialog.kind = "applet"
  /\ Continue(queue) \/ Continue(Skimmed)
  /\ Still /\ UNCHANGED <<cancel, signal, gate, popped, history>>
AnswerSpace ==
  /\ dialog.kind = "space" /\ dialog' = NoDialog
  /\ Confirm(queue)
  /\ Still /\ UNCHANGED <<cancel, signal, gate, popped, history>>
\* No, or B
Dismiss ==
  /\ dialog # NoDialog /\ dialog' = NoDialog
  /\ Still /\ UNCHANGED <<queue, requested, cancel, skip, signal, gate, popped, history>>
\* the question names the package that is current when it opens
AskSkip ==
  /\ state = "installing" /\ dialog = NoDialog /\ ~popped
  /\ dialog' = [kind |-> "skip", pkg |-> current]
  /\ Still /\ UNCHANGED <<queue, requested, cancel, skip, signal, gate, popped, history>>
\* mutant: any open package
AcceptsAny(k) == gate.open /\ ~gate.accepted
Accepts(k) == gate.open /\ ~gate.accepted /\ gate.package = k
SkipCurrentPackage ==
  /\ dialog.kind = "skip" /\ dialog' = NoDialog /\ yes' = (yes \/ dialog.pkg = i)
  /\ IF state = "installing" /\ Accepts(dialog.pkg)
     THEN gate' = [gate EXCEPT !.accepted = TRUE] /\ skip' = TRUE /\ signal' = TRUE
     ELSE UNCHANGED <<gate, skip, signal>>
  /\ Still /\ UNCHANGED <<queue, requested, cancel, popped, shown>>
\* Cancel session and Cancel queue; from a review nothing is woken
CancelSession ==
  /\ state \in {"waiting", "analysing", "review", "installing"} /\ dialog = NoDialog /\ ~popped
  /\ cancel' = TRUE /\ popped' = TRUE
  /\ signal' = (signal \/ state # "review")
  /\ Still /\ UNCHANGED <<queue, requested, skip, gate, dialog, history>>
\* with goldleaf only when the cable is out or the session has failed
Back ==
  /\ state \in {"summary", "cancelled", "failed"} /\ dialog = NoDialog /\ ~popped /\ popped' = TRUE
  /\ Still /\ UNCHANGED <<queue, requested, cancel, skip, signal, gate, dialog, history>>
\* a host whose session has not been finished may list more: Back reviews the queue again
BackToReview ==
  /\ state = "summary" /\ ~failed /\ protocol = "goldleaf" /\ dialog = NoDialog /\ ~popped
  /\ state' = "review" /\ Steady
  /\ UNCHANGED <<queue, requested, cancel, skip, signal, gate, dialog, popped, history>>
\* mutant: one signal, and only for a session that was not cancelled
DestroyOnce ==
  /\ popped /\ pc # "end" /\ ~cancel /\ cancel' = TRUE /\ signal' = TRUE
  /\ Still /\ UNCHANGED <<queue, requested, skip, gate, dialog, popped, history>>
\* ~Menu: one signal wakes only one blocked transfer, so it signals until the thread is gone
Destroy ==
  /\ popped /\ pc # "end" /\ cancel' = TRUE /\ signal' = TRUE
  /\ Still /\ UNCHANGED <<queue, requested, skip, gate, dialog, popped, history>>

\* what a silent PC cannot hold up: the steps without a transfer, those with a
\* timeout and a transfer that is woken
Unblocked ==
  \/ StopsEarly \/ ConnectCancelled \/ AnalyseCancelled \/ Analysed \/ ForgetRequest \/ PlanUnchanged \/ PlanNotSent \/ LastFetch
  \/ FetchFails \/ AnalyseNewCancelled \/ Store
  \/ Begin \/ LoopHead \/ LoopEnds \/ PassOver \/ Take \/ AnalyseOneCancelled \/ Open \/ CheckCancelled \/ InstallCancelled \/ RelinkFails
  \/ Close \/ Record \/ Status \/ Finish \/ Leave
Answered ==
  \/ Connect \/ Analyse \/ SendQueuePlan \/ PlanSent \/ Copy \/ AnalyseNew \/ AnalyseOne \/ Hook
  \/ InstallEnds \/ InstallStops \/ LinkLost \/ Relink
Main ==
  \/ Tick \/ SortQueue \/ StartInstall \/ AnswerApplet \/ AnswerSpace \/ Dismiss \/ AskSkip \/ SkipCurrentPackage
  \/ CancelSession \/ Back \/ BackToReview \/ Destroy
Next == Unblocked \/ Answered \/ Main
Fairness == WF_vars(Unblocked) /\ WF_vars(Destroy)
Spec == Init /\ [][Next]_vars /\ Fairness

-----------------------------------------------------------------------------
\* A session ends as cancelled only if the user gave it up: neither a skip nor what
\* is left of its wake is taken for a cancel of everything behind it.
CancelledByUser == state = "cancelled" => popped
\* A package is recorded as skipped only when the user said yes to a question about
\* that very package, however late the answer came.
SkipsAreAsked == run.skipped => yes
\* A package the queue has passed comes back behind the active one only after the PC
\* showed it unticked: one that is still ticked there is not retried in a loop.
NoRetryLoop ==
  [][state = "installing" =>
       \A n \in {queue[k].name : k \in 1 .. i - 1} :
         n \in {queue'[k].name : k \in i + 1 .. Len(queue')} /\ n \notin Future /\ i' = i => n \in shown]_vars
\* Once the user leaves, the session thread ends, though the PC never says another word.
SessionEnds == popped ~> pc = "end"
=============================================================================
