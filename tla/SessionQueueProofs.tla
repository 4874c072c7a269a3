--------------------------- MODULE SessionQueueProofs ---------------------------
(* A skip ends its own package and nothing else, for every number of packages,   *)
(* every length of the queue and every answer of the PC.                         *)
EXTENDS SessionQueue, TLAPS, WellFoundedInduction, FiniteSetTheorems

\* the places between PackageSkipGate::Open and Close
AtGate == {"install", "relink", "close"}

\* What the flags, the gate and the package's locals may hold.
Shapes ==
  /\ gate \in [package : Int, open : BOOLEAN, accepted : BOOLEAN]
  /\ run \in [attempt : Int, rc : {"none", "installed", "failed", "cancelled", "link"}, skipped : BOOLEAN, polled : BOOLEAN]
  /\ i \in Int /\ cancel \in BOOLEAN /\ skip \in BOOLEAN /\ signal \in BOOLEAN /\ popped \in BOOLEAN /\ yes \in BOOLEAN

\* The gate is open for the package of the loop and only while that is installed, and a yes
\* that it accepted was one to the question about that package.
Asked ==
  /\ gate.open => gate.package = i /\ pc \in AtGate
  /\ gate.open /\ gate.accepted => yes
  /\ run.skipped => pc = "record" /\ yes

\* Whatever may end a transfer or the session comes from the user: the flag and the signal
\* are up because the session was given up or because the open gate accepted a skip.
GivenUp ==
  /\ cancel \/ state = "cancelled" => popped
  /\ signal => popped \/ (gate.open /\ gate.accepted)
  /\ pc \in {"analyseone", "open"} => ~skip
  /\ skip /\ pc \in AtGate => gate.open /\ gate.accepted
  /\ pc = "relink" => run.rc = "link"
  /\ pc = "close" /\ run.rc = "cancelled" => popped \/ (gate.open /\ gate.accepted)
  /\ pc = "record" /\ run.rc = "cancelled" => popped \/ run.skipped

IInv == Shapes /\ Asked /\ GivenUp

\* A session starts with nothing asked, nothing woken and the gate closed.
LEMMA Starts == Init => IInv
<1> SUFFICES ASSUME Init PROVE IInv
  OBVIOUS
<1>1. gate \in [package : Int, open : BOOLEAN, accepted : BOOLEAN]
  BY DEF Init
<1>2. run \in [attempt : Int, rc : {"none", "installed", "failed", "cancelled", "link"}, skipped : BOOLEAN, polled : BOOLEAN]
  BY DEF Init, NoRun
<1>3. i \in Int
  BY DEF Init
<1>4. cancel \in BOOLEAN /\ skip \in BOOLEAN /\ signal \in BOOLEAN /\ popped \in BOOLEAN /\ yes \in BOOLEAN
  BY Zenon DEF Init
<1>5. Shapes
  BY <1>1, <1>2, <1>3, <1>4 DEF Shapes
<1>6. Asked /\ GivenUp
  BY DEF Init, Asked, GivenUp, AtGate, NoRun
<1> QED
  BY <1>5, <1>6 DEF IInv

-----------------------------------------------------------------------------
\* Outside the gate the session thread may go on, take a signal away and count its packages:
\* nothing that the invariant relates changes.
LEMMA Calm ==
  ASSUME IInv, pc \notin AtGate \cup {"record"}, pc' \notin AtGate \cup {"record", "analyseone", "open"},
         UNCHANGED <<gate, run, cancel, skip, popped, yes>>, signal' \in {FALSE, signal}, i' \in Int,
         state' = "cancelled" => popped
  PROVE  IInv'
<1>1. signal' \in BOOLEAN
  BY Zenon DEF IInv, Shapes
<1>2. Shapes'
  BY <1>1 DEF IInv, Shapes
<1>3. ~gate.open
  BY DEF IInv, Asked
<1>4. Asked'
  BY <1>3 DEF IInv, Asked
<1>5. signal' => popped
  BY <1>3 DEF IInv, GivenUp
<1>6. GivenUp'
  BY <1>3, <1>5 DEF IInv, GivenUp, AtGate
<1> QED
  BY <1>2, <1>4, <1>6 DEF IInv

\* A handler of the main thread that neither wakes nor skips leaves the invariant as it is,
\* also when it takes a skip back or goes back to the review.
LEMMA Aside ==
  ASSUME IInv, UNCHANGED <<gate, run, i, cancel, yes, pc, signal>>, skip' \in {FALSE, skip},
         popped' \in {TRUE, popped}, state' \in {"review", state}
  PROVE  IInv'
<1>0. skip \in BOOLEAN /\ popped \in BOOLEAN
  BY DEF IInv, Shapes
<1>1. skip' \in BOOLEAN /\ (skip' => skip)
  <2>1. CASE skip' = FALSE
    BY <2>1
  <2>2. CASE skip' = skip
    BY <1>0, <2>2
  <2> QED
    BY <2>1, <2>2
<1>2. popped' \in BOOLEAN /\ (popped => popped')
  <2>1. CASE popped' = TRUE
    BY <2>1
  <2>2. CASE popped' = popped
    BY <1>0, <2>2
  <2> QED
    BY <2>1, <2>2
<1>3. Shapes'
  BY <1>1, <1>2 DEF IInv, Shapes
<1>4. Asked'
  BY DEF IInv, Asked
<1>5. GivenUp'
  BY <1>1, <1>2 DEF IInv, GivenUp
<1> QED
  BY <1>3, <1>4, <1>5 DEF IInv

-----------------------------------------------------------------------------
(* The session thread outside the gate: what it lists, plans and counts. *)
\* The steps that list, plan and store neither wake nor cancel.
LEMMA ListsCalmly ==
  ASSUME IInv, Connect \/ Analyse \/ Analysed \/ ForgetRequest \/ SendQueuePlan \/ PlanUnchanged \/ PlanSent \/ LastFetch \/ Copy \/ AnalyseNew \/ Store
  PROVE  IInv'
<1>1. pc \notin AtGate \cup {"record"} /\ pc' \notin AtGate \cup {"record", "analyseone", "open"}
  BY DEF Connect, Analyse, Analysed, ForgetRequest, SendQueuePlan, PlanUnchanged, PlanSent, LastFetch, Copy, AnalyseNew, Store, Go, After, AtGate
<1>2. UNCHANGED <<gate, run, cancel, skip, popped, yes, signal>> /\ i' \in {0, i} /\ (state' # "cancelled" \/ state' = state)
  BY DEF Connect, Analyse, Analysed, ForgetRequest, SendQueuePlan, PlanUnchanged, PlanSent, LastFetch, Copy, AnalyseNew, Store, Go, Quiet, console, package, history
<1>3. i' \in Int /\ (state' = "cancelled" => popped)
  BY <1>2 DEF IInv, Shapes, GivenUp
<1> QED
  BY <1>1, <1>2, <1>3, Calm

\* A transfer outside the gate that fails takes the signal with it; only a session that was
\* given up ends as cancelled.
LEMMA FailsCalmly ==
  ASSUME IInv, StopsEarly \/ ConnectCancelled \/ AnalyseCancelled \/ PlanNotSent \/ FetchFails \/ AnalyseNewCancelled \/ Finish \/ Leave
  PROVE  IInv'
<1>1. pc \notin AtGate \cup {"record"} /\ pc' \notin AtGate \cup {"record", "analyseone", "open"}
  BY DEF StopsEarly, ConnectCancelled, AnalyseCancelled, PlanNotSent, FetchFails, AnalyseNewCancelled, Finish, Leave, Ends, Go, After, AtGate
<1>2. UNCHANGED <<gate, run, cancel, skip, popped, yes, i>> /\ signal' \in {FALSE, signal}
  BY DEF StopsEarly, ConnectCancelled, AnalyseCancelled, PlanNotSent, FetchFails, AnalyseNewCancelled, Finish, Leave, Ends, Go, Quiet, console, package, history
<1>3. state' = "cancelled" => cancel \/ signal \/ state = "cancelled"
  BY DEF StopsEarly, ConnectCancelled, AnalyseCancelled, PlanNotSent, FetchFails, AnalyseNewCancelled, Finish, Leave, Ends
<1>4. i' \in Int /\ (state' = "cancelled" => popped)
  BY <1>1, <1>2, <1>3 DEF IInv, Shapes, Asked, GivenUp
<1> QED
  BY <1>1, <1>2, <1>4, Calm

\* Nor do the steps between two packages; they may only count on.
LEMMA LoopsCalmly ==
  ASSUME IInv, Begin \/ LoopHead \/ LoopEnds \/ PassOver \/ Status
  PROVE  IInv'
<1>1. pc \notin AtGate \cup {"record"} /\ pc' \notin AtGate \cup {"record", "analyseone", "open"}
  BY DEF Begin, LoopHead, LoopEnds, PassOver, Status, Next1, Go, AtGate
<1>2. UNCHANGED <<gate, run, cancel, skip, popped, yes>> /\ signal' \in {FALSE, signal}
  BY DEF Begin, LoopHead, LoopEnds, PassOver, Status, Next1, Go, Quiet, console, package, history
<1>3. i' \in {1, i, i + 1} /\ (state' = "cancelled" => state = "cancelled")
  BY DEF Begin, LoopHead, LoopEnds, PassOver, Status, Next1, Go, package
<1>4. i' \in Int /\ (state' = "cancelled" => popped)
  BY <1>3 DEF IInv, Shapes, GivenUp
<1> QED
  BY <1>1, <1>2, <1>4, Calm

\* A package is taken up with no skip pending and no yes of an earlier question.
LEMMA TakesUp == ASSUME IInv, Take PROVE IInv'
<1>1. /\ pc = "take" /\ pc' \in {"finish", "analyseone", "open"} /\ UNCHANGED <<gate, i, cancel, popped, state, signal>>
      /\ skip' = FALSE /\ yes' = FALSE /\ run' = NoRun
  BY DEF Take, Go, console
<1>2. ~gate.open
  BY <1>1 DEF IInv, Asked, AtGate
<1>3. NoRun \in [attempt : Int, rc : {"none", "installed", "failed", "cancelled", "link"}, skipped : BOOLEAN, polled : BOOLEAN]
  BY DEF NoRun
<1>4. skip' \in BOOLEAN /\ yes' \in BOOLEAN
  BY <1>1, Zenon
<1>5. Shapes'
  BY <1>1, <1>3, <1>4 DEF IInv, Shapes
<1>6. Asked'
  BY <1>1, <1>2 DEF IInv, Asked, NoRun
<1>7. GivenUp'
  BY <1>1, <1>2 DEF IInv, GivenUp, NoRun, AtGate
<1> QED
  BY <1>5, <1>6, <1>7 DEF IInv

\* An analysis in the loop happens before the gate opens, with no skip pending.
LEMMA AnalysesOne == ASSUME IInv, AnalyseOne \/ AnalyseOneCancelled PROVE IInv'
<1>1. pc = "analyseone" /\ pc' \in {"open", "status"} /\ UNCHANGED <<gate, run, i, cancel, skip, popped, state, yes>> /\ signal' \in {FALSE, signal}
  BY DEF AnalyseOne, AnalyseOneCancelled, DeferredAnalysis, Go, Quiet, console, package, history
<1>2. ~gate.open /\ ~skip /\ ~run.skipped
  BY <1>1 DEF IInv, Asked, GivenUp, AtGate
<1>3. signal' \in BOOLEAN /\ (signal' => signal)
  <2>1. CASE signal' = FALSE
    BY <2>1
  <2>2. CASE signal' = signal
    BY <2>2 DEF IInv, Shapes
  <2> QED
    BY <1>1, <2>1, <2>2
<1>4. Shapes'
  BY <1>1, <1>3 DEF IInv, Shapes
<1>5. Asked'
  BY <1>1, <1>2 DEF IInv, Asked
<1>6. GivenUp'
  BY <1>1, <1>2, <1>3 DEF IInv, GivenUp, AtGate
<1> QED
  BY <1>4, <1>5, <1>6 DEF IInv

\* The gate opens for the package of the loop, and nothing has been accepted for it yet.
LEMMA Opens == ASSUME IInv, Open PROVE IInv'
<1>1. /\ pc = "open" /\ pc' = "install" /\ UNCHANGED <<run, i, cancel, skip, popped, state, yes, signal>>
      /\ gate' = [package |-> i, open |-> TRUE, accepted |-> FALSE]
  BY DEF Open, Go, Quiet, console, history
<1>2. ~gate.open /\ ~skip /\ ~run.skipped
  BY <1>1 DEF IInv, Asked, GivenUp, AtGate
<1>3. Shapes'
  BY <1>1 DEF IInv, Shapes
<1>4. Asked'
  BY <1>1, <1>2 DEF IInv, Asked, AtGate
<1>5. GivenUp'
  BY <1>1, <1>2 DEF IInv, GivenUp, AtGate
<1> QED
  BY <1>3, <1>4, <1>5 DEF IInv

-----------------------------------------------------------------------------
(* Inside the gate. *)
\* The install goes on, ends or loses its link, and may take the signal with it: it ends as
\* cancelled only if the session was given up or its own skip accepted.
LEMMA Installs ==
  ASSUME IInv, pc \in AtGate, pc' \in AtGate, UNCHANGED <<gate, i, cancel, skip, popped, state, yes>>,
         signal' \in {FALSE, signal}, Shapes', ~run'.skipped,
         pc' = "relink" => run'.rc = "link",
         pc' = "close" /\ run'.rc = "cancelled" => popped \/ (gate.open /\ gate.accepted)
  PROVE  IInv'
<1>1. signal' => signal
  BY DEF IInv, Shapes
<1>2. Asked'
  BY DEF IInv, Asked
<1>3. GivenUp'
  BY <1>1 DEF IInv, GivenUp, AtGate
<1> QED
  BY <1>2, <1>3 DEF IInv

\* A poll and a look at the flags keep the gate as it is.
LEMMA Polls == ASSUME IInv, Hook \/ CheckCancelled PROVE IInv'
<1>1. /\ pc = "install" /\ pc' = "install" /\ UNCHANGED <<gate, i, cancel, skip, popped, state, yes>>
      /\ signal' \in {FALSE, signal} /\ \E b \in BOOLEAN : run' = [run EXCEPT !.polled = b]
  BY DEF Hook, CheckCancelled, Quiet, console, history
<1>2. Shapes' /\ ~run'.skipped
  BY <1>1 DEF IInv, Shapes, Asked
<1> QED
  BY <1>1, <1>2, Installs DEF AtGate

\* An install that ends as cancelled was woken or told to stop, and both come from the user.
LEMMA Ended == ASSUME IInv, InstallEnds \/ InstallStops \/ InstallCancelled PROVE IInv'
<1>1. PICK rc \in {"installed", "failed", "cancelled"} : Returns(rc) /\ (rc = "cancelled" => cancel \/ skip \/ signal) /\ signal' \in {FALSE, signal}
  BY DEF InstallEnds, InstallStops, InstallCancelled
<1>2. /\ pc = "install" /\ pc' = "close" /\ UNCHANGED <<gate, i, cancel, skip, popped, state, yes>>
      /\ run' = [run EXCEPT !.rc = rc, !.polled = FALSE]
  BY <1>1 DEF Returns, Go, Quiet, console, history
<1>3. Shapes' /\ ~run'.skipped /\ run'.rc = rc
  BY <1>1, <1>2 DEF IInv, Shapes, Asked
<1>4. rc = "cancelled" => popped \/ (gate.open /\ gate.accepted)
  BY <1>1, <1>2 DEF IInv, GivenUp, AtGate
<1> QED
  BY <1>1, <1>2, <1>3, <1>4, Installs DEF AtGate

\* A lost link is none of the user's doing, and is not recorded as a cancel.
LEMMA Linked == ASSUME IInv, LinkLost \/ Relink \/ RelinkFails PROVE IInv'
<1>1. /\ pc \in {"install", "relink"} /\ pc' \in AtGate /\ UNCHANGED <<gate, i, cancel, skip, popped, state, yes>> /\ signal' \in {FALSE, signal}
  BY DEF LinkLost, Relink, RelinkFails, Go, Quiet, console, package, history, AtGate
<1>2. Shapes' /\ ~run'.skipped
  <2>1. signal' \in BOOLEAN
    BY <1>1 DEF IInv, Shapes
  <2>2. CASE LinkLost
    BY <1>1, <2>1, <2>2 DEF IInv, Shapes, Asked, LinkLost
  <2>3. CASE Relink
    <3>1. run' = [attempt |-> run.attempt + 1, rc |-> "none", skipped |-> FALSE, polled |-> FALSE]
      BY <2>3 DEF Relink, NoRun
    <3>2. run.attempt + 1 \in Int
      BY DEF IInv, Shapes
    <3>3. run' \in [attempt : Int, rc : {"none", "installed", "failed", "cancelled", "link"}, skipped : BOOLEAN, polled : BOOLEAN]
      BY <3>1, <3>2
    <3> QED
      BY <1>1, <2>1, <3>1, <3>3 DEF IInv, Shapes
  <2>4. CASE RelinkFails
    BY <1>1, <2>1, <2>4 DEF IInv, Shapes, Asked, RelinkFails, package
  <2> QED
    BY <2>2, <2>3, <2>4
<1>3. pc' # "install" => run'.rc = "link"
  BY DEF IInv, Shapes, GivenUp, LinkLost, Relink, RelinkFails, Go, package
<1>4. pc' = "relink" => run'.rc = "link"
  BY <1>3
<1>5. pc' = "close" /\ run'.rc = "cancelled" => popped \/ (gate.open /\ gate.accepted)
  BY <1>3
<1>6. pc \in AtGate
  BY <1>1 DEF AtGate
<1> QED
  BY <1>1, <1>2, <1>4, <1>5, <1>6, Installs

\* Closing the gate takes what is left of the skip's wake away.
LEMMA Closes == ASSUME IInv, Close PROVE IInv'
<1> DEFINE skipped == gate.open /\ gate.accepted
<1>1. /\ pc = "close" /\ pc' = "record" /\ UNCHANGED <<i, cancel, skip, popped, state, yes>>
      /\ gate' = [gate EXCEPT !.open = FALSE] /\ run' = [run EXCEPT !.skipped = skipped] /\ signal' = CloseSignal(skipped)
  BY DEF Close, Go, Quiet, console, history
<1>2. skipped \in BOOLEAN /\ ~gate'.open /\ run'.rc = run.rc /\ (run'.skipped <=> skipped)
  BY <1>1 DEF IInv, Shapes
<1>3. signal' \in BOOLEAN /\ (signal' => signal /\ ~skipped)
  BY <1>1 DEF IInv, Shapes, CloseSignal
<1>4. Shapes'
  BY <1>1, <1>2, <1>3 DEF IInv, Shapes
<1>5. Asked'
  BY <1>1, <1>2 DEF IInv, Asked
<1>6. GivenUp'
  BY <1>1, <1>2, <1>3 DEF IInv, GivenUp, AtGate
<1> QED
  BY <1>4, <1>5, <1>6 DEF IInv

\* The record takes a cancelled transfer that nobody skipped for a cancelled session.
LEMMA Records == ASSUME IInv, Record PROVE IInv'
<1> DEFINE cancelled == cancel \/ (~run.skipped /\ run.rc = "cancelled")
<1>1. /\ pc = "record" /\ pc' \in {"finish", "status"} /\ UNCHANGED <<gate, i, skip, popped, state, yes, signal>>
      /\ cancel' = cancelled /\ run' = NoRun
  BY DEF Record, Go, Quiet, console, history
<1>2. cancelled \in BOOLEAN /\ (cancelled => popped)
  BY <1>1 DEF IInv, Shapes, GivenUp
<1>3. ~gate.open
  BY <1>1 DEF IInv, Asked, AtGate
<1> HIDE DEF cancelled
<1>4. Shapes'
  BY <1>1, <1>2 DEF IInv, Shapes, NoRun
<1>5. Asked'
  BY <1>1, <1>3 DEF IInv, Asked, NoRun
<1>6. GivenUp'
  BY <1>1, <1>2, <1>3 DEF IInv, GivenUp, NoRun, AtGate
<1> QED
  BY <1>4, <1>5, <1>6 DEF IInv

-----------------------------------------------------------------------------
(* The main thread. *)
\* An answer reaches the worker only through the gate, which is open for the package asked about.
LEMMA Skips == ASSUME IInv, SkipCurrentPackage PROVE IInv'
<1>1. UNCHANGED <<pc, i, run, cancel, popped, state>> /\ yes' = (yes \/ dialog.pkg = i)
  BY DEF SkipCurrentPackage, Still, Steady
<1>2. yes' \in BOOLEAN /\ (yes => yes')
  BY <1>1 DEF IInv, Shapes
<1>3. CASE state = "installing" /\ Accepts(dialog.pkg)
  <2>1. gate' = [gate EXCEPT !.accepted = TRUE] /\ skip' = TRUE /\ signal' = TRUE
    BY <1>3 DEF SkipCurrentPackage
  <2>2. gate.open /\ dialog.pkg = i /\ pc \in AtGate
    BY <1>3 DEF Accepts, IInv, Asked
  <2>3. gate'.open /\ gate'.accepted /\ gate'.package = i
    BY <2>1, <2>2 DEF IInv, Shapes, Asked
  <2>4. yes'
    BY <1>1, <2>2
  <2>5. Shapes'
    BY <1>1, <1>2, <2>1 DEF IInv, Shapes
  <2>6. Asked'
    BY <1>1, <2>2, <2>3, <2>4 DEF IInv, Asked
  <2>7. GivenUp'
    BY <1>1, <2>2, <2>3 DEF IInv, GivenUp, AtGate
  <2> QED
    BY <2>5, <2>6, <2>7 DEF IInv
<1>4. CASE ~(state = "installing" /\ Accepts(dialog.pkg))
  <2>1. UNCHANGED <<gate, skip, signal>>
    BY <1>4 DEF SkipCurrentPackage
  <2>2. Shapes'
    BY <1>1, <1>2, <2>1 DEF IInv, Shapes
  <2>3. Asked'
    BY <1>1, <1>2, <2>1 DEF IInv, Asked
  <2>4. GivenUp'
    BY <1>1, <2>1 DEF IInv, GivenUp
  <2> QED
    BY <2>2, <2>3, <2>4 DEF IInv
<1> QED
  BY <1>3, <1>4

\* Whatever gives the session up pops the menu.
LEMMA GivesUp == ASSUME IInv, CancelSession \/ Destroy PROVE IInv'
<1>1. /\ UNCHANGED <<pc, i, run, gate, skip, yes, state>> /\ cancel' = TRUE /\ signal' \in BOOLEAN
  BY DEF CancelSession, Destroy, Still, Steady, history, IInv, Shapes
<1>2. popped' = TRUE
  BY DEF CancelSession, Destroy, IInv, Shapes
<1>3. Shapes'
  BY <1>1, <1>2 DEF IInv, Shapes
<1>4. Asked'
  BY <1>1 DEF IInv, Asked
<1>5. GivenUp'
  BY <1>1, <1>2 DEF IInv, GivenUp
<1> QED
  BY <1>3, <1>4, <1>5 DEF IInv

\* The other handlers of the main thread touch neither the gate nor the signal.
LEMMA StandsAside ==
  ASSUME IInv, Tick \/ SortQueue \/ StartInstall \/ AnswerApplet \/ AnswerSpace \/ Dismiss \/ AskSkip \/ Back \/ BackToReview
  PROVE  IInv'
<1>1. UNCHANGED <<gate, run, i, cancel, yes, pc, signal>> /\ state' \in {"review", state}
  BY DEF Tick, SortQueue, StartInstall, AnswerApplet, AnswerSpace, Dismiss, AskSkip, Back, BackToReview, Still, Steady, history
<1>2. popped' \in {TRUE, popped}
  BY DEF Tick, SortQueue, StartInstall, AnswerApplet, AnswerSpace, Dismiss, AskSkip, Back, BackToReview, console
<1>3. skip' \in {FALSE, skip}
  BY DEF Tick, SortQueue, StartInstall, AnswerApplet, AnswerSpace, Dismiss, AskSkip, Back, BackToReview, Continue, Confirm
<1> QED
  BY <1>1, <1>2, <1>3, Aside

-----------------------------------------------------------------------------
\* The invariant holds in every reachable state, for every number of packages.
THEOREM SessionInvariance == Spec => []IInv
<1>1. IInv /\ [Next]_vars => IInv'
  <2> SUFFICES ASSUME IInv, [Next]_vars PROVE IInv'
    OBVIOUS
  <2>1. CASE Unblocked
    BY <2>1, ListsCalmly, FailsCalmly, LoopsCalmly, TakesUp, AnalysesOne, Opens, Polls, Ended, Linked, Closes, Records DEF Unblocked
  <2>2. CASE Answered
    BY <2>2, ListsCalmly, AnalysesOne, Polls, Ended, Linked DEF Answered
  <2>3. CASE Main
    BY <2>3, Skips, GivesUp, StandsAside DEF Main
  <2>4. CASE UNCHANGED vars
    BY <2>4 DEF IInv, Shapes, Asked, GivenUp, vars, console, package, history
  <2> QED
    BY <2>1, <2>2, <2>3, <2>4 DEF Next
<1> QED
  BY <1>1, Starts, PTL DEF Spec

\* CancelledByUser: neither a skip nor what is left of its wake is taken for a cancel of the
\* session (the gate, the flag and the event of RecordPackageResultLocked agree).
THEOREM SkipIsNoCancel == Spec => []CancelledByUser
<1>1. IInv => CancelledByUser
  BY DEF IInv, GivenUp, CancelledByUser
<1> QED
  BY <1>1, SessionInvariance, PTL

\* SkipsAreAsked: PackageSkipGate lets an answer through to the package it was asked about
\* and to no other, however late it comes.
THEOREM SkipIsAnswered == Spec => []SkipsAreAsked
<1>1. IInv => SkipsAreAsked
  BY DEF IInv, Asked, SkipsAreAsked
<1> QED
  BY <1>1, SessionInvariance, PTL

-----------------------------------------------------------------------------
(* Packages that are queued again.  A package comes back only through the mark  *)
(* of the last place where it was passed, so the invariant ties those marks to  *)
(* what the PC has shown; other marks may be stale, and say nothing.            *)

Rows ==
  [name : Packages, selected : BOOLEAN, ok : BOOLEAN, isel : BOOLEAN, deferred : BOOLEAN, dirty : BOOLEAN,
   armed : BOOLEAN, result : {"none", "installed", "failed", "skipped", "cancelled"}]
Items == [name : Packages, selected : BOOLEAN]

\* the places in front of the loop, and those with a package under way
Before == {"connect", "analyse", "reviewing", "review", "sending", "fetch", "lastfetch", "apply", "lastapply", "begin"}
AtRow == {"take", "analyseone", "open", "install", "relink", "close", "record", "status"}
\* the places where no plan need be confirmed
Early == {"connect", "analyse", "reviewing", "review", "sending", "fetch", "apply", "end"}

Rowed ==
  /\ queue \in Seq(Rows)
  /\ fresh \in [queue : Seq(Rows), todo : SUBSET Packages, changed : BOOLEAN]
  /\ \A k \in 1 .. Len(fresh.queue) : ~fresh.queue[k].armed

Where ==
  /\ i \in Nat /\ i <= Len(queue) + 1
  /\ pc \in Before => i = 0
  /\ state = "review" => pc \in Before \cup {"wait"}
  /\ state = "summary" => pc = "wait"
  /\ pc = "wait" => state \in {"summary", "cancelled"} \/ (state = "review" /\ ~sync)
  /\ pc \in Early \/ requested
  /\ pc = "head" => i >= 1
  /\ pc \in AtRow => i \in 1 .. Len(queue)

\* k is the last place of its package in front of the active one where it was not installed
Newest(k) == ~Installed(queue[k]) /\ \A j \in k + 1 .. i - 1 : queue[j].name = queue[k].name => Installed(queue[j])
Armed ==
  \A k \in 1 .. Len(queue) : queue[k].armed => sync /\ k < i /\ (Newest(k) => queue[k].name \in shown)

RInv == Rowed /\ Where /\ Armed

\* a sequence of the same packages with the same marks and results
Alike(p, q) ==
  /\ p \in Seq(Rows) /\ Len(p) = Len(q)
  /\ \A k \in 1 .. Len(q) : p[k].name = q[k].name /\ p[k].armed = q[k].armed /\ p[k].result = q[k].result

-----------------------------------------------------------------------------
(* Sequences and rows. *)
\* A function on 1 .. n is a sequence of length n.
LEMMA Listing ==
  ASSUME NEW S, NEW n \in Nat, NEW q \in [1 .. n -> S]
  PROVE  q \in Seq(S) /\ Len(q) = n
OBVIOUS

\* What a concatenation holds, and where.
LEMMA Joined ==
  ASSUME NEW S, NEW p \in Seq(S), NEW q \in Seq(S), NEW a \in Nat, NEW b \in Nat, Len(p) = a, Len(q) = b
  PROVE  /\ p \o q \in Seq(S) /\ Len(p \o q) = a + b
         /\ \A k \in 1 .. a : (p \o q)[k] = p[k]
         /\ \A k \in a + 1 .. a + b : (p \o q)[k] = q[k - a]
<1>1. p \o q \in Seq(S)
  OBVIOUS
<1>2. Len(p \o q) = a + b
  OBVIOUS
<1>3. \A k \in 1 .. a : (p \o q)[k] = p[k]
  OBVIOUS
<1>4. \A k \in a + 1 .. a + b : (p \o q)[k] = q[k - a]
  OBVIOUS
<1> QED BY <1>1, <1>2, <1>3, <1>4

\* a set of places has a last one
LEMMA MaxOfSome ==
  ASSUME NEW m \in Nat, NEW S \in SUBSET (1 .. m), S # {}
  PROVE  Max(S) \in S /\ \A y \in S : y <= Max(S)
<1> DEFINE T == {m - x : x \in S}
<1>1. T \subseteq Nat /\ T # {}
  <2>1. \A x \in S : m - x \in Nat
    OBVIOUS
  <2> QED BY <2>1
<1>2. PICK t \in T : \A u \in T : ~(<<u, t>> \in OpToRel(<, Nat))
  BY <1>1, NatLessThanWellFounded, WFMin
<1>3. \A u \in T : ~(u < t)
  BY <1>1, <1>2 DEF OpToRel
<1>4. PICK x \in S : t = m - x
  BY <1>2
<1>5. \A y \in S : x >= y
  <2> TAKE y \in S
  <2>1. ~(m - y < m - x)
    BY <1>3, <1>4
  <2> QED BY <2>1
<1>6. Max(S) \in S /\ \A y \in S : Max(S) >= y
  BY <1>4, <1>5 DEF Max
<1> QED BY <1>6

(* What the console and the plan do to the rows. *)
\* A queue rewritten place by place is a queue of the same packages.
LEMMA Rewritten ==
  ASSUME NEW q \in Seq(Rows), NEW p, DOMAIN p = DOMAIN q, p = [k \in DOMAIN p |-> p[k]],
         \A k \in DOMAIN q : p[k] \in Rows /\ p[k].name = q[k].name /\ p[k].armed = q[k].armed /\ p[k].result = q[k].result
  PROVE  Alike(p, q)
<1>1. PICK n \in Nat : n = Len(q) /\ DOMAIN q = 1 .. n
  OBVIOUS
<1>2. p \in [1 .. n -> Rows]
  BY <1>1
<1>3. p \in Seq(Rows) /\ Len(p) = n
  BY <1>2, Listing
<1> QED BY <1>1, <1>3 DEF Alike

\* ConfirmInstallPlan moves only what is to be installed.
LEMMA PlannedAlike == ASSUME NEW q \in Seq(Rows) PROVE Alike(Planned(q), q)
<1>1. \A k \in DOMAIN q : q[k] \in Rows
  OBVIOUS
<1> QED BY <1>1, Rewritten DEF Planned, Ready, Rows

\* SendQueuePlanIfChanged takes only the console's marks away.
LEMMA UnmarkedAlike == ASSUME queue \in Seq(Rows) PROVE Alike(Unmarked, queue)
<1>1. \A k \in DOMAIN queue : queue[k] \in Rows
  OBVIOUS
<1> QED BY <1>1, Rewritten DEF Unmarked, Rows

\* A tick moves only itself and its mark.
LEMMA ToggleAlike == ASSUME queue \in Seq(Rows), NEW ks, Toggle(ks) PROVE Alike(queue', queue)
<1>1. \A k \in DOMAIN queue : queue[k] \in Rows
  OBVIOUS
<1> QED BY ZenonT(40), <1>1, Rewritten DEF Toggle, Rows

\* So does the choice to leave the compressed packages out.
LEMMA SkimmedAlike == ASSUME queue \in Seq(Rows) PROVE Alike(Skimmed, queue)
<1>1. \A k \in DOMAIN queue : queue[k] \in Rows
  OBVIOUS
<1> QED BY ZenonT(40), <1>1, Rewritten DEF Skimmed, Rows

\* And the tick of the focused row.
LEMMA FocusedAlike == ASSUME queue \in Seq(Rows), NEW k \in DOMAIN queue PROVE Alike(Focused(k), queue)
<1>1. \A x \in DOMAIN queue : queue[x] \in Rows
  OBVIOUS
<1>2. Alike(queue, queue)
  BY DEF Alike
<1>3. Alike([queue EXCEPT ![k].selected = TRUE], queue)
  BY <1>1, Rewritten DEF Rows
<1> QED BY <1>2, <1>3 DEF Focused

\* One rewrite behind another.
LEMMA AlikeTrans ==
  ASSUME NEW p, NEW q, NEW r, r \in Seq(Rows), Alike(p, q), Alike(q, r)
  PROVE  Alike(p, r)
BY DEF Alike

-----------------------------------------------------------------------------
\* what NoRetryLoop says of one step
NoRetry ==
  state = "installing" =>
    \A n \in {queue[k].name : k \in 1 .. i - 1} :
      n \in {queue'[k].name : k \in i + 1 .. Len(queue')} /\ n \notin Future /\ i' = i => n \in shown

\* The rows stay what they are, but for the result of the package under way.
Kept ==
  /\ queue' \in Seq(Rows) /\ Len(queue') = Len(queue)
  /\ \A k \in 1 .. Len(queue) :
       /\ queue'[k].name = queue[k].name /\ queue'[k].armed = queue[k].armed
       /\ k # i => queue'[k].result = queue[k].result

\* A rewrite keeps the rows.
LEMMA AlikeKept == ASSUME Alike(queue', queue) PROVE Kept
  BY DEF Alike, Kept

\* Rows that are kept keep what their marks mean, also when the loop goes on by one: what is
\* behind a mark only grows.
LEMMA KeptArmed == ASSUME RInv, Kept, shown' = shown, protocol' = protocol, i' \in {i, i + 1} PROVE Armed'
<1>1. PICK n \in Nat : n = Len(queue) /\ Len(queue') = n
  BY DEF RInv, Rowed, Kept
<1>2. i \in Nat /\ i <= n + 1 /\ i' \in {i, i + 1}
  BY <1>1 DEF RInv, Where
<1> SUFFICES ASSUME NEW k \in 1 .. n, queue'[k].armed
             PROVE  sync /\ k < i' /\ (Newest(k)' => queue[k].name \in shown)
  BY <1>1 DEF Armed, Kept, sync
<1>3. queue[k].armed /\ sync /\ k < i /\ (Newest(k) => queue[k].name \in shown)
  BY <1>1 DEF Kept, RInv, Armed
<1>4. Newest(k)' => Newest(k)
  <2> SUFFICES ASSUME Newest(k)' PROVE Newest(k)
    OBVIOUS
  <2>1. ~Installed(queue[k])
    <3>1. queue'[k].result = queue[k].result
      BY <1>1, <1>2, <1>3 DEF Kept
    <3> QED BY <3>1 DEF Newest, Installed
  <2>2. ASSUME NEW j \in k + 1 .. i - 1, queue[j].name = queue[k].name PROVE Installed(queue[j])
    <3>1. j \in 1 .. n /\ j # i /\ j \in k + 1 .. i' - 1
      <4>1. PICK h \in Nat : h = i' /\ (h = i \/ h = i + 1)
        BY <1>2
      <4>2. j \in 1 .. n /\ j # i
        BY <1>2
      <4>3. CASE h = i
        BY <4>1, <4>2, <4>3
      <4>4. CASE h = i + 1
        <5>1. h - 1 = i
          BY <1>2, <4>4
        <5>2. j \in k + 1 .. i
          BY <1>2
        <5> QED BY <4>1, <4>2, <5>1, <5>2
      <4> QED BY <4>1, <4>3, <4>4
    <3>2. queue'[j].name = queue'[k].name /\ queue'[j].result = queue[j].result
      BY <1>1, <2>2, <3>1 DEF Kept
    <3> QED BY <3>1, <3>2 DEF Newest, Installed
  <2> QED BY <2>1, <2>2 DEF Newest
<1> QED BY <1>2, <1>3, <1>4

\* And no package comes back with them.
LEMMA KeptNoRetry == ASSUME RInv, Kept PROVE NoRetry
<1>1. PICK n \in Nat : n = Len(queue) /\ Len(queue') = n
  BY DEF RInv, Rowed, Kept
<1>2. \A k \in i + 1 .. n : queue'[k].name = queue[k].name
  <2>1. \A k \in i + 1 .. n : k \in 1 .. n
    BY DEF RInv, Where
  <2> QED BY <1>1, <2>1 DEF Kept
<1> QED BY <1>1, <1>2 DEF NoRetry, Future

\* rows that stay what they are under a console that stays where it is
LEMMA KeptRInv ==
  ASSUME RInv, Kept, UNCHANGED <<fresh, shown, protocol>>, i' \in {i, i + 1}, Where'
  PROVE  RInv' /\ NoRetry
<1>1. Rowed'
  BY DEF RInv, Rowed, Kept
<1> QED BY <1>1, KeptArmed, KeptNoRetry DEF RInv

\* A queue that stays the same is kept.
LEMMA QueueKept == ASSUME RInv, queue' = queue PROVE Kept
  BY DEF RInv, Rowed, Kept

\* In front of the loop no row has a mark, and nothing has been passed.
LEMMA Unmarks == ASSUME RInv, i = 0 PROVE \A k \in 1 .. Len(queue) : ~queue[k].armed
  BY DEF RInv, Armed

\* A step in front of the loop has nothing to say of retries.
LEMMA EarlyRInv ==
  ASSUME i = 0, Rowed', Where', \A k \in 1 .. Len(queue') : ~queue'[k].armed
  PROVE  RInv' /\ NoRetry
<1>1. Armed'
  BY DEF Armed
<1>2. NoRetry
  BY DEF NoRetry
<1> QED BY <1>1, <1>2 DEF RInv

-----------------------------------------------------------------------------
(* The main thread ticks, plans and asks; it sorts only in front of the loop. *)
\* The plan is made of the queue that was asked about.
LEMMA Confirms ==
  ASSUME NEW q, q \in Seq(Rows), Alike(q, queue), queue \in Seq(Rows), Confirm(q) \/ Continue(q)
  PROVE  Alike(queue', queue)
<1>1. queue' = q \/ queue' = Planned(q)
  BY DEF Confirm, Continue
<1> QED BY <1>1, PlannedAlike, AlikeTrans

\* Every handler but the sort rewrites place by place.
LEMMA MainKept ==
  ASSUME RInv, Tick \/ StartInstall \/ AnswerApplet \/ AnswerSpace \/ Dismiss \/ AskSkip \/ SkipCurrentPackage
               \/ CancelSession \/ Back \/ BackToReview \/ Destroy
  PROVE  Alike(queue', queue)
<1>1. queue \in Seq(Rows) /\ Alike(queue, queue)
  BY DEF RInv, Rowed, Alike
<1>2. CASE Tick
  BY <1>1, <1>2, ToggleAlike DEF Tick
<1>3. CASE StartInstall
  <2>1. PICK k \in DOMAIN queue : Continue(Focused(k)) \/ queue' = Focused(k)
    BY <1>3 DEF StartInstall
  <2>2. Focused(k) \in Seq(Rows) /\ Alike(Focused(k), queue)
    BY <1>1, FocusedAlike DEF Alike
  <2> QED BY <1>1, <2>1, <2>2, Confirms
<1>4. CASE AnswerApplet
  <2>1. Skimmed \in Seq(Rows) /\ Alike(Skimmed, queue)
    BY <1>1, SkimmedAlike DEF Alike
  <2> QED BY <1>1, <1>4, <2>1, Confirms DEF AnswerApplet
<1>5. CASE AnswerSpace
  BY <1>1, <1>5, Confirms DEF AnswerSpace
<1>6. CASE Dismiss \/ AskSkip \/ SkipCurrentPackage \/ CancelSession \/ Back \/ BackToReview \/ Destroy
  BY <1>1, <1>6 DEF Dismiss, AskSkip, SkipCurrentPackage, CancelSession, Back, BackToReview, Destroy
<1> QED BY <1>2, <1>3, <1>4, <1>5, <1>6

\* A sort is only possible in a review, where nothing has been passed.
LEMMA Sorts == ASSUME RInv, SortQueue PROVE RInv' /\ NoRetry
<1>1. UNCHANGED <<state, pc, i, fresh, shown, protocol, requested>> /\ state = "review" /\ ~requested
  BY DEF SortQueue, Reviewing, Still, Steady, history, console
<1>2. i = 0
  BY <1>1 DEF RInv, Where, Early
<1>3. PICK n \in Nat : n = Len(queue) /\ DOMAIN queue = 1 .. n
  BY DEF RInv, Rowed
<1>4. PICK s \in [1 .. n -> 1 .. n] : queue' = [k \in 1 .. n |-> queue[s[k]]]
  BY <1>3 DEF SortQueue
<1>5. queue' \in [1 .. n -> Rows] /\ \A k \in 1 .. n : ~queue'[k].armed
  <2>1. \A k \in 1 .. n : queue[k] \in Rows /\ ~queue[k].armed
    BY <1>2, <1>3, Unmarks DEF RInv, Rowed
  <2>2. \A k \in 1 .. n : s[k] \in 1 .. n
    BY <1>4
  <2>3. \A k \in 1 .. n : queue'[k] = queue[s[k]]
    BY <1>4
  <2>4. \A k \in 1 .. n : queue'[k] \in Rows /\ ~queue'[k].armed
    BY <2>1, <2>2, <2>3
  <2> QED BY <1>4, <2>4
<1>6. queue' \in Seq(Rows) /\ Len(queue') = n
  BY <1>5, Listing
<1>7. Rowed'
  BY <1>1, <1>6 DEF RInv, Rowed
<1>8. Where'
  BY <1>1, <1>3, <1>6 DEF RInv, Where, sync
<1> QED BY <1>2, <1>5, <1>6, <1>7, <1>8, EarlyRInv

\* The main thread, whatever it does.
LEMMA MainRInv == ASSUME RInv, Main PROVE RInv' /\ NoRetry
<1>1. CASE SortQueue
  BY <1>1, Sorts
<1>2. CASE ~SortQueue
  <2>1. /\ UNCHANGED <<pc, i, fresh, shown, protocol>>
        /\ state' = state \/ (state = "summary" /\ state' = "review" /\ protocol = "goldleaf")
    BY <1>2 DEF Main, Tick, StartInstall, AnswerApplet, AnswerSpace, Dismiss, AskSkip, SkipCurrentPackage,
                CancelSession, Back, BackToReview, Destroy, Still, Steady, history
  <2>4. requested => requested'
    BY <1>2 DEF Main, Tick, StartInstall, AnswerApplet, AnswerSpace, Dismiss, AskSkip, SkipCurrentPackage,
                CancelSession, Back, BackToReview, Destroy, Continue, Confirm, console
  <2>2. Kept
    BY <1>2, MainKept, AlikeKept DEF Main
  <2>3. Where'
    BY <2>1, <2>2, <2>4 DEF RInv, Where, Kept, sync
  <2> QED BY <2>1, <2>2, <2>3, KeptRInv
<1> QED BY <1>1, <1>2

-----------------------------------------------------------------------------
(* The session thread in front of the loop. *)
\* The place of a package that is there is one of its places.
LEMMA Chosen ==
  ASSUME NEW q, NEW n, n \in Names(q)
  PROVE  IndexOf(q, n) \in DOMAIN q /\ q[IndexOf(q, n)].name = n
<1>1. \E k \in DOMAIN q : q[k].name = n
  BY DEF Names
<1> QED BY <1>1 DEF IndexOf

\* A new entry is a row without a mark.
LEMMA EntryRow ==
  ASSUME NEW n \in Packages, NEW sel \in BOOLEAN, NEW ok \in BOOLEAN, NEW later \in BOOLEAN
  PROVE  Entry(n, sel, ok, later) \in Rows /\ Entry(n, sel, ok, later).name = n /\ Entry(n, sel, ok, later).armed = FALSE
<1>1. (later /\ sel) \in BOOLEAN
  OBVIOUS
<1> QED BY <1>1 DEF Entry, Rows

\* What the PC lists is a sequence of packages with ticks.
LEMMA Listings == ASSUME NEW items \in Lists PROVE items \in Seq(Items)
<1>1. PICK s \in Orders, t \in SUBSET Packages : items = [x \in DOMAIN s |-> [name |-> s[x], selected |-> s[x] \in t]]
  BY DEF Lists
<1>2. Cardinality(Packages) \in Nat
  BY SessionAssumption, FS_CardinalityType
<1>3. PICK m \in Nat : s \in [1 .. m -> Packages]
  BY <1>2 DEF Orders
<1>4. \A x \in 1 .. m : items[x] = [name |-> s[x], selected |-> s[x] \in t]
  BY <1>1, <1>3
<1>5. \A x \in 1 .. m : items[x] \in Items
  <2> TAKE x \in 1 .. m
  <2>1. s[x] \in Packages
    BY <1>3
  <2> DEFINE b == s[x] \in t
  <2>2. b \in BOOLEAN /\ items[x] = [name |-> s[x], selected |-> b]
    BY <1>4
  <2> HIDE DEF b
  <2> QED BY <2>1, <2>2 DEF Items
<1>6. items \in [1 .. m -> Items]
  BY <1>1, <1>3, <1>5
<1> QED BY <1>6, Listing

\* The steps in front of the loop that leave the rows, and the one that enters it.
LEMMA EarlyKept ==
  ASSUME RInv, StopsEarly \/ Connect \/ ConnectCancelled \/ (Analysed /\ pc = "analyse") \/ ForgetRequest \/ SendQueuePlan \/ PlanUnchanged \/ PlanSent
               \/ PlanNotSent \/ LastFetch \/ FetchFails \/ Begin
  PROVE  RInv' /\ NoRetry
<1>1. /\ pc \in Before /\ UNCHANGED <<fresh, shown, protocol>>
      /\ \/ pc' \in Before \cup {"end"} /\ i' \in {0, i}
         \/ pc' = "head" /\ i' = 1 /\ state' = "installing"
      /\ state' = "review" => pc' \in Before
      /\ state' = "summary" => state = "summary"
      /\ pc' \in Early \/ requested'
  BY DEF StopsEarly, Connect, ConnectCancelled, Analysed, ForgetRequest, SendQueuePlan, PlanUnchanged, PlanSent, PlanNotSent, LastFetch,
         FetchFails, Begin, Ends, Go, After, Quiet, console, package, history, Before, Early, RInv, Where
<1>2. i = 0
  BY <1>1 DEF RInv, Where
<1>3. Alike(queue, queue) /\ Alike(Unmarked, queue)
  BY UnmarkedAlike DEF RInv, Rowed, Alike
<1>4. queue' = queue \/ queue' = Unmarked
  BY DEF StopsEarly, Connect, ConnectCancelled, Analysed, ForgetRequest, SendQueuePlan, PlanUnchanged, PlanSent, PlanNotSent, LastFetch,
         FetchFails, Begin, Ends
<1>5. Kept
  BY <1>3, <1>4, AlikeKept
<1>6. Len(queue') \in Nat
  BY <1>5 DEF Kept
<1>7. Where'
  BY <1>1, <1>2, <1>6 DEF RInv, Where, Before, Early, AtRow
<1> QED BY <1>1, <1>2, <1>5, <1>7, KeptRInv

\* Only a host without the live queue is reviewed again, and its rows never got a mark.
LEMMA ReviewsAgain == ASSUME RInv, Analysed PROVE RInv' /\ NoRetry
<1>1. CASE pc = "analyse"
  BY <1>1, EarlyKept
<1>2. CASE pc = "wait"
  <2>1. UNCHANGED <<queue, fresh, protocol, requested>> /\ pc' = "reviewing" /\ state' = "review" /\ i' = 0
    BY DEF Analysed, Go, Quiet, console
  <2>2. ~sync
    BY <1>2 DEF Analysed, RInv, Where
  <2>3. Kept
    BY <2>1, QueueKept
  <2>4. Rowed' /\ Armed'
    BY <2>1, <2>2 DEF RInv, Rowed, Armed
  <2>5. Len(queue') \in Nat
    BY <2>3 DEF Kept
  <2>6. Where'
    BY <2>1, <2>5 DEF Where, Before, Early, AtRow
  <2> QED BY <2>3, <2>4, <2>6, KeptNoRetry DEF RInv
<1> QED BY <1>1, <1>2 DEF Analysed

\* The first list adds rows without marks.
LEMMA Appends == ASSUME RInv, Analyse \/ AnalyseCancelled PROVE RInv' /\ NoRetry
<1>1. pc = "analyse" /\ UNCHANGED <<state, pc, fresh, i, shown, protocol, requested>>
  BY DEF Analyse, AnalyseCancelled, Quiet, console, package, history
<1>2. i = 0
  BY <1>1 DEF RInv, Where, Before
<1>3. PICK n \in Packages, ok \in BOOLEAN : queue' = Append(queue, Entry(n, ok, ok, FALSE))
  BY DEF Analyse, AnalyseCancelled, Appended
<1> DEFINE e == Entry(n, ok, ok, FALSE)
<1>4. e \in Rows /\ ~e.armed
  BY EntryRow
<1> HIDE DEF e
<1>5. queue \in Seq(Rows) /\ queue' = Append(queue, e) /\ queue' \in Seq(Rows)
  <2>1. queue \in Seq(Rows)
    BY DEF RInv, Rowed
  <2>2. queue' = Append(queue, e)
    BY <1>3 DEF e
  <2> QED BY <1>4, <2>1, <2>2
<1>6. PICK m \in Nat : m = Len(queue)
  BY <1>5
<1>7. Len(queue') = m + 1 /\ \A k \in 1 .. m + 1 : queue'[k] = IF k = m + 1 THEN e ELSE queue[k]
  BY <1>4, <1>5, <1>6
<1>8. \A k \in 1 .. Len(queue') : ~queue'[k].armed
  BY <1>2, <1>4, <1>6, <1>7, Unmarks
<1>9. Rowed'
  BY <1>1, <1>5 DEF RInv, Rowed
<1>10. Where'
  BY <1>1, <1>2, <1>6, <1>7 DEF RInv, Where, Before, Early, AtRow, sync
<1> QED BY <1>2, <1>8, <1>9, <1>10, EarlyRInv

\* the copy takes over rows without marks, and makes new ones without marks
LEMMA ReviewedRow ==
  ASSUME RInv, i = 0, NEW it \in Items, NEW inFlight \in BOOLEAN
  PROVE  Reviewed(it, inFlight) \in Rows /\ ~Reviewed(it, inFlight).armed
<1>0. it.name \in Packages /\ it.selected \in BOOLEAN
  BY DEF Items
<1>1. CASE it.name \notin Names(queue)
  BY <1>0, <1>1, EntryRow DEF Reviewed
<1>2. CASE it.name \in Names(queue)
  <2> DEFINE e == queue[IndexOf(queue, it.name)]
  <2>1. IndexOf(queue, it.name) \in 1 .. Len(queue)
    BY <1>2, Chosen DEF RInv, Rowed
  <2>2. e \in Rows /\ ~e.armed
    BY <2>1, Unmarks DEF RInv, Rowed
  <2>3. Reviewed(it, inFlight) = IF e.dirty \/ inFlight THEN e ELSE [e EXCEPT !.selected = it.selected /\ e.ok]
    BY <1>2 DEF Reviewed
  <2> HIDE DEF e
  <2>4. [e EXCEPT !.selected = it.selected /\ e.ok] \in Rows /\ ~[e EXCEPT !.selected = it.selected /\ e.ok].armed
    BY <1>0, <2>2 DEF Rows
  <2> QED BY <2>2, <2>3, <2>4
<1> QED BY <1>1, <1>2

\* The copy of the review holds no marks,
LEMMA Copies == ASSUME RInv, Copy PROVE RInv' /\ NoRetry
<1>1. pc \in Before /\ pc' \in Before /\ UNCHANGED <<state, queue, i, shown, protocol, requested>> /\ (pc' \in Early \/ requested)
  BY DEF Copy, Go, Quiet, console, package, history, Before, Early, RInv, Where
<1>2. i = 0
  BY <1>1 DEF RInv, Where
<1>3. PICK items \in Lists, inFlight \in BOOLEAN :
        LET new == [x \in DOMAIN items |-> Reviewed(items[x], inFlight)] IN
        fresh' = [queue |-> new, todo |-> Names(items) \ Names(queue),
                  changed |-> \/ Names(items) # Names(queue)
                              \/ \E e \in Range(new) : e.selected # queue[IndexOf(queue, e.name)].selected]
  BY DEF Copy
<1> DEFINE new == [x \in DOMAIN items |-> Reviewed(items[x], inFlight)]
           c == \/ Names(items) # Names(queue)
                \/ \E e \in Range(new) : e.selected # queue[IndexOf(queue, e.name)].selected
<1>4. fresh' = [queue |-> new, todo |-> Names(items) \ Names(queue), changed |-> c]
  BY <1>3
<1>5. items \in Seq(Items)
  BY Listings
<1>6. PICK m \in Nat : DOMAIN items = 1 .. m
  BY <1>5
<1>7. \A x \in 1 .. m : new[x] \in Rows /\ ~new[x].armed
  BY <1>2, <1>5, <1>6, ReviewedRow
<1>8. new \in [1 .. m -> Rows]
  BY <1>6, <1>7
<1>9. Names(items) \in SUBSET Packages
  <2>0. \A k \in DOMAIN items : items[k] \in Items
    BY <1>5
  <2>1. \A k \in DOMAIN items : items[k].name \in Packages
    BY <2>0 DEF Items
  <2> QED BY <2>1 DEF Names
<1>10. c \in BOOLEAN
  OBVIOUS
<1> HIDE DEF new, c
<1>11. new \in Seq(Rows) /\ Len(new) = m
  BY <1>8, Listing
<1>12. fresh' \in [queue : Seq(Rows), todo : SUBSET Packages, changed : BOOLEAN] /\ fresh'.queue = new
  BY <1>4, <1>9, <1>10, <1>11
<1>13. Rowed'
  BY <1>1, <1>7, <1>11, <1>12 DEF RInv, Rowed
<1>14. Where'
  BY <1>1 DEF RInv, Where, Before, AtRow, sync
<1> QED BY <1>1, <1>2, <1>13, <1>14, Unmarks, EarlyRInv

\* an analysis adds none to it,
LEMMA AnalysesNew == ASSUME RInv, AnalyseNew \/ AnalyseNewCancelled PROVE RInv' /\ NoRetry
<1>1. pc \in Before /\ UNCHANGED <<state, pc, queue, i, shown, protocol, requested>>
  BY DEF AnalyseNew, AnalyseNewCancelled, Quiet, console, package, history, Before
<1>2. i = 0
  BY <1>1 DEF RInv, Where
<1>3. PICK n \in fresh.todo, ok \in BOOLEAN : AnalysedNew(n, ok)
  BY DEF AnalyseNew, AnalyseNewCancelled
<1> DEFINE q == fresh.queue
           x == IndexOf(fresh.queue, n)
           p == [q EXCEPT ![x] = [q[x] EXCEPT !.ok = ok, !.selected = q[x].selected /\ ok]]
<1>4. fresh' = [fresh EXCEPT !.todo = fresh.todo \ {n}, !.queue = p]
  BY <1>3 DEF AnalysedNew
<1>5. q \in Seq(Rows) /\ \A k \in DOMAIN q : q[k] \in Rows /\ ~q[k].armed
  BY DEF RInv, Rowed
<1>6. DOMAIN p = DOMAIN q /\ p = [k \in DOMAIN p |-> p[k]]
  OBVIOUS
<1>7. \A k \in DOMAIN q : p[k] \in Rows /\ p[k].name = q[k].name /\ p[k].armed = q[k].armed /\ p[k].result = q[k].result
  BY <1>5 DEF Rows
<1>8. fresh \in [queue : Seq(Rows), todo : SUBSET Packages, changed : BOOLEAN]
  BY DEF RInv, Rowed
<1>9. Alike(p, q)
  BY <1>5, <1>6, <1>7, Rewritten
<1> HIDE DEF p, x
<1>10. p \in Seq(Rows) /\ \A k \in 1 .. Len(p) : ~p[k].armed
  BY <1>5, <1>9 DEF Alike
<1>11. fresh' \in [queue : Seq(Rows), todo : SUBSET Packages, changed : BOOLEAN] /\ fresh'.queue = p
  BY <1>4, <1>8, <1>10
<1>12. Rowed'
  BY <1>1, <1>10, <1>11 DEF RInv, Rowed
<1>13. Where'
  BY <1>1 DEF RInv, Where, sync
<1> QED BY <1>1, <1>2, <1>12, <1>13, Unmarks, EarlyRInv

\* and so there are none behind the store.
LEMMA Stores == ASSUME RInv, Store PROVE RInv' /\ NoRetry
<1>1. /\ pc \in Before /\ pc' \in Before /\ UNCHANGED <<state, i, shown, protocol, requested>> /\ fresh' = NoFresh
      /\ (pc' \in Early \/ requested)
  BY DEF Store, Go, After, Quiet, console, package, history, Before, Early, RInv, Where
<1>2. i = 0
  BY <1>1 DEF RInv, Where
<1>3. fresh.queue \in Seq(Rows) /\ \A k \in 1 .. Len(fresh.queue) : ~fresh.queue[k].armed
  BY DEF RInv, Rowed
<1>4. Alike(Planned(fresh.queue), fresh.queue) /\ Alike(fresh.queue, fresh.queue)
  BY <1>3, PlannedAlike DEF Alike
<1>5. Alike(queue', fresh.queue)
  BY <1>4 DEF Store
<1>6. queue' \in Seq(Rows) /\ \A k \in 1 .. Len(queue') : ~queue'[k].armed
  BY <1>3, <1>5 DEF Alike
<1>7. fresh' \in [queue : Seq(Rows), todo : SUBSET Packages, changed : BOOLEAN] /\ fresh'.queue = <<>>
  BY <1>1 DEF NoFresh
<1>8. Rowed'
  BY <1>6, <1>7 DEF Rowed
<1>9. Where'
  BY <1>1, <1>2, <1>6 DEF RInv, Where, Before, AtRow, sync
<1> QED BY <1>2, <1>6, <1>8, <1>9, EarlyRInv

-----------------------------------------------------------------------------
(* The session thread in its loop. *)
\* The steps of the loop that leave the queue alone.
LEMMA LoopsOn ==
  ASSUME RInv, LoopEnds \/ PassOver \/ Take \/ Open \/ CheckCancelled \/ InstallEnds \/ InstallStops \/ InstallCancelled
               \/ LinkLost \/ Relink \/ RelinkFails \/ Close \/ Status \/ Finish \/ Leave
  PROVE  RInv' /\ NoRetry
<1>1. UNCHANGED <<queue, fresh, shown, protocol, requested>>
  BY DEF LoopEnds, PassOver, Take, Open, CheckCancelled, InstallEnds, InstallStops, InstallCancelled, Returns, LinkLost,
         Relink, RelinkFails, Close, Status, Finish, Leave, Ends, Quiet, console, package, history
<1>2. /\ pc \notin Before \cup Early /\ pc' \notin Before
      /\ \/ state' = state /\ pc # "wait" /\ pc' \notin {"wait", "end"}
         \/ pc = "finish" /\ pc' = "wait" /\ state' \in {"summary", "cancelled"}
         \/ pc = "wait" /\ pc' = "end" /\ state' = "cancelled"
      /\ \/ i' = i /\ (pc \in AtRow \/ pc' \notin AtRow)
         \/ i' = i + 1 /\ pc \in AtRow /\ pc' \notin AtRow
      /\ pc' = "head" => i' = i + 1
  BY DEF LoopEnds, PassOver, Take, Open, CheckCancelled, InstallEnds, InstallStops, InstallCancelled, Returns, LinkLost,
         Relink, RelinkFails, Close, Status, Finish, Leave, Ends, Next1, Go, package, history, Before, Early, AtRow
<1>3. PICK n \in Nat : n = Len(queue) /\ Len(queue') = n
  BY <1>1 DEF RInv, Rowed
<1>4. Where'
  BY <1>1, <1>2, <1>3 DEF RInv, Where, Early
<1> QED BY <1>1, <1>2, <1>4, QueueKept, KeptRInv

\* the result of the package under way
LEMMA Results == ASSUME RInv, AnalyseOne \/ AnalyseOneCancelled \/ Record PROVE RInv' /\ NoRetry
<1>1. /\ pc \in AtRow /\ UNCHANGED <<state, fresh, shown, i, protocol, requested>>
      /\ pc' \in {"open", "status", "finish"}
  BY DEF AnalyseOne, AnalyseOneCancelled, DeferredAnalysis, Record, Quiet, Go, console, package, history, AtRow
<1>2. PICK n \in Nat : n = Len(queue) /\ DOMAIN queue = 1 .. n /\ i \in 1 .. n
  BY <1>1 DEF RInv, Rowed, Where
<1>3. \A k \in 1 .. n : queue[k] \in Rows
  BY <1>2 DEF RInv, Rowed
<1>4. /\ queue' = [k \in 1 .. n |-> queue'[k]]
      /\ \A k \in 1 .. n : k # i => queue'[k] = queue[k]
  BY <1>2 DEF AnalyseOne, AnalyseOneCancelled, DeferredAnalysis, Record
<1>5. queue'[i] \in Rows /\ queue'[i].name = queue[i].name /\ queue'[i].armed = queue[i].armed
  <2>1. CASE AnalyseOne \/ AnalyseOneCancelled
    <3>1. PICK ok \in BOOLEAN : DeferredAnalysis(ok)
      BY <2>1 DEF AnalyseOne, AnalyseOneCancelled
    <3> DEFINE r == IF ok THEN queue[i].result ELSE "failed"
    <3>2. queue' = [queue EXCEPT ![i].ok = ok, ![i].deferred = FALSE, ![i].result = r]
      BY <3>1 DEF DeferredAnalysis
    <3>3. queue[i] \in Rows
      BY <1>2, <1>3
    <3>4. r \in {"none", "installed", "failed", "skipped", "cancelled"}
      BY <3>3 DEF Rows
    <3> HIDE DEF r
    <3>5. queue'[i] = [queue[i] EXCEPT !.ok = ok, !.deferred = FALSE, !.result = r]
      BY <1>2, <3>2
    <3> QED BY <3>3, <3>4, <3>5 DEF Rows
  <2>2. CASE Record
    <3> DEFINE went == ~run.skipped /\ run.rc = "installed"
               cancelled == cancel \/ (~run.skipped /\ run.rc = "cancelled")
               result == CASE run.skipped -> "skipped" [] went -> run.rc [] cancelled -> "cancelled" [] OTHER -> "failed"
    <3>1. queue' = [queue EXCEPT ![i].result = result, ![i].selected = queue[i].selected /\ ~went]
      BY <2>2 DEF Record
    <3>2. result \in {"installed", "failed", "skipped", "cancelled"}
      OBVIOUS
    <3> HIDE DEF result, went
    <3>3. queue[i] \in Rows
      BY <1>2, <1>3
    <3>4. queue'[i] = [queue[i] EXCEPT !.result = result, !.selected = queue[i].selected /\ ~went]
      BY <1>2, <3>1
    <3> QED BY <3>2, <3>3, <3>4 DEF Rows
  <2> QED BY <2>1, <2>2
<1>6. queue' \in [1 .. n -> Rows]
  BY <1>3, <1>4, <1>5
<1>7. queue' \in Seq(Rows) /\ Len(queue') = n
  BY <1>6, Listing
<1>8. Kept
  BY <1>2, <1>4, <1>5, <1>7 DEF Kept
<1>9. Where'
  BY <1>1, <1>2, <1>7 DEF RInv, Where, Before, Early, AtRow, sync
<1> QED BY <1>1, <1>8, <1>9, KeptRInv

-----------------------------------------------------------------------------
(* The live update while installing. *)
\* A package that was passed has a last place where it was.
LEMMA LastPassed ==
  ASSUME i \in Nat, NEW n, Passed(n) # {}
  PROVE  Max(Passed(n)) \in Passed(n) /\ \A y \in Passed(n) : y <= Max(Passed(n))
<1>1. CASE i = 0
  BY <1>1 DEF Passed
<1>2. CASE i # 0
  <2>1. i - 1 \in Nat /\ Passed(n) \in SUBSET (1 .. i - 1)
    BY <1>2 DEF Passed
  <2> QED BY <2>1, MaxOfSome
<1> QED BY <1>1, <1>2

\* what comes behind the active package has no mark
LEMMA RelistedRow ==
  ASSUME RInv, i \in 1 .. Len(queue), NEW it \in Items
  PROVE  Relisted(it) \in Rows /\ Relisted(it).name = it.name /\ ~Relisted(it).armed
<1>0. it.name \in Packages /\ it.selected \in BOOLEAN
  BY DEF Items
<1>1. CASE it.name \notin Future
  BY <1>0, <1>1, EntryRow DEF Relisted
<1>2. CASE it.name \in Future
  <2>1. PICK n \in Nat : n = Len(queue)
    BY DEF RInv, Rowed
  <2> DEFINE tail == SubSeq(queue, i + 1, n)
             x == IndexOf(tail, it.name)
  <2>2. queue \in Seq(Rows) /\ i \in 1 .. n
    BY <2>1 DEF RInv, Rowed
  <2>3. DOMAIN tail = 1 .. n - i /\ \A k \in 1 .. n - i : tail[k] = queue[i + k]
    BY <2>1, <2>2
  <2>4. PICK k \in i + 1 .. n : queue[k].name = it.name
    BY <1>2, <2>1 DEF Future
  <2>5. k - i \in 1 .. n - i /\ i + (k - i) = k
    BY <2>2
  <2>6. tail[k - i].name = it.name
    BY <2>3, <2>4, <2>5
  <2>7. it.name \in Names(tail)
    BY <2>3, <2>5, <2>6 DEF Names
  <2>8. x \in 1 .. n - i /\ tail[x].name = it.name
    BY <2>3, <2>7, Chosen
  <2> HIDE DEF x
  <2>9. i + x \in 1 .. n /\ ~(i + x < i)
    BY <2>2, <2>8
  <2> DEFINE e == queue[i + x]
  <2>10. e \in Rows /\ e.name = it.name /\ ~e.armed
    <3>1. e \in Rows
      BY <2>1, <2>2, <2>9
    <3>2. e.name = it.name
      BY <2>3, <2>8
    <3>3. ~e.armed
      BY <2>1, <2>9 DEF RInv, Armed
    <3> QED BY <3>1, <3>2, <3>3
  <2>11. Relisted(it) = [e EXCEPT !.selected = it.selected]
    BY <1>2, <2>1 DEF Relisted, x
  <2> HIDE DEF e
  <2> QED BY <1>0, <2>10, <2>11 DEF Rows
<1> QED BY <1>1, <1>2

\* The plan of what is behind changes no name and no mark.
LEMMA ReplannedRow ==
  ASSUME NEW e \in Rows, NEW full
  PROVE  Replanned(e, full) \in Rows /\ Replanned(e, full).name = e.name /\ Replanned(e, full).armed = e.armed
BY DEF Replanned, Rows

\* the last place where a package was passed is its last one
LEMMA LastIsLast ==
  ASSUME i \in Nat, NEW k, k \in 1 .. i - 1
  PROVE  /\ Newest(k) => k = Max(Passed(queue[k].name))
         /\ Passed(queue[k].name) # {} /\ k = Max(Passed(queue[k].name)) => Newest(k)
<1> DEFINE P == Passed(queue[k].name)
<1>1. ASSUME Newest(k) PROVE k = Max(P)
  <2>1. k \in P
    BY <1>1 DEF Newest, Passed
  <2>2. PICK m \in P : m = Max(P) /\ k <= m
    BY <2>1, LastPassed
  <2>3. m \in 1 .. i - 1 /\ queue[m].name = queue[k].name /\ ~Installed(queue[m])
    BY DEF Passed
  <2>4. m \notin k + 1 .. i - 1
    BY <1>1, <2>3 DEF Newest
  <2> QED BY <2>2, <2>3, <2>4
<1>2. ASSUME k = Max(P), P # {} PROVE Newest(k)
  <2>1. k \in P /\ \A y \in P : y <= k
    BY <1>2, LastPassed
  <2>2. ~Installed(queue[k])
    BY <2>1 DEF Passed
  <2>3. ASSUME NEW j \in k + 1 .. i - 1, queue[j].name = queue[k].name, ~Installed(queue[j]) PROVE FALSE
    <3>1. j \in 1 .. i - 1 /\ ~(j <= k)
      OBVIOUS
    <3>2. j \in P
      BY <2>3, <3>1 DEF Passed
    <3> QED BY <2>1, <3>1, <3>2
  <2> QED BY <2>2, <2>3 DEF Newest
<1> QED BY <1>1, <1>2

\* Up to the active package only marks change: one goes up where the PC has just shown the package
\* unticked, and the last one of a package goes down with the package's return.
LEMMA FrozenRow ==
  ASSUME RInv, i \in 1 .. Len(queue), NEW items \in SUBSET Items, NEW k \in 1 .. i, NEW f, f = FrozenPart(items)[k]
  PROVE  /\ f \in Rows /\ f.name = queue[k].name /\ f.result = queue[k].result
         /\ f.armed => k < i
         /\ f.armed /\ Newest(k) =>
              queue[k].name \in (shown \ Named({it \in items : Again(it)})) \cup Named({it \in items : Arms(it)})
<1>1. i \in Nat /\ k \in 1 .. Len(queue) /\ queue[k] \in Rows
  BY DEF RInv, Where, Rowed
<1> DEFINE mine == {it \in items : Retries(it) /\ k = Max(Passed(it.name))}
           a == IF \E it \in mine : Arms(it) THEN TRUE
                ELSE IF \E it \in mine : Again(it) THEN FALSE ELSE queue[k].armed
<1>2. f = [queue[k] EXCEPT !.armed = a]
  BY DEF FrozenPart
<1>3. \A it \in mine : k \in 1 .. i - 1 /\ queue[k].name = it.name
  <2> TAKE it \in mine
  <2>1. Passed(it.name) # {} /\ k = Max(Passed(it.name))
    BY DEF Retries
  <2>2. k \in Passed(it.name)
    BY <1>1, <2>1, LastPassed
  <2> QED BY <2>2 DEF Passed
<1>4. CASE \E it \in mine : Arms(it)
  <2>1. PICK it \in mine : Arms(it)
    BY <1>4
  <2>2. k < i /\ queue[k].name \in Named({x \in items : Arms(x)})
    BY <1>1, <1>3, <2>1 DEF Named
  <2>3. f = [queue[k] EXCEPT !.armed = TRUE]
    BY <1>2, <1>4
  <2> HIDE DEF mine, a
  <2> QED BY <1>1, <2>2, <2>3 DEF Rows
<1>5. CASE ~(\E it \in mine : Arms(it)) /\ \E it \in mine : Again(it)
  <2>1. f = [queue[k] EXCEPT !.armed = FALSE]
    BY <1>2, <1>5
  <2> HIDE DEF mine, a
  <2> QED BY <1>1, <2>1 DEF Rows
<1>6. CASE ~(\E it \in mine : Arms(it)) /\ ~(\E it \in mine : Again(it))
  <2>1. f = [queue[k] EXCEPT !.armed = queue[k].armed]
    BY <1>2, <1>6
  <2>2. f = queue[k]
    BY <1>1, <2>1 DEF Rows
  <2>3. queue[k].armed => k < i /\ (Newest(k) => queue[k].name \in shown)
    BY <1>1 DEF RInv, Armed
  <2>4. ASSUME k < i, Newest(k), NEW it \in items, Again(it), it.name = queue[k].name PROVE FALSE
    <3>1. k \in 1 .. i - 1 /\ Retries(it)
      BY <1>1, <2>4 DEF Again
    <3>2. k = Max(Passed(it.name))
      BY <1>1, <2>4, <3>1, LastIsLast
    <3> QED BY <1>6, <2>4, <3>1, <3>2
  <2>5. queue[k].armed /\ Newest(k) => queue[k].name \notin Named({it \in items : Again(it)})
    BY <2>3, <2>4 DEF Named
  <2> QED BY <1>1, <2>2, <2>3, <2>5
<1> QED BY <1>4, <1>5, <1>6

\* A package that comes back behind the active one had the mark at its last place, and that
\* mark says that the PC has shown it unticked.
LEMMA LiveUpdates ==
  ASSUME RInv, sync, LiveUpdate, i \in 1 .. Len(queue), i' = i, protocol' = protocol
  PROVE  queue' \in Seq(Rows) /\ i <= Len(queue') /\ Armed' /\ NoRetry
<1>1. PICK items \in Listed, behind \in Lists :
        /\ Range(behind) = {it \in items : Behind(it)}
        /\ \E full \in SUBSET Named({it \in Range(behind) : it.selected}) :
             queue' = FrozenPart(items) \o [x \in DOMAIN behind |-> Replanned(Relisted(behind[x]), full)]
        /\ shown' = (shown \ Named({it \in items : Again(it)})) \cup Named({it \in items : Arms(it)})
  BY DEF LiveUpdate
<1>2. PICK full : queue' = FrozenPart(items) \o [x \in DOMAIN behind |-> Replanned(Relisted(behind[x]), full)]
  BY <1>1
<1> DEFINE F == FrozenPart(items)
           B == [x \in DOMAIN behind |-> Replanned(Relisted(behind[x]), full)]
<1>3. i \in Nat /\ queue \in Seq(Rows)
  BY DEF RInv, Where, Rowed
<1>4. behind \in Seq(Items)
  BY Listings
<1>5. items \in SUBSET Items
  <2>1. PICK l \in Lists : items = Range(l)
    BY DEF Listed
  <2>2. l \in Seq(Items)
    BY Listings
  <2>3. \A x \in DOMAIN l : l[x] \in Items
    BY <2>2
  <2> QED BY <2>1, <2>3 DEF Range
<1>6. PICK m \in Nat : DOMAIN behind = 1 .. m
  BY <1>4
<1>7. \A x \in 1 .. m : behind[x] \in Items /\ behind[x] \in items /\ Behind(behind[x])
  <2> TAKE x \in 1 .. m
  <2>1. behind[x] \in Range(behind)
    BY <1>6 DEF Range
  <2>2. behind[x] \in items /\ Behind(behind[x])
    BY <1>1, <2>1
  <2> QED BY <1>5, <2>2
<1>8. \A x \in 1 .. m : B[x] \in Rows /\ B[x].name = behind[x].name /\ ~B[x].armed
  <2> TAKE x \in 1 .. m
  <2>1. Relisted(behind[x]) \in Rows /\ Relisted(behind[x]).name = behind[x].name /\ ~Relisted(behind[x]).armed
    BY <1>7, RelistedRow
  <2>2. B[x] = Replanned(Relisted(behind[x]), full)
    BY <1>6
  <2> QED BY <2>1, <2>2, ReplannedRow
<1>9. B \in Seq(Rows) /\ Len(B) = m
  <2>1. B \in [1 .. m -> Rows]
    BY <1>6, <1>8
  <2> QED BY <2>1, Listing
<1>10. \A k \in 1 .. i :
         /\ F[k] \in Rows /\ F[k].name = queue[k].name /\ F[k].result = queue[k].result
         /\ F[k].armed => k < i
         /\ F[k].armed /\ Newest(k) => queue[k].name \in shown'
  BY <1>1, <1>5, FrozenRow
<1>11. F \in Seq(Rows) /\ Len(F) = i
  <2>1. F \in [1 .. i -> Rows]
    BY <1>10 DEF FrozenPart
  <2> QED BY <1>3, <2>1, Listing
<1>12. queue' = F \o B
  BY <1>2
<1> HIDE DEF F, B
<1>13. /\ queue' \in Seq(Rows) /\ Len(queue') = i + m
       /\ \A k \in 1 .. i : queue'[k] = F[k]
       /\ \A k \in i + 1 .. i + m : queue'[k] = B[k - i]
  <2>1. F \in Seq(Rows) /\ B \in Seq(Rows) /\ Len(F) = i /\ Len(B) = m /\ i \in Nat /\ m \in Nat
    BY <1>3, <1>9, <1>11
  <2>2. F \o B \in Seq(Rows)
    BY <2>1, Joined
  <2>3. Len(F \o B) = i + m
    BY <2>1, Joined
  <2>4. \A k \in 1 .. i : (F \o B)[k] = F[k]
    BY <2>1, Joined
  <2>5. \A k \in i + 1 .. i + m : (F \o B)[k] = B[k - i]
    <3> TAKE k \in i + 1 .. i + m
    <3>1. k \in Len(F) + 1 .. Len(F) + Len(B)
      BY <2>1
    <3>2. (F \o B)[k] = B[k - Len(F)]
      BY <2>1, <3>1
    <3> QED BY <2>1, <3>2
  <2> QED BY <1>12, <2>2, <2>3, <2>4, <2>5
<1>14. \A k \in i + 1 .. i + m : k - i \in 1 .. m
  BY <1>3
<1>15. ASSUME NEW k \in 1 .. i + m, queue'[k].armed PROVE k < i /\ (Newest(k)' => queue'[k].name \in shown')
  <2>1. k \in 1 .. i
    <3>1. CASE k \in i + 1 .. i + m
      <4>1. queue'[k] = B[k - i] /\ k - i \in 1 .. m
        BY <1>13, <1>14, <3>1
      <4> QED BY <1>8, <1>15, <4>1
    <3>2. CASE k \notin i + 1 .. i + m
      BY <1>3, <3>2
    <3> QED BY <3>1, <3>2
  <2>2. F[k].armed /\ queue'[k].name = queue[k].name /\ queue'[k].result = queue[k].result
    BY <1>10, <1>13, <1>15, <2>1
  <2>3. k < i
    BY <1>10, <2>1, <2>2
  <2>4. Newest(k)' => Newest(k)
    <3> SUFFICES ASSUME Newest(k)' PROVE Newest(k)
      OBVIOUS
    <3>1. ~Installed(queue[k])
      BY <2>2 DEF Newest, Installed
    <3>2. ASSUME NEW j \in k + 1 .. i - 1, queue[j].name = queue[k].name PROVE Installed(queue[j])
      <4>1. j \in 1 .. i
        BY <1>3, <2>1
      <4>2. queue'[j].name = queue[j].name /\ queue'[j].result = queue[j].result
        BY <1>10, <1>13, <4>1
      <4>3. queue'[j].name = queue'[k].name
        BY <2>2, <3>2, <4>2
      <4>4. j \in k + 1 .. i' - 1
        OBVIOUS
      <4>5. Installed(queue'[j])
        BY <4>3, <4>4 DEF Newest
      <4> QED BY <4>2, <4>5 DEF Installed
    <3> QED BY <3>1, <3>2 DEF Newest
  <2> QED BY <1>10, <2>1, <2>2, <2>3, <2>4
<1>16. Armed'
  BY <1>13, <1>15 DEF Armed, sync
<1>17. ASSUME NEW k \in 1 .. i - 1, NEW x \in i + 1 .. i + m, queue'[x].name = queue[k].name, queue[k].name \notin Future
       PROVE  queue[k].name \in shown
  <2> DEFINE it == behind[x - i]
  <2>1. x - i \in 1 .. m /\ it.name = queue[k].name /\ Behind(it)
    BY <1>7, <1>8, <1>13, <1>14, <1>17
  <2>2. it.name \in Frozen
    <3>1. k \in 1 .. i
      BY <1>3
    <3> QED BY <2>1, <3>1 DEF Frozen
  <2>3. Again(it)
    BY <1>17, <2>1, <2>2 DEF Behind
  <2> DEFINE M == Max(Passed(it.name))
  <2>4. M \in Passed(it.name) /\ queue[M].armed
    BY <1>3, <2>3, LastPassed DEF Again, Retries
  <2>5. M \in 1 .. i - 1 /\ queue[M].name = it.name
    BY <2>4 DEF Passed
  <2>6. Newest(M)
    BY <1>3, <2>4, <2>5, LastIsLast
  <2>7. M \in 1 .. Len(queue)
    <3>1. PICK n \in Nat : n = Len(queue)
      BY <1>3
    <3>2. M \in 1 .. n
      BY <1>3, <2>5, <3>1
    <3> QED BY <3>1, <3>2
  <2> QED BY <2>1, <2>4, <2>5, <2>6, <2>7 DEF RInv, Armed
<1>18. NoRetry
  BY <1>13, <1>17 DEF NoRetry
<1> QED BY <1>3, <1>13, <1>16, <1>18

\* The two places where the list is fetched while installing.
LEMMA Updates == ASSUME RInv, LoopHead \/ Hook PROVE RInv' /\ NoRetry
<1>1. /\ pc \notin Before /\ UNCHANGED <<state, fresh, i, protocol, requested>> /\ i \in 1 .. Len(queue)
      /\ pc' \in {"take", "install"}
  <2>1. CASE LoopHead
    <3>1. pc = "head" /\ pc' = "take" /\ i <= Len(queue) /\ UNCHANGED <<state, fresh, i, protocol, requested>>
      BY <2>1 DEF LoopHead, Quiet, Go, console, package
    <3> QED BY <3>1 DEF RInv, Where, Rowed, Before
  <2>2. CASE Hook
    BY <2>2 DEF Hook, Quiet, console, RInv, Where, Before, AtRow
  <2> QED BY <2>1, <2>2
<1>4. pc \in {"head", "install"}
  BY DEF LoopHead, Hook
<1>2. CASE sync /\ LiveUpdate
  <2>1. queue' \in Seq(Rows) /\ i <= Len(queue') /\ Armed' /\ NoRetry
    BY <1>1, <1>2, LiveUpdates
  <2>2. Len(queue') \in Nat
    BY <2>1
  <2>3. Where'
    BY <1>1, <1>4, <2>1, <2>2 DEF RInv, Where, Before, Early, AtRow, sync
  <2>4. Rowed'
    BY <1>1, <2>1 DEF RInv, Rowed
  <2> QED BY <2>1, <2>3, <2>4 DEF RInv
<1>3. CASE UNCHANGED <<queue, shown>>
  <2>1. Where'
    BY <1>1, <1>3, <1>4 DEF RInv, Where, Before, Early, AtRow, sync
  <2> QED BY <1>1, <1>3, <2>1, QueueKept, KeptRInv
<1> QED BY <1>2, <1>3 DEF LoopHead, Hook

-----------------------------------------------------------------------------
\* A session starts with no rows.
LEMMA StartsUnmarked == Init => RInv
<1> SUFFICES ASSUME Init PROVE RInv
  OBVIOUS
<1>1. queue = <<>> /\ i = 0 /\ pc = "connect" /\ state = "waiting" /\ fresh = NoFresh
  BY DEF Init
<1>2. fresh \in [queue : Seq(Rows), todo : SUBSET Packages, changed : BOOLEAN] /\ fresh.queue = <<>>
  BY <1>1 DEF NoFresh
<1>3. Rowed
  BY <1>1, <1>2 DEF Rowed
<1>4. Where /\ Armed
  BY <1>1 DEF Where, Armed, Before, Early, AtRow
<1> QED BY <1>3, <1>4 DEF RInv

\* Every step of Next, by its actor.
LEMMA StepsRInv == ASSUME RInv, Next PROVE RInv' /\ NoRetry
<1>1. CASE Unblocked
  BY <1>1, EarlyKept, ReviewsAgain, Appends, AnalysesNew, Stores, LoopsOn, Results, Updates DEF Unblocked
<1>2. CASE Answered
  BY <1>2, EarlyKept, Appends, Copies, AnalysesNew, LoopsOn, Results, Updates DEF Answered
<1>3. CASE Main
  BY <1>3, MainRInv
<1> QED BY <1>1, <1>2, <1>3 DEF Next

\* No step at all.
LEMMA StuttersRInv == ASSUME RInv, UNCHANGED vars PROVE RInv'
<1>1. UNCHANGED <<queue, state, pc, i, fresh, shown, protocol, requested>>
  BY DEF vars, console, package, history
<1> QED BY <1>1 DEF RInv, Rowed, Where, Armed, Newest, Installed, sync

\* NoRetryLoop: Menu::ApplyLiveQueue queues a package it has passed again only after the PC
\* has listed it unticked, whatever the PC lists and however often.
THEOREM RetriesAreAsked == Spec => NoRetryLoop
<1>1. RInv /\ [Next]_vars => RInv'
  BY StepsRInv, StuttersRInv
<1>2. RInv /\ [Next]_vars => [NoRetry]_vars
  BY StepsRInv
<1> QED BY <1>1, <1>2, StartsUnmarked, PTL DEF Spec, NoRetryLoop, NoRetry
===============================================================================
