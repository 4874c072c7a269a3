----------------------------- MODULE ProgressBox -----------------------------
(***************************************************************************)
(* The progress box of a job: a worker thread runs the callback, the main  *)
(* thread shows the box and may stop the job.  The worker can hold back a  *)
(* cancel (SetCancelDeferred) around a step that must not be cut off.      *)
(*                                                                         *)
(* The two threads share three atomic flags and take no lock; every step   *)
(* below is one load, store or exchange of one of them.  The job itself is *)
(* the module that extends this one.                                       *)
(***************************************************************************)

CONSTANT BoxFaults \* a subset of {"cancel", "exit", "start"}
ASSUME BoxFaultsAssumption == BoxFaults \subseteq {"cancel", "exit", "start"}

VARIABLES
  ui,                \* where the main thread is
  worker,            \* the callback: not started yet, running, lifting the shield, done
  stop_requested,    \* m_stop_source
  m_cancel_deferred,
  m_cancel_pending

flags == <<stop_requested, m_cancel_deferred, m_cancel_pending>>
boxVars == <<ui, worker, flags>>

BoxInit ==
  /\ ui = "open" /\ worker = "idle"
  /\ stop_requested = FALSE /\ m_cancel_deferred = FALSE /\ m_cancel_pending = FALSE

\* RequestExit
RequestExit == stop_requested' = TRUE

-------------------------------------------------------------------------------
(* The worker's side.                                                      *)

\* SetCancelDeferred(true)
Shield == m_cancel_deferred' = TRUE

\* mutant: SetCancelDeferred(false) forgets what was asked meanwhile
LiftApplyForgets ==
  /\ worker = "lift"
  /\ worker' = "running"
  /\ m_cancel_pending' = FALSE
  /\ UNCHANGED <<ui, stop_requested, m_cancel_deferred>>

\* SetCancelDeferred(false): the flag goes down first, then the exchange
LiftFlag ==
  /\ worker = "running"
  /\ m_cancel_deferred' = FALSE
  /\ worker' = "lift"
  /\ UNCHANGED <<ui, stop_requested, m_cancel_pending>>
LiftApply ==
  /\ worker = "lift"
  /\ worker' = "running"
  /\ m_cancel_pending' = FALSE
  /\ stop_requested' = (stop_requested \/ m_cancel_pending)
  /\ UNCHANGED <<ui, m_cancel_deferred>>

\* mutant: the thread function does not ask for the exit of its box
WorkerEndsQuietly ==
  /\ worker = "running"
  /\ worker' = "done"
  /\ UNCHANGED <<ui, flags>>

\* threadFunc, behind the callback
WorkerEnds ==
  /\ worker = "running"
  /\ worker' = "done"
  /\ RequestExit
  /\ UNCHANGED <<ui, m_cancel_deferred, m_cancel_pending>>

-------------------------------------------------------------------------------
(* The main thread: constructor, ShowCancelConfirmation, Update, destructor. *)

\* a thread that does not start leaves a box that closes at once
UiOpens ==
  /\ ui = "open"
  /\ ui' = "shown"
  /\ \/ worker' = "running" /\ UNCHANGED stop_requested
     \/ "start" \in BoxFaults /\ worker' = "done" /\ RequestExit
  /\ UNCHANGED <<m_cancel_deferred, m_cancel_pending>>

\* the user answers Yes, and the handler loads m_cancel_deferred
UiConfirms ==
  /\ "cancel" \in BoxFaults
  /\ ui = "shown"
  /\ ui' = IF m_cancel_deferred THEN "remember" ELSE "exit"
  /\ UNCHANGED <<worker, flags>>

\* mutant: the remembered cancel is not looked at again
UiRemembersOnly ==
  /\ ui = "remember"
  /\ m_cancel_pending' = TRUE
  /\ ui' = "shown"
  /\ UNCHANGED <<worker, stop_requested, m_cancel_deferred>>

UiRemembers ==
  /\ ui = "remember"
  /\ m_cancel_pending' = TRUE
  /\ ui' = "recheck"
  /\ UNCHANGED <<worker, stop_requested, m_cancel_deferred>>

UiRechecks ==
  /\ ui = "recheck"
  /\ ui' = IF m_cancel_deferred THEN "shown" ELSE "exchange"
  /\ UNCHANGED <<worker, flags>>

UiExchanges ==
  /\ ui = "exchange"
  /\ ui' = "shown"
  /\ m_cancel_pending' = FALSE
  /\ stop_requested' = (stop_requested \/ m_cancel_pending)
  /\ UNCHANGED <<worker, m_cancel_deferred>>

\* ~ProgressBox asks for a stop, whatever is deferred, and joins the worker
UiDestroys ==
  /\ ui' = "join"
  /\ RequestExit
  /\ UNCHANGED <<worker, m_cancel_deferred, m_cancel_pending>>

\* the box goes away: a confirmed cancel pops it, or Update sees a stop
UiPops == (ui = "exit" \/ (ui = "shown" /\ stop_requested)) /\ UiDestroys

\* the application is closed, and its boxes with it
UiQuits == "exit" \in BoxFaults /\ ui = "shown" /\ UiDestroys

\* threadWaitForExit, then m_done
UiJoins ==
  /\ ui = "join" /\ worker = "done"
  /\ ui' = "closed"
  /\ UNCHANGED <<worker, flags>>

UiStep == \/ UiOpens \/ UiConfirms \/ UiRemembers \/ UiRechecks \/ UiExchanges
          \/ UiPops \/ UiQuits \/ UiJoins

\* what the main thread does without the user
UiRuns == UiOpens \/ UiRemembers \/ UiRechecks \/ UiExchanges \/ UiPops \/ UiJoins

BoxTypeOK ==
  /\ ui \in {"open", "shown", "remember", "recheck", "exchange", "exit", "join", "closed"}
  /\ worker \in {"idle", "running", "lift", "done"}
  /\ stop_requested \in BOOLEAN /\ m_cancel_deferred \in BOOLEAN
  /\ m_cancel_pending \in BOOLEAN

\* A cancel that was only remembered is applied in the end: none is left over when the
\* box has closed, whichever way the two threads' loads and stores fall.
CancelApplied == ui = "closed" => ~m_cancel_pending
==============================================================================
