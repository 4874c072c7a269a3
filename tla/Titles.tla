------------------------------- MODULE Titles -------------------------------
(***************************************************************************)
(* The installs, moves and deletions of one application, one job after     *)
(* the other, with failures of every call and a loss of power at any time. *)
(***************************************************************************)
EXTENDS InstallTitle, TitleMove

vars == <<kept, pc, jobs, j, outcome, installing, moving>>

Init == StoreInit /\ InstallInit /\ MoveInit

Crash == StoreCrash /\ InstallForgets /\ MoveForgets

Next ==
  \/ Install /\ UNCHANGED moving
  \/ /\ Move
     \* what a move or a deletion does to a title is its own affair
     /\ done' = IF pc = "idle" THEN {} ELSE done
     /\ UNCHANGED <<run, i, latest, victim, placeholders, skipped, required, resets>>
  \/ Crash

Spec == Init /\ [][Next]_vars

-----------------------------------------------------------------------------
TypeOK == StoreType /\ InstallType /\ MoveType /\ pc \in {"idle"} \cup InstallSteps \cup MoveSteps

\* A key on disk has all its contents, whatever failed or crashed before, unless a
\* removal of that very key was stopped half way.  (The order of registration and
\* content meta; skipped contents; the rollback of a move.)
\* This, and the next two, hold until a job begins while a key that was removed in memory
\* is still on disk: it comes back with a restart, and then a component has two versions.
KeysWhole ==
  unsettled \/ \A s \in Storages : \A k \in committed[s] : Whole(k, s) \/ k \in cut[s]

\* The databases on disk never hold two versions of a title, on either storage.
OneVersion ==
  unsettled \/ \A s, t \in Storages : \A k \in committed[s], l \in committed[t] : SameTitle(k, l) => k = l

\* The application record names only what is there, complete: a move repoints it before
\* it removes the source, and a deletion takes a component out of it first.  Only the
\* removal inside an install comes before its record.
RecordTrue ==
  unsettled \/ \A a \in record : (a.key \in meta[a.storage] /\ Whole(a.key, a.storage)) \/ a \in withdrawn

\* What an install finished stays finished, also when a later title of its container
\* fails or the power goes: on disk, complete, with its tickets, and in the record.
InstalledIsWhole ==
  \A a \in done :
    /\ a.key \in committed[a.storage] /\ Whole(a.key, a.storage)
    /\ ContentsOf(a.key) \cap Locked \subseteq imported
    /\ a \in record

\* However an install ends but by a crash, no patch it brought is left behind a higher
\* launch-required version: the reset is not forgotten, and not undone by titles that
\* follow the patch.
LaunchReset == pc = "idle" => resets # "due" /\ (resets = "done" => launch = 0)

\* "Up to that moment the source copy is still whole and still the one the system
\* launches from" (the comment of MoveRollback): a move that is rolled back leaves the
\* application record as it was read.  It does not: the record is deleted to be pushed
\* again, and a push that fails leaves none.
RolledBackLaunches == pc \in {"undo", "undone"} => list \subseteq record
=============================================================================
