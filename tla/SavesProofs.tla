----------------------------- MODULE SavesProofs -----------------------------
(***************************************************************************)
(* No job loses a live save, for a batch of any size and any faults.       *)
(*                                                                         *)
(* NothingLost alone is not inductive: it does not say that the copy is    *)
(* there BEFORE the save is touched, nor that a power loss cannot bring    *)
(* back an SD card without it.  Guarded adds both.                         *)
(***************************************************************************)
EXTENDS Saves, TLAPS

\* the worker has not reached the point where a live save's archive is published
Unguarded == {"top", "stage", "prepare", "create", "mount", "copy", "validate", "rename", "commit",
              "open", "backup", "publish", "publish_commit"}
\* it has passed it, and may touch the save
Touching == {"check", "shield", "clear", "clear_commit", "write", "write_commit", "verify",
             "backed", "delete"}
Copying == {"copy", "validate", "rename", "commit"}

\* the places of ExecuteRestore, and those of the other jobs
RestoreLabels ==
  {"top", "stage", "prepare", "create", "mount", "copy", "validate", "rename", "commit", "check",
   "shield", "clear", "clear_commit", "write", "write_commit", "verify", "lift", "lifting", "clean",
   "record", "end", "ended"}
BackupLabels ==
  {"top", "open", "backup", "publish", "publish_commit", "backed", "account", "delete_top", "delete",
   "end", "ended"}
Placed ==
  /\ job \in Jobs
  /\ job = "restore" => pc \in RestoreLabels
  /\ job # "restore" => pc \in BackupLabels
  /\ pc = "delete" => job \in {"delete", "user"}
  /\ pc \in {"account", "delete_top"} => job = "user"

\* The job starts at its loop.
LEMMA InitPlaced == Init => Placed
  BY DEF Init, Placed, Jobs, RestoreLabels, BackupLabels

\* Each job stays among its own places.
LEMMA NextPlaced == Placed /\ [Next]_vars => Placed'
<1> SUFFICES ASSUME Placed, [Next]_vars PROVE Placed'
  OBVIOUS
<1> USE DEF Placed, Jobs, RestoreLabels, BackupLabels, Goto, task
<1>1. CASE BatchTop \/ BatchRecord \/ BatchEnds
  BY <1>1 DEF BatchTop, BatchRecord, BatchEnds, Job
<1>2. CASE StageFolder \/ CleanStage \/ LiftShield \/ Prepare \/ CreateSlot \/ MountSave
  BY <1>2 DEF StageFolder, CleanStage, LiftShield, Prepare, CreateSlot, MountSave, Job, Checked,
              Returns, Caller
<1>3. CASE WriteCopy \/ ValidateCopy \/ RenameCopy \/ CommitCopy \/ LastCheck \/ RaiseShield
  BY <1>3 DEF WriteCopy, ValidateCopy, RenameCopy, CommitCopy, LastCheck, RaiseShield, Job, Checked,
              Returns, WritesCopy
<1>4. CASE ClearSave \/ CommitClear \/ WriteSave \/ CommitSave \/ VerifySave
  BY <1>4 DEF ClearSave, CommitClear, WriteSave, CommitSave, VerifySave, Job, Commits, Returns
<1>5. CASE BackupTop \/ OpenSave \/ WriteBackup \/ PublishBackup \/ CommitBackup
  BY <1>5 DEF BackupTop, OpenSave, WriteBackup, PublishBackup, CommitBackup, Job, Fails, FailsOrStops,
              WritesCopy
<1>6. CASE BackedUp \/ DeleteAccount \/ DeleteTop \/ DeleteSave
  BY <1>6 DEF BackedUp, DeleteAccount, DeleteTop, DeleteSave, Job, Fails
<1>7. CASE MainThread \/ Crash \/ Finished \/ UNCHANGED vars
  BY <1>7 DEF MainThread, Crash, Finished, vars, jobVars
<1> QED BY <1>1, <1>2, <1>3, <1>4, <1>5, <1>6, <1>7 DEF Next, Worker, Restore, Backup

\* the jobs that archive leave the box, the mount and the fields of the restore alone
LEMMA BackupFrame ==
  ASSUME Placed, Backup
  PROVE  /\ job # "restore" /\ pc \notin {"end", "ended"}
         /\ UNCHANGED <<boxVars, task, held, powered, mounted, restored, failures>>
<1> USE DEF Placed, RestoreLabels, Job, Untold, saves
<1>1. CASE BackupTop \/ OpenSave \/ WriteBackup \/ PublishBackup \/ CommitBackup
  BY <1>1 DEF BackupTop, OpenSave, WriteBackup, PublishBackup, CommitBackup
<1>2. CASE BackedUp \/ DeleteAccount \/ DeleteTop \/ DeleteSave
  BY <1>2 DEF BackedUp, DeleteAccount, DeleteTop, DeleteSave
<1> QED BY <1>1, <1>2 DEF Backup

\* only ExecuteRestore is in its own steps
LEMMA RestoreFrame == ASSUME Placed, Restore PROVE job = "restore" /\ UNCHANGED task
<1> USE DEF Placed, BackupLabels, Job
<1>1. CASE BatchTop \/ BatchRecord \/ StageFolder \/ CleanStage \/ LiftShield \/ Prepare \/ CreateSlot \/ MountSave
  BY <1>1 DEF BatchTop, BatchRecord, StageFolder, CleanStage, LiftShield, Prepare, CreateSlot, MountSave
<1>2. CASE WriteCopy \/ ValidateCopy \/ RenameCopy \/ CommitCopy \/ LastCheck \/ RaiseShield
  BY <1>2 DEF WriteCopy, ValidateCopy, RenameCopy, CommitCopy, LastCheck, RaiseShield
<1>3. CASE ClearSave \/ CommitClear \/ WriteSave \/ CommitSave \/ VerifySave
  BY <1>3 DEF ClearSave, CommitClear, WriteSave, CommitSave, VerifySave
<1> QED BY <1>1, <1>2, <1>3 DEF Restore

-------------------------------------------------------------------------------
Shape ==
  /\ kind \in [Batch -> KindsOf(job)]
  /\ picked \subseteq Batch /\ (job # "user" => picked = Batch)
  /\ stored \in [Batch -> Contents \cup {"closed"}]
  /\ copy \in [Batch -> {"none", "temp", "final"}]
  /\ copy_durable \in [Batch -> {"none", "temp", "final"}]
  /\ mounted \in Contents \cup {"closed"}
  /\ item \in Nat \ {0} /\ pc \in Labels
  /\ pc \notin {"top", "account", "delete_top", "end", "ended"} => item \in Batch
  /\ pc = "account" => item > Saves

\* the archive of save i is on the SD card, and on the committed SD card
Safe(i) == copy[i] = "final" /\ copy_durable[i] = "final"

\* ... if it is one that the user wants archived
Kept(i) == i \in picked => Safe(i)

\* RunDelete: up to the deletion of the user every save is as it was, and behind it all that
\* were picked have their archives
Archiving == job = "user" /\ pc \notin {"delete_top", "delete", "end", "ended"}
Deleting == job = "user" /\ pc \in {"delete_top", "delete"}

Guarded ==
  /\ Archiving => \A i \in Batch : stored[i] = "old"
  /\ \A i \in Batch : kind[i] = "live" =>
       /\ stored[i] = "old" \/ Kept(i)
       /\ i > item => stored[i] = "old"
       /\ i = item /\ pc \in Unguarded => stored[i] = "old"
       /\ i = item /\ pc \in Touching => Kept(i)
       /\ Archiving /\ i < item => Kept(i)
       /\ Deleting => Kept(i)
       /\ job = "user" /\ (\E k \in Batch : stored[k] # "old") => Kept(i)

IInv ==
  /\ Placed
  /\ Shape
  /\ Guarded
  /\ powered /\ pc = "create" => kind[item] = "planned"
  /\ powered /\ pc \in Copying => kind[item] = "live"
  /\ powered /\ pc \in {"commit", "publish_commit"} => copy[item] = "final"

\* At the start every save is as it was.
LEMMA InitIInv == Init => IInv
  BY SavesAssumption, InitPlaced
  DEF Init, IInv, Shape, Guarded, Safe, Kept, Unguarded, Touching, Copying, Labels, Untouched,
      Archiving, Deleting, KindsOf, Contents, Batch

\* Every step keeps the archive in front of the change.
LEMMA NextIInv == IInv /\ [Next]_vars => IInv'
<1> SUFFICES ASSUME IInv, [Next]_vars, Placed' PROVE IInv'
  BY NextPlaced DEF IInv
<1> USE DEF IInv, Shape, Guarded, Safe, Kept, Unguarded, Touching, Copying, Labels, Goto, saves, sd, task,
            Batch, Contents, KindsOf, Archiving, Deleting
<1>1. CASE BatchTop
  <2>1. /\ pc = "top" /\ UNCHANGED <<job, kind, picked, stored, mounted, copy, copy_durable, powered>> /\ job = "restore"
        /\ \/ item' = item /\ pc' = "end"
           \/ item' = item /\ item <= Saves /\ pc' \in {"stage", "prepare"}
           \/ item' = item + 1 /\ pc' = "top"
    BY <1>1 DEF BatchTop, Job
  <2>2. CASE item' = item /\ pc' = "end"
    BY <2>1, <2>2, SavesAssumption
  <2>3. CASE item' = item /\ item <= Saves /\ pc' \in {"stage", "prepare"}
    BY <2>1, <2>3, SavesAssumption
  <2>4. CASE item' = item + 1 /\ pc' = "top"
    <3>1. Shape'
      BY <2>1, <2>4, SavesAssumption
    <3>2. Guarded'
      BY <2>1, <2>4, SavesAssumption
    <3> QED BY <2>1, <2>4, <3>1, <3>2
  <2> QED BY <2>1, <2>2, <2>3, <2>4
<1>2. CASE BatchRecord
  BY <1>2, SavesAssumption DEF BatchRecord, Job, Placed, BackupLabels
<1>3. CASE BatchEnds
  BY <1>3, SavesAssumption DEF BatchEnds, local
<1>4. CASE Prepare
  BY <1>4, SavesAssumption DEF Prepare, Caller, Job, Checked, Returns
<1>5. CASE CreateSlot
  BY <1>5, SavesAssumption DEF CreateSlot, Job, Returns
<1>6. CASE MountSave
  BY <1>6, SavesAssumption DEF MountSave, Job, Returns
<1>7. CASE WriteCopy
  <2>1. PICK c \in {"none", "temp", copy[item]} :
          /\ pc = "copy" /\ pc' \in {"validate", "lift"} /\ UNCHANGED <<job, kind, picked, stored, item, powered>>
          /\ copy' = [copy EXCEPT ![item] = c] /\ copy_durable' \in {copy', copy_durable}
          /\ mounted' \in {mounted, "closed"}
    BY <1>7 DEF WriteCopy, WritesCopy, Job, Returns, DropCopy
  <2>2. copy' \in [Batch -> {"none", "temp", "final"}]
    BY <2>1
  <2>3. \A i \in Batch : i # item /\ Safe(i) => Safe(i)'
    BY <2>1
  <2>4. Shape'
    BY <2>1, <2>2
  <2>5. Guarded'
    BY <2>1, <2>3 DEF Placed, BackupLabels
  <2> QED BY <2>1, <2>4, <2>5
<1>8. CASE ValidateCopy
  BY <1>8, SavesAssumption DEF ValidateCopy, Job, Checked, Returns, DropCopy
<1>9. CASE RenameCopy
  BY <1>9, SavesAssumption DEF RenameCopy, Job, Returns, DropCopy
<1>10. CASE CommitCopy
  BY <1>10, SavesAssumption DEF CommitCopy, CommitFails, Job, Returns, DropCopy
<1>11. CASE LastCheck
  BY <1>11, SavesAssumption DEF LastCheck, Job, Checked, Returns
<1>12. CASE RaiseShield
  BY <1>12, SavesAssumption DEF RaiseShield
<1>13. CASE ClearSave
  BY <1>13, SavesAssumption DEF ClearSave, Job, Returns
<1>14. CASE CommitClear
  BY <1>14, SavesAssumption DEF CommitClear, Job, Commits, Returns, Placed, BackupLabels
<1>15. CASE WriteSave
  BY <1>15, SavesAssumption DEF WriteSave, Job, Returns, Placed, BackupLabels
<1>16. CASE CommitSave
  BY <1>16, SavesAssumption DEF CommitSave, Job, Commits, Returns, Placed, BackupLabels
<1>17. CASE VerifySave
  BY <1>17, SavesAssumption DEF VerifySave, Job, Returns
<1>18. CASE LiftShield
  BY <1>18, SavesAssumption DEF LiftShield, Caller, local
<1>19. CASE MainThread
  BY <1>19, SavesAssumption DEF MainThread, local
<1>20. CASE Crash
  BY <1>20, SavesAssumption DEF Crash, local
<1>21. CASE Finished \/ UNCHANGED vars
  <2>1. UNCHANGED <<job, kind, picked, stored, mounted, copy, copy_durable, pc, item, powered>>
    BY <1>21 DEF Finished, vars, jobVars, local
  <2> QED BY <2>1
<1>22. CASE StageFolder
  BY <1>22, SavesAssumption DEF StageFolder, Job
<1>23. CASE CleanStage
  BY <1>23, SavesAssumption DEF CleanStage, Job
<1>24. CASE BackupTop
  <2>1. Shape'
    BY <1>24, SavesAssumption DEF BackupTop, Job, Fails, Placed, Jobs, BackupLabels
  <2>2. Guarded'
    <3>1. /\ pc = "top" /\ job # "restore" /\ UNCHANGED <<job, kind, picked, stored, copy, copy_durable>>
          /\ \/ item' = item /\ pc' \in {"account", "open", "end"} /\ (job = "user" => pc' # "account" \/ item > Saves)
             \/ (job = "backup" \/ item \notin picked) /\ item' = item + 1 /\ pc' = "top"
      BY <1>24 DEF BackupTop, Job, Fails, Placed, Jobs, BackupLabels
    <3>2. CASE item' = item
      BY <3>1, <3>2
    <3>3. CASE (job = "backup" \/ item \notin picked) /\ item' = item + 1 /\ pc' = "top"
      BY <3>1, <3>3
    <3> QED BY <3>1, <3>2, <3>3
  <2> QED BY <1>24, <2>1, <2>2 DEF BackupTop, Job, Fails, Placed, Jobs, BackupLabels
<1>25. CASE OpenSave
  BY <1>25, SavesAssumption DEF OpenSave, Job, Fails, Placed, RestoreLabels
<1>26. CASE WriteBackup
  <2>1. PICK c \in {"none", "temp", copy[item]} :
          /\ pc = "backup" /\ pc' \in {"publish", "end"} /\ UNCHANGED <<job, kind, picked, stored, item>>
          /\ copy' = [copy EXCEPT ![item] = c] /\ copy_durable' \in {copy', copy_durable}
          /\ mounted' \in {mounted, "closed"}
    BY <1>26 DEF WriteBackup, Job, Fails, FailsOrStops, WritesCopy, DropCopy
  <2>2. copy' \in [Batch -> {"none", "temp", "final"}]
    BY <2>1
  <2>3. \A i \in Batch : i # item /\ Safe(i) => Safe(i)'
    BY <2>1
  <2>4. Shape'
    BY <2>1, <2>2
  <2>5. Guarded'
    BY <2>1, <2>3
  <2> QED BY <2>1, <2>4, <2>5
<1>27. CASE PublishBackup
  BY <1>27, SavesAssumption DEF PublishBackup, Job, Fails, FailsOrStops, DropCopy
<1>28. CASE CommitBackup
  BY <1>28, SavesAssumption DEF CommitBackup, Job, Fails, CommitFails, DropCopy
<1>29. CASE BackedUp
  BY <1>29, SavesAssumption DEF BackedUp, Job
<1>30. CASE DeleteAccount
  BY <1>30, SavesAssumption DEF DeleteAccount, Job, Fails, Placed
<1>31. CASE DeleteTop
  BY <1>31, SavesAssumption DEF DeleteTop, Job, Fails, Placed
<1>32. CASE DeleteSave
  BY <1>32, SavesAssumption DEF DeleteSave, Job, Fails, Placed
<1> QED
  BY <1>1, <1>2, <1>3, <1>4, <1>5, <1>6, <1>7, <1>8, <1>9, <1>10, <1>11, <1>12, <1>13, <1>14, <1>15, <1>16, <1>17, <1>18, <1>19, <1>20, <1>21, <1>22, <1>23, <1>24, <1>25, <1>26, <1>27, <1>28, <1>29, <1>30, <1>31, <1>32
  DEF Next, Worker, Restore, Backup

\* Whatever fails, whenever the user cancels and whenever the power goes: a live save
\* holds its old content, or its verified recovery archive is durably on the SD card; of a
\* deleted user that holds for the saves that were picked, and none goes before.
THEOREM NoJobLosesSaves == Spec => []NothingLost
<1>1. IInv => NothingLost
  BY DEF IInv, Shape, Guarded, Safe, Kept, NothingLost
<1> QED BY <1>1, InitIInv, NextIInv, PTL DEF Spec

-------------------------------------------------------------------------------
(* The remembered cancel.  A pending cancel has someone left who will apply it: the main *)
(* thread between its store and its exchange, or the worker, which keeps the shield up   *)
(* until it lifts it.                                                                    *)

Shielded == {"clear", "clear_commit", "write", "write_commit", "verify", "lift"}

Remembered ==
  /\ m_cancel_pending \in BOOLEAN /\ m_cancel_deferred \in BOOLEAN
  /\ m_cancel_pending => ui \in {"recheck", "exchange"} \/ m_cancel_deferred \/ worker = "lift"
  /\ m_cancel_deferred => worker = "running" /\ pc \in Shielded
  /\ ui = "open" => worker = "idle"
  /\ ui = "closed" => worker = "done"

\* No cancel is remembered at the start.
LEMMA InitRemembered == Init => Remembered
  BY DEF Init, BoxInit, Remembered

\* A remembered cancel is looked at again by one of the two threads, in every order.
LEMMA NextRemembered == Placed /\ Remembered /\ [Next]_vars => Remembered'
<1> SUFFICES ASSUME Placed, Remembered, [Next]_vars PROVE Remembered'
  OBVIOUS
<1> USE DEF Remembered, Shielded, Goto
<1>1. CASE BatchTop
  BY <1>1 DEF BatchTop, Job, boxVars, flags
<1>2. CASE BatchRecord
  BY <1>2 DEF BatchRecord, Job, boxVars, flags
<1>3. CASE Prepare
  BY <1>3 DEF Prepare, Caller, Job, boxVars, flags, Checked, Returns
<1>4. CASE CreateSlot
  BY <1>4 DEF CreateSlot, Job, boxVars, flags, Returns
<1>5. CASE MountSave
  BY <1>5 DEF MountSave, Job, boxVars, flags, Returns
<1>6. CASE WriteCopy
  BY <1>6 DEF WriteCopy, WritesCopy, Job, boxVars, flags, Returns
<1>7. CASE ValidateCopy
  BY <1>7 DEF ValidateCopy, Job, boxVars, flags, Checked, Returns
<1>8. CASE RenameCopy
  BY <1>8 DEF RenameCopy, Job, boxVars, flags, Returns
<1>9. CASE CommitCopy
  BY <1>9 DEF CommitCopy, Job, boxVars, flags, Returns
<1>10. CASE LastCheck
  BY <1>10 DEF LastCheck, Job, boxVars, flags, Checked, Returns
<1>11. CASE ClearSave
  BY <1>11 DEF ClearSave, Job, boxVars, flags, Returns
<1>12. CASE CommitClear
  BY <1>12 DEF CommitClear, Job, boxVars, flags, Commits, Returns
<1>13. CASE WriteSave
  BY <1>13 DEF WriteSave, Job, boxVars, flags, Returns
<1>14. CASE CommitSave
  BY <1>14 DEF CommitSave, Job, boxVars, flags, Commits, Returns
<1>15. CASE VerifySave
  BY <1>15 DEF VerifySave, Job, boxVars, flags, Returns
<1>16. CASE BatchEnds
  BY <1>16 DEF BatchEnds, WorkerEnds, RequestExit
<1>17. CASE RaiseShield
  BY <1>17 DEF RaiseShield, Shield
<1>18. CASE LiftShield
  <2>1. CASE pc = "lift" /\ LiftFlag
    BY <2>1 DEF LiftFlag
  <2>2. CASE pc = "lifting" /\ LiftApply
    BY <2>2 DEF LiftApply, Caller
  <2> QED BY <1>18, <2>1, <2>2, Zenon DEF LiftShield, Caller
<1>19. CASE MainThread
  <2>0. pc' = pc
    BY <1>19 DEF MainThread
  <2>1. CASE UiOpens
    BY <2>0, <2>1 DEF UiOpens, RequestExit
  <2>2. CASE UiConfirms
    BY <2>0, <2>2 DEF UiConfirms, flags
  <2>3. CASE UiRemembers
    BY <2>0, <2>3 DEF UiRemembers
  <2>4. CASE UiRechecks
    BY <2>0, <2>4 DEF UiRechecks, flags
  <2>5. CASE UiExchanges
    BY <2>0, <2>5 DEF UiExchanges
  <2>6. CASE UiPops \/ UiQuits
    BY <2>0, <2>6 DEF UiPops, UiQuits, UiDestroys, RequestExit
  <2>7. CASE UiJoins
    BY <2>0, <2>7 DEF UiJoins, flags
  <2> QED
    BY <1>19, <2>1, <2>2, <2>3, <2>4, <2>5, <2>6, <2>7 DEF MainThread, UiStep
<1>20. CASE Crash \/ Finished \/ UNCHANGED vars
  BY <1>20 DEF Crash, Finished, vars, jobVars, boxVars, flags
<1>21. CASE StageFolder
  BY <1>21 DEF StageFolder, Job, boxVars, flags, saves
<1>22. CASE CleanStage
  BY <1>22 DEF CleanStage, Job, boxVars, flags
<1>23. CASE Backup
  BY <1>23, BackupFrame DEF boxVars, flags, Placed, BackupLabels
<1> QED
  BY <1>1, <1>2, <1>3, <1>4, <1>5, <1>6, <1>7, <1>8, <1>9, <1>10, <1>11, <1>12, <1>13, <1>14, <1>15, <1>16, <1>17, <1>18, <1>19, <1>20, <1>21, <1>22, <1>23
  DEF Next, Worker, Restore

\* However the loads and stores of the two threads fall, no confirmed cancel is forgotten.
THEOREM NoCancelForgotten == Spec => []CancelApplied
<1>1. Remembered => CancelApplied
  BY DEF Remembered, CancelApplied
<1> QED BY <1>1, InitPlaced, NextPlaced, InitRemembered, NextRemembered, PTL DEF Spec

-------------------------------------------------------------------------------
(* The cancel that was left to the worker.  From the moment the main thread leaves it, the *)
(* worker is under the shield at that save and will request the stop when it lifts it, or  *)
(* the stop is requested and the loop can go no further than the next look at it.          *)

AfterLast == {"top", "end", "ended"}
AfterEnd == {"end", "ended"}

Left ==
  /\ item \in Nat /\ held \in Nat
  /\ ui \in {"recheck", "exchange"} => m_cancel_pending \/ stop_requested
  /\ held # 0 => job = "restore"
  /\ held # 0 =>
       \/ item = held /\ (stop_requested \/ (m_cancel_pending /\ pc \in Shielded \cup {"lifting"}))
       \/ item = held + 1 /\ stop_requested /\ pc \in AfterLast

\* No cancel is left to the worker at the start.
LEMMA InitLeft == Init => Left
  BY DEF Init, BoxInit, Left

\* One that is left reaches the loop before the next save.
LEMMA NextLeft == Placed /\ Remembered /\ Left /\ [Next]_vars => Left'
<1> SUFFICES ASSUME Placed, Remembered, Left, [Next]_vars PROVE Left'
  OBVIOUS
<1> USE DEF Remembered, Left, Shielded, AfterLast, Goto, task
<1>1. CASE BatchTop
  BY <1>1 DEF BatchTop, Job, boxVars, flags
<1>2. CASE BatchRecord
  BY <1>2 DEF BatchRecord, Job, boxVars, flags
<1>3. CASE Prepare
  BY <1>3 DEF Prepare, Caller, Job, boxVars, flags, Checked, Returns
<1>4. CASE CreateSlot
  BY <1>4 DEF CreateSlot, Job, boxVars, flags, Returns
<1>5. CASE MountSave
  BY <1>5 DEF MountSave, Job, boxVars, flags, Returns
<1>6. CASE WriteCopy
  BY <1>6 DEF WriteCopy, WritesCopy, Job, boxVars, flags, Returns
<1>7. CASE ValidateCopy
  BY <1>7 DEF ValidateCopy, Job, boxVars, flags, Checked, Returns
<1>8. CASE RenameCopy
  BY <1>8 DEF RenameCopy, Job, boxVars, flags, Returns
<1>9. CASE CommitCopy
  BY <1>9 DEF CommitCopy, Job, boxVars, flags, Returns
<1>10. CASE LastCheck
  BY <1>10 DEF LastCheck, Job, boxVars, flags, Checked, Returns
<1>11. CASE ClearSave
  BY <1>11 DEF ClearSave, Job, boxVars, flags, Returns
<1>12. CASE CommitClear
  BY <1>12 DEF CommitClear, Job, boxVars, flags, Commits, Returns
<1>13. CASE WriteSave
  BY <1>13 DEF WriteSave, Job, boxVars, flags, Returns
<1>14. CASE CommitSave
  BY <1>14 DEF CommitSave, Job, boxVars, flags, Commits, Returns
<1>15. CASE VerifySave
  BY <1>15 DEF VerifySave, Job, boxVars, flags, Returns
<1>16. CASE BatchEnds
  BY <1>16 DEF BatchEnds, WorkerEnds, RequestExit, local
<1>17. CASE RaiseShield
  BY <1>17 DEF RaiseShield, Shield
<1>18. CASE LiftShield
  <2>1. item' = item /\ held' = held /\ job' = job
    BY <1>18 DEF LiftShield, local
  <2>2. CASE pc = "lift" /\ LiftFlag /\ Goto("lifting")
    BY <2>1, <2>2 DEF LiftFlag
  <2>3. CASE pc = "lifting" /\ LiftApply /\ Goto(Caller)
    BY <2>1, <2>3 DEF LiftApply, Caller
  <2> QED BY <1>18, <2>2, <2>3, Zenon DEF LiftShield, Caller
<1>19. CASE MainThread
  <2>0. pc' = pc /\ item' = item /\ job' = job
    BY <1>19 DEF MainThread, local
  <2>1. CASE UiRechecks
    BY <1>19, <2>0, <2>1 DEF UiRechecks, flags, MainThread, Placed, BackupLabels
  <2>2. CASE ~UiRechecks
    <3>1. held' = held
      BY <1>19, <2>2 DEF MainThread
    <3>2. CASE UiOpens
      BY <2>0, <3>1, <3>2 DEF UiOpens, RequestExit
    <3>3. CASE UiConfirms
      BY <2>0, <3>1, <3>3 DEF UiConfirms, flags
    <3>4. CASE UiRemembers
      BY <2>0, <3>1, <3>4 DEF UiRemembers
    <3>5. CASE UiExchanges
      BY <2>0, <3>1, <3>5 DEF UiExchanges
    <3>6. CASE UiPops \/ UiQuits
      BY <2>0, <3>1, <3>6 DEF UiPops, UiQuits, UiDestroys, RequestExit
    <3>7. CASE UiJoins
      BY <2>0, <3>1, <3>7 DEF UiJoins, flags
    <3> QED
      BY <1>19, <2>2, <3>2, <3>3, <3>4, <3>5, <3>6, <3>7 DEF MainThread, UiStep
  <2> QED BY <2>1, <2>2
<1>20. CASE Crash \/ Finished \/ UNCHANGED vars
  BY <1>20 DEF Crash, Finished, vars, jobVars, boxVars, flags, local
<1>21. CASE StageFolder
  BY <1>21 DEF StageFolder, Job, boxVars, flags, saves
<1>22. CASE CleanStage
  BY <1>22 DEF CleanStage, Job, boxVars, flags
<1>23. CASE Backup
  <2>1. item' \in Nat
    BY <1>23, SavesAssumption DEF Backup, BackupTop, OpenSave, WriteBackup, PublishBackup, CommitBackup,
      BackedUp, DeleteAccount, DeleteTop, DeleteSave
  <2> QED BY <1>23, <2>1, BackupFrame DEF boxVars, flags
<1> QED
  BY <1>1, <1>2, <1>3, <1>4, <1>5, <1>6, <1>7, <1>8, <1>9, <1>10, <1>11, <1>12, <1>13, <1>14, <1>15, <1>16, <1>17, <1>18, <1>19, <1>20, <1>21, <1>22, <1>23
  DEF Next, Worker, Restore

\* StopsBeforeNext: a cancel that ProgressBox left to SetCancelDeferred(false) keeps the batch
\* from every later save, wherever in the rewrite of a save it was confirmed.
THEOREM CancelStopsBatch == Spec => []StopsBeforeNext
<1>1. Left => StopsBeforeNext
  BY DEF Left, StopsBeforeNext, AfterLast
<1> QED BY <1>1, InitPlaced, NextPlaced, InitRemembered, NextRemembered, InitLeft, NextLeft, PTL DEF Spec

-------------------------------------------------------------------------------
(* The report.  It lists what lies behind the save under way, where the worker does not    *)
(* come back; what it will say of that save follows from mutation_started, recovery_path   *)
(* and rc, which therefore have to be true at every place of RestoreSaveZip.               *)

Told ==
  /\ job # "restore" => restored = {} /\ failures = {}
  /\ job \in {"delete", "user"} => recovery_paths = {}
  /\ \A i \in restored : i \in Batch /\ i < item /\ stored[i] = "new"
  /\ \A i \in recovery_paths : i \in Batch /\ (i < item \/ pc \in {"end", "ended"}) /\ Safe(i)
  /\ \A f \in failures : f.item \in Batch /\ f.item < item /\ (~f.changed => stored[f.item] = Untouched(f.item))

ToTell ==
  /\ \A i \in Batch : i > item \/ (i = item /\ pc = "top") => stored[i] = Untouched(i)
  /\ Archiving => \A i \in Batch : stored[i] = Untouched(i)
  /\ job = "restore" /\ ~mutation_started /\ pc \notin AfterLast => stored[item] = Untouched(item)
  /\ pc \in {"clear", "clear_commit", "write", "write_commit", "verify"} => mutation_started
  /\ job = "restore" /\ recovery_path /\ pc \notin AfterLast => pc \notin Unguarded /\ Safe(item)
  /\ powered /\ pc = "write_commit" => mounted = "new"
  /\ pc = "verify" => stored[item] = "new"
  /\ pc \in {"lift", "lifting", "clean", "record"} /\ rc = "ok" => stored[item] = "new"

RInv == Told /\ ToTell

\* Nothing is reported at the start.
LEMMA InitReport == Init => RInv
  BY SavesAssumption DEF Init, RInv, Told, ToTell, Unguarded, AfterLast, Batch

\* What is reported, and what is going to be, stays true.
LEMMA NextReport == IInv /\ RInv /\ [Next]_vars => RInv'
<1> SUFFICES ASSUME IInv, RInv, [Next]_vars PROVE RInv'
  OBVIOUS
<1> USE DEF IInv, Shape, RInv, Told, ToTell, Safe, Kept, Unguarded, AfterLast, Copying, Untouched, Batch, Goto, saves, sd, task, report, Archiving
<1>1. CASE BatchTop
  <2>1. Told'
    BY <1>1, SavesAssumption DEF BatchTop, Job
  <2>2. ToTell'
    BY <1>1, SavesAssumption DEF BatchTop, Job
  <2> QED BY <2>1, <2>2
<1>2. CASE BatchRecord
  <2>1. Told'
    BY <1>2, SavesAssumption DEF BatchRecord, Job, Placed, BackupLabels
  <2>2. ToTell'
    BY <1>2, SavesAssumption DEF BatchRecord, Job, Placed, BackupLabels
  <2> QED BY <2>1, <2>2
<1>3. CASE Prepare
  <2>1. Told'
    BY <1>3, SavesAssumption DEF Prepare, Caller, Job, Checked, Returns
  <2>2. ToTell'
    BY <1>3, SavesAssumption DEF Prepare, Caller, Job, Checked, Returns
  <2> QED BY <2>1, <2>2
<1>4. CASE CreateSlot
  <2>1. Told'
    BY <1>4, SavesAssumption DEF CreateSlot, Job, Returns, Placed, BackupLabels
  <2>2. ToTell'
    BY <1>4, SavesAssumption DEF CreateSlot, Job, Returns, Placed, BackupLabels
  <2> QED BY <2>1, <2>2
<1>5. CASE MountSave
  <2>1. Told'
    BY <1>5, SavesAssumption DEF MountSave, Job, Returns
  <2>2. ToTell'
    BY <1>5, SavesAssumption DEF MountSave, Job, Returns
  <2> QED BY <2>1, <2>2
<1>6. CASE WriteCopy
  <2>1. Told'
    BY <1>6, SavesAssumption DEF WriteCopy, WritesCopy, Job, Returns, DropCopy
  <2>2. ToTell'
    BY <1>6, SavesAssumption DEF WriteCopy, WritesCopy, Job, Returns, DropCopy
  <2> QED BY <2>1, <2>2
<1>7. CASE ValidateCopy
  <2>1. Told'
    BY <1>7, SavesAssumption DEF ValidateCopy, Job, Checked, Returns, DropCopy
  <2>2. ToTell'
    BY <1>7, SavesAssumption DEF ValidateCopy, Job, Checked, Returns, DropCopy
  <2> QED BY <2>1, <2>2
<1>8. CASE RenameCopy
  <2>1. Told'
    BY <1>8, SavesAssumption DEF RenameCopy, Job, Returns, DropCopy
  <2>2. ToTell'
    BY <1>8, SavesAssumption DEF RenameCopy, Job, Returns, DropCopy
  <2> QED BY <2>1, <2>2
<1>9. CASE CommitCopy
  <2>1. Told'
    BY <1>9, SavesAssumption DEF CommitCopy, CommitFails, Job, Returns, DropCopy
  <2>2. ToTell'
    BY <1>9, SavesAssumption DEF CommitCopy, CommitFails, Job, Returns, DropCopy
  <2> QED BY <2>1, <2>2
<1>10. CASE LastCheck
  <2>1. Told'
    BY <1>10, SavesAssumption DEF LastCheck, Job, Checked, Returns
  <2>2. ToTell'
    BY <1>10, SavesAssumption DEF LastCheck, Job, Checked, Returns
  <2> QED BY <2>1, <2>2
<1>11. CASE ClearSave
  <2>1. Told'
    BY <1>11, SavesAssumption DEF ClearSave, Job, Returns
  <2>2. ToTell'
    BY <1>11, SavesAssumption DEF ClearSave, Job, Returns
  <2> QED BY <2>1, <2>2
<1>12. CASE CommitClear
  <2>1. Told'
    BY <1>12, SavesAssumption DEF CommitClear, Job, Commits, Returns, Placed, BackupLabels
  <2>2. ToTell'
    BY <1>12, SavesAssumption DEF CommitClear, Job, Commits, Returns, Placed, BackupLabels
  <2> QED BY <2>1, <2>2
<1>13. CASE WriteSave
  <2>1. Told'
    BY <1>13, SavesAssumption DEF WriteSave, Job, Returns, Placed, BackupLabels
  <2>2. ToTell'
    BY <1>13, SavesAssumption DEF WriteSave, Job, Returns, Placed, BackupLabels
  <2> QED BY <2>1, <2>2
<1>14. CASE CommitSave
  <2>1. Told'
    BY <1>14, SavesAssumption DEF CommitSave, Job, Commits, Returns, Placed, BackupLabels
  <2>2. ToTell'
    BY <1>14, SavesAssumption DEF CommitSave, Job, Commits, Returns, Placed, BackupLabels
  <2> QED BY <2>1, <2>2
<1>15. CASE VerifySave
  <2>1. Told'
    BY <1>15, SavesAssumption DEF VerifySave, Job, Returns
  <2>2. ToTell'
    BY <1>15, SavesAssumption DEF VerifySave, Job, Returns
  <2> QED BY <2>1, <2>2
<1>16. CASE BatchEnds
  BY <1>16 DEF BatchEnds, local
<1>17. CASE RaiseShield
  BY <1>17 DEF RaiseShield
<1>18. CASE LiftShield
  BY <1>18 DEF LiftShield, Caller, local
<1>19. CASE MainThread
  BY <1>19 DEF MainThread, local
<1>20. CASE Crash
  BY ZenonT(40), <1>20 DEF Crash, local
<1>21. CASE Finished \/ UNCHANGED vars
  <2>1. UNCHANGED <<job, kind, saves, sd, pc, item, rc, mutation_started, recovery_path, report, powered>>
    BY <1>21 DEF Finished, vars, jobVars, local
  <2> QED BY <2>1
<1>22. CASE StageFolder
  <2>1. Told'
    BY <1>22, SavesAssumption DEF StageFolder, Job
  <2>2. ToTell'
    BY <1>22, SavesAssumption DEF StageFolder, Job
  <2> QED BY <2>1, <2>2
<1>23. CASE CleanStage
  <2>1. Told'
    BY <1>23, SavesAssumption DEF CleanStage, Job
  <2>2. ToTell'
    BY <1>23, SavesAssumption DEF CleanStage, Job
  <2> QED BY <2>1, <2>2
<1>24. CASE BackupTop
  <2>1. Told'
    BY <1>24, SavesAssumption DEF BackupTop, Job, Untold, Fails, Placed, Jobs
  <2>2. ToTell'
    BY <1>24, SavesAssumption DEF BackupTop, Job, Untold, Fails, Placed, Jobs
  <2> QED BY <2>1, <2>2
<1>25. CASE OpenSave
  <2>1. Told'
    BY <1>25, SavesAssumption DEF OpenSave, Job, Untold, Fails, Placed
  <2>2. ToTell'
    BY <1>25, SavesAssumption DEF OpenSave, Job, Untold, Fails, Placed
  <2> QED BY <2>1, <2>2
<1>26. CASE WriteBackup
  <2>1. Told'
    BY <1>26, SavesAssumption DEF WriteBackup, Job, Untold, Fails, FailsOrStops, WritesCopy, DropCopy, Placed, RestoreLabels
  <2>2. ToTell'
    BY <1>26, SavesAssumption DEF WriteBackup, Job, Untold, Fails, FailsOrStops, WritesCopy, DropCopy, Placed, RestoreLabels
  <2> QED BY <2>1, <2>2
<1>27. CASE PublishBackup
  <2>1. Told'
    BY <1>27, SavesAssumption DEF PublishBackup, Job, Untold, Fails, FailsOrStops, DropCopy, Placed, RestoreLabels
  <2>2. ToTell'
    BY <1>27, SavesAssumption DEF PublishBackup, Job, Untold, Fails, FailsOrStops, DropCopy, Placed, RestoreLabels
  <2> QED BY <2>1, <2>2
<1>28. CASE CommitBackup
  <2>1. Told'
    BY <1>28, SavesAssumption DEF CommitBackup, Job, Untold, Fails, CommitFails, DropCopy, Placed, RestoreLabels
  <2>2. ToTell'
    BY <1>28, SavesAssumption DEF CommitBackup, Job, Untold, Fails, CommitFails, DropCopy, Placed, RestoreLabels
  <2> QED BY <2>1, <2>2
<1>29. CASE BackedUp
  <2>1. Told'
    BY <1>29, SavesAssumption DEF BackedUp, Job, Untold, Placed, RestoreLabels, Guarded, Touching
  <2>2. ToTell'
    BY <1>29, SavesAssumption DEF BackedUp, Job, Untold, Placed, RestoreLabels, Guarded, Touching
  <2> QED BY <2>1, <2>2
<1>30. CASE DeleteAccount
  <2>1. Told'
    BY <1>30, SavesAssumption DEF DeleteAccount, Job, Untold, Fails, Placed
  <2>2. ToTell'
    BY <1>30, SavesAssumption DEF DeleteAccount, Job, Untold, Fails, Placed
  <2> QED BY <2>1, <2>2
<1>31. CASE DeleteTop
  <2>1. Told'
    BY <1>31, SavesAssumption DEF DeleteTop, Job, Untold, Fails, Placed
  <2>2. ToTell'
    BY <1>31, SavesAssumption DEF DeleteTop, Job, Untold, Fails, Placed
  <2> QED BY <2>1, <2>2
<1>32. CASE DeleteSave
  <2>1. Told'
    BY <1>32, SavesAssumption DEF DeleteSave, Job, Untold, Fails, Placed, RestoreLabels
  <2>2. ToTell'
    BY <1>32, SavesAssumption DEF DeleteSave, Job, Untold, Fails, Placed, RestoreLabels
  <2> QED BY <2>1, <2>2
<1> QED
  BY <1>1, <1>2, <1>3, <1>4, <1>5, <1>6, <1>7, <1>8, <1>9, <1>10, <1>11, <1>12, <1>13, <1>14, <1>15, <1>16, <1>17, <1>18, <1>19, <1>20, <1>21, <1>22, <1>23, <1>24, <1>25, <1>26, <1>27, <1>28, <1>29, <1>30, <1>31, <1>32
  DEF Next, Worker, Restore, Backup

\* what the deletions have behind them
Gone ==
  /\ job = "delete" /\ pc \notin AfterEnd => \A i \in Batch : i < item => stored[i] = "absent"
  /\ Deleting => \A i \in Batch : i < item => stored[i] = "absent"
  /\ job \in {"delete", "user"} /\ pc \in AfterEnd /\ rc = "ok" => \A i \in Batch : stored[i] = "absent"

\* Nothing has been deleted at the start.
LEMMA InitGone == Init => Gone
  BY DEF Init, Gone, AfterEnd, Deleting, Batch

\* What the deletions have behind them stays gone.
LEMMA NextGone == IInv /\ Gone /\ [Next]_vars => Gone'
<1> SUFFICES ASSUME IInv, Placed, Shape, Gone, [Next]_vars PROVE Gone'
  BY DEF IInv
<1> USE DEF Gone, AfterEnd, Deleting, Batch, Goto, task, saves
<1>1. CASE Restore
  BY <1>1, RestoreFrame
<1>2. CASE BackupTop
  BY <1>2, SavesAssumption DEF BackupTop, Job, Fails, Shape, Placed
<1>3. CASE OpenSave \/ WriteBackup \/ PublishBackup \/ CommitBackup
  BY <1>3 DEF OpenSave, WriteBackup, PublishBackup, CommitBackup, Job, Fails, FailsOrStops, WritesCopy
<1>4. CASE BackedUp
  BY <1>4 DEF BackedUp, Job
<1>5. CASE DeleteAccount
  BY <1>5, SavesAssumption DEF DeleteAccount, Job, Fails, Placed
<1>6. CASE DeleteTop
  BY <1>6, SavesAssumption DEF DeleteTop, Job, Fails, Shape, Placed
<1>7. CASE DeleteSave
  BY <1>7, SavesAssumption DEF DeleteSave, Job, Fails, Shape, Placed
<1>8. CASE BatchEnds
  BY <1>8 DEF BatchEnds, local
<1>9. CASE MainThread \/ Crash \/ Finished \/ UNCHANGED vars
  BY <1>9 DEF MainThread, Crash, Finished, vars, jobVars, local
<1> QED BY <1>1, <1>2, <1>3, <1>4, <1>5, <1>6, <1>7, <1>8, <1>9 DEF Next, Worker, Backup

\* ReportIsTrue: whatever fails, the summary of ExecuteRestore says what happened to each save:
\* restored ones hold the new content, listed archives are durable, and a failure that is not
\* marked as a change left its save as it was.
THEOREM JobsTellTheTruth == Spec => []ReportIsTrue
<1>1. RInv /\ Gone => ReportIsTrue
  BY DEF RInv, Told, Safe, Gone, AfterEnd, ReportIsTrue
<1> QED BY <1>1, InitIInv, NextIInv, InitReport, NextReport, InitGone, NextGone, PTL DEF Spec

-------------------------------------------------------------------------------
(* Types.  Shape and Told have most of them; what is left is that the content a commit puts on *)
(* the disk is one, so that no commit is reached with the save closed.                         *)

Typed ==
  /\ BoxTypeOK
  /\ folders \subseteq Batch
  /\ stored \in [Batch -> Contents]
  /\ powered /\ pc \in {"clear_commit", "write_commit"} => mounted # "closed"
  /\ item <= Saves + 1 /\ held \in 0 .. Saves + 1
  /\ rc \in {"ok", "fail", "cancelled"}
  /\ mutation_started \in BOOLEAN /\ recovery_path \in BOOLEAN
  /\ failures \subseteq [item : Batch, changed : BOOLEAN]
  /\ stopped \in BOOLEAN /\ powered \in BOOLEAN

\* The types at the start.
LEMMA InitTyped == Init => Typed
<1> SUFFICES ASSUME Init PROVE Typed
  OBVIOUS
<1>1. BoxTypeOK
  BY DEF Init, BoxInit, BoxTypeOK
<1>2. folders \subseteq Batch
  BY DEF Init
<1>3. stored \in [Batch -> Contents]
  BY DEF Init, Untouched, Contents
<1>4. pc = "top" /\ item <= Saves + 1 /\ held \in 0 .. Saves + 1 /\ rc \in {"ok", "fail", "cancelled"}
  BY SavesAssumption DEF Init
<1>5. mutation_started = FALSE /\ recovery_path = FALSE /\ failures = {} /\ stopped = FALSE /\ powered = TRUE
  BY DEF Init
<1> QED BY <1>1, <1>2, <1>3, <1>4, <1>5 DEF Typed

\* the box is its own: the jobs move its fields only through the shield and the end
LEMMA NextBox == BoxTypeOK /\ [Next]_vars => BoxTypeOK'
<1> SUFFICES ASSUME BoxTypeOK, [Next]_vars PROVE BoxTypeOK'
  OBVIOUS
<1> USE DEF BoxTypeOK, boxVars, flags
<1>1. CASE UNCHANGED boxVars
  BY <1>1
<1>2. CASE RaiseShield
  BY <1>2 DEF RaiseShield, Shield
<1>3. CASE LiftShield
  <2>1. CASE LiftFlag
    BY <2>1 DEF LiftFlag
  <2>2. CASE LiftApply
    BY <2>2 DEF LiftApply
  <2> QED BY <1>3, <2>1, <2>2 DEF LiftShield
<1>4. CASE BatchEnds
  BY <1>4 DEF BatchEnds, WorkerEnds, RequestExit
<1>5. CASE MainThread
  <2>1. CASE UiOpens
    BY <2>1 DEF UiOpens, RequestExit
  <2>2. CASE UiConfirms
    BY <2>2 DEF UiConfirms
  <2>3. CASE UiRemembers \/ UiRechecks
    BY <2>3 DEF UiRemembers, UiRechecks
  <2>4. CASE UiExchanges
    BY <2>4 DEF UiExchanges
  <2>5. CASE UiPops \/ UiQuits \/ UiJoins
    BY <2>5 DEF UiPops, UiQuits, UiJoins, UiDestroys, RequestExit
  <2> QED BY <1>5, <2>1, <2>2, <2>3, <2>4, <2>5 DEF MainThread, UiStep
<1>6. CASE Crash \/ Finished \/ UNCHANGED vars
  BY <1>1, <1>6 DEF Crash, Finished, vars
<1>7. CASE BatchTop \/ BatchRecord \/ StageFolder \/ CleanStage \/ Prepare \/ CreateSlot \/ MountSave
  BY <1>1, <1>7 DEF BatchTop, BatchRecord, StageFolder, CleanStage, Prepare, CreateSlot, MountSave, Job
<1>8. CASE WriteCopy \/ ValidateCopy \/ RenameCopy \/ CommitCopy \/ LastCheck
  BY <1>1, <1>8 DEF WriteCopy, ValidateCopy, RenameCopy, CommitCopy, LastCheck, Job
<1>9. CASE ClearSave \/ CommitClear \/ WriteSave \/ CommitSave \/ VerifySave
  BY <1>1, <1>9 DEF ClearSave, CommitClear, WriteSave, CommitSave, VerifySave, Job
<1>10. CASE BackupTop \/ OpenSave \/ WriteBackup \/ PublishBackup \/ CommitBackup
  BY <1>1, <1>10 DEF BackupTop, OpenSave, WriteBackup, PublishBackup, CommitBackup, Job
<1>11. CASE BackedUp \/ DeleteAccount \/ DeleteTop \/ DeleteSave
  BY <1>1, <1>11 DEF BackedUp, DeleteAccount, DeleteTop, DeleteSave, Job
<1> QED
  BY <1>2, <1>3, <1>4, <1>5, <1>6, <1>7, <1>8, <1>9, <1>10, <1>11 DEF Next, Worker, Restore, Backup

\* The types of the job, given where it is and what is mounted there.
LEMMA NextTyped == IInv /\ Typed /\ [Next]_vars => Typed'
<1> SUFFICES ASSUME IInv, Typed, [Next]_vars, BoxTypeOK' PROVE Typed'
  BY NextBox DEF Typed
<1> USE SavesAssumption
    DEF IInv, Shape, Typed, Batch, Contents, Labels, Goto, saves, task, report
<1>1. CASE BatchTop
  <2>1. pc = "top" /\ UNCHANGED <<folders, stored, rc, held, powered>>
        /\ mutation_started' = FALSE /\ recovery_path' = FALSE /\ stopped' \in BOOLEAN
    BY <1>1 DEF BatchTop, Job
  <2>2. \/ item' = item /\ failures' = failures
        \/ item <= Saves /\ item' = item + 1
           /\ failures' = failures \cup {[item |-> item, changed |-> FALSE]}
    BY <1>1 DEF BatchTop
  <2>3. pc' \notin {"clear_commit", "write_commit"}
    BY <1>1, <2>1 DEF BatchTop
  <2>4. item' <= Saves + 1
    BY <2>2
  <2>5. failures' \subseteq [item : Batch, changed : BOOLEAN]
    <3>1. item <= Saves => [item |-> item, changed |-> FALSE] \in [item : Batch, changed : BOOLEAN]
      OBVIOUS
    <3> QED BY ZenonT(40), <2>2, <3>1
  <2> QED BY <2>1, <2>3, <2>4, <2>5
<1>2. CASE BatchRecord
  <2>1. pc = "record" /\ item \in Batch
        /\ UNCHANGED <<folders, stored, rc, held, powered, mutation_started, recovery_path>>
    BY <1>2 DEF BatchRecord, Job
  <2>2. /\ item' \in {item, item + 1} /\ stopped' \in BOOLEAN
        /\ pc' \notin {"clear_commit", "write_commit"}
        /\ failures' = failures \/ failures' = failures \cup {[item |-> item, changed |-> mutation_started]}
    BY <1>2 DEF BatchRecord
  <2>3. item' <= Saves + 1
    BY <2>1, <2>2
  <2>4. [item |-> item, changed |-> mutation_started] \in [item : Batch, changed : BOOLEAN]
    BY <2>1
  <2>5. failures' \subseteq [item : Batch, changed : BOOLEAN]
    BY <2>2, <2>4
  <2> QED BY <2>1, <2>2, <2>3, <2>5
<1>3. CASE StageFolder \/ CleanStage
  BY <1>3 DEF StageFolder, CleanStage, Job
<1>4. CASE Prepare \/ CreateSlot \/ MountSave
  BY <1>4 DEF Prepare, CreateSlot, MountSave, Caller, Job, Checked, Returns
<1>5. CASE WriteCopy \/ ValidateCopy \/ RenameCopy \/ CommitCopy \/ LastCheck
  BY <1>5 DEF WriteCopy, ValidateCopy, RenameCopy, CommitCopy, LastCheck, Job, Checked, Returns, WritesCopy
<1>6. CASE RaiseShield
  BY <1>6 DEF RaiseShield
<1>7. CASE ClearSave \/ WriteSave \/ VerifySave
  BY <1>7 DEF ClearSave, WriteSave, VerifySave, Job, Returns
<1>8. CASE CommitClear \/ CommitSave
  BY ZenonT(40), <1>8 DEF CommitClear, CommitSave, Job, Commits, Returns
<1>9. CASE LiftShield
  BY <1>9 DEF LiftShield, Caller, local
<1>10. CASE BackupTop
  BY <1>10 DEF BackupTop, Job, Fails, Untold
<1>11. CASE OpenSave \/ WriteBackup
  BY <1>11 DEF OpenSave, WriteBackup, Job, Fails, FailsOrStops, WritesCopy, Untold
<1>12. CASE PublishBackup \/ CommitBackup
  BY <1>12 DEF PublishBackup, CommitBackup, Job, Fails, FailsOrStops, Untold
<1>13. CASE BackedUp \/ DeleteAccount \/ DeleteTop
  <2>1. UNCHANGED <<folders, stored, held, powered, mutation_started, recovery_path, failures, stopped>>
    BY <1>13 DEF BackedUp, DeleteAccount, DeleteTop, Job, Untold
  <2>2. /\ item' \in {item, 1} \/ (item \in Batch /\ item' = item + 1)
        /\ pc' \notin {"clear_commit", "write_commit"}
        /\ rc' \in {rc, "fail", "cancelled"}
    BY <1>13 DEF BackedUp, DeleteAccount, DeleteTop, Job, Fails
  <2>3. item' <= Saves + 1
    BY <2>2
  <2> QED BY <2>1, <2>2, <2>3
<1>14. CASE DeleteSave
  BY <1>14 DEF DeleteSave, Job, Fails, Untold
<1>15. CASE BatchEnds
  BY <1>15 DEF BatchEnds, local
<1>16. CASE MainThread
  BY <1>16 DEF MainThread, local
<1>17. CASE Crash
  BY <1>17 DEF Crash, local
<1>18. CASE Finished \/ UNCHANGED vars
  <2>1. UNCHANGED <<folders, saves, pc, item, rc, mutation_started, recovery_path, report, held, powered>>
    BY <1>18 DEF Finished, vars, jobVars, local
  <2> QED BY <2>1
<1> QED
  BY <1>1, <1>2, <1>3, <1>4, <1>5, <1>6, <1>7, <1>8, <1>9, <1>10, <1>11, <1>12, <1>13, <1>14, <1>15,
     <1>16, <1>17, <1>18
  DEF Next, Worker, Restore, Backup

\* TypeOK of the jobs on saves, for a batch of any size: in particular no commit of
\* RestoreSaveZip is reached with its save closed, and the loop ends one behind the last save.
THEOREM JobsTyped == Spec => []TypeOK
<1>1. IInv /\ Typed /\ RInv => TypeOK
  BY SavesAssumption
  DEF IInv, Placed, Shape, Typed, RInv, Told, TypeOK, Batch, KindsOf, Kinds
<1> QED BY <1>1, InitIInv, NextIInv, InitTyped, NextTyped, InitReport, NextReport, PTL DEF Spec
===============================================================================
