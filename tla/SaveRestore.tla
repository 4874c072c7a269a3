----------------------------- MODULE SaveRestore -----------------------------
(***************************************************************************)
(* Restoring a batch of saves from their backups: ExecuteRestore's worker, *)
(* RestoreSaveFolder and RestoreSaveZip.  Before a live save is replaced a *)
(* recovery archive of it is written, read back, renamed and committed on  *)
(* the SD card; from the moment the save is touched a cancel is held back. *)
(***************************************************************************)
EXTENDS SaveBatch

(* The worker, outside RestoreSaveZip: the loop over the batch.            *)

\* mutant: the loop runs once more than there are saves
BatchTopPastEnd ==
  /\ Job("top") /\ job = "restore"
  /\ \/ item > Saves + 1 /\ Goto("end") /\ UNCHANGED <<item, failures>>
     \/ item <= Saves + 1 /\ Goto("prepare") /\ UNCHANGED <<item, failures>>
     \/ item <= Saves + 1 /\ "io" \in Faults
        /\ failures' = failures \cup {[item |-> item, changed |-> FALSE]}
        /\ item' = item + 1
        /\ UNCHANGED pc
  /\ mutation_started' = FALSE /\ recovery_path' = FALSE
  /\ UNCHANGED <<saves, sd, rc, restored, recovery_paths, stopped>>

\* the stop is looked at, and the backup again, before the save is handed over
BatchTop ==
  /\ Job("top") /\ job = "restore"
  /\ \/ item > Saves /\ Goto("end") /\ UNCHANGED <<item, stopped, failures>>
     \/ item <= Saves /\ stop_requested /\ stopped' = TRUE /\ Goto("end")
        /\ UNCHANGED <<item, failures>>
     \/ item <= Saves /\ ~stop_requested /\ Goto(IF item \in folders THEN "stage" ELSE "prepare")
        /\ UNCHANGED <<item, stopped, failures>>
     \* the backup does not look like what was selected any more
     \/ item <= Saves /\ ~stop_requested /\ "io" \in Faults
        /\ failures' = failures \cup {[item |-> item, changed |-> FALSE]}
        /\ item' = item + 1
        /\ UNCHANGED <<pc, stopped>>
  /\ mutation_started' = FALSE /\ recovery_path' = FALSE
  /\ UNCHANGED <<saves, sd, rc, restored, recovery_paths>>

\* RestoreSaveInternal has returned
BatchRecord ==
  /\ Job("record")
  /\ recovery_paths' = IF recovery_path THEN recovery_paths \cup {item} ELSE recovery_paths
  /\ \/ /\ rc = "cancelled"
        /\ stopped' = TRUE
        /\ Goto("end")
        /\ UNCHANGED <<item, restored, failures>>
     \/ /\ rc = "fail"
        /\ failures' = failures \cup {[item |-> item, changed |-> mutation_started]}
        /\ item' = item + 1 /\ Goto("top")
        /\ UNCHANGED <<stopped, restored>>
     \/ /\ rc = "ok"
        /\ restored' = restored \cup {item}
        /\ item' = item + 1 /\ Goto("top")
        /\ UNCHANGED <<stopped, failures>>
  /\ UNCHANGED <<saves, sd, rc, mutation_started, recovery_path>>

-------------------------------------------------------------------------------
(* RestoreSaveFolder: the folder is packed into a staged archive, which is read back, *)
(* restored, and deleted.                                                             *)

StageFolder ==
  /\ Job("stage")
  /\ \/ ~stop_requested /\ Goto("prepare") /\ copy_durable' = copy /\ UNCHANGED rc
     \/ /\ \/ stop_requested /\ rc' = "cancelled"
           \/ "io" \in Faults /\ rc' = "fail"
        /\ Goto("record") /\ copy_durable' \in {copy_durable, copy}
  /\ UNCHANGED <<saves, copy, item, mutation_started, recovery_path, report>>

\* a staged archive that cannot be deleted makes a failure of a restore that is done
CleanStage ==
  /\ Job("clean") /\ Goto("record")
  /\ UNCHANGED rc \/ ("io" \in Faults /\ rc = "ok" /\ rc' = "fail")
  /\ UNCHANGED <<saves, sd, item, mutation_started, recovery_path, report>>

-------------------------------------------------------------------------------
(* RestoreSaveZip.                                                         *)

\* where RestoreSaveZip comes back to
Caller == IF item \in folders THEN "clean" ELSE "record"

\* a return from RestoreSaveZip: what is not committed to the mounted save is lost
Returns(r) == rc' = r /\ Goto("lift") /\ mounted' = "closed"

\* a stretch of code that changes nothing: it may fail, and it looks at the stop
Checked(next) ==
  \/ ~stop_requested /\ Goto(next) /\ UNCHANGED <<rc, mounted>>
  \/ stop_requested /\ Returns("cancelled")
  \/ "io" \in Faults /\ Returns("fail")

\* preflight, metadata, identity of the target; the first refusals come before the scope
\* exit that lifts the shield
Prepare ==
  /\ Job("prepare")
  /\ \/ Checked(IF kind[item] = "planned" THEN "create" ELSE "mount")
     \/ "io" \in Faults /\ rc' = "fail" /\ Goto(Caller) /\ UNCHANGED mounted
  /\ UNCHANGED <<stored, sd, item, mutation_started, recovery_path, report>>

\* CreateSaveDataChecked: the new slot stays, also when it cannot be verified
CreateSlot ==
  /\ Job("create")
  /\ \/ /\ stored' = [stored EXCEPT ![item] = "part"]
        /\ mutation_started' = TRUE
        /\ \/ Goto("mount") /\ UNCHANGED <<rc, mounted>>
           \/ "io" \in Faults /\ Returns("fail")
     \/ stop_requested /\ Returns("cancelled") /\ UNCHANGED <<stored, mutation_started>>
     \/ "io" \in Faults /\ Returns("fail") /\ UNCHANGED <<stored, mutation_started>>
  /\ UNCHANGED <<sd, item, recovery_path, report>>

\* the save is opened for writing
MountSave ==
  /\ Job("mount")
  /\ \/ /\ mounted' = stored[item]
        /\ Goto(IF kind[item] = "live" THEN "copy" ELSE "check")
        /\ UNCHANGED rc
     \/ "io" \in Faults /\ Returns("fail")
  /\ UNCHANGED <<stored, sd, item, mutation_started, recovery_path, report>>

WriteCopy ==
  /\ Job("copy")
  /\ \/ WritesCopy("validate") /\ UNCHANGED <<rc, mounted>>
     \/ /\ stop_requested \/ "io" \in Faults
        /\ Returns(IF stop_requested THEN "cancelled" ELSE "fail")
        /\ DropCopy
        /\ UNCHANGED copy_durable
  /\ UNCHANGED <<stored, item, mutation_started, recovery_path, report>>

\* the archive is read back and compared with the save, byte by byte
ValidateCopy ==
  /\ Job("validate")
  /\ Checked("rename")
  /\ IF pc' = "lift" THEN DropCopy ELSE UNCHANGED copy
  /\ UNCHANGED <<copy_durable, stored, item, mutation_started, recovery_path, report>>

RenameCopy ==
  /\ Job("rename")
  /\ \/ /\ copy' = [copy EXCEPT ![item] = "final"]
        /\ Goto("commit")
        /\ UNCHANGED <<rc, mounted>>
     \/ "io" \in Faults /\ Returns("fail") /\ DropCopy
  /\ UNCHANGED <<copy_durable, stored, item, mutation_started, recovery_path, report>>

\* mutant: the archive counts as published once it is renamed
CommitCopyNever ==
  /\ Job("commit")
  /\ recovery_path' = TRUE
  /\ Goto("check")
  /\ UNCHANGED <<rc, mounted, sd, stored, item, mutation_started, report>>

CommitCopy ==
  /\ Job("commit")
  /\ \/ /\ copy_durable' = copy
        /\ recovery_path' = TRUE
        /\ Goto("check")
        /\ UNCHANGED <<rc, mounted, copy>>
     \/ CommitFails /\ Returns("fail") /\ UNCHANGED recovery_path
  /\ UNCHANGED <<stored, item, mutation_started, report>>

\* the last look at the stop before the save is touched
LastCheck ==
  /\ Job("check")
  /\ Checked("shield")
  /\ UNCHANGED <<stored, sd, item, mutation_started, recovery_path, report>>

\* mutant: the flag for the caller goes up behind the clear
RaiseShieldEarly ==
  /\ powered /\ worker = "running" /\ pc = "shield"
  /\ Shield
  /\ Goto(IF kind[item] = "planned" THEN "write" ELSE "clear")
  /\ UNCHANGED <<ui, worker, stop_requested, m_cancel_pending, task, saves, sd, local,
                 report, held, powered>>

\* SetCancelDeferred(true), and the flag for the caller
RaiseShield ==
  /\ powered /\ worker = "running" /\ pc = "shield"
  /\ Shield
  /\ mutation_started' = TRUE
  /\ Goto(IF kind[item] = "planned" THEN "write" ELSE "clear")
  /\ UNCHANGED <<ui, worker, stop_requested, m_cancel_pending, task, saves, sd, item, rc,
                 recovery_path, report, held, powered>>

\* DeleteAllCollections, file by file, then Commit
ClearSave ==
  /\ Job("clear")
  /\ \/ ~stop_requested /\ Goto("clear_commit") /\ mounted' = "part" /\ UNCHANGED rc
     \/ stop_requested /\ Returns("cancelled")
     \/ "io" \in Faults /\ Returns("fail")
  /\ UNCHANGED <<stored, sd, item, mutation_started, recovery_path, report>>

\* a commit of the mounted save
Commits(next) ==
  \/ /\ stored' = [stored EXCEPT ![item] = mounted]
     /\ Goto(next)
     /\ UNCHANGED <<rc, mounted>>
  \/ /\ "io" \in Faults
     /\ stored' \in {stored, [stored EXCEPT ![item] = mounted]}
     /\ Returns("fail")

CommitClear ==
  /\ Job("clear_commit")
  /\ Commits("write")
  /\ UNCHANGED <<sd, item, mutation_started, recovery_path, report>>

\* TransferUnzipAll: entry by entry, with commits on the way
WriteSave ==
  /\ Job("write")
  /\ \/ ~stop_requested /\ mounted' = "new" /\ Goto("write_commit") /\ UNCHANGED rc
     \/ stop_requested /\ Returns("cancelled")
     \/ "io" \in Faults /\ Returns("fail")
  /\ stored' = [stored EXCEPT ![item] = "part"]
  /\ UNCHANGED <<sd, item, mutation_started, recovery_path, report>>

CommitSave ==
  /\ Job("write_commit")
  /\ Commits("verify")
  /\ UNCHANGED <<sd, item, mutation_started, recovery_path, report>>

\* the save is mounted afresh and compared with the archive
VerifySave ==
  /\ Job("verify")
  /\ \/ Returns(IF stop_requested THEN "cancelled" ELSE "ok")
     \/ "io" \in Faults /\ Returns("fail")
  /\ UNCHANGED <<stored, sd, item, mutation_started, recovery_path, report>>

\* the scope exit: SetCancelDeferred(false)
LiftShield ==
  /\ powered
  /\ \/ pc = "lift" /\ LiftFlag /\ Goto("lifting")
     \/ pc = "lifting" /\ LiftApply /\ Goto(Caller)
  /\ UNCHANGED <<task, saves, sd, local, report, held, powered>>

Restore == \/ BatchTop \/ BatchRecord \/ StageFolder \/ CleanStage
           \/ Prepare \/ CreateSlot \/ MountSave \/ WriteCopy \/ ValidateCopy \/ RenameCopy
           \/ CommitCopy \/ LastCheck \/ RaiseShield \/ ClearSave \/ CommitClear
           \/ WriteSave \/ CommitSave \/ VerifySave \/ LiftShield
==============================================================================
