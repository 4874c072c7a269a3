------------------------------ MODULE SaveBackup ------------------------------
(***************************************************************************)
(* The jobs that archive live saves as they are: BackupSaves; DeleteSaves, *)
(* which keeps an archive of each save before it deletes it; and RunDelete *)
(* of the users menu, which archives those saves of a user that were       *)
(* picked, deletes the user and then all of the saves.  The first failure  *)
(* ends each of them.                                                      *)
(***************************************************************************)
EXTENDS SaveBatch

Fails(r) == rc' = r /\ Goto("end")
FailsOrStops ==
  \/ stop_requested /\ Fails("cancelled")
  \/ "io" \in Faults /\ Fails("fail")
Untold == UNCHANGED <<mutation_started, recovery_path, restored, failures, stopped>>

\* BackupSaves passes over what has not changed since its newest backup; the others look at
\* the stop, and RunDelete has only the picked saves in its list
BackupTop ==
  /\ Job("top") /\ job # "restore"
  /\ \/ /\ item > Saves /\ Goto(IF job = "user" THEN "account" ELSE "end")
        /\ UNCHANGED <<item, rc>>
     \/ /\ item \in picked /\ (job = "backup" \/ ~stop_requested)
        /\ Goto("open") /\ UNCHANGED <<item, rc>>
     \/ item <= Saves /\ (job = "backup" \/ item \notin picked) /\ item' = item + 1 /\ UNCHANGED <<pc, rc>>
     \/ item \in picked /\ job # "backup" /\ stop_requested /\ Fails("cancelled") /\ UNCHANGED item
  /\ UNCHANGED <<saves, sd, recovery_paths>> /\ Untold

-------------------------------------------------------------------------------
(* BackupSaveInternal.                                                     *)

\* the save is found and opened and the staging directory made; an empty save is no error
OpenSave ==
  /\ Job("open")
  /\ \/ kind[item] = "empty" /\ Goto("backed") /\ UNCHANGED <<rc, copy_durable>>
     \/ kind[item] = "live" /\ ~stop_requested /\ Goto("backup") /\ copy_durable' = copy /\ UNCHANGED rc
     \/ /\ \/ kind[item] = "live" /\ stop_requested /\ Fails("cancelled")
           \/ "io" \in Faults /\ Fails("fail")
        /\ copy_durable' \in {copy_durable, copy}
  /\ UNCHANGED <<saves, copy, item, recovery_paths>> /\ Untold

WriteBackup ==
  /\ Job("backup")
  /\ \/ WritesCopy("publish") /\ UNCHANGED rc
     \/ FailsOrStops /\ DropCopy /\ UNCHANGED copy_durable
  /\ UNCHANGED <<saves, item, recovery_paths>> /\ Untold

\* the last look at the stop, and the rename, which fails where there is a file
PublishBackup ==
  /\ Job("publish")
  /\ \/ ~stop_requested /\ copy' = [copy EXCEPT ![item] = "final"] /\ Goto("publish_commit") /\ UNCHANGED rc
     \/ FailsOrStops /\ DropCopy
  /\ UNCHANGED <<saves, copy_durable, item, recovery_paths>> /\ Untold

CommitBackup ==
  /\ Job("publish_commit")
  /\ \/ copy_durable' = copy /\ Goto("backed") /\ UNCHANGED <<rc, copy>>
     \/ CommitFails /\ Fails("fail")
  /\ UNCHANGED <<saves, item, recovery_paths>> /\ Untold

\* BackupSaveInternal has returned
BackedUp ==
  /\ Job("backed")
  /\ \/ job = "delete" /\ Goto("delete") /\ UNCHANGED item
     \/ job # "delete" /\ item' = item + 1 /\ Goto("top")
  /\ recovery_paths' = IF job = "backup" /\ kind[item] = "live" THEN recovery_paths \cup {item} ELSE recovery_paths
  /\ UNCHANGED <<saves, sd, rc>> /\ Untold

-------------------------------------------------------------------------------
(* What is deleted behind the archives.                                    *)

\* account_user::Delete, and on to DeleteSavesOn
DeleteAccount ==
  /\ Job("account")
  /\ \/ item' = 1 /\ Goto("delete_top") /\ UNCHANGED rc
     \/ "io" \in Faults /\ Fails("fail") /\ UNCHANGED item
  /\ UNCHANGED <<saves, sd, recovery_paths>> /\ Untold

DeleteTop ==
  /\ Job("delete_top")
  /\ \/ item > Saves /\ Goto("end") /\ UNCHANGED rc
     \/ item <= Saves /\ ~stop_requested /\ Goto("delete") /\ UNCHANGED rc
     \/ item <= Saves /\ stop_requested /\ Fails("cancelled")
  /\ UNCHANGED <<saves, sd, item, recovery_paths>> /\ Untold

\* DeleteLiveSaveEntry
DeleteSave ==
  /\ Job("delete")
  /\ \/ /\ stored' = [stored EXCEPT ![item] = "absent"]
        /\ item' = item + 1 /\ Goto(IF job = "user" THEN "delete_top" ELSE "top")
        /\ UNCHANGED rc
     \/ /\ "io" \in Faults /\ Fails("fail")
        /\ stored' \in {stored, [stored EXCEPT ![item] = "absent"]}
        /\ UNCHANGED item
  /\ UNCHANGED <<mounted, sd, recovery_paths>> /\ Untold

Backup == \/ BackupTop \/ OpenSave \/ WriteBackup \/ PublishBackup \/ CommitBackup \/ BackedUp
          \/ DeleteAccount \/ DeleteTop \/ DeleteSave
===============================================================================
