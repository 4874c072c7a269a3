------------------------------ MODULE SaveBatch ------------------------------
(***************************************************************************)
(* A batch of saves in the worker of a ProgressBox: the saves on the       *)
(* console, the archives on the SD card, and what the job will report.     *)
(* SaveRestore and SaveBackup are the jobs, Saves puts them together.      *)
(*                                                                         *)
(* A content is one of "old", "part" (cleared or half written) and "new".  *)
(* Any check of the archives, of the metadata or of the file system may    *)
(* fail, and the power may go at any moment.                               *)
(***************************************************************************)
EXTENDS ProgressBox, Naturals

CONSTANTS Saves,  \* how many saves the batch has
          Faults  \* a subset of {"io", "crash"}

ASSUME SavesAssumption == Saves \in Nat \ {0}
ASSUME FaultsAssumption == Faults \subseteq {"io", "crash"}

Batch == 1 .. Saves
\* ExecuteRestore, BackupSaves, DeleteSaves, and a user deleted with a backup of the saves
Jobs == {"restore", "backup", "delete", "user"}
\* to restore: a live save, one to replace without a safety copy (skip_recovery), or a slot to
\* create first (is_planned_create); otherwise a save that holds something or not
Kinds == {"live", "skip_recovery", "planned", "empty"}
KindsOf(j) == IF j = "restore" THEN {"live", "skip_recovery", "planned"} ELSE {"live", "empty"}

VARIABLES
  job, kind,
  folders,          \* the saves to be restored from a folder
  picked,           \* save_backup of RunDelete: what the user wants archived; all saves in the other jobs
  stored,           \* what each save holds on the disk: absent, old, part, new
  mounted,          \* the content seen through the mounted save, or closed
  copy,             \* the archive that the job makes on the SD card: none, temp, final
  copy_durable,     \* the same, as far as it is committed
  pc, item, rc,     \* where the worker is, at which save, and what it will return
  mutation_started, \* the two out parameters of RestoreSaveZip
  recovery_path,
  restored, failures, stopped, \* what the batch reports
  recovery_paths,   \* the archives it lists; created_paths of BackupSaves
  held,             \* the save during which a cancel was left to the worker, or 0
  powered

task == <<job, kind, folders, picked>>
saves == <<stored, mounted>>
sd == <<copy, copy_durable>>
report == <<restored, failures, recovery_paths, stopped>>
local == <<item, rc, mutation_started, recovery_path>>
jobVars == <<task, saves, sd, pc, local, report, held, powered>>
vars == <<boxVars, jobVars>>

Untouched(i) == IF kind[i] = "planned" THEN "absent" ELSE "old"

Init ==
  /\ BoxInit
  /\ job \in Jobs
  /\ kind \in [Batch -> KindsOf(job)]
  /\ folders \in IF job = "restore" THEN SUBSET Batch ELSE {{}}
  /\ picked \in IF job = "user" THEN SUBSET Batch ELSE {Batch}
  /\ stored = [i \in Batch |-> Untouched(i)]
  /\ mounted = "closed"
  /\ copy = [i \in Batch |-> "none"] /\ copy_durable = [i \in Batch |-> "none"]
  /\ pc = "top" /\ item = 1 /\ rc = "ok"
  /\ mutation_started = FALSE /\ recovery_path = FALSE
  /\ restored = {} /\ failures = {} /\ recovery_paths = {} /\ stopped = FALSE
  /\ held = 0 /\ powered = TRUE

\* one step of the worker, no flag of the box touched
Job(from) == powered /\ worker = "running" /\ pc = from /\ UNCHANGED <<boxVars, task, held, powered>>

Goto(to) == pc' = to

BatchEnds ==
  /\ powered /\ pc = "end"
  /\ WorkerEnds
  /\ Goto("ended")
  /\ UNCHANGED <<task, saves, sd, local, report, held, powered>>

\* the scope exit of an archive not published yet deletes it, as far as it can
DropCopy ==
  \E c \in {"none"} \cup (IF "io" \in Faults THEN {copy[item]} ELSE {}) :
    copy' = [copy EXCEPT ![item] = c]

\* WriteSaveBackupZip on the SD card, which commits what it wrote
WritesCopy(to) ==
  /\ ~stop_requested
  /\ copy' = [copy EXCEPT ![item] = "temp"]
  /\ copy_durable' = copy'
  /\ Goto(to)

\* fsdevCommitDevice and Commit; a commit that fails may have been done all the same
CommitFails ==
  /\ "io" \in Faults
  /\ copy_durable' \in {copy, copy_durable}
  /\ DropCopy

-------------------------------------------------------------------------------
\* the main thread; `held` notes at which save a cancel was left to the worker
MainThread ==
  /\ powered
  /\ UiStep
  /\ held' = IF UiRechecks /\ ui' = "shown" THEN item ELSE held
  /\ UNCHANGED <<task, saves, sd, pc, local, report, powered>>

\* the power goes: an uncommitted change of the SD card may have reached it or not
Crash ==
  /\ "crash" \in Faults
  /\ powered /\ ui # "closed"
  /\ powered' = FALSE
  /\ mounted' = "closed"
  /\ copy_durable' \in {copy_durable, copy}
  /\ copy' = copy_durable'
  /\ UNCHANGED <<boxVars, task, stored, pc, local, report, held>>

Finished == (~powered \/ ui = "closed") /\ UNCHANGED vars

Contents == {"absent", "old", "part", "new"}
Labels == {"top", "stage", "prepare", "create", "mount", "copy", "validate", "rename", "commit",
           "check", "shield", "clear", "clear_commit", "write", "write_commit", "verify", "lift",
           "lifting", "clean", "record",
           "open", "backup", "publish", "publish_commit", "backed", "account", "delete_top", "delete",
           "end", "ended"}

\* Type invariant of the job and its box.
TypeOK ==
  /\ BoxTypeOK
  /\ job \in Jobs /\ kind \in [Batch -> Kinds] /\ folders \subseteq Batch /\ picked \subseteq Batch
  /\ stored \in [Batch -> Contents] /\ mounted \in Contents \cup {"closed"}
  /\ copy \in [Batch -> {"none", "temp", "final"}]
  /\ copy_durable \in [Batch -> {"none", "temp", "final"}]
  /\ pc \in Labels /\ item \in 1 .. Saves + 1
  /\ rc \in {"ok", "fail", "cancelled"}
  /\ mutation_started \in BOOLEAN /\ recovery_path \in BOOLEAN
  /\ restored \subseteq Batch /\ recovery_paths \subseteq Batch
  /\ failures \subseteq [item : Batch, changed : BOOLEAN]
  /\ stopped \in BOOLEAN /\ held \in 0 .. Saves + 1 /\ powered \in BOOLEAN
==============================================================================
