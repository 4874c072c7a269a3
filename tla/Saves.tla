-------------------------------- MODULE Saves --------------------------------
(***************************************************************************)
(* The jobs on live saves in a progress box, and what they owe the user.   *)
(***************************************************************************)
EXTENDS SaveRestore, SaveBackup

Worker == Restore \/ Backup \/ BatchEnds

Next == Worker \/ MainThread \/ Crash \/ Finished

Spec == Init /\ [][Next]_vars

\* both threads are scheduled, and the main loop keeps calling Update
FairSpec ==
  Spec /\ WF_vars(Worker) /\ WF_vars(MainThread /\ UiRuns)

-------------------------------------------------------------------------------
\* Nothing is lost: at every moment, after every failure, cancel or loss of power, a
\* live save still holds its old content or the SD card durably holds the archive that
\* was made before RestoreSaveZip rewrote it or one of the deletions took it away.  With a
\* user go also the saves that were not picked for an archive, but none of them before
\* those that were picked have theirs.
NothingLost ==
  /\ \A i \in picked : kind[i] = "live" => stored[i] = "old" \/ copy_durable[i] = "final"
  /\ job = "user" /\ (\E i \in Batch : stored[i] # "old") =>
       \A i \in picked : kind[i] = "live" => copy_durable[i] = "final"

\* What the user is told at the end is so: a save counted as restored holds the new content,
\* an archive that is listed is there for good, a failed restore whose line does not say that
\* the save may be changed left it as it was, and a deletion that was successful left nothing.
ReportIsTrue ==
  /\ \A i \in restored : stored[i] = "new"
  /\ \A i \in recovery_paths : copy_durable[i] = "final"
  /\ \A f \in failures : ~f.changed => stored[f.item] = Untouched(f.item)
  /\ job \in {"delete", "user"} /\ pc = "ended" /\ rc = "ok" => \A i \in Batch : stored[i] = "absent"

\* "applied afterwards, so a batch stops before the next save" (v0.13.955): a cancel left
\* to the worker while one save is rewritten keeps it from every later one.
StopsBeforeNext == held # 0 => item <= held + 1 /\ (item = held + 1 => pc \in {"top", "end", "ended"})

\* The box always closes and the job with it, whatever fails and whenever the user
\* cancels: no remembered cancel and no stop leaves the main thread in its join.
BoxCloses == <>(ui = "closed" \/ ~powered)

\* "a save cut off half-way is worse than either state: from here until this save is
\* written and verified, a confirmed cancel waits": a live save whose restore ended as
\* cancelled is as it was.
CancelWaits ==
  \A i \in Batch : kind[i] = "live" /\ item = i /\ pc = "record" /\ rc = "cancelled"
                     => stored[i] = "old"
==============================================================================
