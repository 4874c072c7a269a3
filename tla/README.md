# Kefir Hub: a TLA+ verification development

Kefir Hub (`src/sphaira/`) is a homebrew manager for the Nintendo Switch: it copies,
packs and unpacks files, installs titles from many transports, backs up and restores
saves and downloads over HTTP.  Much of it is user interface.  What is modelled here is
the part where threads, the user, failing storage and clients that go away meet:

1. the threaded transfer engine that every copy, ZIP and dump goes through,
2. the pipeline of threads that writes one NCA of a title,
3. the progress box and its deferred cancel, with the jobs on live saves in it: restore, backup,
   deletion, and the deletion of a user,
4. installs of files that are dropped over MTP or FTP while they arrive,
5. the transaction that registers titles, their moves between the storages and their deletion,
6. the queue of a PC install session, which the PC, the user and the worker all change,
7. the pool of download threads and the replacement of a file by a downloaded one,
8. remote files: the threads that read a server for an install, or read and write the files of a mount.

Every definition is translated from the source; `PROJECT.json` names the lines under
`map`.  Paths below are relative to `src/sphaira/`.

## Inventory

| Component | State it keeps | Operations | What is hard | Correct when |
|---|---|---|---|---|
| transfer engine, `threaded_file_transfer_core.cpp` | ring of 2 buffers, pull buffer, offsets, results and running flags per thread, two events | Transfer, TransferPull, TransferZip/Unzip | reader, writer and caller with single waits (`if`, not `while`), early returns, failed starts, cancel | the sink holds a beginning of the source; success means all of it; it returns |
| ring buffers, same and `yati_internal.hpp` | read and write index modulo twice the capacity, slots | push, pop by swap of vectors | wrap-around, a full ring against an empty one | a FIFO queue; no vector in two hands |
| NCA pipeline, `yati_pipeline.cpp` | two rings of 4, one mutex each, running flags, results, hash | InstallNcaInternal: read, decompress, write | wakes sent without the mutex, peers that end first, NCZ inflation in pieces | the placeholder holds a beginning of the NCA; verified means complete |
| progress box, `ui/progress_box.cpp` | stop source, deferred and pending cancel, done flag | open, confirm a cancel, shield, close, destroy | three atomics, no lock | a confirmed cancel is never forgotten; the box closes |
| save restore, `ui/menus/save/save_restore_zip.cpp`, `save_folder_restore.cpp` | the mounted save, the recovery archive, what is committed | ExecuteRestore, RestoreSaveFolder, RestoreSaveZip | failure or power loss between any two steps, cancel inside | a live save is never lost; the report is true |
| stream install, `ui/menus/install_stream*.cpp`, `ftpsrv_vfs.cpp`, `haze/` | `INSTALL_STATE`, `s_source`, `s_installing`, the Stream, the session, both queues | open, write, close of a file; start, join, mark, release of an install | four threads, three locks, events to the main thread | one install at a time, of its own file, that ends |
| install transaction, `yati/yati.cpp`, `yati_metadata.cpp` | placeholders, content meta databases, tickets, application record, launch version | InstallInternal, InstallInternalStream: one container | a failure or loss of power between any two registrations, contents shared by two versions | no key without its contents, no two versions, what is finished stays |
| title moves, `title_move.cpp` | components to move, the rollback | MoveApplication, DeleteComponent | the same, with a record that can only be replaced as a whole | the record names only what is there |
| PC session queue, `ui/menus/dbi/`, `dbi_menu.cpp` | queue entries, current package, skip gate, cancel signal | analyse, review, live update, skip, cancel, install, retry, back to the review | main thread, session thread and PC on one queue; a signal that wakes whoever waits | a skip ends its own package; no retry in a loop; the thread ends |
| download pool, `download.cpp`, `download_curl_transfer.cpp` | queue, worker slots, flags, events, temporary files | ToFileAsync, ToMemoryAsync, stop, shutdown | one queue thread, four workers, exit, servers that break off or say nothing | each request in one hand, answered once; the file whole |
| remote files, `utils/devoptab_curl_thread.cpp`, `utils/devoptab_curl_file.cpp`, `yati/source/http.cpp` | a buffer and four flags per transfer, the offset of its user, the registry of all transfers | read, seek, write, close; `Http::Read` with its retries; cancel of all, shutdown | flags without the mutex, hangs in system calls, connections that break, servers that ignore a range, a cancel by somebody else | every byte at its own offset, no false success, every call returns |
| save backup and deletion, `ui/menus/save/save_backup_pub.cpp`, `save_deletion.cpp`, `ui/menus/users_menu.cpp` | temporary and published archive, the saves still there | BackupSaves, DeleteSaves, RunDelete of a user | the archive comes before the deletion, the power may go between them | no save that was to be kept goes without its archive committed; success means all are gone |

The components interact by calls (a restore runs `TransferUnzipAll`, an install runs the
pipeline over a `Stream`), by callbacks of the transports with their mutex held, by
events to the main loop (`evman`), and by flags that are loaded and stored on both sides
(`m_cancel_deferred`, `INSTALL_STATE`, `s_installing`).  What is hard to test in them is
listed, line by line, under `hazards` in `PROJECT.json`, with the properties that would
notice.  The remaining parts of the repository are listed there under `components`, each
with the reason why it is not modelled.

## Modules

| Module | Models | Its state in the code |
|---|---|---|
| `Delivery` | what a transfer promises its caller (abstract) | the source, the sink, the result |
| `RingBuf`, `RingQueue`, `BoundedQueue` | `RingBuf<N>`, its users, and the queue it implements | `r_index`, `w_index`, `buf`, the vectors of the two threads |
| `TransferCore` | `TransferInternal` | `reader`, `writer`, `main` are places in `readFuncInternal`, `writeFuncInternal` and the caller; the other variables have the names of `ThreadData` |
| `TransferCoreInv` | its inductive invariant, and what is inductive on top of it: `Through`, `WInv` | |
| `YatiPipeline` | `InstallNcaInternal` and its three threads | as above, for `yati::ThreadData` |
| `ProgressBox` | `ProgressBox` with the main thread | `m_cancel_deferred`, `m_cancel_pending`, the stop source |
| `SaveBatch` (extends `ProgressBox`) | what the jobs on saves share: the saves, the SD card, the report, the loss of power | `stored`/`mounted`: the save on disk and in the mount; `copy`/`copy_durable`: the archive a job makes of it, written and committed; `pc` is the step of the worker |
| `SaveRestore` (extends `SaveBatch`) | `ExecuteRestore`, `RestoreSaveFolder`, `RestoreSaveZip` | `mutation_started`, `recovery_path` are its out parameters |
| `SaveBackup` (extends `SaveBatch`) | `BackupSaves`, `DeleteSaves`, `RunDelete`, `BackupSaveInternal` | `recovery_paths` is `created_paths` here |
| `Saves` | all of these in one box, and their properties | |
| `StreamBuffer` | `Stream` | `m_active`, `m_buffer` |
| `StreamInstall` (extends `StreamBuffer`) | `BackgroundInstaller`, the vfs callbacks of haze and ftpsrv, the main loop, the install thread | `thread[t]` is where the callback of transport t is; `INSTALL_STATE`, `s_source`, `s_installing` as named; `queue`, `in_progress`, `failed` are `g_shared_data` |
| `TitleStore` | what ncm, ns, es and avm keep of one application (external), with its loss of power | `registered`, `meta`/`committed` (a database in memory and on disk), `record`, `imported` (tickets), `launch` |
| `InstallTitle` (extends `TitleStore`) | one install, call by call | `pc` is the next call; `skipped`, `required`, `placeholders` are the flags of its `NcaCollection`s and `TikCollection`s |
| `TitleMove` (extends `TitleStore`) | one move or deletion, call by call | `placed`, `has_meta` are `MoveRollback`; `list` the record as it was read |
| `Titles` | both, job after job, with crashes | |
| `SessionQueue` | the session thread, the main thread and the PC | `queue`, `state`, `gate`, `skip`, `cancel`, `current` are `Menu`'s members; `fresh` is the copy that the review's live update works on |
| `Download` | `DownloadInternal`: the attempts of one request and the replacement of its file | `thread[k]` holds the locals of worker k; `temp[k]` its temporary file, `dst` the file at the path |
| `DownloadPool` (extends `Download`) | `ThreadQueue`, `ThreadEntry`, `evman`, shutdown | `entries`, `queue`, `in_progress`, `event`, `events` |
| `CurlTransfer` | `PushPullThreadData`: one transfer, its thread and the callbacks | `transfer` holds the object's members, `pc` the place in `curl_easy_perform`, `hand` the data of a callback; the server is external |
| `RemoteFile` (extends `CurlTransfer`) | the user of a transfer: `Http`, or a file of a `MountCurlDevice`, and the cancels of the main thread | `offset` is `m_offset` or `state->offset`; `from`, `want`, `got` the call under way |
| `*Proofs` | theorems, with the lemmas they rest on | |
| `MC*` | values for TLC | |

One action is one step between two accesses to what threads share, or one critical
section.  Operators named as a mutant in their comment are variants with a bug; they
belong to no specification, and replacing the definition they vary by them makes the
property that `PROJECT.json` names under `mutants` fail.

`TransferCore` instances `RingBuf` with capacity 2.  `YatiPipeline` uses sequences for its
rings of 4: `RingQueue` with `QueueProofs` shows that a ring is such a queue for every
capacity.  `Saves` composes each job with the box that runs it: the worker raises
and lifts the shield, the box remembers or requests the stop.  `StreamInstall` uses
`RunInstall` by what it reads and how it ends; what happens inside, for one NCA, is
`YatiPipeline`.  `Titles` puts installs and moves over one `TitleStore`; writing one content into
its placeholder is one step there, and `YatiPipeline` is its detail.  `DownloadPool` composes the
workers of `Download` with the queue thread and the main thread.

### Details worth knowing

* Data is abstract: a unit of a file is its number, a chunk is a pair of file and number,
  the content of a save is `old`, `part` or `new`.
* `ForeignUnlock` in `TransferCore`: `mutexUnlock` by a thread that does not own the mutex
  is undefined in libnx, so both outcomes are explored.
* In `SaveBatch` the loss of power leaves the last uncommitted change of the SD card
  made or not made; a mounted save keeps what its last commits wrote, possibly in part.
  `copy` holds the archive that a job makes to keep; the archive staged from a folder is only
  passed through (`StageFolder`, `CleanStage`), as what is in it does not matter to a property.
  `picked` are the saves that the user chose to keep: the deletion of a user archives them alone, and
  deletes all.  That a save is unchanged since its newest backup is a choice, and two archives never have the
  same name.
* In the box, the moment of the user's answer is the step `UiConfirms`; the question box
  itself has no state that matters.
* In `StreamInstall`, `OnInstallClose` reads `s_source` and then disables it in one step:
  in between the source can only be released, and disabling a released stream has no
  effect.  The three parts of the event's failure path (`UiForeign`) are one step too.
  A web install appears only as a session of its own (`WebOpens`, `WebEnds`).
* In `TitleStore` a database is lost back to its last commit by a loss of power; contents, the
  record, tickets and the launch version are durable at once.  `cut` and `withdrawn` are history:
  the keys and record entries whose removal has begun.  `done` are the titles an install finished;
  `unsettled` is set when a job begins while a key that was removed in memory is still on disk.
* In `SessionQueue` the order, the ticks and the additions of the PC are any, at any poll; a
  package fits or does not fit, as a choice.  Of a host's `protocol` it matters whether its list can be polled and
  whether its session ends with the queue: the summary of a Goldleaf session, whose list cannot be polled,
  leads back to the review (`BackToReview`).  `shown` (packages shown unticked) and `yes` (the
  user's answer) are history.
* In `Download` a worker's locals go back to `Idle` when the request returns.  A temporary file of
  an earlier run of the application may lie under the name of the next one (`Leftover`).
  Two requests may name the same path, as the callers do.
* In `RemoteFile` each user runs with all faults that reach it.  Every wait has a timeout, so the
  wakes, which only shorten one, are left out, and a wait is a step that is not possible yet.
  `DestroyTransfer` gives a thread 200 ms, which any thread may overstep: the file goes on without
  it, and what that thread still does reaches nobody.  `Attempts` stands for `RESUME_WINDOW_NS`.

## Runs

All passing runs are exhaustive.

| Run | Question | Bounds |
|---|---|---|
| `ring_queue` | is the ring a FIFO queue, with each vector in one hand? | 4 slots, 6 vectors: the indices wrap several times, full and empty occur at every index |
| `transfer` | does the engine keep `Delivery`'s promise in its push and pull modes, are its single waits enough, does it return? | 4 units in buffers of 2 and less, so that the ring of 2 fills and drains; all faults, at any moment; both outcomes of a foreign unlock |
| `yati_install` | the same for the pipeline, and is a verified NCA complete? | 4 units in buffers of 2, rings of 2 so that they fill, an NCA and an NCZ that inflates by 2 and flushes at 3: pieces never line up with units |
| `saves` | does a restore, a backup, a deletion or the deletion of a user lose a save, lie in its report, forget a cancel, or hang? | two saves of every kind, from archives or folders: one to be cut off, one to be reached or not afterwards; a failure of any call, a loss of power and a cancel at any moment |
| `stream_install` | do installs stay apart, read their own file, carry their own result, and end? | two files over one transport with each group of faults, one over each at once, or a homebrew whose client may go away; files of 2 chunks of which a title needs 1, buffer of 1, so that pushes wait and chunks come behind the end |
| `titles` | is a key ever without its contents, twice there in two versions, or in the record without being there? does a finished install stay, and is a launch reset forgotten? | every set of installed titles over both storages, an application with two patches that share a content with a ticket; two jobs, so that each meets what a failed or crashed one left; a failure of any call, a loss of power at any moment |
| `session_queue` | does a skip end its own package only, is a failed package retried in a loop, does the thread end? | two packages, so that one can be passed, come back and be behind itself; a queue of up to 3, one retry of a link; any PC, polled or not; with Goldleaf any number of reviews |
| `download_pool` | is a request lost or answered twice, is a file ever in pieces, does anyone wait without a reason? | two workers; three requests, so that one waits in the queue; 3 attempts, files of 2 units in 2 versions; threads that do not start, stops, shutdown at any moment |
| `remote_file` | does every byte get to its offset, is a success one, does every call return? | 4 units in a buffer of 2 that libcurl fills or empties by up to 2, calls of up to 3: reads begin and end inside, across and at the end; 2 attempts without a unit; an install over HTTP, a mount that is read and one that is written to, with every fault that reaches each (start, break, ignored range, refusal, cancel of its own, of all, shutdown) and threads that hang |

Three runs end in a counterexample, each against a sentence of the repository:

| Run | What it shows |
|---|---|
| `transfer_write_fails` | after a failed write the reader can lock a mutex that an early return of `SetWriteBuf` left locked |
| `save_cancel_cuts` | a cancel confirmed just before the shield is raised still cuts the rewrite of a save off |
| `title_move_loses_record` | a move whose push of the new record fails is rolled back without the old record |

Deadlock is not checked where a modelled thread can really be stuck; the property
`Returns`, or `InstallsEnd`, then says that it is stuck only in the ways named in `Stuck`.

Seen in the code while modelling, without a run of its own.  Transfers and installs:

* A `threadStart` that fails leaves the other threads running and joins them
  (`threaded_file_transfer_core.cpp:123`, `yati/yati.cpp:202`), and a failed read in
  `TransferPull` wakes neither the writer nor the caller: parts of `Stuck`.
* Running flags go down before results are stored (`threaded_file_transfer_core.cpp:296`,
  `yati/yati_pipeline.cpp:102`): a failed read can be returned as success.  `Delivery`
  has `SourceBreaks` for it, so `KeepsPromise` states this and does not hide it.
* A wake can fall between a test of the pipeline and its wait (`yati/yati_internal.hpp:255`
  against `yati_pipeline.cpp:73-79`); `Returns` shows that this alone hangs nothing for good.
* `~ProgressBox` requests the stop whatever is deferred (`ui/progress_box.cpp:90`).
* `save_menu_ops.cpp:279` tells the user of a copy in /dumps/recovery also when
  `skip_recovery` or a planned slot made none.
* A transport can wait, with its mutex held, for an install that the main thread cannot start
  because it waits for that mutex (`install_stream_menu_base.cpp:85`): `Stuck` again.
* A homebrew whose client went away is installed cut off and reported as installed
  (`install_stream.cpp:108`).
* With MTP and FTP in use at once, the chunks of an MTP file whose start was refused go to
  the FTP install, and its close ends that install (`haze/haze_install_proxy.cpp:119`,
  `:134` do not look at the refusal).  `OwnChunks` is therefore checked for one transport.
* An MTP file refused after an earlier success is accepted by the host in full, because
  `INSTALL_STATE` is still `Finished` (`install_stream_menu_base.cpp:345`).
* The FTP worker can move the session to its summary behind the start of the next file
  (`install_stream_menu_base.cpp:299`).
* A worker that does not start (`:318`) leaves its package without a result.

Titles:

* "Skip if already installed" trusts a key whose contents an interrupted removal has deleted
  (`yati_metadata.cpp:208`), so it passes over the install that would repair it.
* `ncm::DeleteKey` fails on contents that are gone (`yati/nx/ncm.cpp:185`): an interrupted
  removal is not repeated to its end.
* `has_meta` is set behind the commit of the target's database (`title_move.cpp:287`): a commit
  that fails after it was done leaves a key that the rollback does not take back.
* The commit that takes such a key back can fail itself, and nothing tries again: a later restart
  brings the key back beside what was installed meanwhile (the exception of `KeysWhole`, `OneVersion`
  and `RecordTrue`, see *Titles* under Proofs).

PC sessions:

* A package that was skipped or failed comes back behind the active one when the PC unticks and
  ticks it again (`dbi_plan.cpp:318-345`); `NoRetryLoop` says that it needs the untick.
* The review copies the queue, analyses what the PC has added over USB without the lock, and stores
  the copy (`dbi_plan.cpp:289`): a tick made on the console meanwhile is lost with its mark, and so
  is a plan confirmed meanwhile, although `dbi_menu.hpp:53` says that "the live queue from the PC
  must not overwrite them until SendQueuePlan ran".  `StartInstall` (`dbi_plan.cpp:50`) ticks the
  focused package without marking it.
* A skip that is accepted behind a successful install, but before the gate closes, records the
  installed package as skipped (`dbi_session.cpp:265`).
* The session thread shows the review and only then resets the request (`dbi_usb.cpp:160-162`): an
  install confirmed between the two is forgotten (`ForgetRequest`) and has to be confirmed again.
* An untick on the PC that arrives with the poll at the head of the loop does not reach the
  package whose turn it is (`dbi_usb.cpp:216-229`).

Downloads:

* `Setup` asks only `m_in_progress`: a request handed to a worker whose thread did not start is
  lost, and blocks that slot (`Excused`).
* There is no timeout on a transfer: a server that says nothing holds its worker until a stop.
* `DeleteFile(dst)` comes before `RenameFile`: a rename that fails loses the old file.  The etag is
  saved before both, although `download.hpp` calls it saved on success: a deletion that fails
  leaves the old file under the new etag, and every later answer is 304.
* Two overlapping downloads to one path (`MainMenu::CheckForUpdate` runs again on reconnect) can
  fail each other's rename or leave the etag of the other version.
* A resumed range is not tied to a version (no If-Range): the file can be of two versions.
  `FileWhole` asks for one version only of requests that start over.
* `Cache::get` reads `m_cache` without the mutex that `set` holds.

Remote files:

* Closing a file that was written cuts its upload: `DestroyTransfer` cancels, `PullData` aborts with
  units in the buffer, and close returns 0 (`utils/devoptab_curl_file.cpp:417`), although
  `progress_callback` says that "Uploads keep running so the read callback can flush the remaining
  buffered data".
* While all transfers are cancelled, a short read of another file looks like its end until its
  thread has stored the error (`:458`, "silently truncating copies"): `ResultTrue` excuses a transfer
  that is cancelled, so it would not notice a remedy that fails either.
* A mount does not look at the answer's status: from a server that ignores the range it hands
  out the file from its beginning, and that file ends for it where the whole one does.  `BytesInOrder` and
  `ResultTrue` say just that (`Moved`).  `Http` does look.
* Once a transfer has failed, the mount's file answers EIO until a seek elsewhere ends it.
* A cancel of all transfers without `SignalCancel` only makes `Http` ask again; at the shutdown each
  of these transfers is aborted as it starts, up to the end of the window of 60 s.

## Fairness

Every liveness property assumes only that threads that can run do run: weak fairness per
thread (`FairSpec`, or `Fairness` in `StreamInstall`), and that the main loop goes on
calling `Update` (`UiRuns`).  Waits with a timeout are steps that may happen at any
moment.  Nothing is assumed of the user, of the client of a transport, of storage or of
the network: a cancel may never come and a client may stop for good.  `StreamInstall` asks
for strong fairness of the main thread and the worker, which have to get a mutex that a
transport takes again and again: the kernel hands a released mutex to a waiter.  In `SessionQueue` only the
steps that a silent PC cannot hold up are fair (`Unblocked`), and the loop of the destructor that
signals until the thread is gone: `TRANSFER_TIMEOUT` is UINT64_MAX, so nothing else ends a
transfer.  In `DownloadPool` the queue thread, the workers (libcurl calls the progress callback
while nothing arrives, and that sees a stop), the main loop and the exit are fair; no server owes
an answer.  In `RemoteFile` the thread of the transfer and the user inside a call are fair: libcurl
gives up on a silent server (`LOW_SPEED_TIME_S`) or calls the progress callback, and the timed waits
look again; a call of the system that hangs is the disjunct `Stuck` of `CallsReturn`.

## Proofs

TLAPS proves, for every value of the constants that the named assumptions allow:

| Theorem | Says |
|---|---|
| `QueueProofs!VectorsNeverShared` | `NoVectorShared` for every capacity |
| `QueueProofs!RingIsQueue` | `IsQueue`: the ring implements `BoundedQueue`, step by step |
| `QueueProofs!PoolInvariance`, `PoolTyping` | the inductive invariant of the download pool and its `TypeOK`, for any threads, requests, attempts and faults |
| `QueueProofs!OneHand` | `InOneHand`: no request is lost or doubled between queue, workers, events and callbacks |
| `QueueProofs!WholeFile` | `FileWhole`, whatever breaks off, is resumed or refused |
| `QueueProofs!WakesKept` | `NoWakeLost`: what safety says of `NobodyWaits`, that no thread of the pool sleeps while there is something for it to do |
| `TransferCoreProofs!Invariance`, `TypeCorrect` | the inductive invariant and `TypeOK`, for every size, buffer size, mode and set of faults |
| `TransferCoreProofs!WaitsJustified` | `WokenForAReason`: the single waits are enough as long as nothing failed |
| `TransferCoreProofs!OrderKept` | `InOrder`, whatever fails |
| `TransferCoreProofs!Thoroughness` | a success has taken the source to its end and given all of it to the sink |
| `TransferCoreProofs!Refinement` | `KeepsPromise`: `TransferInternal` implements `Delivery`, step by step |
| `TransferCoreProofs!NeverStranded` | what safety says of `Returns`: until the caller has returned some thread can move, but for the ways in `Stuck` |
| `YatiPipelineProofs!Invariance`, `Typing` | the inductive invariant and `TypeOK`, for every size of file, buffers, rings and pieces, both formats and any faults |
| `YatiPipelineProofs!Verification` | `VerifiedIsComplete`, whichever thread leaves first |
| `YatiPipelineProofs!Refinement` | `KeepsPromise`: the three threads implement `Delivery`, step by step |
| `YatiPipelineProofs!NeverStranded` | what safety says of `Returns`: no lost wakeup leaves all threads asleep, but for the ways in `Stuck` |
| `SavesProofs!NoJobLosesSaves` | `NothingLost`, for every job and number of saves |
| `SavesProofs!NoCancelForgotten` | `CancelApplied`, for every interleaving of the two threads |
| `SavesProofs!CancelStopsBatch` | `StopsBeforeNext`: a cancel left to the worker stops the batch before the next save |
| `SavesProofs!JobsTellTheTruth` | `ReportIsTrue`, for every job and batch and whatever fails |
| `SavesProofs!JobsTyped` | `TypeOK`: no commit is reached with its save closed, and the loop ends one behind the last save |
| `SessionQueueProofs!SkipIsNoCancel` | `CancelledByUser`, for any packages, any queue and any PC |
| `SessionQueueProofs!SkipIsAnswered` | `SkipsAreAsked`, however late an answer comes |
| `SessionQueueProofs!RetriesAreAsked` | `NoRetryLoop`, whatever the PC lists and however often |
| `StreamInstallProofs!Invariance`, `Typing` | the inductive invariant and `TypeOK`, for any number and length of files |
| `StreamInstallProofs!OneHandOnTheFlag` | `OneInstallAtATime`, for any number of files of both transports |
| `StreamInstallProofs!ReadsOwn` | `OwnChunksAlone`: with one transport, an install reads its own file from the front without a gap |
| `StreamInstallProofs!ShownIsOwn` | `MarkedOwn`: a session shows of a file what its own install returned |
| `StreamInstallProofs!NeverStranded` | what safety says of `InstallsEnd`: whoever has the flag can go on, or the one it waits for can, but for the deadlocks in `Stuck` |
| `TitlesProofs!Invariance`, `Typing` | the inductive invariant and `TypeOK`, for any keys, containers and number of jobs |
| `TitlesProofs!WholeOnDisk`, `VersionsOnce`, `RecordHolds` | `KeysWhole`, `OneVersion`, `RecordTrue`, whatever fails or crashes |
| `TitlesProofs!InstalledStays` | `InstalledIsWhole`, through every failure and crash behind it |
| `TitlesProofs!ResetsKept` | `LaunchReset`, for any container |
| `RemoteFileProofs!Invariance`, `Typing` | the inductive invariant and `TypeOK`, for any file, buffer and request |
| `RemoteFileProofs!Order` | `BytesInOrder`, for every user, however often its connection breaks or is moved: for a mount whose range was ignored, which wrong bytes it gets |
| `RemoteFileProofs!Truth` | `ResultTrue`, whatever fails or is cancelled, with its exception for a mount whose transfer somebody else cancels |
| `RemoteFileProofs!NeverStranded` | what safety says of `CallsReturn`: user and callbacks never wait for each other, but for a thread that hangs (`Stuck`) |

The assumptions are those on the constants in the modules (`SizeAssumption`,
`SavesAssumption` and so on); TLC evaluates them in the runs.

*Transfer engine.*  `InOrder` is not inductive: nothing in it says that the buffers on
their way lie one behind the other.  `TransferCoreInv!IInv` adds `Flow` (what the writer
holds, the ring, and what the reader holds cover the offsets from `write_offset` to
`read_offset` without a gap), `PullFlow` (the same for the pull buffer), `Control` (which
places of the three threads go together, given the flags) and `Wakes` (as long as nothing
failed, whoever is woken finds room or data).  There is one lemma per action; `Chain`
and `Fronts` say what a push and a pop do to the chain of offsets.
`IInv` says where units are, not that any thread that left had reason to.  `Through` does: a
thread that ended without an error has used up what its peer can still send, so a success means
the source's end.  It is inductive next to `IInv`, and the refinement of `Delivery` needs both: an
append to the sink is `DeliverMore`, a failed read `SourceBreaks`, the caller's return one of the
results, and everything else a stutter.
`NeverStranded` needs a third invariant, `WInv`.  `Alone`: until the teardown unlocks what
it does not own, a thread in a critical section has the mutex, so what it saw when it
tested is still so when it sleeps (`Parked`).  `Owners`: a mutex that an early return left locked belongs
to a thread that is leaving, and whose peer does not wait for it any more.  `Reasons`: a failure, and
the end of the writer, are told to the caller.  The places where nobody can move (`ReaderAsleep`,
`WriterAsleep`, `MainAsleep`) then contradict `Flow` and `Through`, or are `Stuck`; TLC confirmed on the
states of `transfer` that they are exactly the states without an enabled step.

*NCA pipeline.*  Every vector is a run of consecutive units (`Run`).  `Feed` says that what was
read and not yet decompressed is a chain of such runs, from the unit the decompressor takes next
through its hands, the ring and the reader's hands to `read_offset`; the section table of an
NCZ, which is read and not passed on, is the one place where the chain jumps (`Behind`).  `Drain` says
the same between the placeholder and what was hashed, and `Inflating` joins the two: the hash
and what gathers for a flush are together the units of the part of the file that was taken.  The chains hold
only while nobody failed and their taker still runs, because a full ring without a taker drops what
is pushed; that is why `Through` has to say what a thread that ended without an error
has left (nothing), and `Waited` that the results are read only after a cancel, a failure or the end of
the writer.  `Success` follows from these: without a failure what is hashed is what is held, and what is written is
what is hashed.  In the refinement a write is `DeliverMore`, a reader or a decompressor that
fails `SourceBreaks`, the joins the result, and everything else a stutter.
For `NeverStranded`, `Parked` says what a sleeping thread waits for: a vector is moved under the mutex,
so a thread sleeps only on an empty ring before it or a full one behind it.  The wake of a thread that ends is sent
without the mutex and can be lost, so nothing says that a sleeper will be woken; but when all three
sleep or have ended, and nobody failed, `Feed`, `Inflating` and `Drain` leave no unit to wait for: the source has
ended short, or a thread never started (`Stuck`).

*Rings.*  The invariant says that the indices differ by at most the capacity and that
each vector is in one slot or one hand; `PlaceOf` turns an index into a place of the
queue, and each of push and pop maps to one step of `BoundedQueue`.

*Saves.*  `NothingLost` needs to know at which places of the worker the save may already
be touched (`Touching`) and that there the archive is committed (`Safe`), and that later
saves of the batch are as they were (`Guarded`).  `Placed` says which places belong to which job.
For the deletion of a user `Guarded` says that every save is as it was up to the deletion of the
account (`Archiving`), and that those that were `picked` have their archives behind it (`Deleting`).
`NoCancelForgotten` is a second
invariant (`Remembered`) on the three flags alone: while a cancel is pending, either the
shield is up, or the worker is about to take it, or the main thread is about to look.
`Left` builds on it: from the moment a cancel is left to the worker, either it is still at
that save and under the shield (or lifting it) with the cancel pending, or the stop is
requested.  `RInv` has two parts: `Told`, what the report lists lies behind the save under way
and is untouched since; `ToTell`, `mutation_started`, `recovery_path` and `rc` are true at
every place where the batch may read them.  `Gone` is the part of the deletions: what lies behind
the loop is absent.  `Typed` adds to these what no other part needs, above all that a save is mounted
where it is committed.

*Session queue.*  `CancelledByUser` says nothing of the signal that wakes a transfer, nor of
the result of an install on its way to the record.  `GivenUp` follows what may end a transfer:
the flag, the signal, the skip and a cancelled result are each there because the menu goes
away, or because the open gate has accepted a skip; closing the gate takes the signal of such
a skip away under the same lock, which is what keeps it from the next package.  `Asked` ties
the gate to the package of the loop.
`NoRetryLoop` is a property of steps, and rests on an invariant of its own, `RInv`: a mark
(`retry_armed`) is only in front of the active package, and the one at the last place where a package was
passed without being installed (`Newest`) says that the PC has shown the package unticked.  Other marks may
be stale: a package that runs again while the PC shows it unticked leaves one behind itself, and nobody reads it,
because `ApplyLiveQueue` takes the last place (`LastPassed`, from the well-foundedness of the numbers).
The rows up to the active package keep their names and results in every step (`Kept`), so the last place stays
the last one.  The live update takes the PC's list as a set and what comes behind the active package as any
sequence of what belongs there, because the order of the list is any.

*Stream installs.*  `OneHand` counts the places at which the flag can be (two transports, the
event, the main thread, the worker) and needs only that there is at most one event; `CountedAsStated`
turns the count into the `Cardinality` and `Len` of the property.  The rest of `IInv` says what
that buys: whoever has the flag has `s_source` (`Passed`); an install is the first of its file
(`Fresh`), so what it returned is not replaced before it is marked (`Returned`); a stream that still
takes chunks belongs to the file in progress (`Sourced`); and then what was read and what is buffered
are the first chunks of one file (`Whole`).  Only this last part needs that one transport is in use.
`NeverStranded` follows the flag: a transport that has it, or a worker that installs, never waits; the main
thread may, for the mutex of a transport or for the old worker, and then that one can go on.  A
transport keeps its mutex for long only in `OnInstallStart`, of a session that is there and not cancelled
(`Told`), so the exceptions are the two of `Stuck`.

*Titles.*  The properties speak of the disk between jobs; `IInv` says for each step of a job what
it may rely on: the contents an install does not copy are there, the tickets come before the first
removal, a key is set only over whole contents and the record only over a committed key (`Taken`,
`Ticketed`), a move keeps its source until the record names the target (`Underway`), and a finished
title is the only one of its kind (`Finished`).  `Settled` is the rest: memory and disk know one version of a title,
and nothing more is on disk than in memory while a job is past its start.  The proof attempt showed
that this part can fail, and with it `KeysWhole`, `OneVersion` and `RecordTrue`, which TLC had
confirmed for two jobs: a removal that was made in memory but not committed comes back with a
restart.  Four jobs suffice: a move is rolled back and the commit that takes its key from the
target fails; another version is installed; the restart brings the old key back;
`GetComponentContents` (`title_move.cpp:48`) takes the first key of the title's id, and a deletion
then removes contents that the other version shares, or a move repoints the record wrongly.  So `unsettled`,
history of a job that began in such a state, is the exception of the three;
`InstalledIsWhole` and `LaunchReset` hold without it.  The proof assumes that
the patches of the application have one id and that keys are finitely many (64-bit ids and 32-bit versions).

*Remote files.*  `BytesInOrder` speaks of what the user has got.  `Aligned` says where
the rest is: the buffer begins with the unit the user takes next, what libcurl will hand over
continues it, and a transfer that was asked for begins at the position of its user.  For a mount all of this
is moved once the server has ignored the range (`Place` instead of `Position`).  The answer comes when the user may
already have read, or given up: `Control` says that a mount has got nothing by then, and comes up short
only in a transfer that was cancelled, so the move displaces nothing that was handed out.  `Bounds` keeps
everybody inside the file, or inside twice its length for a mount that trusts its server; `Control`
says also where thread and user can be given each other.  The lemmas on `Units` (concatenation, split)
are about every offset and length.
`NeverStranded`: a reader waits with an empty buffer, into which any hand-over fits, a writer with a full one,
and who joins has cancelled before (`Awaited`).

*Download pool.*  `InOneHand` counts; `PoolInv` says what is counted.  `Once` lists, pair by pair,
that the same request is not in two places: among the entries behind `pop_count` (`Line`: those before
it are given out already), in the hands of the workers, among the events, or called.  `NoneLost` says
that it is in one of them as long as the pool runs: the queue thread that returns at a
shutdown leaves entries behind.  `Flags` ties `m_in_progress` to what a worker does; the queue thread reads
nothing else before it gives a request away, so without it a second request could overwrite
`m_api`.  A request with high priority goes to the front, and `pop_count` is 0 whenever the
mutex is free, while the pool runs: that is why the new entry is always in `Line` (`Joined` covers both ends).
`NoWakeLost` would not be inductive alone: the queue thread goes to sleep after it has looked at the workers
one after the other, without their locks.  `Looked` says that each one it has passed is still at work, or is about to
set the event the queue thread will wait for, or has set it.  `Files` follows the temporary
file through the attempts (`Sound`): its length is `file_offset` and its units have their own
numbers, and of a request that may not resume it holds one version.

The invariants were checked with TLC, as invariants of a run, before they were proved.  Every
invariant and every action property that a passing run checks is a theorem, and so are the refinements.
Only model-checked is what the prover cannot do: liveness (`Returns`, `BoxCloses`, `InstallsEnd`,
`SessionEnds`, `NobodyWaits`, `CallsReturn`), and the three runs that show a violation.  Where a wait could
hang, in `Returns`, `InstallsEnd`, `NobodyWaits` and `CallsReturn`, the theorems `NeverStranded` and
`WakesKept` give the safety: nobody is left waiting for somebody who waits.  TLC confirmed, on the states of
the runs, that the waits `NeverStranded` names miss none: wherever no thread has a step enabled, they are there.
In a box and a session only one thread waits for the other, which never waits for it.  The type
invariants of the rings and of the session queue are part of what is proved (`RingTypeOK`, `Shapes` and
`Rowed`), and no run repeats them.

## Plan

In this order:

1. A property that ties the summary of a streamed session to the install under way, and
   one for what a host is told about its last chunks (`install_stream_menu_base.cpp:299`, `:345`).
2. The steps of `auto_update`, behind the download pool.

The single-threaded loop of the transfer engine, the growth of a save and `TransferState`
of haze are candidates behind these.

## Not modelled

Drawing, translations, assets, the vendored libraries and tools, USB framing, the system module
and the loader, and the wrappers over system calls: no state that several actors change, or code
of others.  Most of the lines of the repository are of this kind.  The sequential builders
(forwarders, archive plans, account restore) are path and format work in front of the models
above.  Of the save menu, backups to other devices, their upload and sync, and the deletion of
backup files are left out: they end in the file systems of those devices.  `PROJECT.json` gives the reason for each part under `components`.
