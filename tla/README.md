# Streamline in TLA+

Models, model checks and proofs of the parts of Streamline whose correctness depends on the order
in which goroutines, database statements, file-system calls and crashes happen. Everything is
translated from the Go code; the comments of the modules name the functions, `PROJECT.json` the
lines.

Run `tlc -workers 2 -config ImportWorker.cfg MCImportWorker` (and so on, see "Runs") and
`tlapm ImportWorker_proofs.tla` (and `Scheduler_proofs`, `DownloadTracking_proofs`, `BulkImport_proofs`,
`LibraryFiles_proofs`, `RateLimiter_proofs`, `Services_proofs`, `TorrentEngine_proofs`).

## 1. The system

Streamline is one Go process over a SQLite database, a media library on disk and one or more
torrent clients. `cmd/main.go` builds everything (`internal/server/wire.go`), starts the importer's
two consumers, starts the scheduler in a goroutine and serves HTTP next to it. The process may die
at any statement; the database, the disk and the clients survive, channels and maps do not.

| Component | State | Operations | What makes it hard | What makes it correct |
|---|---|---|---|---|
| Grabbers: `rss/missing.go`, `rss/feed.go`, the grab handlers, `download.Manager.grab` | none of their own; `download_record`, `movie.status` | search, add the torrent, create the record, flip the movie | three writes to two systems; wanted lists read long before the grab | one active record per item, no torrent nobody tracks, no item stuck "downloading" |
| Download manager and monitor job: `download/manager.go`, `jobs/download_monitor.go` | `download_record`, queue cache | `CheckStatus` every minute, one goroutine per record; `PurgeOrphanedTorrents`; cancel | works on a snapshot while cancels and imports go on; two writes per completion | a settled record never becomes active again; a completed download is imported even after a crash |
| Adoption: `download/adopt.go` | `download_record` (pending) | classify unknown torrents, import or propose them, prune proposals | known hashes are read before the clients are listed | one record per torrent |
| Importer: `importer/importer.go` | channel, in-flight set, consumers; records, rows | enqueue, import, count failures, `import_scan` | two consumers, a lossy queue, retries, crashes between file and row | each record imported at most once; every importing record settles |
| File placement: `library/import.go` | library and download directories | find the file, render the name, hardlink, copy or move | partial copies, repeated placement, destination taken meanwhile | no row without its file, no row that names half a file |
| Scheduler: `scheduler/scheduler.go` | per job: interval, paused, stop channel, running flag | start, tick, pause, resume, reschedule, run now | ticks of old and new loops, requests during `Start` | no overlapping runs, paused is dormant, one loop, no loop lost |
| Run-state hook: `jobs/state`, `handler_schedules.go` | `job` rows | persist last run and the paused flag | memory and row written in two steps | the flag survives a restart as the user left it |
| Built-in torrent engine: `bittorrent` | sessions in the database, torrents in memory | add, pause, remove, restore, enforce seed limits | two stores across crashes; requests and the enforcer without a common lock | restore brings back what was added; a limit stops only the torrent it was computed for |
| Bulk import: `library/bulkimport` | scan and file rows | start, match, cancel, commit, delete, abort at boot | check-then-write status changes from several requests | a scan under review is complete; a new movie gets one file; no scan blocks the next one for ever |
| Hygiene: `library/hygiene` | `media_file.last_seen_at`, orphan rows | drift check, orphan scan | stats paths from a list read earlier | only files missing for the whole grace period lose their row |
| Path migration: `library/pathmigrate` | progress in memory | move every file, rewrite its row | a crash between move and row; a second start | every row points at its file in the end |
| Requests: `request/service.go` | `request.status` | create, approve, deny, reopen, mark available | check-then-insert, no status guards | one approval for one addition of a title; what is approved is in the library |
| Rate limiter: `auth/ratelimit.go` | two generations of attempts per key | allow, refund, rotate | the clock is read before the lock; rotation by elapsed time; cap on the table | never more than the limit in any window, no refusal without cause |
| Lockout: `auth/lockout.go`, `auth/service.go` | three columns of the user row | find, check, compare, count, clear, unlock | the row is read before the comparison and written after it, by logins in parallel | the counter is the length of the run of failures; few guesses pass a lock |
| Configuration: `config` | a snapshot pointer and a file | load, mutate, save | concurrent mutations | no lost update |
| Auth and sessions, metadata, indexers, media servers, posters, REST and front end | request-scoped | | external services, cryptography, transport | not candidates for this project |

Interactions: the bulk import, the path migration, the drift check, the file deletion and the importer all
move files and rewrite `media_file` rows with nothing but the database between them; an approved request
adds a title, whose import makes it available; logins pass the limiter first and the lockout after it.
The monitor job moves records from `downloading` to `importing` and enqueues them;
the importer takes them from the channel, moves files, and writes `media_file`, `download_record`
and `movie` in one transaction; `import_scan` enqueues again whatever is still importing; a cancel
request may delete a record under any of them; the scheduler decides when the periodic jobs run and
promises that a job never runs twice at once, which the model of the monitor relies on.

`PROJECT.json` lists every component with its status, and 40 hazards at the lines where they bite,
with the property that covers each, or the reason why none does.

## 2. Modules

| Module | Models |
|---|---|
| `ImportWorker` | completion, cancel and import of movie records, with crashes |
| `ImportLedger` | the abstract specification of `ImportWorker`: what may happen to a record and its row |
| `MCImportWorker` | instances of `ImportWorker` for TLC |
| `MCLibrary` | `ImportWorker` with two grabs and `LibraryFiles` side by side for TLC |
| `ImportWorker_proofs` | theorems about `ImportWorker`, checked by TLAPS |
| `Scheduler` | one job of the scheduler; its runs instantiate it directly |
| `Scheduler_proofs` | theorems about `Scheduler`, checked by TLAPS |
| `DownloadTracking` | grabs, the monitor's completion and adoption passes, both purges, cancels and proposals, over a download client that changes by itself |
| `DownloadTracking_proofs` | theorems about `DownloadTracking`, checked by TLAPS |
| `MCDownloadTracking` | instances of `DownloadTracking` for TLC |
| `BulkImport` | one scan of movie files: match, review, commit, cancel, delete, restart |
| `BulkImport_proofs` | theorems about `BulkImport`, checked by TLAPS |
| `MCBulkImport` | instances of `BulkImport` for TLC |
| `LibraryFiles` | the path migration, the drift check and the deletion of files over one library root |
| `LibraryFiles_proofs` | theorems about `LibraryFiles`, checked by TLAPS |
| `RateLimiter` | the table of credential attempts, with callers that wait for its mutex |
| `SlidingWindow` | the abstract specification of `RateLimiter`: an exact list of attempts per key |
| `RateLimiter_proofs` | theorems about `RateLimiter`, checked by TLAPS |
| `Lockout` | the lockout columns of one account under parallel logins |
| `Requests` | the requests for a title, their reviewers, the library and the importer's mark |
| `TorrentEngine` | session rows, attached torrents and flags in memory, the enforcer, restore |
| `TorrentEngine_proofs` | theorems about `TorrentEngine`, checked by TLAPS |
| `Services_proofs` | theorems about `Lockout` and `Requests`, checked by TLAPS |
| `MCServices` | `RateLimiter`, `Lockout`, `Requests` and `TorrentEngine` side by side for TLC |

### ImportWorker

A step is one call the code cannot be interrupted in: a database statement or transaction, a
file-system call, a section under `Worker.mu`, a channel operation. The state and the code:

| Variable | In the code |
|---|---|
| `status`, `attempts`, `saved` | `download_record.status` (`deleted`: the row is gone), `import_attempts`, is `save_path` set |
| `movie` | `movie.status` |
| `rows` | `media_file` rows, each named by the record whose import created it |
| `disk`, `partial` | the inode at each destination of the library, named by the record it came from; is it a truncated copy |
| `source` | the download: exactly one usable media file, none, or the data is gone |
| `mode` | `Library.ImportMode` |
| `chan`, `inFlight`, `worker` | the channel, `Worker.inFlight`, the program counter and the locals of each consumer |
| `polled`, `flipped`, `completed`, `purge` | one tick of `download_monitor`: records of the snapshot, records between the status write and the save path, records to hand on, records on their way through `purgeOrphanedRecord` |
| `cancel` | one `CancelQueueItem` request |
| `crashes` | bound |

| Actions | In the code |
|---|---|
| `Scan`, `Enqueue` | `import_scan`, `Worker.Enqueue` |
| `Poll`, `StillDownloading`, `FlipImporting`, `PersistSavePath`, `EnqueueCompleted` | `Manager.CheckStatus` and the monitor job around it |
| `TorrentGone`, `PurgeDelete`, `PurgeCheck`, `PurgeRevert` | `purgeOrphanedRecord` |
| `Consume`, `Release` | `Worker.consume` |
| `FindImporting`, `ListExisting` | `runImport` up to the file check of `importMovieRecord` |
| `RemoveOldFile`, `DeleteOldRow` | `replaceMovieFiles` |
| `ResolveDest`, `Transfer`, `Copy` | `placeFile`, `transferFile`, `copyFile` |
| `RecordSuccess` | `RecordImportSuccess` |
| `HandleOutcome`, `RecordFailure` | `handleOutcome`: the read of the record, then `RecordImportFailure` by its id |
| `CancelFind` ... `CancelRevert` | `CancelQueueItem` and `RevertMovieToWantedIfNoFile` |
| `Crash` | the process dies and is started again |

Every call that can fail has a disjunct in which it fails. Names, quality, parsing and paths are
abstracted to the destination a record is rendered to (`DestOf`), which two records of one movie
may or may not share. Where the code makes two calls and the second depends on nothing another
actor can change, they are one step: the list and the enqueue of one id in `import_scan`. `Enqueue` is
one step too, though the code unlocks between the in-flight test and the send: what the gap lets
through, an id that is sent while it is imported, the test of `Consume` decides, and ids come twice to the
channel without it. A save path outside every library root is refused like an unset one, so `saved`
has the records whose path is set and inside one.

`Cancellable` names the records whose download a user may cancel: the cancel of one record is where all
that a cancel does is found, and the records that have none keep the instance small.

A behaviour begins with the records in `Imported` imported and the others downloading; the file of an
imported one may have been deleted since, and its row with it; a movie that has a file and a grab is available or downloading, whichever of the import and the grab came last.

`ImportLedger` has two variables, `status` and `rows`, and five actions: detect, complete, fail,
cancel, replace. `ImportWorker` refines it with the identity on both variables. It says that a
record is completed at most once and only from `importing`, that completing it and writing its row
are one step, that a settled record never becomes active again, and that a row disappears only for
a flagged record of the same movie.

### Scheduler

| Variable | In the code |
|---|---|
| `rootSet`, `start` | `Scheduler.rootCtx`, where `Start` is with this job |
| `paused`, `stopCh`, `interval`, `running` | the fields of `registeredJob`; a stop channel is named by the loop that reads it |
| `loop` | the `runJob` goroutines: about to run first, or in the select; is their channel closed |
| `run` | the `executeJob` goroutines: launched, or past the compare-and-swap |
| `request` | a `Pause`, `Resume`, `Reschedule` or `RunNow` that has read the root context |
| `raced` | ghost: a pause was served between `Start`'s read of the flag and its launch, or a resume on the other side of that launch than where it had read the root context |

Requests come at any time: `main` starts the scheduler in a goroutine and serves HTTP beside it, and the
code calls a pause before `Start` safe. `raced` marks the two cases in which it is not.

### DownloadTracking

The same records as in `ImportWorker`, seen from the torrent: here the client is modelled and the
import is three steps. `ImportWorker` has the calls of the import, cancel and purge one by one;
`DownloadTracking` merges what that module takes apart (the delete of a record with the revert of
its movie, the status and the save path of a completion) and adds what it leaves out.

| Variable | In the code |
|---|---|
| `client` | what the download client says of each torrent; `Finish`, `AddByHand` and `RemoveByHand` change it without the program |
| `status`, `torrent` | `download_record.status` and `torrent_hash`; `free`: no such row |
| `movie`, `hasFile` | `movie.status`, and whether it has a `media_file` row |
| `grabber` | the grabs in progress |
| `polled`, `monitor` | one tick of `download_monitor`: the snapshot of `CheckStatus`, then the locals of `AdoptManualTorrents` |
| `listed` | the list `PurgeOrphanedTorrents` works off |
| `request` | a cancel, or an answer to a proposal (import, replace, ignore) |
| `grabs` | bound |

| Actions | In the code |
|---|---|
| `Search`, `GrabByHand`, `AddTorrent`, `CreateRecord`, `FlipMovie` | the missing search and the grab request, then the three writes of `grab` |
| `Poll`, `Leave`, `FlipImporting`, `PurgeRecord` | `CheckStatus` |
| `AdoptKnown`, `AdoptList`, `AdoptClassify`, `AdoptPersist` | `AdoptManualTorrents`: known hashes, listing and pruning, then each torrent |
| `OrphanList`, `OrphanVisit`, `PurgeOld` | `PurgeOrphanedTorrents`, `PurgeOldRecords` and "clear completed" |
| `DropOldFile`, `ImportSucceeds`, `ImportFails` | the importer |
| `CancelFind`, `CancelTorrent`, `CancelDelete` | `CancelQueueItem` |
| `PendingFind`, `ClearExisting`, `ImportPending`, `IgnorePending` | the requests of `handler_pending.go` |
| `Crash` | the process dies and is started again; not bounded |

`Faults` says which calls may fail: of the database, of the client (an error of `AddTorrent` may
hide that the torrent was added), and whether the process crashes. The violations are found with no
fault at all. A list of records that fails ends the tick of the monitor with its adoption pass (`Poll`), as in
the job. A record is too young to be purged while its grab is in progress (`Young`): the
grace periods are two minutes and an hour, a grab has one statement to go.

### BulkImport

| Variable | In the code |
|---|---|
| `status`, `mode` | `import_scan.status` (`free`, `deleted`: no such row) and `mode` |
| `class` | `import_scan_file.classification`, `none` before its batch is written |
| `added`, `available` | movies of the library, and those with that status |
| `rows`, `nextRow`, `disk` | `media_file` rows, ids used, files that exist |
| `scanner` | `runScan` of each scan: walked, known movies read, files not yet classified |
| `request`, `commit`, `worker` | a request past its first statement, the `runCommit` it started, and `commitOne` of each file |
| `lost`, `unwritten` | ghosts: files of a batch the database refused; scans left in a working state because their final status, or the abort at boot, could not be written |

| Actions | In the code |
|---|---|
| `CountActive`, `CreateScan` | `StartScan` |
| `Walk`, `BuildExisting`, `Persist`, `StopMatching`, `FinishScan` | `runScan`, `runMatchPhase`, `classifyOne` |
| `FindToCancel`, `Cancel`, `FindToDelete`, `Delete` | the requests of `bulkimport.go` |
| `FindToCommit`, `Commit`, `ListForCommit`, `FinishCommit` | `Commit`, `runCommit` |
| `ListExisting`, `RemoveOld`, `DeleteOldRow` | `commitAttach` |
| `AddMovie`, `Place` | `commitAdoptInPlace`, `commitRename` with `findMediaFile` |
| `CreateRow`, `MarkAvailable` | `linkAndMarkAvailable` |
| `Crash`, `BootAborts` | the process dies; `AbortInflight` at boot, whose error `wire.go` logs before it goes on |

`Place` follows `commitRename` in what it passes to the importer: the directory of the file, not the
file. A directory of several videos therefore fails with `ErrMultipleMedia` in rename mode.

### LibraryFiles

| Variable | In the code |
|---|---|
| `row`, `ids`, `wanted` | the `media_file` row of a movie (which root its path is under, how many intervals ago it was last seen), how many it has had, is the movie wanted |
| `stored` | files that exist, under the old and the new root |
| `root`, `running` | `Library.MoviePath`, `Status.Running` |
| `ask`, `move` | a request (migration or deletion) past its first step, the migration it started |
| `drift`, `due` | the drift check and its list; is the check of this interval still to come |
| `up`, `faults` | the process runs; bound on faults |
| `misses`, `blind`, `gone` | ghosts: checks that missed the file, movies a check could not look at, files somebody took away |

| Actions | In the code |
|---|---|
| `Collect`, `Begin`, `Visit`, `MoveFile`, `Save`, `PersistRoot` | `Start`, `run`, `library.MoveFile`, `persistRoot`, `finish` |
| `ScheduledRun`, `RunNow`, `Check` | the hygiene job, `RunDriftCheck`, `checkDrift`, `handleMissing`, `revertMovie` |
| `FindFile`, `Unlink`, `Unrow` | `movie.Service.DeleteFile` |
| `Reimport`, `Vanish`, `Appear`, `Tick`, `Die`, `Boot` | the importer, the disk, the clock and the process around them |

### RateLimiter and SlidingWindow

| Variable | In the code |
|---|---|
| `clock` | `time.Since(l.start)` |
| `cur`, `prev`, `rotateAt` | the two generations and the time of the next rotation |
| `pc`, `key`, `at` | a caller that has read the clock and waits for the mutex, or that was let in and may still refund |
| `wait` | the wait `Allow` returned |
| `log` | ghost: the attempts charged to a key and not refunded |

`ReadClock` is the first line of `Allow`, `Allow` (`Refuse`, `LetInUntracked`, `Record`) its section
under the mutex, rotation included; `Refund` and `Leave` are the two ends of a request in
`server/web/auth.go`. `Skew` bounds the time a caller waits for the mutex. `SlidingWindow` has the clock and
the log only: an attempt is charged when all but the last `Limit - 1` are a window old, give or take `Skew`, and a
refund takes the newest. The log takes the newest attempt back whoever made it, as the code does;
a caller that was let in untracked, at the cap of the table, may give back another's attempt when its
key has come to be tracked since.

### Lockout

| Variable | In the code |
|---|---|
| `user` | `failed_login_count`, `last_failed_login_at`, `locked_until` |
| `login` | a `Login` between its read of the user and the end of the password comparison, with the row and the time it read |
| `now`, `fails` | the clock; ghost: the failures since the last clear |

`Find`, `Check`, `Mismatch` (`applyFailedAttempt`, one transaction), `MismatchLost` (it failed),
`Match`, `Unlock` and `TimePasses`. `CompareTime` is how long a comparison may take. The counter is a `uint8` and wraps at `CountMod`.

### Requests

`status` and `title` are the request rows, `library` the titles added, `imported` the imports that
have not yet told the requests, `client` an operation between two of its statements, `adds` and
`deleted` are ghosts. `FindActive`, `FindInLibrary`, `CreateRequest` are `Create`; `GetRequest`,
`AddTitle`, `ApproveRequest` are `Approve`; `Deny` and `Reopen` are one statement each;
`MarkAvailable` is `MarkRequestsAvailable`, whose failure is only logged.

### TorrentEngine

| Variable | In the code |
|---|---|
| `row` | the `torrent_sessions` row: paused, seed-stopped, completed |
| `live` | the torrent of the library: has it its info, may it download and upload |
| `mem` | `Engine.state` |
| `op`, `enforcer` | each user's operation (a request, a grab, a cancel), one tick of `enforceOnce`, between two steps |
| `up` | `restore` has ended |
| `torrents` | bound, and the identity of a torrent (a handle outlives it) |
| `uneven`, `torn`, `met`, `freed` | ghosts: hashes a failed write left with row and memory apart; hashes that were added while they were removed; hashes two operations were at work on at once; paused torrents that were added again |

Users work at once, as handlers and the manager's goroutines do: nothing in the code keeps two of them off
one torrent. An addition of a torrent that is there merges its spec, which lets data flow, into it (`AddSpec`);
its row and its flags stay as they are.

The actions follow `AddTorrent` (`CreateSession`, `AddSpec`, `AddState`, `GotInfo`), `RemoveTorrent`
(`FindToRemove` ... `Forget`), `PauseTorrent` and `ResumeTorrent`, the enforcer (`StartTick`, `Look`, `Mark`,
`SaveMark`, `Judge`, `StopSeeding`, `SaveStop`) and `restore`.

## 3. Runs

| Run | Instance | Shows |
|---|---|---|
| `ImportWorker` | an imported record, whose file a user may have deleted since, and its replacement under the same name; every import mode, two consumers, two attempts, a queue of two, a vanishing torrent, a crash | the in-flight set is exact; an available movie has a row; no row names half a copy of its own file; a row is written only over its own file; a placed hardlink fails only at its last attempt; every importing record settles |
| `Library`, imports | two grabs of one movie under different names, one flagged to replace, hardlinks, one attempt, a queue of one, no roots configured, a vanishing torrent, a cancel | `ImportWorker` implements `ImportLedger` |
| `Library`, files | one movie, two roots, one client, a grace of two checks, one fault | a row has its file unless somebody took it away, or a move is about to save it or was cut off before; a row is deleted only after its file was missed for the grace period |
| `Scheduler` | two clients, two live loops, two executions, two intervals, paused or not at boot, requests at any time | no overlap, closed loops end, no deadlock; and unless a request raced with `Start`, paused is dormant, at most one loop and at the right interval, no loop lost |
| `DownloadTracking` | one torrent, one grab, two records, every fault and any number of crashes | no torrent is proposed twice, dismissed ones included; finished torrents are tracked, records and proposals of vanished torrents go |
| `BulkImport` | one scan, three files in two directories: one of a known movie, two of a new one; both modes; every fault, crashes, an abort at boot that may fail | a scan under review has every file; a new movie gets one file; no scan stays active but one whose final status could not be written |
| `Services` | limiter: two callers, two keys, two attempts in a window of three, a table of one key, a wait of one; lockout: two logins, a threshold of two; requests: one title, three rows, two clients; engine: one torrent, two users, the enforcer, every fault | limiter: the window bound, nothing forgotten early, the table bounded, every refusal justified, `SlidingWindow` implemented; lockout: the counter exact, guesses bounded; requests: one approval per addition, of a title that is there; engine: torrents have rows, a pause holds |
| `AtMostOneFile` | two grabs of one movie, two consumers | **violated**: both are imported, the movie has two files |
| `ImportingIsResumable` | one record, one crash | **violated**: the crash (or a failed write) falls between the status and the save path |
| `MovieStuck` | one grab, one cancel, no fault | **violated**: the movie stays downloading without a download |
| `BulkKeepsAFile` | two files of one movie, one of them its own; no fault | **violated**: the commit removes both |
| `PausedIsDormant` | one client, one interval | **violated**: a pause between `Start`'s read of the flag and the launch leaves a paused job ticking |
| `WantedIsFileless` | two grabs of one movie, one of them cancelled | **violated**: the other's import commits between the check and the write of the revert, and the available movie is wanted again |

The six violations are recorded under "findings" with the comment of the code each contradicts.

`Services` checks four modules in one run because they share nothing: `MCServices` extends them all, picks
one of them in the initial state and leaves the variables of the others alone. `Library` does the same
with `ImportWorker` and `LibraryFiles`. The formulas they check are the very ones the theorems of
section 4 are about.

What some of the properties leave out, because the code does not keep it:

- `NoTruncatedRow` speaks of rows whose own file is at their path: a row whose path a rival's half copy
  overwrote is excused (two downloads of a movie rendered to one name).
- `RowHasFile` excuses a row whose move was cut off, by a crash or a failed write, between the move and the
  save: such a row points nowhere until the drift check reaps it.
- `GraceWhenChecked` excuses rows that aged while no check ran.
- `ScanSettles` excuses a scan whose final status could not be written, by its goroutine or by a boot.
- `DormantUnlessRaced`, `OneLoop`, `ArmedWhenActive` and `KeepsRunning` excuse a job whose `Start` raced
  with a request; `PausedIsDormant` shows the race.
- `LiveHasRow` and `PauseHolds` excuse a torrent by the ghosts of `TorrentEngine`; see below.
- `VanishedIsPurged` speaks of clients that stay configured: `CheckStatus` and `PurgeOrphanedTorrents` pass
  over the records of one that does not (`manager.go:565-571, 753`).

### Disagreements met on the way

TLC finds each of these in an instance of the modules beside the runs (the constants that lead there
are named); they are noted with their hazards.

- Adding a torrent while it is being removed leaves it in the library without a row, although "the torrent list
  survives restarts" (`engine.go:2`): the removal deletes the row the addition found. `LiveHasRow` without
  the ghost `torn`.
- Adding a paused torrent again lets its data flow while row and flags say paused, although "data stays
  gated [...] until resumed" (`engine.go:369`): `AddTorrentSpec` merges a spec that allows data
  (`client.go:77`). `PauseHolds` without `freed`.
- A pause and a resume at once may leave a torrent paused in memory and not in its row, or the other way
  round: each writes the two one after the other. `PauseHolds` without `met`.
- A resume that read the root context before `Start` published it and was served after `Start` was through
  leaves an active job without a loop, and one served while `Start` has yet to read the flag leaves it two
  (`scheduler.go:345`). `ArmedWhenActive` and `OneLoop` without `raced`.
- Two downloads of a movie rendered to one name overwrite each other in the copy and move modes, so that a row
  is written over a rival's file: `FileBeforeRow` with two records in progress (`import.go:356`).
- A torrent that is complete when a grab adds it is adopted while the grab records it:
  `DownloadTracking`, two records of one torrent (`download/adopt.go:179`).
- A cancelled scan comes back as awaiting review, because `FinishScan` writes its status whatever it
  is by then (`scanner.go:226`).
- Two requests of one title are both active: `Create` finds, then inserts (`request/service.go:73`).
- A movie's row goes at the first check after a long stop: `last_seen_at` ages while nothing checks
  (`drift.go:67`); the configuration speaks of consecutive checks (`config.go:213`).
- A Resume that read the flags before the enforcer stopped the torrent lets it seed again
  (`enforcer.go:57`).
- A locked login may name an expiry that has passed, because `OnFailedAttempt` keeps an expired
  `LockedUntil` below the threshold (`lockout.go:35`).
- Two files of one commit matched with one known movie are attached in parallel and leave it two rows:
  `BulkImport` with `TwinMovieOf` (`committer.go:243`).

### Bounds, and why they are enough

- `Consumers` has two elements because the code starts two. They are interchangeable, hence the
  symmetry in `Library`; `ImportWorker`, with its liveness property, does without it.
- `Records`: the properties relate at most the record being imported, the one it replaces and one
  rival of the same movie. Records of different movies share only the queue and the consumers, and
  the queue is made scarce by `QueueCap` instead.
- `QueueCap` 1 or 2 (100 in the code) makes "full" and "the same id twice" happen.
- `MaxAttempts` 2 (3 in `ImportingIsResumable`): a retry, and the last attempt. With 1 (`Library`) an import is still
  repeated when the database refuses to count its failure.
- `Cancellable` has one record: in `Library` the one that replaces its rival and loses its own race, in
  `ImportWorker` the only one that is downloading. `WantedIsFileless` lets both be cancelled; the runs that
  expect another violation, none.
- `MaxCrashes` 1: a crash at any point, and the recovery from it. The theorems are for any number.
- `Paths`: shared destination (an upgrade under the same name) and a destination of its own.
- `Torrents` has one element in the runs of `DownloadTracking`: torrents meet in their movie's
  status and file only, and the properties speak of one torrent and its records. `Ids` has one
  record more than there can be grabs, for the adoption; an id is used again once it is free and no
  local variable holds it, so the number of records in a behaviour is not bounded.
- `MaxGrabs` 1: the torrent it leaves, tracked or not, meets the adoption, the purges, the cancel and the
  answers; users add and remove torrents at the client as often as they like. With two grabs and three records
  the safety properties alone were checked too, without a violation.
- Scheduler: two loops are the old and the new one of a reschedule. A third reschedule waits in the
  model until the first loop has ended; `Launch` takes any free loop, so only the number of loops
  that wait to see their closed channel is bounded. `Runs` bounds the `executeJob` goroutines
  between launch and end; two are needed for an overlap.
- `BulkImport` has one scan and one committing client. A second committing client with all of the
  above is beyond TLC's reach; without the liveness property and with two files it kept the invariants.
  `MaxRows` is the number of files: a commit writes at most one row for each.
- `LibraryFiles` has one movie: the code visits rows one by one and none looks at another's. `Grace` 2
  tells the first miss, a miss inside the period and the one that ends it apart; `MaxRows` 2 lets a file be
  imported again after its row went; one fault at a time is what the recovery paths handle.
- Limiter: a limit of two and a window of three make an attempt outlive a rotation, `MaxKeys` 1 with
  two keys reaches the cap, `Skew` 1 decides calls out of order, and `MaxTime` 6 is two windows. The
  theorems hold for all of them.
- Lockout: `Threshold` 2 and `CountMod` 4 reach the lock and the wrap-around of the counter. Requests:
  two clients race, a third row follows them. Engine: one torrent, whose three copies of the state are
  the point, and two users, which is what a race takes; `MaxTorrents` 2 lets it come back once, after a
  removal or a restart. The theorems bound none of them.
- The largest runs: `Library` 2.5 million states, `Services` 1.7, `Scheduler` 0.3, `ImportWorker` 0.24 and
  `DownloadTracking` 0.07 with liveness; each takes between one and three minutes with two workers.

### Fairness

`ImportWorker` assumes weak fairness of the scan of each record (`import_scan` is a scheduled job
that is never done), of both consumers (goroutines run, calls return), and strong fairness of the
two steps that count a failed attempt, the read of `handleOutcome` and the write of `RecordFailure`: the
database may refuse each any finite number of times, not for ever. Nothing is assumed of the successful branches of the import, of the monitor or of
cancels, and crashes are unrestricted up to their bound. Without the last assumption a record could
fail and fail to be counted for ever, which is what the code would do on a dead database.

`DownloadTracking` assumes that the process does not crash for ever (`<>[][Works]_vars`: from some point on
every step is one of the working process, its client and its users), and weak fairness of the monitor (a scheduled job, whose
executions never overlap), of its goroutines, of grabs and of requests (calls with timeouts), and
strong fairness of the successful branch of each step of the monitor: a call may fail, and a
record be too young to be purged, any number of times, not always. Nothing is assumed of users, of the
client or of the importer: no grab, no download and no import needs to happen or to end well.

`BulkImport` assumes weak fairness of the goroutines of scans and commits, which never wait for a
request. A commit or scan ends at its failures too, so no call needs to succeed.

`Scheduler` assumes weak fairness of `Start`, of the goroutines, of the ticker (`Tick`), and of
`Stop`: a Go select with two ready cases picks one at random, so a closed channel is not passed
over for ever. `FirstRun` has strong fairness only because the bound `Runs` can disable it, which
in the code nothing does. The two liveness properties say nothing of clients, who may stop, and
`KeepsRunning` nothing of a job whose `Start` was raced.

## 4. Proofs

`ImportWorker_proofs` proves for every set of records, movies, paths and consumers, every queue
capacity, attempt limit and number of crashes:

| Theorem | Says |
|---|---|
| `Invariance` | the strengthened invariant `IInv` holds in every reachable state |
| `TypeCorrect` | `[]TypeOK`, with the attempt counter within its limit |
| `InFlightIsExact` | `[]InFlightExact`: no two consumers on one record, none left behind in the set |
| `AvailableMovieHasRow` | `[]AvailableHasRow` |
| `ImplementsLedger` | `Spec => LedgerSpec`, the refinement of `ImportLedger` |
| `RowsAreWhole` | `[]NoTruncatedRow` |
| `RetryKnowsItsFile` | `[]HardlinkRetryIdempotent`, if `OneGrab` |

The last one speaks of downloads that do not compete: `OneGrab` says that of the records of a movie at most
one is not imported when the run begins. The missing search and the feed pass over movies with an active
download, so they keep to it; a grab by hand does not, and then a file in place may be refused because
its rival has a row. The other theorems assume `ConstantsAssumption` only, however many records a movie
has. `FileBeforeRow` is not among them: with a second download under the same name it is false.

None of the safety properties is inductive. The parts
of `IInv`, and what each is for:

- `BusyHasRecord`, `CancelHasRecord`: a busy consumer, or a cancel past its first step, holds a
  record, so that the fields they index exist.
- `PolledIsFresh`: a record in the monitor's snapshot was never imported: only the monitor makes a
  record importing, one tick at a time. This is why the unconditional status write of
  `FlipImporting` is a `Detect` of the ledger and cannot undo a completed import.
- `ActiveHasAttempts`: an active record has not used up its attempts, which keeps the increment
  within its range.
- `RowIsSettled`: a record with a row is not downloading or importing; with it `Complete` never
  repeats an import.
- `ImportIsExclusive`: a consumer past its first read works on a record that is importing, or that
  was cancelled meanwhile; it is the only one to settle it.
- `ReportIsCounted`: a failure about to be written is terminal or leaves its record an attempt, which the
  read before it decided; `RecordFailure`, a step later and by id, so stays within `ActiveHasAttempts`.
- `ReplacesSameMovie`: the rows a consumer is about to delete belong to the movie of its record,
  which is flagged; so `Replace` is enabled, and the movie that loses its rows is the one reverted.

`RowsAreWhole` rests on `IInv` and on `Whole`: beside the files that have a row, the file of a record about
to get one is whole, and without copies every file is. Only the start of a record's own copy truncates its
file (`CopyTruncates`), and `ImportIsExclusive` and `InFlightExact` rule out that it has a row, or another
consumer about to write it.

`RetryKnowsItsFile` adds `NewOnly` (a record imported before is not cancelled, purged or polled) and has three
parts: `PlacedIsSaved`, a record was placed only once its save path was known; `PlacedIsAlone`, a record that
replaces nothing is placed only while its movie has no other row; and `PlacedIsNotRefused`, a terminal error
comes without a placed file.

Each proof has one step per action; the lemmas on queue and consumers are stated once.

`DownloadTracking_proofs` proves for every set of torrents, movies, records and grabbers, and every set of faults:

| Theorem | Says |
|---|---|
| `TypeCorrect` | `[]TypeOK`: every record has its torrent, whichever of the jobs and requests made it |
| `NoSecondProposal` | `[]ProposedOnce` |

`TypeCorrect` needs the locals' types (`Types`). For `NoSecondProposal`, `Tracking` follows a pass of the adoption: when
it lists the client it knows every proposed torrent, and what it found has no proposal from then on. A
proposal comes from this pass only; a grab gives its torrent a record, but none that is a
proposal, so the hashes read too early make a second record and never a second proposal.

`BulkImport_proofs` proves for every set of scans, files, movies and clients:

| Theorem | Says |
|---|---|
| `TypeCorrect` | `[]TypeOK`: rows have ids of their own and a movie in the library; workers belong to a commit |
| `ReviewIsComplete` | `[]ReviewComplete`, however many scans run at once |
| `NewMovieHasOneFile` | `[]NewMovieOneFile` for one scan, however many requests commit it |

`ReviewIsComplete` rests on `Review`: while a scan is matched, a file it walked is in a written batch, lost
with one, gone from the disk or still to do. This covers two scans that `StartScan` lets in
(`scanner.go:54`). `NewMovieHasOneFile` covers two requests that both find the scan under review
(`committer.go:39`), which the run, with one committing client, does not: the scan is over
when a commit begins (`Scanning`), so what was new is new for every commit, and of the workers of one
new movie only the one that added it goes on to a row (`Making`). A second scan may find
the movie the first one added and then replaces its file, hence the hypothesis.

`RateLimiter_proofs` proves for every set of callers, finite set of keys, limit up to 255, window, cap, wait and
clock bound:

| Theorem | Says |
|---|---|
| `Inductive` | the strengthened invariant `IInv` holds in every reachable state |
| `TypeCorrect` | `[]TypeOK` |
| `WindowTheorem` | `[]WindowBound`: attempts that are `Limit` apart in a key's list are a window apart, less `Skew` |
| `ForgetsTheorem` | `[]ForgetsOnlyAged`: what the table dropped of a list is its aged beginning |
| `BoundedTheorem` | `[]TableBounded`: a key in one generation, no more keys than the cap |
| `RefusalTheorem` | `Spec => RefusalJustified`: a refusal is backed by `Limit` young attempts of the key, and its wait ends |
| `Refinement` | `Spec => BudgetSpec`: the table implements `SlidingWindow` |

The heart of `IInv` is `Sound`: the attempts of a key in the table are a suffix of its list whose missing
beginning is aged (`Keeps`), every attempt in `cur` is older than the next rotation and every one in
`prev` a window older. That makes a rotation drop only what has aged (`WindowBound` alone says nothing of
the table, and a table that forgot early would not violate it before the next grant). `LogOrder` bounds
how far out of order attempts are recorded, from `Calls`: a caller decides at most `Skew` after it read the
clock. `TableBounded` has an argument of its own, by the cardinality of the tracked keys.

`Scheduler_proofs` proves for every set of loops, executions, clients and intervals:

| Theorem | Says |
|---|---|
| `TypeCorrect` | `[]TypeOK` |
| `RunsNeverOverlap` | `[]NoOverlap`: `executeJob` is exclusive even while `Start` is on its way |
| `AtMostOneLoop` | `[]OneLoop` |
| `PausedStaysDormant` | `[]DormantUnlessRaced` |
| `ActiveIsArmed` | `[]ArmedWhenActive` |

`NoOverlap` needs `FlagIsHeld`, the meaning of the compare-and-swap. The other three have no hypothesis: requests
come before, during and after `Start`. What the code does not keep is in the properties, which speak of a
job no pause or resume has raced with `Start`. They share the invariant `LoopInv`: a request that saw the root
context came after it was published (`RootFirst`); and unless one raced, before `Start` is through the job
has no stop channel and is launched only unpaused (`NoLoopBeforeStart`), from then on it has a stop channel
exactly when it is not paused (`ChannelUnlessPaused`), and the channel belongs to the one loop that ticks, at the
interval last set (`ChannelHasLoop`, `LoopOfChannel`).

`LibraryFiles_proofs` proves for every set of movies, directories and clients, every grace period and number of
faults and rows:

| Theorem | Says |
|---|---|
| `TypeCorrect` | `[]FilesTypeOK`: a movie is wanted exactly when it has no row, its row is its latest, one migration at a time |
| `RowsHaveFiles` | `[]RowHasFile` |
| `GraceIsKept` | `Spec => GraceWhenChecked` |

The assumptions are `FilesAssumption` only. `RowsHaveFiles` needs `SaveHasFile`: a file is at its new path when its row is about
to be rewritten, and `TargetsAreKnown`: a migration names rows that exist or existed, so that the row of a
later import is never taken for one of its targets. `GraceIsKept` counts: `AgesAreMisses` says that every
interval a row has aged by is one in which a check missed its file, the last excepted while its check is due
or in progress; `RowsAsRead` says that a run of the check holds each row once, no newer than the movie's
latest, with the age it still has, since no interval passes while a run lasts. The theorem speaks of movies no check failed
for or skipped (`blind`): that is what the configuration's "consecutive ticks" amounts to.

`Services_proofs` proves, each for its module alone:

| Theorem | Module | Says |
|---|---|---|
| `CounterExact` | `Lockout` | `[]CountExact` |
| `GuessesAreBounded` | `Lockout` | `[]GuessBound`, if the logins are finitely many |
| `ApprovedInLibrary` | `Requests` | `[]ApprovedIsInLibrary` |
| `OneApprovalPerAddition` | `Requests` | `[]ApprovedOnce`, if rows and clients are finitely many |

The lockout is proved for every set of logins, threshold, window, duration and `CompareTime`, with the counter's own
eight bits (`LockoutParameters`; the run wraps it at 4). `CountExact` is inductive with the types: a failure
either extends the run of the ones before it or begins a new one (`StreakGrows`), and the row holds the
last one's time, by which the code decides the same. For `GuessBound`, `LocksAreKept` says that the row's
lock outlasts the duration of every failure that reached the threshold, and `FewAreLoose` counts the
failures since it together with the logins that may still add one (they read the row, or the time, before
it): a login leaves the second set when it joins the first, and none enters it, since the row it would read
is locked.

The requests are proved for every set of titles, rows and clients. Both theorems need the reviewers between
`AddTitle` and `ApproveRequest`: their title is in the library or was deleted (`AddedForApproval`), and they
count against its additions like the requests already approved (`Budget`).

`TorrentEngine_proofs` proves for every set of torrents and users, every set of faults and any number of restarts:

| Theorem | Says |
|---|---|
| `EngineTypeCorrect` | `[]EngineTypeOK` and the types of the locals; a restart asks only for torrents that have a row |
| `TorrentsHaveRows` | `[]LiveHasRow` |
| `PauseIsKept` | `[]PauseHolds`, if there is a user |

The inductive invariant `EngineInv` has two parts, each about one hash. `RowsKept` is for `TorrentsHaveRows`: unless the
torrent was added and removed at once, a torrent has its row, so have the additions on their way, and a
removal past its first step has taken the torrent it found. It holds however many operations of
other kinds are on their way. `OneByOne` is for `PauseIsKept`: unless two operations met on the torrent, the one at
work finds it as if there were no other users (`Coherent`): by the step it is at (`Stage`) which of row,
torrent and flags must exist (`RowAround`), and what they say of a pause (`PausedTogether`), where a torrent
added again may move data until it is paused again (`freed`). An operation that starts beside another is
noticed (`StartIsNoticed`); steps at other hashes leave the torrent alone (`Elsewhere`), and those of the
enforcer and of the metadata neither remove anything nor let more data flow (`GentleStep`).

Only model-checked: every liveness property, since fairness and `ENABLED` are beyond the proof system
(`ImportingSettles`, `KeepsRunning`, `ClosedLoopEnds`, `DoneIsTracked`, `VanishedIsPurged`,
`StaleProposalPruned` and `ScanSettles`); and the properties of
the runs that expect a violation, which are false; and `FileBeforeRow`. Every other property of a passing
run is the subject of a theorem.

## 5. Not modelled

- In `ImportWorker`: other writers of movies and rows (grab, adoption, replace and import of
  pending proposals, `DeleteFile`, drift); records of episodes and season packs; graceful shutdown
  and context cancellation, which the crash subsumes for safety; a `stat` of the source that fails
  right after the walk found it (`import.go:357`, where the destination then counts as another's file); everything after `RecordImportSuccess` (requests, media servers, removal of the
  torrent without its data); a change of import mode, naming or roots while the process runs;
  `importer.go` recovering from a panic.
- In `DownloadTracking`: pause and resume of torrents, several clients, the replace flag and the
  removal of the replaced torrent (which `RemoveByHand` amounts to), two requests at once, records of a client the
  configuration no longer names (which every pass skips), torrents
  of no or of several movies, episodes, the failure counters and cooldowns of the search, grace
  periods beyond `Young`.
- In `BulkImport`: series (the show scanner and committer), the edits of decisions, matching and naming
  as such, outcomes and counts. Two scans at once are in the model and in the theorems, in no run.
- In `LibraryFiles`: the orphan scan and `deleteOrphan`, episodes, the series and download roots, the preview of a
  migration, a deletion of the whole movie, renames within a root.
- In `RateLimiter`: a limit of zero, which refuses before it looks at the clock; `bucketKey`, which folds
  addresses into keys. In `Lockout`: deletion of the user, logins through the identity provider (an
  `Unlock`), bcrypt. In `Requests`: notifications, quality profiles, permissions.
- In `TorrentEngine`: data and progress (a torrent may be complete, and over its limit, at any tick),
  file priorities, rate limits, storage and the views.
- In `Scheduler`: other jobs (they share nothing but the mutex of the map), system jobs (Pause
  refuses them), the run-state hook and the end of the root context at shutdown.
- External programs (torrent clients, media servers, indexers) are calls that may fail.
- Front end, generated code, transport, parsing and formatting.

## 6. What is left

1. In the proofs: `HardlinkRetryIdempotent` under a weaker hypothesis than `OneGrab`.
2. Episodes and season packs as an extension of `ImportWorker`, and the series half of `BulkImport`.
3. The paused flag of schedules in memory and on disk; the replace flag of a grab, which is set after the
   grab returned.
4. The orphan scan next to the importer and the bulk import.
5. Runs of `BulkImport` with two commits and two scans, once a smaller abstraction of a commit makes room;
   the theorems already cover them, `NewMovieHasOneFile` for two commits only.
