---------------------------- MODULE ImportWorker ----------------------------
(***************************************************************************)
(* The import half of the download pipeline: download_monitor's completion *)
(* pass (internal/download/manager.go, CheckStatus), the importer's queue  *)
(* and its consumers (internal/importer/importer.go), the placement of the *)
(* file (internal/library/import.go) and the transactions that record it   *)
(* (internal/db/download_record.go), for records that belong to movies.    *)
(*                                                                         *)
(* One step is one call the code cannot be interrupted in: a database      *)
(* statement or transaction, a file-system call, a section under Worker.mu *)
(* or a channel operation.  A crash may fall between any two of them.      *)
(*                                                                         *)
(* A media-file row is named by the record whose import created it: its    *)
(* path is DestOf[r] and its owner MovieOf[r].                             *)
(***************************************************************************)
EXTENDS Naturals, Sequences

CONSTANTS
  Records,          \* download_record ids
  Movies,
  Paths,            \* rendered destinations in the library
  Consumers,        \* the goroutines Worker.Start spawns
  MovieOf,          \* the movie edge of a record
  DestOf,           \* the naming template applied to a record's release
  Replacing,        \* records flagged replace_existing
  Imported,         \* records that were imported before the run begins
  Sources,          \* does the download hold exactly one usable media file
  Vanishing,        \* records whose torrent may leave the download client
  Cancellable,      \* records whose download a user may cancel
  Modes,            \* import modes to start from
  RootsConfigured,  \* is Library.AllowedDownloadRoots non-empty
  MaxAttempts,      \* Library.ImportMaxAttempts
  QueueCap,         \* channelCap
  MaxCrashes,       \* bound: crashes in one behaviour
  None              \* no record

ASSUME ConstantsAssumption ==
  /\ MovieOf \in [Records -> Movies]
  /\ DestOf \in [Records -> Paths]
  /\ Replacing \subseteq Records
  /\ Imported \subseteq Records
  /\ Vanishing \subseteq Records
  /\ Cancellable \subseteq Records
  /\ Modes \subseteq {"hardlink", "copy", "move"}
  /\ RootsConfigured \in BOOLEAN
  /\ Sources \in [Records -> {"good", "bad"}]
  /\ MaxAttempts \in Nat \ {0}
  /\ QueueCap \in Nat
  /\ MaxCrashes \in Nat
  /\ None \notin Records

VARIABLES
  \* download_record and movie rows, media_file rows; saved are the records
  \* with a save path, under an allowed root if any is configured
  status, attempts, saved, movie, rows,
  \* the library, the download directory, the configured import mode
  disk, partial, source, mode,
  \* the process: channel, in-flight set, consumers, one monitor tick,
  \* one cancel request
  chan, inFlight, worker, polled, flipped, completed, purge,
  cancel, crashes

dbVars == <<status, attempts, saved, movie, rows>>
fsVars == <<disk, partial, source, mode>>
queueVars == <<chan, inFlight>>
monVars == <<polled, flipped, completed, purge>>
vars == <<status, attempts, saved, movie, rows,
          disk, partial, source, mode,
          chan, inFlight, worker, polled, flipped, completed, purge, cancel,
          crashes>>

Status == {"downloading", "importing", "completed", "failed", "deleted"}
MovieStatus == {"wanted", "downloading", "available", "failed"}
Active == {"downloading", "importing"}

Idle == [pc |-> "idle", rec |-> None, path |-> FALSE, old |-> {}, err |-> "nil"]
NoPurge == [r \in Records |-> "none"]
NoCancel == [pc |-> "idle", rec |-> None]

WorkerPC == {"idle", "find", "list", "unlink", "unrow", "resolve", "transfer",
             "copying", "record", "outcome", "report", "release"}

WorkerState == [pc : WorkerPC, rec : Records \cup {None}, path : BOOLEAN,
                old : SUBSET Records, err : {"nil", "retryable", "terminal"}]

RowsOf(m) == {r \in rows : MovieOf[r] = m}

DBTypeOK ==
  /\ status \in [Records -> Status]
  /\ attempts \in [Records -> 0..MaxAttempts]
  /\ saved \subseteq Records
  /\ movie \in [Movies -> MovieStatus]
  /\ rows \subseteq Records

FSTypeOK ==
  /\ disk \in [Paths -> Records \cup {None}]
  /\ partial \subseteq Paths
  /\ source \in [Records -> {"good", "bad", "gone"}]
  /\ mode \in Modes

QueueTypeOK ==
  /\ chan \in Seq(Records)
  /\ inFlight \subseteq Records
  /\ worker \in [Consumers -> WorkerState]

MonitorTypeOK ==
  /\ polled \subseteq Records
  /\ flipped \subseteq Records
  /\ completed \subseteq Records
  /\ purge \in [Records -> {"none", "delete", "check", "revert"}]
  /\ cancel \in [pc : {"idle", "remove", "delete", "check", "revert"},
                 rec : Records \cup {None}]
  /\ crashes \in 0..MaxCrashes

TypeOK == DBTypeOK /\ FSTypeOK /\ QueueTypeOK /\ MonitorTypeOK

(* The earlier imports are done; a user may have deleted a file since.     *)
(* A movie with a file and a grab in progress: whichever came last, the    *)
(* import of the one or the grab of the other, has set its status.         *)
InitialStatus(m, s) ==
  /\ s = "downloading" => \E r \in Records \ Imported : MovieOf[r] = m
  /\ s = "available" => RowsOf(m) # {}
  /\ s = "wanted" => \A r \in Records : MovieOf[r] # m

Init ==
  /\ status = [r \in Records |-> IF r \in Imported THEN "completed"
                                                   ELSE "downloading"]
  /\ attempts = [r \in Records |-> 0]
  /\ saved = Imported
  /\ rows \in SUBSET Imported
  /\ movie \in [Movies -> {"wanted", "downloading", "available"}]
  /\ \A m \in Movies : InitialStatus(m, movie[m])
  /\ disk = [p \in Paths |->
               IF \E r \in rows : DestOf[r] = p
               THEN CHOOSE r \in rows : DestOf[r] = p ELSE None]
  /\ partial = {}
  /\ source = Sources
  /\ mode \in Modes
  /\ chan = <<>>
  /\ inFlight = {}
  /\ worker = [c \in Consumers |-> Idle]
  /\ polled = {}
  /\ flipped = {}
  /\ completed = {}
  /\ purge = NoPurge
  /\ cancel = NoCancel
  /\ crashes = 0

RevertMovieDropped(m) == UNCHANGED movie

(* The update that makes a movie wanted again.                             *)
RevertMovie(m) == movie' = [movie EXCEPT ![m] = "wanted"]

-----------------------------------------------------------------------------
(* Worker.Enqueue: a record in flight is dropped, and so is one that finds *)
(* the channel full.  The mutex is let go between the test and the send: a *)
(* record that a consumer takes up in between is sent all the same.        *)
Enqueue(r) ==
  \/ /\ r \in inFlight \/ Len(chan) >= QueueCap
     /\ UNCHANGED chan
  \/ /\ Len(chan) < QueueCap
     /\ chan' = Append(chan, r)

(* import_scan: every record at status importing is enqueued again.        *)
Scan(r) ==
  /\ status[r] = "importing"
  /\ Enqueue(r)
  /\ UNCHANGED <<dbVars, fsVars, inFlight, worker, monVars, cancel, crashes>>

-----------------------------------------------------------------------------
(* CheckStatus.  One tick reads the downloading records, then handles each *)
(* of them in a goroutine of its own; the scheduler never overlaps ticks.  *)
TickDone == polled = {} /\ flipped = {} /\ purge = NoPurge

Poll ==
  /\ TickDone /\ completed = {}
  /\ polled' = {r \in Records : status[r] = "downloading"}
  /\ polled' # {}
  /\ UNCHANGED <<dbVars, fsVars, queueVars, worker, flipped, completed, purge,
                 cancel, crashes>>

(* The torrent still downloads: the tick leaves the record alone.          *)
StillDownloading(r) ==
  /\ r \in polled
  /\ polled' = polled \ {r}
  /\ UNCHANGED <<dbVars, fsVars, queueVars, worker, flipped, completed, purge,
                 cancel, crashes>>

(* The torrent is seeding or completed.  The status write is an update by  *)
(* id: it fails only when the record is gone.                              *)
FlipImporting(r) ==
  /\ r \in polled
  /\ polled' = polled \ {r}
  /\ IF status[r] = "deleted"
     THEN UNCHANGED <<status, flipped>>
     ELSE /\ status' = [status EXCEPT ![r] = "importing"]
          /\ flipped' = flipped \cup {r}
  /\ UNCHANGED <<attempts, saved, movie, rows, fsVars, queueVars, worker,
                 completed, purge, cancel, crashes>>

(* SetDownloadRecordSavePath.  A failed write is only logged, and the      *)
(* record is handed on all the same.                                       *)
PersistSavePath(r) ==
  /\ r \in flipped
  /\ flipped' = flipped \ {r}
  /\ completed' = completed \cup {r}
  /\ saved' \in {saved, saved \cup {r}}
  /\ UNCHANGED <<status, attempts, movie, rows, fsVars, queueVars, worker,
                 polled, purge, cancel, crashes>>

(* The monitor job, once every goroutine of the tick is done.              *)
EnqueueCompleted(r) ==
  /\ TickDone
  /\ r \in completed
  /\ completed' = completed \ {r}
  /\ Enqueue(r)
  /\ UNCHANGED <<dbVars, fsVars, inFlight, worker, polled, flipped, purge,
                 cancel, crashes>>

(* purgeOrphanedRecord: the torrent is gone from the client, and the       *)
(* record old enough to say so.  The record is deleted and its movie       *)
(* reverted unless it has a file; a database error ends it there.          *)
TorrentGone(r) ==
  /\ r \in polled \cap Vanishing
  /\ polled' = polled \ {r}
  /\ purge' = [purge EXCEPT ![r] = "delete"]
  /\ UNCHANGED <<dbVars, fsVars, queueVars, worker, flipped, completed, cancel,
                 crashes>>

PurgeDelete(r) ==
  /\ purge[r] = "delete"
  /\ \/ /\ status[r] # "deleted"
        /\ status' = [status EXCEPT ![r] = "deleted"]
        /\ purge' = [purge EXCEPT ![r] = "check"]
     \/ /\ purge' = [purge EXCEPT ![r] = "none"]
        /\ UNCHANGED status
  /\ UNCHANGED <<attempts, saved, movie, rows, fsVars, queueVars, worker,
                 polled, flipped, completed, cancel, crashes>>

PurgeCheck(r) ==
  /\ purge[r] = "check"
  /\ \/ /\ RowsOf(MovieOf[r]) = {}
        /\ purge' = [purge EXCEPT ![r] = "revert"]
     \/ purge' = [purge EXCEPT ![r] = "none"]
  /\ UNCHANGED <<dbVars, fsVars, queueVars, worker, polled, flipped, completed,
                 cancel, crashes>>

PurgeRevert(r) ==
  /\ purge[r] = "revert"
  /\ RevertMovie(MovieOf[r])
  /\ purge' = [purge EXCEPT ![r] = "none"]
  /\ UNCHANGED <<status, attempts, saved, rows, fsVars, queueVars, worker,
                 polled, flipped, completed, cancel, crashes>>

Purge(r) == TorrentGone(r) \/ PurgeDelete(r) \/ PurgeCheck(r) \/ PurgeRevert(r)

-----------------------------------------------------------------------------
(* The consumers.                                                          *)
Goto(c, pc) == worker' = [worker EXCEPT ![c].pc = pc]

(* As Goto, with the old files that are left to remove.                    *)
GotoWith(c, pc, old) == worker' = [worker EXCEPT ![c].pc = pc, ![c].old = old]

(* As Goto, once the locals of importMovieRecord are dead.                 *)
Leave(c, pc, err) ==
  worker' = [worker EXCEPT ![c] = [Idle EXCEPT !.pc = pc,
                                               !.rec = worker[c].rec,
                                               !.err = err]]

FailWith(c, err) == Leave(c, "outcome", err)

ConsumeTwice(c) ==
  /\ worker[c].pc = "idle"
  /\ chan # <<>>
  /\ chan' = Tail(chan)
  /\ inFlight' = inFlight \cup {Head(chan)}
  /\ worker' = [worker EXCEPT ![c] = [Idle EXCEPT !.pc = "find",
                                                  !.rec = Head(chan)]]
  /\ UNCHANGED <<dbVars, fsVars, monVars, cancel, crashes>>

(* consume: take an id off the channel; drop it when it is in flight.      *)
Consume(c) ==
  /\ worker[c].pc = "idle"
  /\ chan # <<>>
  /\ chan' = Tail(chan)
  /\ IF Head(chan) \in inFlight
     THEN UNCHANGED <<inFlight, worker>>
     ELSE /\ inFlight' = inFlight \cup {Head(chan)}
          /\ worker' = [worker EXCEPT ![c] = [Idle EXCEPT !.pc = "find",
                                                          !.rec = Head(chan)]]
  /\ UNCHANGED <<dbVars, fsVars, monVars, cancel, crashes>>

(* runImport: re-read the record; one that is no longer importing is done. *)
(* The save path is kept as read here; an unset one, like one outside every *)
(* root, is refused.  A failed read is an outcome like any other.          *)
FindImporting(c) ==
  LET r == worker[c].rec IN
  /\ worker[c].pc = "find"
  /\ \/ /\ status[r] # "importing"
        /\ Leave(c, "release", "nil")
     \/ FailWith(c, "retryable")
     \/ /\ status[r] = "importing"
        /\ RootsConfigured /\ r \notin saved
        /\ FailWith(c, "terminal")
     \/ /\ status[r] = "importing"
        /\ ~RootsConfigured \/ r \in saved
        /\ worker' = [worker EXCEPT ![c].pc = "list", ![c].path = r \in saved]
  /\ UNCHANGED <<dbVars, fsVars, queueVars, monVars, cancel, crashes>>

(* importMovieRecord: a movie that has a file is replaced or refused.      *)
ListExisting(c) ==
  LET r == worker[c].rec
      old == RowsOf(MovieOf[r])
  IN
  /\ worker[c].pc = "list"
  /\ \/ FailWith(c, "retryable")
     \/ /\ old = {}
        /\ Goto(c, "resolve")
     \/ /\ old # {} /\ r \notin Replacing
        /\ FailWith(c, "terminal")
     \/ /\ old # {} /\ r \in Replacing
        /\ GotoWith(c, "unlink", old)
  /\ UNCHANGED <<dbVars, fsVars, queueVars, monVars, cancel, crashes>>

(* replaceMovieFiles, for one old file after the other: os.Remove, whose   *)
(* failure is only logged, then DeleteMediaFileAndRevertMovie in a         *)
(* transaction, whose failure ends the import.                             *)
OldFile(c) == CHOOSE f \in worker[c].old : TRUE

RemoveOldFile(c) ==
  /\ worker[c].pc = "unlink"
  /\ Goto(c, "unrow")
  /\ \/ /\ disk' = [disk EXCEPT ![DestOf[OldFile(c)]] = None]
        /\ partial' = partial \ {DestOf[OldFile(c)]}
     \/ UNCHANGED <<disk, partial>>
  /\ UNCHANGED <<dbVars, source, mode, queueVars, monVars, cancel,
                 crashes>>

DeleteOldRow(c) ==
  LET f == OldFile(c)
      rest == worker[c].old \ {f}
  IN
  /\ worker[c].pc = "unrow"
  /\ \/ /\ f \in rows
        /\ rows' = rows \ {f}
        /\ RevertMovie(MovieOf[worker[c].rec])
        /\ GotoWith(c, IF rest = {} THEN "resolve" ELSE "unlink", rest)
     \/ /\ FailWith(c, "retryable")
        /\ UNCHANGED <<rows, movie>>
  /\ UNCHANGED <<status, attempts, saved, fsVars, queueVars, monVars, cancel,
                 crashes>>

(* placeFile up to the transfer: find the media file, make the directory,  *)
(* stat the destination.  A download that is gone leaves no directory or   *)
(* an empty one; a destination that is the source's own inode counts as    *)
(* placed, any other one is ErrDestExists, and one that cannot be looked   *)
(* at counts as free.                                                      *)
OwnInodeAny(r) == disk[DestOf[r]] # None

OwnInodeNever(r) == FALSE

OwnInode(r) == mode = "hardlink" /\ disk[DestOf[r]] = r /\ source[r] # "gone"

ResolveDest(c) ==
  LET r == worker[c].rec
      found == worker[c].path /\ source[r] = "good"
  IN
  /\ worker[c].pc = "resolve"
  /\ \/ FailWith(c, "retryable")
     \/ /\ worker[c].path /\ source[r] # "good"
        /\ FailWith(c, "terminal")
     \/ /\ found
        /\ Leave(c, "transfer", "nil")
     \/ /\ found /\ OwnInode(r)
        /\ Leave(c, "record", "nil")
     \/ /\ found /\ disk[DestOf[r]] # None /\ ~OwnInode(r)
        /\ FailWith(c, "terminal")
  /\ UNCHANGED <<dbVars, fsVars, queueVars, monVars, cancel, crashes>>

(* transferFile.  os.Link refuses a destination that appeared since the    *)
(* stat, os.Rename overwrites it, os.Create truncates it.                  *)
Transfer(c) ==
  LET r == worker[c].rec
      p == DestOf[r]
  IN
  /\ worker[c].pc = "transfer"
  /\ \/ /\ FailWith(c, "retryable")
        /\ UNCHANGED <<disk, partial, source>>
     \/ /\ source[r] # "gone" /\ mode = "hardlink" /\ disk[p] = None
        /\ disk' = [disk EXCEPT ![p] = r]
        /\ Leave(c, "record", "nil")
        /\ UNCHANGED <<partial, source>>
     \/ /\ source[r] # "gone" /\ mode = "move"
        /\ disk' = [disk EXCEPT ![p] = r]
        /\ partial' = partial \ {p}
        /\ source' = [source EXCEPT ![r] = "gone"]
        /\ Leave(c, "record", "nil")
     \/ /\ source[r] # "gone" /\ mode = "copy"
        /\ disk' = [disk EXCEPT ![p] = r]
        /\ partial' = partial \cup {p}
        /\ Goto(c, "copying")
        /\ UNCHANGED source
  /\ UNCHANGED <<dbVars, mode, queueVars, monVars, cancel, crashes>>

(* copyFile: io.Copy ends, or fails and leaves the truncated destination.  *)
Copy(c) ==
  LET p == DestOf[worker[c].rec] IN
  /\ worker[c].pc = "copying"
  /\ \/ /\ FailWith(c, "retryable")
        /\ UNCHANGED partial
     \/ /\ Leave(c, "record", "nil")
        /\ partial' = IF disk[p] = worker[c].rec THEN partial \ {p} ELSE partial
  /\ UNCHANGED <<dbVars, disk, source, mode, queueVars, monVars,
                 cancel, crashes>>

(* RecordImportSuccess: row, record and movie in one transaction, rolled   *)
(* back when the record is gone or the database fails.  What follows it    *)
(* (requests, media servers, cleanupTorrent without the data) touches none *)
(* of this module's state.                                                 *)
RecordSuccess(c) ==
  LET r == worker[c].rec IN
  /\ worker[c].pc = "record"
  /\ \/ /\ FailWith(c, "retryable")
        /\ UNCHANGED <<rows, status, movie>>
     \/ /\ status[r] # "deleted"
        /\ rows' = rows \cup {r}
        /\ status' = [status EXCEPT ![r] = "completed"]
        /\ movie' = [movie EXCEPT ![MovieOf[r]] = "available"]
        /\ Leave(c, "release", "nil")
  /\ UNCHANGED <<attempts, saved, fsVars, queueVars, monVars, cancel, crashes>>

(* handleOutcome of an error: re-read the record and decide whether this   *)
(* attempt is the last one.  A record that stopped importing meanwhile is  *)
(* left alone, and so is everything when the database fails.               *)
FailureAppliesAlways(r) == TRUE

FailureApplies(r) == status[r] = "importing"

LastAttemptOffByOne(n) == n > MaxAttempts

LastAttempt(n) == n >= MaxAttempts

HandleOutcome(c) ==
  LET r == worker[c].rec
      err == IF LastAttempt(attempts[r] + 1) THEN "terminal" ELSE worker[c].err
  IN
  /\ worker[c].pc = "outcome"
  /\ \/ Leave(c, "release", "nil")
     \/ FailureApplies(r) /\ Leave(c, "report", err)
  /\ UNCHANGED <<dbVars, fsVars, queueVars, monVars, cancel, crashes>>

(* RecordImportFailure: count the attempt and, when it was the last one,   *)
(* fail the record and its movie.  The record is written by its id, so     *)
(* only one that was deleted meanwhile is left alone.                      *)
RecordFailure(c) ==
  LET r == worker[c].rec IN
  /\ worker[c].pc = "report"
  /\ Leave(c, "release", "nil")
  /\ \/ UNCHANGED <<attempts, status, movie>>
     \/ /\ status[r] # "deleted"
        /\ attempts' = [attempts EXCEPT ![r] = @ + 1]
        /\ IF worker[c].err = "terminal"
           THEN /\ status' = [status EXCEPT ![r] = "failed"]
                /\ movie' = [movie EXCEPT ![MovieOf[r]] = "failed"]
           ELSE UNCHANGED <<status, movie>>
  /\ UNCHANGED <<saved, rows, fsVars, queueVars, monVars, cancel, crashes>>

ReleaseForgotten(c) ==
  /\ worker[c].pc = "release"
  /\ worker' = [worker EXCEPT ![c] = Idle]
  /\ UNCHANGED <<dbVars, fsVars, chan, inFlight, monVars, cancel, crashes>>

(* consume's deferred delete: the record may be enqueued again.            *)
Release(c) ==
  /\ worker[c].pc = "release"
  /\ inFlight' = inFlight \ {worker[c].rec}
  /\ worker' = [worker EXCEPT ![c] = Idle]
  /\ UNCHANGED <<dbVars, fsVars, chan, monVars, cancel, crashes>>

Import(c) ==
  \/ FindImporting(c) \/ ListExisting(c) \/ RemoveOldFile(c) \/ DeleteOldRow(c)
  \/ ResolveDest(c) \/ Transfer(c) \/ Copy(c) \/ RecordSuccess(c)
  \/ HandleOutcome(c) \/ RecordFailure(c) \/ Release(c)

-----------------------------------------------------------------------------
(* CancelQueueItem, one request at a time: find the active record, remove  *)
(* its torrent with the data (an error is only logged), delete the record, *)
(* revert the movie unless it has a file.  A database error ends it there. *)
CancelFind(r) ==
  /\ cancel.pc = "idle"
  /\ r \in Cancellable
  /\ status[r] \in Active
  /\ cancel' = [pc |-> "remove", rec |-> r]
  /\ UNCHANGED <<dbVars, fsVars, queueVars, worker, monVars, crashes>>

CancelTorrent ==
  /\ cancel.pc = "remove"
  /\ cancel' = [cancel EXCEPT !.pc = "delete"]
  /\ source' \in {source, [source EXCEPT ![cancel.rec] = "gone"]}
  /\ UNCHANGED <<dbVars, disk, partial, mode, queueVars, worker, monVars,
                 crashes>>

CancelDelete ==
  /\ cancel.pc = "delete"
  /\ \/ /\ status[cancel.rec] # "deleted"
        /\ status' = [status EXCEPT ![cancel.rec] = "deleted"]
        /\ cancel' = [cancel EXCEPT !.pc = "check"]
     \/ /\ cancel' = NoCancel
        /\ UNCHANGED status
  /\ UNCHANGED <<attempts, saved, movie, rows, fsVars, queueVars, worker,
                 monVars, crashes>>

CancelCheck ==
  /\ cancel.pc = "check"
  /\ \/ /\ RowsOf(MovieOf[cancel.rec]) = {}
        /\ cancel' = [cancel EXCEPT !.pc = "revert"]
     \/ cancel' = NoCancel
  /\ UNCHANGED <<dbVars, fsVars, queueVars, worker, monVars, crashes>>

CancelRevert ==
  /\ cancel.pc = "revert"
  /\ RevertMovie(MovieOf[cancel.rec])
  /\ cancel' = NoCancel
  /\ UNCHANGED <<status, attempts, saved, rows, fsVars, queueVars, worker,
                 monVars, crashes>>

(* The process dies and restarts: database and disk survive, the channel,  *)
(* the in-flight set and every goroutine do not.                           *)
Crash ==
  /\ crashes < MaxCrashes
  /\ crashes' = crashes + 1
  /\ chan' = <<>>
  /\ inFlight' = {}
  /\ worker' = [c \in Consumers |-> Idle]
  /\ polled' = {}
  /\ flipped' = {}
  /\ completed' = {}
  /\ purge' = NoPurge
  /\ cancel' = NoCancel
  /\ UNCHANGED <<dbVars, fsVars>>

-----------------------------------------------------------------------------
Next ==
  \/ \E r \in Records : Scan(r)
  \/ Poll
  \/ \E r \in Records :
       \/ StillDownloading(r) \/ FlipImporting(r) \/ PersistSavePath(r)
       \/ EnqueueCompleted(r)
       \/ Purge(r)
  \/ \E c \in Consumers : Consume(c) \/ Import(c)
  \/ \E r \in Records : CancelFind(r)
  \/ CancelTorrent \/ CancelDelete \/ CancelCheck \/ CancelRevert
  \/ Crash

Spec == Init /\ [][Next]_vars

(* Goroutines run, import_scan ticks for ever, and the database does not   *)
(* refuse the failure report every time: neither its read nor its write.   *)
Fairness ==
  /\ \A r \in Records : WF_vars(Scan(r))
  /\ \A c \in Consumers :
       /\ WF_vars(Consume(c)) /\ WF_vars(Import(c))
       /\ SF_vars(HandleOutcome(c) /\ worker'[c].pc = "report")
       /\ SF_vars(RecordFailure(c) /\ attempts' # attempts)

FairSpec == Spec /\ Fairness

-----------------------------------------------------------------------------
(***************************************************************************)
(* Properties.                                                             *)
(***************************************************************************)

(* The in-flight set is exact: a busy consumer's record is in it, no two   *)
(* consumers import one record, and no record is left behind in it, which  *)
(* would make Enqueue drop it for ever (importer.go, consume and Enqueue). *)
InFlightExact ==
  /\ inFlight = {worker[c].rec : c \in {d \in Consumers : worker[d].pc # "idle"}}
  /\ \A c, d \in Consumers :
       worker[c].pc # "idle" /\ worker[c].rec = worker[d].rec => c = d

(* Under retries, stale queue entries, cancels and crashes the importer    *)
(* does to records and rows only what ImportLedger allows.                 *)
Ledger == INSTANCE ImportLedger
            WITH Records <- Records, MovieOf <- MovieOf,
                 Replacing <- Replacing, Imported <- Imported,
                 status <- status, rows <- rows
LedgerSpec == Ledger!Spec

(* A movie shown as available has a media file (RecordImportSuccess and    *)
(* DeleteMediaFileAndRevertMovie keep the two together).                   *)
AvailableHasRow ==
  \A m \in Movies : movie[m] = "available" => RowsOf(m) # {}

(* A movie that has a file is not wanted, or the next search would grab it *)
(* again (RevertMovieToWantedIfNoFile reads and writes in two statements). *)
WantedIsFileless ==
  \A m \in Movies : movie[m] = "wanted" => RowsOf(m) = {}

(* No row names a half-copied file: what a failed or interrupted copy      *)
(* leaves behind is refused by the next attempt, never taken for a file.   *)
NoTruncatedRow ==
  \A r \in rows : disk[DestOf[r]] = r => DestOf[r] \notin partial

(* A row is written only when its record's own file is at the destination. *)
FileBeforeRow ==
  [][\A r \in rows' \ rows : disk[DestOf[r]] = r]_vars

(* With hardlinks a retry recognises its own earlier placement, so a file  *)
(* in place fails only by using up every attempt (placeFile, os.SameFile). *)
PlacedFailsLate(r) ==
  status[r] = "failed" /\ disk[DestOf[r]] = r /\ source[r] = "good"
    => attempts[r] = MaxAttempts

HardlinkRetryIdempotent ==
  mode = "hardlink" => \A r \in Records : PlacedFailsLate(r)

(* "A movie holds at most one media file" (importMovieRecord).             *)
AtMostOneFile ==
  \A r, s \in rows : MovieOf[r] = MovieOf[s] => r = s

(* An importing record either has its save path or the monitor tick is     *)
(* about to write it: import_scan can resume it after a restart without    *)
(* asking the download client again (SetDownloadRecordSavePath).           *)
ImportingIsResumable ==
  \A r \in Records : status[r] = "importing" => r \in saved \cup flipped

(* Every importing record stops importing: a dropped enqueue, a lost queue *)
(* and a failed attempt are all made up for by import_scan.                *)
ImportingSettles ==
  \A r \in Records : status[r] = "importing" ~> status[r] # "importing"
=============================================================================
