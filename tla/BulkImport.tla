------------------------------ MODULE BulkImport ------------------------------
(***************************************************************************)
(* Bulk import of movies (internal/library/bulkimport): a scan matches the *)
(* files of a directory, a reviewer decides, a commit attaches them to the *)
(* library.  Requests answer at once; the scan and the commit go on in     *)
(* goroutines, one per file in a commit, that follow the status of the     *)
(* scan in the database or do not look at it any more.                     *)
(*                                                                         *)
(* One step is one statement or file-system call.  What the reviewer       *)
(* decided is whatever set of files ListImportScanFilesForCommit returns.  *)
(* Outcomes and counts are reporting and left out.                         *)
(***************************************************************************)
EXTENDS Naturals, FiniteSets

CONSTANTS
  Scans,      \* import_scan ids
  Files,      \* media files in the scanned directory
  Movies,
  MovieOf,    \* what the provider matches a file with
  Known,      \* movies in the library at first, each with the file OldOf[m]
  OldOf,
  DirOf,      \* the directory a file lies in
  PlacedOf,   \* where commitRename places a file
  Clients,    \* requests, and the commit each of them may have started
  Modes,      \* subset of {"in_place", "rename"}
  Faults,     \* subset of {"db", "status", "disk", "crash"}
  MaxRows     \* bound of the model: media_file rows ever written

ASSUME ConstantsAssumption ==
  /\ \A f \in Files : MovieOf[f] \in Movies
  /\ Known \subseteq Movies
  /\ Modes \subseteq {"in_place", "rename"}
  /\ Faults \subseteq {"db", "status", "disk", "crash"}
  /\ \A f \in Files : PlacedOf[f] \notin Files
  /\ MaxRows \in Nat

VARIABLES
  status,     \* scan -> import_scan.status; "free", "deleted": no such row
  mode,       \* scan -> import_scan.mode
  class,      \* scan -> file -> classification, "none" without a row
  lost,       \* ghost: scan -> files whose batch could not be written
  unwritten,  \* ghost: scans whose last status could not be written
  added, available,  \* movies in the library, and those with that status
  rows,       \* media_file: [id, movie, path]
  nextRow,
  disk,       \* paths that exist
  scanner,    \* scan -> runScan
  request,    \* client -> the request in progress
  commit,     \* client -> the runCommit it started
  worker      \* client -> file -> commitOne

scanVars == <<status, mode, class, lost, unwritten>>
libVars == <<added, available, rows, nextRow, disk>>
vars == <<status, mode, class, lost, unwritten, added, available, rows,
          nextRow, disk, scanner, request, commit, worker>>

Active == {"running", "committing"}
NoScanner == [pc |-> "off", known |-> {}, todo |-> {}, live |-> TRUE]
NoRequest == [pc |-> "idle", scan |-> "none"]
NoCommit == [pc |-> "off", scan |-> "none", files |-> {}]
NoWorker == [pc |-> "off", old |-> {}, removed |-> {}, path |-> "none"]

\* A worker that has no files to remove, with the path of its file.
Placing(pc, path) == [pc |-> pc, old |-> {}, removed |-> {}, path |-> path]

Init ==
  /\ status = [s \in Scans |-> "free"]
  /\ mode = [s \in Scans |-> "none"]
  /\ class = [s \in Scans |-> [f \in Files |-> "none"]]
  /\ lost = [s \in Scans |-> {}]
  /\ unwritten = {}
  /\ added = Known
  /\ available = Known
  /\ rows = {[id |-> 0, movie |-> m, path |-> OldOf[m]] : m \in Known}
  /\ nextRow = 1
  /\ disk = Files \cup {OldOf[m] : m \in Known}
  /\ scanner = [s \in Scans |-> NoScanner]
  /\ request = [c \in Clients |-> NoRequest]
  /\ commit = [c \in Clients |-> NoCommit]
  /\ worker = [c \in Clients |-> [f \in Files |-> NoWorker]]

-----------------------------------------------------------------------------
(* Statements. *)

\* UpdateImportScanStatus: unconditional, an error when the row is gone.
SetStatus(s, v) ==
  /\ status[s] # "deleted"
  /\ status' = [status EXCEPT ![s] = v]
  /\ unwritten' = unwritten \ {s}

\* Its error, which the goroutines only log.
FailToSet(s) ==
  /\ status[s] = "deleted" \/ "status" \in Faults
  /\ UNCHANGED status

LoseStatus(s) == FailToSet(s) /\ unwritten' = unwritten \cup {s}

\* The status a goroutine leaves the scan with.
TrySetStatus(s, v) == SetStatus(s, v) \/ LoseStatus(s)

-----------------------------------------------------------------------------
(* StartScan: count the active scans, then create one. *)

CountActive(c) ==
  /\ request[c].pc = "idle"
  /\ \A s \in Scans : status[s] \notin Active
  /\ request' = [request EXCEPT ![c].pc = "create"]
  /\ UNCHANGED <<scanVars, libVars, scanner, commit, worker>>

CreateScan(c, s) ==
  /\ request[c].pc = "create"
  /\ status[s] = "free"
  /\ status' = [status EXCEPT ![s] = "running"]
  /\ \E m \in Modes : mode' = [mode EXCEPT ![s] = m]
  /\ scanner' = [scanner EXCEPT ![s].pc = "walk"]
  /\ request' = [request EXCEPT ![c] = NoRequest]
  /\ UNCHANGED <<class, lost, unwritten, libVars, commit, worker>>

-----------------------------------------------------------------------------
(* runScan. *)

\* walkSourceDir, then the total: the status is written once more, and the
\* scan goes on when that fails.
Walk(s) ==
  /\ scanner[s].pc = "walk"
  /\ \/ /\ \/ SetStatus(s, "running")
           \/ FailToSet(s) /\ UNCHANGED unwritten
        /\ scanner' = [scanner EXCEPT ![s].pc = "existing",
                                      ![s].todo = Files \cap disk]
     \/ /\ "disk" \in Faults
        /\ TrySetStatus(s, "failed")
        /\ scanner' = [scanner EXCEPT ![s] = NoScanner]
  /\ UNCHANGED <<mode, class, lost, libVars, request, commit, worker>>

\* buildExistingMap: read once; a failed read makes every movie new.
BuildExisting(s) ==
  /\ scanner[s].pc = "existing"
  /\ \/ scanner' = [scanner EXCEPT ![s].pc = "match", ![s].known = added]
     \/ /\ "db" \in Faults
        /\ scanner' = [scanner EXCEPT ![s].pc = "match"]
  /\ UNCHANGED <<scanVars, libVars, request, commit, worker>>

\* classifyOne; a failed or vague lookup leaves the file to the reviewer.
ClassOf(f, known) ==
  {"review"} \cup IF MovieOf[f] \in known THEN {"existing"} ELSE {"confirmed"}

\* A batch of classified files is written, or its error logged.
Persist(s) ==
  /\ scanner[s].pc = "match"
  /\ \E batch \in SUBSET scanner[s].todo \ {{}} :
       /\ scanner' = [scanner EXCEPT ![s].todo = @ \ batch]
       /\ \/ /\ status[s] # "deleted"
             /\ \E k \in [batch -> {"review", "existing", "confirmed"}] :
                  /\ \A f \in batch : k[f] \in ClassOf(f, scanner[s].known)
                  /\ class' = [class EXCEPT ![s] =
                                 [f \in Files |-> IF f \in batch THEN k[f]
                                                                 ELSE @[f]]]
             /\ UNCHANGED lost
          \/ /\ status[s] = "deleted" \/ "db" \in Faults
             /\ lost' = [lost EXCEPT ![s] = @ \cup batch]
             /\ UNCHANGED class
  /\ UNCHANGED <<status, mode, unwritten, libVars, request, commit, worker>>

\* The poll: no more files are started, those under way are still written.
StopMatching(s) ==
  /\ scanner[s].pc = "match"
  /\ scanner[s].todo # {} /\ scanner[s].live
  /\ status[s] \notin {"running", "deleted"}
  /\ \E started \in SUBSET scanner[s].todo :
       scanner' = [scanner EXCEPT ![s].todo = started, ![s].live = FALSE]
  /\ UNCHANGED <<scanVars, libVars, request, commit, worker>>

\* Mutant: the scan is opened for review although matching was stopped.
FinishScanAnyway(s) ==
  /\ scanner[s].pc = "match" /\ scanner[s].todo = {}
  /\ TrySetStatus(s, "awaiting_review")
  /\ scanner' = [scanner EXCEPT ![s] = NoScanner]
  /\ UNCHANGED <<mode, class, lost, libVars, request, commit, worker>>

\* All files are matched: the status is written whatever it is by now.
FinishScan(s) ==
  /\ scanner[s].pc = "match" /\ scanner[s].todo = {}
  /\ IF scanner[s].live THEN TrySetStatus(s, "awaiting_review")
                        ELSE UNCHANGED <<status, unwritten>>
  /\ scanner' = [scanner EXCEPT ![s] = NoScanner]
  /\ UNCHANGED <<mode, class, lost, libVars, request, commit, worker>>

-----------------------------------------------------------------------------
(* Cancel, Delete and Commit: find the scan, then write its status. *)

Find(c, s, pc, from) ==
  /\ request[c].pc = "idle"
  /\ status[s] \in from
  /\ request' = [request EXCEPT ![c] = [pc |-> pc, scan |-> s]]
  /\ UNCHANGED <<scanVars, libVars, scanner, commit, worker>>

FindToCancel(c, s) == Find(c, s, "cancel", Active)

Cancel(c) ==
  /\ request[c].pc = "cancel"
  /\ \/ SetStatus(request[c].scan, "cancelled")
     \/ status[request[c].scan] = "deleted" /\ UNCHANGED <<status, unwritten>>
  /\ request' = [request EXCEPT ![c] = NoRequest]
  /\ UNCHANGED <<mode, class, lost, libVars, scanner, commit, worker>>

FindToDelete(c, s) ==
  Find(c, s, "delete", {"awaiting_review", "completed", "cancelled", "failed"})

\* The rows of its files go with it.
Delete(c) ==
  LET s == request[c].scan IN
  /\ request[c].pc = "delete"
  /\ status' = [status EXCEPT ![s] = "deleted"]
  /\ class' = [class EXCEPT ![s] = [f \in Files |-> "none"]]
  /\ request' = [request EXCEPT ![c] = NoRequest]
  /\ UNCHANGED <<mode, lost, unwritten, libVars, scanner, commit, worker>>

FindToCommit(c, s) ==
  /\ commit[c] = NoCommit
  /\ Find(c, s, "commit", {"awaiting_review"})

Commit(c) ==
  LET s == request[c].scan IN
  /\ request[c].pc = "commit"
  /\ \/ /\ SetStatus(s, "committing")
        /\ commit' = [commit EXCEPT ![c] = [pc |-> "list", scan |-> s,
                                            files |-> {}]]
     \/ status[s] = "deleted" /\ UNCHANGED <<status, unwritten, commit>>
  /\ request' = [request EXCEPT ![c] = NoRequest]
  /\ UNCHANGED <<mode, class, lost, libVars, scanner, worker>>

-----------------------------------------------------------------------------
(* runCommit. *)

ListForCommit(c) ==
  LET s == commit[c].scan IN
  /\ commit[c].pc = "list"
  /\ \/ /\ \E chosen \in SUBSET {f \in Files : class[s][f] # "none"} :
             /\ commit' = [commit EXCEPT ![c].pc = "files",
                                         ![c].files = chosen]
             /\ worker' = [worker EXCEPT ![c] =
                  [f \in Files |->
                     IF f \notin chosen THEN NoWorker
                     ELSE Placing(IF class[s][f] = "existing" THEN "list"
                                                              ELSE "add",
                                  "none")]]
        /\ UNCHANGED <<status, unwritten>>
     \/ /\ "db" \in Faults
        /\ TrySetStatus(s, "failed")
        /\ commit' = [commit EXCEPT ![c] = NoCommit]
        /\ UNCHANGED worker
  /\ UNCHANGED <<mode, class, lost, libVars, scanner, request>>

\* Mutant: the last files are still under way.
FinishCommitEarly(c) ==
  /\ commit[c].pc = "files"
  /\ TrySetStatus(commit[c].scan, "completed")
  /\ commit' = [commit EXCEPT ![c] = NoCommit]
  /\ UNCHANGED <<mode, class, lost, libVars, scanner, request, worker>>

\* After wg.Wait.
FinishCommit(c) ==
  /\ commit[c].pc = "files"
  /\ \A f \in Files : worker[c][f].pc = "off"
  /\ TrySetStatus(commit[c].scan, "completed")
  /\ commit' = [commit EXCEPT ![c] = NoCommit]
  /\ UNCHANGED <<mode, class, lost, libVars, scanner, request, worker>>

-----------------------------------------------------------------------------
(* commitOne. *)

Become(c, f, w) == worker' = [worker EXCEPT ![c][f] = w]
Done(c, f) == Become(c, f, NoWorker)

\* A failed statement ends the file with an outcome; nothing is undone.
Fail(c, f) ==
  /\ "db" \in Faults
  /\ Done(c, f)
  /\ UNCHANGED libVars

\* commitAttach: a file the movie already has is done.
ListExisting(c, f) ==
  LET old == {r \in rows : r.movie = MovieOf[f]} IN
  /\ worker[c][f].pc = "list"
  /\ \/ /\ IF \E r \in old : r.path = f THEN Done(c, f)
           ELSE Become(c, f, [pc |-> IF old = {} THEN "create" ELSE "remove",
                              old |-> old, removed |-> {}, path |-> f])
        /\ UNCHANGED libVars
     \/ Fail(c, f)

\* os.Remove; an error is logged.
RemoveOld(c, f) ==
  /\ worker[c][f].pc = "remove"
  /\ \E r \in worker[c][f].old :
       /\ \/ disk' = disk \ {r.path}
          \/ "disk" \in Faults /\ UNCHANGED disk
       /\ Become(c, f, [pc |-> "unrow", old |-> worker[c][f].old \ {r},
                         removed |-> {r}, path |-> f])
  /\ UNCHANGED <<added, available, rows, nextRow>>

\* DeleteMediaFile by id: an error when another worker was faster.
DeleteOldRow(c, f) ==
  /\ worker[c][f].pc = "unrow"
  /\ \/ /\ worker[c][f].removed \subseteq rows
        /\ rows' = rows \ worker[c][f].removed
        /\ Become(c, f, [pc |-> IF worker[c][f].old = {} THEN "create"
                                                       ELSE "remove",
                          old |-> worker[c][f].old, removed |-> {}, path |-> f])
        /\ UNCHANGED <<added, available, nextRow, disk>>
     \/ /\ ~(worker[c][f].removed \subseteq rows)
        /\ Done(c, f)
        /\ UNCHANGED libVars
     \/ Fail(c, f)

\* commitAdoptInPlace, commitRename: a new movie.
Added(c, f) ==
  /\ added' = added \cup {MovieOf[f]}
  /\ Become(c, f, Placing(IF mode[commit[c].scan] = "rename" THEN "place"
                                                             ELSE "create", f))
  /\ UNCHANGED <<available, rows, nextRow, disk>>

\* Mutant: a movie that is there already is attached to.
AddMovieAnyway(c, f) ==
  /\ worker[c][f].pc = "add"
  /\ Added(c, f) \/ Fail(c, f)

\* movieSvc.Add refuses a known movie.
AddMovie(c, f) ==
  /\ worker[c][f].pc = "add"
  /\ \/ MovieOf[f] \notin added /\ Added(c, f)
     \/ MovieOf[f] \in added /\ Done(c, f) /\ UNCHANGED libVars
     \/ Fail(c, f)

\* findMediaFile looks into the directory of the file, and takes the only one
\* there or none; a movie is added once, so its destination is never taken.
InDir(f) == {g \in Files \cap disk : DirOf[g] = DirOf[f]}

\* ImportMovieWithMode: hardlink or copy, or a move; an error leaves the movie.
Place(c, f) ==
  /\ worker[c][f].pc = "place"
  /\ \/ \E g \in InDir(f) :
          /\ InDir(f) = {g}
          /\ disk' \in {disk \cup {PlacedOf[f]}, (disk \ {g}) \cup {PlacedOf[f]}}
          /\ Become(c, f, Placing("create", PlacedOf[f]))
          /\ UNCHANGED <<added, available, rows, nextRow>>
     \/ /\ Cardinality(InDir(f)) # 1 \/ "disk" \in Faults
        /\ Done(c, f)
        /\ UNCHANGED libVars

\* linkAndMarkAvailable: the row, then the status of the movie.
CreateRow(c, f) ==
  /\ worker[c][f].pc = "create"
  /\ \/ /\ nextRow <= MaxRows
        /\ rows' = rows \cup {[id |-> nextRow, movie |-> MovieOf[f],
                               path |-> worker[c][f].path]}
        /\ nextRow' = nextRow + 1
        /\ Become(c, f, Placing("flip", worker[c][f].path))
        /\ UNCHANGED <<added, available, disk>>
     \/ Fail(c, f)

MarkAvailable(c, f) ==
  /\ worker[c][f].pc = "flip"
  /\ \/ /\ available' = available \cup {MovieOf[f]}
        /\ Done(c, f)
        /\ UNCHANGED <<added, rows, nextRow, disk>>
     \/ Fail(c, f)

CommitOne(c, f) ==
  /\ \/ ListExisting(c, f) \/ RemoveOld(c, f) \/ DeleteOldRow(c, f)
     \/ AddMovie(c, f) \/ Place(c, f) \/ CreateRow(c, f) \/ MarkAvailable(c, f)
  /\ UNCHANGED <<scanVars, scanner, request, commit>>

-----------------------------------------------------------------------------
\* Mutant: only scans that were matching are aborted.
AbortMatching(s) == IF status[s] = "running" THEN "failed" ELSE status[s]

\* AbortInflight: one statement, before the server answers again.
Aborted(s) == IF status[s] \in Active THEN "failed" ELSE status[s]

\* The boot goes on when the statement fails.
BootAborts ==
  \/ /\ status' = [s \in Scans |-> Aborted(s)]
     /\ unwritten' = {}
  \/ /\ "status" \in Faults
     /\ unwritten' = {s \in Scans : status[s] \in Active}
     /\ UNCHANGED status

\* The process dies and boots.
Crash ==
  /\ "crash" \in Faults
  /\ BootAborts
  /\ scanner' = [s \in Scans |-> NoScanner]
  /\ request' = [c \in Clients |-> NoRequest]
  /\ commit' = [c \in Clients |-> NoCommit]
  /\ worker' = [c \in Clients |-> [f \in Files |-> NoWorker]]
  /\ UNCHANGED <<mode, class, lost, libVars>>

Requests(c) ==
  \/ CountActive(c)
  \/ Cancel(c) \/ Delete(c) \/ Commit(c)
  \/ \E s \in Scans : \/ CreateScan(c, s)
                      \/ FindToCancel(c, s)
                      \/ FindToDelete(c, s)
                      \/ FindToCommit(c, s)

RunScan(s) ==
  Walk(s) \/ BuildExisting(s) \/ Persist(s) \/ StopMatching(s) \/ FinishScan(s)

RunCommit(c) ==
  ListForCommit(c) \/ FinishCommit(c) \/ \E f \in Files : CommitOne(c, f)

Next ==
  \/ \E c \in Clients : Requests(c) \/ RunCommit(c)
  \/ \E s \in Scans : RunScan(s)
  \/ Crash

Spec == Init /\ [][Next]_vars

\* Goroutines run on, and a request that found its scan writes the status.
Fairness ==
  /\ \A s \in Scans : WF_vars(RunScan(s))
  /\ \A c \in Clients : WF_vars(RunCommit(c))

FairSpec == Spec /\ Fairness

-----------------------------------------------------------------------------
TypeOK ==
  /\ status \in [Scans -> {"free", "running", "awaiting_review", "committing",
                           "completed", "failed", "cancelled", "deleted"}]
  /\ \A r \in rows : r.id < nextRow /\ r.movie \in added
  /\ \A q, r \in rows : q.id = r.id /\ q.movie = r.movie => q = r
  /\ available \subseteq added
  /\ \A c \in Clients : commit[c] = NoCommit =>
       \A f \in Files : worker[c][f] = NoWorker

\* A reviewer sees every file there was (runMatchPhase): batches are written
\* by whichever goroutine fills one, a cancel may stop the matching half way,
\* and the scan must not come up for review with files missing.
ReviewComplete ==
  \A s \in Scans : status[s] = "awaiting_review" =>
    \A f \in Files : class[s][f] # "none" \/ f \in lost[s] \/ f \notin disk

\* A file accepted for a known movie "replaces whatever file it currently has"
\* (committer.go:252): whatever the files of one commit remove of each other,
\* one of the movie's files stays on disk.
MovieKeepsAFile ==
  \A m \in Known :
    OldOf[m] \in disk \/ \E f \in Files : MovieOf[f] = m /\ f \in disk

\* "A movie holds at most one media file" (committer.go:252): of the files
\* matched with the same new movie, committed at once, one adds the movie and
\* attaches its file, and a commit cut off by a crash is not taken up again by
\* one that attaches a second.
NewMovieOneFile ==
  \A q, r \in rows : q.movie = r.movie /\ q.movie \notin Known => q = r

\* No scan blocks the next one for ever (StartScan refuses while one is
\* active): matching and committing end, and a boot makes up for a crash in
\* them.  Only a final status that could not be written, by a goroutine or by
\* the boot, which is logged and not retried, leaves one active till the next
\* boot or cancel.
ScanSettles ==
  \A s \in Scans :
    status[s] \in Active ~> status[s] \notin Active \/ s \in unwritten
=============================================================================
