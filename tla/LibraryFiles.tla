----------------------------- MODULE LibraryFiles -----------------------------
(***************************************************************************)
(* Files of the movie library that move or vanish: the path migration      *)
(* (internal/library/pathmigrate), the drift check (internal/library/      *)
(* hygiene/drift.go) and the removal of a file by a user, over the         *)
(* media_file rows that say where the files are.                           *)
(*                                                                         *)
(* A movie has one file name, under one of two directories.  Time passes   *)
(* in intervals of the drift check: an age is the number of intervals that *)
(* began since last_seen_at.                                               *)
(***************************************************************************)
EXTENDS Naturals, FiniteSets

CONSTANTS
  Titles,     \* movies of the library
  Sides,      \* directories the library has been under
  Home,       \* the one it is under at first
  Askers,     \* requests, and the migration each of them may have started
  Grace,      \* cfg.DriftGraceTicks
  MaxFaults,  \* bounds of the model: failures, and rows of a movie
  MaxIds,
  NoRow, Never

ASSUME FilesAssumption ==
  /\ Home \in Sides
  /\ Grace \in Nat
  /\ Never \notin Nat
  /\ NoRow \notin [id : Nat, side : Sides, age : Nat \cup {Never}]

VARIABLES
  row,      \* media_file of a movie: [id, side, age]; a row written before
            \* last_seen_at had a default may have none: age Never
  ids,      \* movie -> rows it has had
  wanted,   \* movies with that status
  stored,   \* paths <<movie, side>> that exist
  root,     \* config.Library.MoviePath
  running,  \* pathmigrate: status.Running
  ask,      \* client -> its request
  move,     \* client -> the migration it started
  drift,    \* the drift check: rows read and not yet checked
  up,       \* the server runs
  due,      \* the drift check of this interval is still to come
  faults,   \* failures so far
  misses,   \* ghost: movie -> checks in a row at which the file was absent
  blind,    \* ghost: movies a check failed for or skipped since the last bump
  gone      \* ghost: movies with a file removed from outside or a move cut off

filesVars == <<row, ids, wanted, stored, root, running, ask, move, drift, up,
               due, faults, misses, blind, gone>>
shelfVars == <<row, ids, wanted, stored, root>>
ghosts == <<misses, blind, gone>>
serverVars == <<running, ask, move, drift>>

NoAsk == [pc |-> "idle"]
NoMove == [pc |-> "off"]
NoCheck == [pc |-> "idle"]
Old == Grace + 1      \* ages are not told apart from here on

FilesInit ==
  /\ root = Home
  /\ row \in [Titles ->
               {[id |-> 1, side |-> Home, age |-> a] : a \in {0, Never}}]
  /\ ids = [m \in Titles |-> 1]
  /\ wanted = {}
  /\ stored = {<<m, root>> : m \in Titles}
  /\ running = FALSE
  /\ ask = [c \in Askers |-> NoAsk]
  /\ move = [c \in Askers |-> NoMove]
  /\ drift = NoCheck
  /\ up = TRUE /\ due = FALSE /\ faults = 0
  /\ misses = [m \in Titles |-> 0]
  /\ blind = {} /\ gone = {}

Fault == faults < MaxFaults /\ faults' = faults + 1

\* Rows are addressed by id: one read earlier may be gone.
HasRow(m, id) == row[m] # NoRow /\ row[m].id = id

\* Mutant: the movie keeps its status.
DeleteOnly(m) == row' = [row EXCEPT ![m] = NoRow] /\ UNCHANGED wanted

\* DeleteMediaFileAndRevertMovie: one transaction.
DeleteAndRevert(m) ==
  /\ row' = [row EXCEPT ![m] = NoRow]
  /\ wanted' = wanted \cup {m}

-----------------------------------------------------------------------------
(* The path migration. *)

\* Start: resolve and collect; From and To differ.
Collect(c) ==
  /\ up /\ ask[c] = NoAsk
  /\ \E from, to \in Sides, mv \in BOOLEAN :
       /\ from # to
       /\ ask' = [ask EXCEPT ![c] =
            [pc |-> "start", from |-> from, to |-> to, mv |-> mv,
             targets |-> {<<m, row[m].id>> : m \in
                {n \in Titles : row[n] # NoRow /\ row[n].side = from}}]]
  /\ UNCHANGED <<shelfVars, running, move, drift, up, due, faults, ghosts>>

\* Then, under the lock, refuse or run.
Begin(c) ==
  /\ up /\ ask[c].pc = "start"
  /\ IF running THEN UNCHANGED <<running, move>>
     ELSE /\ running' = TRUE
          /\ move' = [move EXCEPT ![c] =
               [pc |-> "next", from |-> ask[c].from, to |-> ask[c].to,
                mv |-> ask[c].mv, targets |-> ask[c].targets]]
  /\ ask' = [ask EXCEPT ![c] = NoAsk]
  /\ UNCHANGED <<shelfVars, drift, up, due, faults, ghosts>>

\* Mutant: the source is looked for whether or not files are to be moved.
OnDiskSource(c, m) == <<m, move[c].from>> \in stored

OnDisk(c, m) ==
  <<m, IF move[c].mv THEN move[c].from ELSE move[c].to>> \in stored

\* One target: a row without a file is skipped.
Visit(c) ==
  /\ up /\ move[c].pc = "next"
  /\ \E t \in move[c].targets :
       \/ /\ ~OnDisk(c, t[1])
          /\ move' = [move EXCEPT ![c].targets = @ \ {t}]
       \/ /\ OnDisk(c, t[1])
          /\ move' = [move EXCEPT ![c] =
               [pc |-> IF @.mv THEN "move" ELSE "save", row |-> t,
                from |-> @.from, to |-> @.to, mv |-> @.mv,
                targets |-> @.targets \ {t}]]
  /\ UNCHANGED <<shelfVars, running, ask, drift, up, due, faults, ghosts>>

\* finish: the error, if any, is only reported.
Finish(c) == running' = FALSE /\ move' = [move EXCEPT ![c] = NoMove]

\* MoveFile: a rename, or a copy and then the removal of the source, which
\* may fail with both there.
MoveFile(c) ==
  LET m == move[c].row[1] IN
  /\ up /\ move[c].pc = "move"
  /\ \/ /\ <<m, move[c].from>> \in stored
        /\ stored' = (stored \ {<<m, move[c].from>>}) \cup {<<m, move[c].to>>}
        /\ move' = [move EXCEPT ![c].pc = "save"]
        /\ UNCHANGED <<running, faults>>
     \/ /\ <<m, move[c].from>> \notin stored
        /\ Finish(c)
        /\ UNCHANGED <<stored, faults>>
     \/ /\ Fault
        /\ stored' \in {stored, stored \cup {<<m, move[c].to>>}}
        /\ Finish(c)
  /\ UNCHANGED <<row, ids, wanted, root, ask, drift, up, due, ghosts>>

\* t.save: by id; an error ends the migration where it is.
Save(c) ==
  LET m == move[c].row[1] IN
  /\ up /\ move[c].pc = "save"
  /\ \/ /\ HasRow(m, move[c].row[2])
        /\ row' = [row EXCEPT ![m].side = move[c].to]
        /\ move' = [move EXCEPT ![c].pc = "next"]
        /\ UNCHANGED <<running, faults, gone>>
     \/ /\ \/ ~HasRow(m, move[c].row[2]) /\ UNCHANGED faults
           \/ Fault
        /\ Finish(c)
        /\ gone' = gone \cup {m}
        /\ UNCHANGED row
  /\ UNCHANGED <<ids, wanted, stored, root, ask, drift, up, due, misses, blind>>

\* persistRoot: only a root under From follows; its failure is reported.
PersistRoot(c) ==
  /\ up /\ move[c].pc = "next" /\ move[c].targets = {}
  /\ \/ /\ root' = IF root = move[c].from THEN move[c].to ELSE root
        /\ UNCHANGED faults
     \/ Fault /\ UNCHANGED root
  /\ Finish(c)
  /\ UNCHANGED <<row, ids, wanted, stored, ask, drift, up, due, ghosts>>

-----------------------------------------------------------------------------
(* The drift check. *)

Checking(rows) == IF rows = {} THEN NoCheck
                  ELSE [pc |-> "check", rows |-> rows]

\* RunDriftCheck: the rows are read once.
List ==
  /\ up /\ drift = NoCheck
  /\ drift' = Checking({[movie |-> m, id |-> row[m].id, side |-> row[m].side,
                         age |-> row[m].age] :
                           m \in {n \in Titles : row[n] # NoRow}})
  /\ UNCHANGED <<shelfVars, running, ask, move, up, faults, ghosts>>

\* The run of this interval, and one triggered by hand.
ScheduledRun == due /\ due' = FALSE /\ List
RunNow == UNCHANGED due /\ List

Checked(r) == drift' = Checking(drift.rows \ {r})

\* BumpMediaFileLastSeen: by id.
Bump(r) ==
  IF HasRow(r.movie, r.id)
  THEN /\ row' = [row EXCEPT ![r.movie].age = 0]
       /\ blind' = blind \ {r.movie}
  ELSE UNCHANGED <<row, blind>>

Counted(r) ==
  misses' = [misses EXCEPT ![r.movie] =
    IF ~HasRow(r.movie, r.id) THEN @
    ELSE IF <<r.movie, r.side>> \in stored THEN 0
    ELSE IF @ < Grace THEN @ + 1 ELSE @]

\* The file is where the row said it is.
Seen(r) ==
  /\ <<r.movie, r.side>> \in stored
  /\ Bump(r)
  /\ UNCHANGED <<wanted, faults>>

\* last_seen_at is nil: the grace period begins.
MissingFirst(r) == r.age = Never

\* Mutant: the window is one interval short.
PastEarly(r) == r.age # Never /\ r.age >= Grace - 1

\* time.Since(*row.LastSeenAt) against the window: as many intervals have begun
\* may have lasted a little less.
Within(r) == r.age # Never /\ r.age <= Grace
Past(r) == r.age # Never /\ r.age >= Grace

\* handleMissing.  Deleting by an id that is gone is an error, and logged.
Missing(r) ==
  LET m == r.movie IN
  /\ <<m, r.side>> \notin stored
  /\ \/ /\ MissingFirst(r)
        /\ Bump(r)
        /\ UNCHANGED wanted
     \/ /\ ~MissingFirst(r) /\ Within(r)
        /\ UNCHANGED <<row, wanted, blind>>
     \/ /\ ~MissingFirst(r) /\ Past(r)
        /\ IF HasRow(m, r.id) THEN DeleteAndRevert(m)
                              ELSE UNCHANGED <<row, wanted>>
        /\ UNCHANGED blind
  /\ UNCHANGED faults

\* A stat or a statement fails: the next run tries again.
CheckFails(r) ==
  /\ Fault
  /\ blind' = blind \cup {r.movie}
  /\ UNCHANGED <<row, wanted>>

Check ==
  /\ up /\ drift.pc = "check"
  /\ \E r \in drift.rows :
       /\ Seen(r) \/ Missing(r) \/ CheckFails(r)
       /\ Checked(r) /\ Counted(r)
  /\ UNCHANGED <<ids, stored, root, running, ask, move, up, due, gone>>

-----------------------------------------------------------------------------
(* movie.DeleteFile: find the row, remove the file, delete the row. *)

FindFile(c) ==
  /\ up /\ ask[c] = NoAsk
  /\ \E m \in Titles :
       /\ row[m] # NoRow
       /\ ask' = [ask EXCEPT ![c] = [pc |-> "unlink", movie |-> m,
                                     id |-> row[m].id, side |-> row[m].side]]
  /\ UNCHANGED <<shelfVars, running, move, drift, up, due, faults, ghosts>>

\* The file goes first; a path outside the configured root is not removed.
Unlink(c) ==
  LET path == <<ask[c].movie, ask[c].side>> IN
  /\ up /\ ask[c].pc = "unlink"
  /\ \/ /\ stored' = IF ask[c].side = root THEN stored \ {path} ELSE stored
        /\ gone' = IF ask[c].side = root THEN gone \cup {ask[c].movie} ELSE gone
        /\ UNCHANGED faults
     \/ Fault /\ UNCHANGED <<stored, gone>>
  /\ ask' = [ask EXCEPT ![c].pc = "unrow"]
  /\ UNCHANGED <<row, ids, wanted, root, running, move, drift, up, due,
                 misses, blind>>

Unrow(c) ==
  /\ up /\ ask[c].pc = "unrow"
  /\ \/ /\ IF HasRow(ask[c].movie, ask[c].id) THEN DeleteAndRevert(ask[c].movie)
                                              ELSE UNCHANGED <<row, wanted>>
        /\ UNCHANGED faults
     \/ Fault /\ UNCHANGED <<row, wanted>>
  /\ ask' = [ask EXCEPT ![c] = NoAsk]
  /\ UNCHANGED <<ids, stored, root, running, move, drift, up, due, ghosts>>

-----------------------------------------------------------------------------
(* The surroundings. *)

\* External: a new file is imported for a wanted movie (module ImportWorker).
Reimport(m) ==
  /\ up /\ m \in wanted /\ ids[m] < MaxIds
  /\ stored' = stored \cup {<<m, root>>}
  /\ row' = [row EXCEPT ![m] = [id |-> ids[m] + 1, side |-> root, age |-> 0]]
  /\ ids' = [ids EXCEPT ![m] = @ + 1]
  /\ wanted' = wanted \ {m}
  /\ misses' = [misses EXCEPT ![m] = 0]
  /\ blind' = blind \ {m}
  /\ gone' = gone \ {m}
  /\ UNCHANGED <<root, running, ask, move, drift, up, due, faults>>

\* External: someone removes or restores a file.
Vanish(m, s) ==
  /\ <<m, s>> \in stored
  /\ stored' = stored \ {<<m, s>>}
  /\ gone' = gone \cup {m}
  /\ UNCHANGED <<row, ids, wanted, root, serverVars, up, due, faults, misses,
                 blind>>

Appear(m, s) ==
  /\ <<m, s>> \notin stored
  /\ stored' = stored \cup {<<m, s>>}
  /\ UNCHANGED <<row, ids, wanted, root, serverVars, up, due, faults, ghosts>>

\* An interval passes; while the server is up, one drift check takes place in
\* each.  External: the job scheduler (module Scheduler).
Aged(r) == IF r = NoRow \/ r.age = Never \/ r.age = Old THEN r
           ELSE [r EXCEPT !.age = @ + 1]

Tick ==
  /\ up => ~due /\ drift = NoCheck
  /\ row' = [m \in Titles |-> Aged(row[m])]
  /\ due' = TRUE
  /\ blind' = IF up THEN blind ELSE Titles
  /\ UNCHANGED <<ids, wanted, stored, root, serverVars, up, faults, misses,
                 gone>>

\* The process dies.
Die ==
  /\ up /\ Fault
  /\ up' = FALSE
  /\ running' = FALSE
  /\ ask' = [c \in Askers |-> NoAsk]
  /\ move' = [c \in Askers |-> NoMove]
  /\ drift' = NoCheck
  /\ gone' = gone \cup {move[c].row[1] : c \in {d \in Askers :
                                                  move[d].pc = "save"}}
  /\ UNCHANGED <<shelfVars, due, misses, blind>>

\* The scheduler runs every job once at boot.
Boot ==
  /\ ~up
  /\ up' = TRUE /\ due' = TRUE
  /\ UNCHANGED <<shelfVars, serverVars, faults, ghosts>>

DriftCheck == ScheduledRun \/ RunNow \/ Check
Migrate(c) == Visit(c) \/ MoveFile(c) \/ Save(c) \/ PersistRoot(c)
Request(c) == Collect(c) \/ Begin(c) \/ FindFile(c) \/ Unlink(c) \/ Unrow(c)

FilesNext ==
  \/ \E c \in Askers : Request(c) \/ Migrate(c)
  \/ DriftCheck
  \/ \E m \in Titles : \/ Reimport(m)
                       \/ \E s \in Sides : Vanish(m, s) \/ Appear(m, s)
  \/ Tick \/ Die \/ Boot

FilesSpec == FilesInit /\ [][FilesNext]_filesVars

-----------------------------------------------------------------------------
FilesTypeOK ==
  /\ \A m \in Titles :
       \/ row[m] = NoRow /\ m \in wanted
       \/ /\ row[m] # NoRow
          /\ row[m].id = ids[m] /\ row[m].side \in Sides
          /\ row[m].age \in 0..Old \cup {Never} /\ m \notin wanted
  /\ stored \subseteq Titles \X Sides
  /\ Cardinality({c \in Askers : move[c] # NoMove}) <= 1

\* A row points at a file through every migration, whatever requests collected
\* before another one ran and whatever was deleted meanwhile ("rows that fail
\* the check are skipped rather than re-pointed at a path with nothing behind
\* it", pathmigrate.go:499): only a removal from outside or a move cut off
\* before its save leaves one that does not.
RowHasFile ==
  \A m \in Titles :
    row[m] # NoRow /\ <<m, row[m].side>> \notin stored
      => \/ m \in gone
         \/ \E c \in Askers : move[c].pc = "save" /\ move[c].row[1] = m

Reaped(m) ==
  /\ row[m] # NoRow /\ row'[m] = NoRow
  /\ drift.pc = "check" /\ drift' # drift

\* The grace period is "the number of consecutive drift_check ticks a MediaFile
\* may be absent from disk before its row is deleted" (config.go:213), as long
\* as the checks take place and succeed: one check that looks where a migration
\* has just taken the file from deletes nothing.
GraceWhenChecked ==
  [][\A m \in Titles :
       Reaped(m) /\ m \notin blind => misses'[m] >= Grace]_filesVars
=============================================================================
