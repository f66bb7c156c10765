------------------------ MODULE ImportWorker_proofs ------------------------
(***************************************************************************)
(* What holds of the importer for any number of records, movies and        *)
(* consumers, any queue capacity and any number of crashes.                *)
(***************************************************************************)
EXTENDS ImportWorker, TLAPS

(* The record was read as importing and its fate is not yet written.       *)
MidImport == {"list", "unlink", "unrow", "resolve", "transfer", "copying",
              "record", "report"}

BusyHasRecord ==
  \A c \in Consumers :
    worker[c].rec \in Records <=> worker[c].pc # "idle"

CancelHasRecord == cancel.pc # "idle" => cancel.rec \in Records

(* No tick works on a record that has moved on since its snapshot.         *)
PolledIsFresh == \A r \in polled : status[r] \in {"downloading", "deleted"}

ActiveHasAttempts == \A r \in Records : status[r] \in Active => attempts[r] < MaxAttempts

RowIsSettled == \A r \in rows : status[r] \in {"completed", "deleted"}

(* A record cannot settle, nor gain a row, under the consumer importing it.*)
ImportIsExclusive ==
  \A c \in Consumers :
    worker[c].pc \in MidImport =>
      /\ status[worker[c].rec] \in {"importing", "deleted"}
      /\ worker[c].rec \notin rows

(* Only files of the record's own movie, and never its own, are replaced.  *)
ReplacesSameMovie ==
  \A c \in Consumers :
    worker[c].pc \in {"unlink", "unrow"} =>
      /\ worker[c].rec \in Replacing
      /\ worker[c].old # {}
      /\ \A f \in worker[c].old :
           f # worker[c].rec /\ MovieOf[f] = MovieOf[worker[c].rec]

(* A failure that leaves its record importing leaves it an attempt.         *)
ReportIsCounted ==
  \A c \in Consumers :
    worker[c].pc = "report" =>
      worker[c].err = "terminal" \/ attempts[worker[c].rec] + 1 < MaxAttempts

IInv ==
  /\ TypeOK /\ InFlightExact /\ AvailableHasRow
  /\ BusyHasRecord /\ CancelHasRecord /\ PolledIsFresh /\ ActiveHasAttempts
  /\ RowIsSettled /\ ImportIsExclusive /\ ReplacesSameMovie /\ ReportIsCounted
-----------------------------------------------------------------------------
(* Goto moves one consumer on and leaves its locals alone.                 *)
LEMMA GotoType ==
  ASSUME worker \in [Consumers -> WorkerState], NEW c \in Consumers,
         NEW pc \in WorkerPC, Goto(c, pc)
  PROVE  /\ worker' \in [Consumers -> WorkerState]
         /\ worker'[c].pc = pc /\ worker'[c].rec = worker[c].rec
         /\ worker'[c].old = worker[c].old /\ worker'[c].path = worker[c].path
         /\ \A d \in Consumers \ {c} : worker'[d] = worker[d]
  BY DEF Goto, WorkerState

(* GotoWith moves one consumer on and hands it the files to remove.        *)
LEMMA GotoWithType ==
  ASSUME worker \in [Consumers -> WorkerState], NEW c \in Consumers,
         NEW pc \in WorkerPC, NEW old \in SUBSET Records, GotoWith(c, pc, old)
  PROVE  /\ worker' \in [Consumers -> WorkerState]
         /\ worker'[c].pc = pc /\ worker'[c].rec = worker[c].rec
         /\ worker'[c].old = old /\ worker'[c].path = worker[c].path
         /\ \A d \in Consumers \ {c} : worker'[d] = worker[d]
  BY DEF GotoWith, WorkerState

(* Leave moves one consumer on with its record and nothing else.           *)
LEMMA LeaveType ==
  ASSUME worker \in [Consumers -> WorkerState], NEW c \in Consumers,
         NEW pc \in WorkerPC, NEW err \in {"nil", "retryable", "terminal"},
         Leave(c, pc, err)
  PROVE  /\ worker' \in [Consumers -> WorkerState]
         /\ worker'[c].pc = pc /\ worker'[c].rec = worker[c].rec
         /\ worker'[c].err = err
         /\ \A d \in Consumers \ {c} : worker'[d] = worker[d]
  BY DEF Leave, Idle, WorkerState

(* FailWith sends one consumer to handleOutcome with its record.           *)
LEMMA FailWithType ==
  ASSUME worker \in [Consumers -> WorkerState], NEW c \in Consumers,
         NEW err \in {"nil", "retryable", "terminal"}, FailWith(c, err)
  PROVE  /\ worker' \in [Consumers -> WorkerState]
         /\ worker'[c].pc = "outcome" /\ worker'[c].rec = worker[c].rec
         /\ worker'[c].err = err
         /\ \A d \in Consumers \ {c} : worker'[d] = worker[d]
  BY LeaveType, "outcome" \in WorkerPC DEF FailWith, WorkerPC

(* handleOutcome goes on to the report when its record is still importing.  *)
LEMMA OutcomeType ==
  ASSUME worker \in [Consumers -> WorkerState], NEW c \in Consumers,
         HandleOutcome(c)
  PROVE  /\ worker[c].pc = "outcome"
         /\ worker' \in [Consumers -> WorkerState]
         /\ worker'[c].rec = worker[c].rec /\ worker'[c].path = FALSE
         /\ \/ worker'[c].pc = "release" /\ worker'[c].err = "nil"
            \/ /\ worker'[c].pc = "report" /\ FailureApplies(worker[c].rec)
               /\ LastAttempt(attempts[worker[c].rec] + 1) =>
                    worker'[c].err = "terminal"
               /\ ~LastAttempt(attempts[worker[c].rec] + 1) =>
                    worker'[c].err = worker[c].err
         /\ \A d \in Consumers \ {c} : worker'[d] = worker[d]
<1> DEFINE r == worker[c].rec
           err == IF LastAttempt(attempts[r] + 1) THEN "terminal" ELSE worker[c].err
<1>1. /\ worker[c].pc = "outcome"
      /\ \/ Leave(c, "release", "nil")
         \/ FailureApplies(r) /\ Leave(c, "report", err)
  BY DEF HandleOutcome
<1>2. /\ {"release", "report"} \subseteq WorkerPC
      /\ err \in {"nil", "retryable", "terminal"}
  BY DEF WorkerPC, WorkerState
<1>3. /\ LastAttempt(attempts[r] + 1) => err = "terminal"
      /\ ~LastAttempt(attempts[r] + 1) => err = worker[c].err
  OBVIOUS
<1> HIDE DEF err
<1>4. worker'[c].path = FALSE
  <2>1. \E pc \in WorkerPC, e \in {"nil", "retryable", "terminal"} : Leave(c, pc, e)
    BY <1>1, <1>2
  <2> QED
    BY <2>1 DEF Leave, Idle
<1>5. CASE Leave(c, "release", "nil")
  BY <1>1, <1>2, <1>4, <1>5, LeaveType
<1>6. CASE FailureApplies(r) /\ Leave(c, "report", err)
  BY <1>1, <1>2, <1>3, <1>4, <1>6, LeaveType
<1> QED
  BY <1>1, <1>5, <1>6

(* A consumer that takes a record off the channel starts at its read.      *)
LEMMA ConsumeStep ==
  ASSUME worker \in [Consumers -> WorkerState], NEW c \in Consumers, Consume(c),
         ~UNCHANGED <<inFlight, worker>>
  PROVE  /\ worker[c].pc = "idle" /\ worker'[c].pc = "find"
         /\ worker'[c].rec = Head(chan)
         /\ \A d \in Consumers \ {c} : worker'[d] = worker[d]
<1> DEFINE r == Head(chan)
<1>1. /\ worker[c].pc = "idle"
      /\ worker' = [worker EXCEPT ![c] = [Idle EXCEPT !.pc = "find", !.rec = r]]
  BY DEF Consume
<1> HIDE DEF r
<1>2. worker'[c].pc = "find" /\ worker'[c].rec = r
  BY <1>1 DEF Idle
<1>3. \A d \in Consumers \ {c} : worker'[d] = worker[d]
  BY <1>1
<1> QED
  BY <1>1, <1>2, <1>3 DEF r

(* Within an import a consumer keeps its record and stays busy; the other  *)
(* consumers and the in-flight set are left alone.                         *)
Busy(c) ==
  /\ worker' \in [Consumers -> WorkerState]
  /\ worker[c].pc # "idle" /\ worker'[c].pc # "idle"
  /\ worker'[c].rec = worker[c].rec
  /\ \A d \in Consumers \ {c} : worker'[d] = worker[d]

LEMMA BusyStep ==
  ASSUME TypeOK, BusyHasRecord, ReplacesSameMovie,
         NEW c \in Consumers, Import(c), ~Release(c)
  PROVE  Busy(c) /\ inFlight' = inFlight
<1>0. /\ worker \in [Consumers -> WorkerState]
      /\ {"find", "list", "unlink", "unrow", "resolve", "transfer", "copying",
          "record", "outcome", "report", "release"} \subseteq WorkerPC
  BY DEF TypeOK, QueueTypeOK, WorkerPC
<1>1. CASE FindImporting(c)
  BY <1>0, <1>1, LeaveType, FailWithType DEF FindImporting, Busy, queueVars, WorkerState
<1>2. CASE ListExisting(c)
  <2>1. RowsOf(MovieOf[worker[c].rec]) \subseteq Records
    BY DEF RowsOf, TypeOK, DBTypeOK
  <2> QED
    BY <1>0, <1>2, <2>1, GotoType, GotoWithType, FailWithType
    DEF ListExisting, Busy, queueVars
<1>3. CASE RemoveOldFile(c)
  BY <1>0, <1>3, GotoType DEF RemoveOldFile, Busy, queueVars
<1>4. CASE DeleteOldRow(c)
  <2>1. worker[c].old \ {OldFile(c)} \subseteq Records
    BY <1>0 DEF WorkerState
  <2> QED
    BY <1>0, <1>4, <2>1, GotoWithType, FailWithType DEF DeleteOldRow, Busy, queueVars
<1>5. CASE ResolveDest(c)
  BY <1>0, <1>5, LeaveType, FailWithType DEF ResolveDest, Busy, queueVars
<1>6. CASE Transfer(c)
  BY <1>0, <1>6, LeaveType, FailWithType, GotoType DEF Transfer, Busy, queueVars
<1>7. CASE Copy(c)
  BY <1>0, <1>7, LeaveType, FailWithType DEF Copy, Busy, queueVars
<1>8. CASE RecordSuccess(c)
  BY <1>0, <1>8, LeaveType, FailWithType DEF RecordSuccess, Busy, queueVars
<1>9. CASE HandleOutcome(c)
  BY <1>0, <1>9, OutcomeType DEF HandleOutcome, Busy, queueVars
<1>10. CASE RecordFailure(c)
  BY <1>0, <1>10, LeaveType DEF RecordFailure, Busy, queueVars
<1> QED
  BY <1>1, <1>2, <1>3, <1>4, <1>5, <1>6, <1>7, <1>8, <1>9, <1>10 DEF Import
-----------------------------------------------------------------------------
(* Every step keeps the types: an importing record has an attempt left, so *)
(* the counter never passes its limit.                                     *)
LEMMA TypeStep ==
  ASSUME IInv, [Next]_vars
  PROVE  TypeOK'
<1> USE ConstantsAssumption DEF ConstantsAssumption
<1>0. /\ TypeOK /\ BusyHasRecord /\ CancelHasRecord /\ ActiveHasAttempts
      /\ ReplacesSameMovie /\ ImportIsExclusive
      /\ DBTypeOK /\ FSTypeOK /\ QueueTypeOK /\ MonitorTypeOK
  BY DEF IInv, TypeOK
<1>1. ASSUME NEW r \in Records, Scan(r) PROVE TypeOK'
  <2>1. QueueTypeOK'
    BY <1>0, <1>1 DEF QueueTypeOK, Scan, queueVars, Enqueue
  <2>2. DBTypeOK' /\ FSTypeOK' /\ MonitorTypeOK'
    BY <1>0, <1>1 DEF DBTypeOK, FSTypeOK, MonitorTypeOK, dbVars, fsVars, monVars, Scan
  <2> QED
    BY <2>1, <2>2 DEF TypeOK
<1>2. ASSUME Poll PROVE TypeOK'
  <2>1. MonitorTypeOK'
    BY <1>0, <1>2 DEF MonitorTypeOK, Poll
  <2>2. DBTypeOK' /\ FSTypeOK' /\ QueueTypeOK'
    BY <1>0, <1>2 DEF DBTypeOK, FSTypeOK, QueueTypeOK, dbVars, fsVars, queueVars, Poll
  <2> QED
    BY <2>1, <2>2 DEF TypeOK
<1>3. ASSUME NEW r \in Records, StillDownloading(r) PROVE TypeOK'
  <2>1. MonitorTypeOK'
    BY <1>0, <1>3 DEF MonitorTypeOK, StillDownloading, monVars
  <2>2. DBTypeOK' /\ FSTypeOK' /\ QueueTypeOK'
    BY <1>0, <1>3 DEF DBTypeOK, FSTypeOK, QueueTypeOK, dbVars, fsVars, queueVars, StillDownloading
  <2> QED
    BY <2>1, <2>2 DEF TypeOK
<1>4. ASSUME NEW r \in Records, FlipImporting(r) PROVE TypeOK'
  <2>1. DBTypeOK'
    BY <1>0, <1>4 DEF DBTypeOK, FlipImporting, dbVars, Status
  <2>2. MonitorTypeOK'
    BY <1>0, <1>4 DEF MonitorTypeOK, FlipImporting, monVars, Status
  <2>3. FSTypeOK' /\ QueueTypeOK'
    BY <1>0, <1>4 DEF FSTypeOK, QueueTypeOK, fsVars, queueVars, FlipImporting
  <2> QED
    BY <2>1, <2>2, <2>3 DEF TypeOK
<1>5. ASSUME NEW r \in Records, PersistSavePath(r) PROVE TypeOK'
  <2>1. DBTypeOK'
    BY <1>0, <1>5 DEF DBTypeOK, PersistSavePath, dbVars
  <2>2. MonitorTypeOK'
    BY <1>0, <1>5 DEF MonitorTypeOK, PersistSavePath, monVars
  <2>3. FSTypeOK' /\ QueueTypeOK'
    BY <1>0, <1>5 DEF FSTypeOK, QueueTypeOK, fsVars, queueVars, PersistSavePath
  <2> QED
    BY <2>1, <2>2, <2>3 DEF TypeOK
<1>6. ASSUME NEW r \in Records, EnqueueCompleted(r) PROVE TypeOK'
  <2>1. QueueTypeOK'
    BY <1>0, <1>6 DEF QueueTypeOK, EnqueueCompleted, queueVars, Enqueue
  <2>2. MonitorTypeOK'
    BY <1>0, <1>6 DEF MonitorTypeOK, EnqueueCompleted, monVars, Enqueue
  <2>3. DBTypeOK' /\ FSTypeOK'
    BY <1>0, <1>6 DEF DBTypeOK, FSTypeOK, dbVars, fsVars, EnqueueCompleted
  <2> QED
    BY <2>1, <2>2, <2>3 DEF TypeOK
<1>7. ASSUME NEW c \in Consumers, Consume(c) PROVE TypeOK'
  <2>1. QueueTypeOK'
    <3>1. Head(chan) \in Records /\ Tail(chan) \in Seq(Records)
      BY <1>0, <1>7 DEF QueueTypeOK, Consume
    <3>2. [Idle EXCEPT !.pc = "find", !.rec = Head(chan)] \in WorkerState
      BY <3>1 DEF WorkerState, Idle, WorkerPC
    <3>3. chan' \in Seq(Records) /\ inFlight' \subseteq Records
      BY <1>0, <1>7, <3>1 DEF QueueTypeOK, Consume
    <3>4. worker' \in [Consumers -> WorkerState]
      BY <1>0, <1>7, <3>2 DEF QueueTypeOK, Consume
    <3> QED
      BY <3>3, <3>4 DEF QueueTypeOK
  <2>2. DBTypeOK' /\ FSTypeOK' /\ MonitorTypeOK'
    BY <1>0, <1>7 DEF DBTypeOK, FSTypeOK, MonitorTypeOK, dbVars, fsVars, monVars, Consume
  <2> QED
    BY <2>1, <2>2 DEF TypeOK
<1>8. ASSUME NEW c \in Consumers, FindImporting(c) PROVE TypeOK'
  <2>1. Busy(c) /\ inFlight' = inFlight
    BY <1>0, <1>8, BusyStep DEF Import, FindImporting, Release
  <2>2. worker[c].rec \in Records
    BY <1>0, <2>1 DEF Busy, BusyHasRecord
  <2>3. QueueTypeOK'
    BY <1>0, <1>8, <2>1 DEF QueueTypeOK, Busy, FindImporting, queueVars
  <2>4. DBTypeOK' /\ FSTypeOK' /\ MonitorTypeOK'
    BY <1>0, <1>8 DEF DBTypeOK, FSTypeOK, MonitorTypeOK, dbVars, fsVars, monVars, FindImporting
  <2> QED
    BY <2>3, <2>4 DEF TypeOK
<1>9. ASSUME NEW c \in Consumers, ListExisting(c) PROVE TypeOK'
  <2>1. Busy(c) /\ inFlight' = inFlight
    BY <1>0, <1>9, BusyStep DEF Import, ListExisting, Release
  <2>2. worker[c].rec \in Records
    BY <1>0, <2>1 DEF Busy, BusyHasRecord
  <2>3. QueueTypeOK'
    BY <1>0, <1>9, <2>1 DEF QueueTypeOK, Busy, ListExisting, queueVars
  <2>4. DBTypeOK' /\ FSTypeOK' /\ MonitorTypeOK'
    BY <1>0, <1>9 DEF DBTypeOK, FSTypeOK, MonitorTypeOK, dbVars, fsVars, monVars, ListExisting
  <2> QED
    BY <2>3, <2>4 DEF TypeOK
<1>10. ASSUME NEW c \in Consumers, RemoveOldFile(c) PROVE TypeOK'
  <2>1. Busy(c) /\ inFlight' = inFlight
    BY <1>0, <1>10, BusyStep DEF Import, RemoveOldFile, Release
  <2>2. worker[c].rec \in Records
    BY <1>0, <2>1 DEF Busy, BusyHasRecord
  <2>3. QueueTypeOK'
    BY <1>0, <1>10, <2>1 DEF QueueTypeOK, Busy, RemoveOldFile, queueVars
  <2>4. FSTypeOK'
    BY <1>0, <1>10, <2>2 DEF FSTypeOK, RemoveOldFile, fsVars
  <2>5. DBTypeOK' /\ MonitorTypeOK'
    BY <1>0, <1>10 DEF DBTypeOK, MonitorTypeOK, dbVars, monVars, RemoveOldFile
  <2> QED
    BY <2>3, <2>4, <2>5 DEF TypeOK
<1>11. ASSUME NEW c \in Consumers, DeleteOldRow(c) PROVE TypeOK'
  <2>1. Busy(c) /\ inFlight' = inFlight
    BY <1>0, <1>11, BusyStep DEF Import, DeleteOldRow, Release
  <2>2. worker[c].rec \in Records
    BY <1>0, <2>1 DEF Busy, BusyHasRecord
  <2>3. QueueTypeOK'
    BY <1>0, <1>11, <2>1 DEF QueueTypeOK, Busy, DeleteOldRow, queueVars
  <2>4. DBTypeOK'
    BY <1>0, <1>11, <2>2 DEF DBTypeOK, DeleteOldRow, RevertMovie, dbVars, MovieStatus
  <2>5. FSTypeOK' /\ MonitorTypeOK'
    BY <1>0, <1>11 DEF FSTypeOK, MonitorTypeOK, fsVars, monVars, DeleteOldRow
  <2> QED
    BY <2>3, <2>4, <2>5 DEF TypeOK
<1>12. ASSUME NEW c \in Consumers, ResolveDest(c) PROVE TypeOK'
  <2>1. Busy(c) /\ inFlight' = inFlight
    BY <1>0, <1>12, BusyStep DEF Import, ResolveDest, Release
  <2>2. worker[c].rec \in Records
    BY <1>0, <2>1 DEF Busy, BusyHasRecord
  <2>3. QueueTypeOK'
    BY <1>0, <1>12, <2>1 DEF QueueTypeOK, Busy, ResolveDest, queueVars
  <2>4. DBTypeOK' /\ FSTypeOK' /\ MonitorTypeOK'
    BY <1>0, <1>12 DEF DBTypeOK, FSTypeOK, MonitorTypeOK, dbVars, fsVars, monVars, ResolveDest
  <2> QED
    BY <2>3, <2>4 DEF TypeOK
<1>13. ASSUME NEW c \in Consumers, Transfer(c) PROVE TypeOK'
  <2>1. Busy(c) /\ inFlight' = inFlight
    BY <1>0, <1>13, BusyStep DEF Import, Transfer, Release
  <2>2. worker[c].rec \in Records
    BY <1>0, <2>1 DEF Busy, BusyHasRecord
  <2>3. QueueTypeOK'
    BY <1>0, <1>13, <2>1 DEF QueueTypeOK, Busy, Transfer, queueVars
  <2>4. FSTypeOK'
    BY <1>0, <1>13, <2>2 DEF FSTypeOK, Transfer, fsVars
  <2>5. DBTypeOK' /\ MonitorTypeOK'
    BY <1>0, <1>13 DEF DBTypeOK, MonitorTypeOK, dbVars, monVars, Transfer
  <2> QED
    BY <2>3, <2>4, <2>5 DEF TypeOK
<1>14. ASSUME NEW c \in Consumers, Copy(c) PROVE TypeOK'
  <2>1. Busy(c) /\ inFlight' = inFlight
    BY <1>0, <1>14, BusyStep DEF Import, Copy, Release
  <2>2. worker[c].rec \in Records
    BY <1>0, <2>1 DEF Busy, BusyHasRecord
  <2>3. QueueTypeOK'
    BY <1>0, <1>14, <2>1 DEF QueueTypeOK, Busy, Copy, queueVars
  <2>4. FSTypeOK'
    BY <1>0, <1>14, <2>2 DEF FSTypeOK, Copy, fsVars
  <2>5. DBTypeOK' /\ MonitorTypeOK'
    BY <1>0, <1>14 DEF DBTypeOK, MonitorTypeOK, dbVars, monVars, Copy
  <2> QED
    BY <2>3, <2>4, <2>5 DEF TypeOK
<1>15. ASSUME NEW c \in Consumers, RecordSuccess(c) PROVE TypeOK'
  <2>1. Busy(c) /\ inFlight' = inFlight
    BY <1>0, <1>15, BusyStep DEF Import, RecordSuccess, Release
  <2>2. worker[c].rec \in Records
    BY <1>0, <2>1 DEF Busy, BusyHasRecord
  <2>3. QueueTypeOK'
    BY <1>0, <1>15, <2>1 DEF QueueTypeOK, Busy, RecordSuccess, queueVars
  <2>4. DBTypeOK'
    BY <1>0, <1>15, <2>2 DEF DBTypeOK, RecordSuccess, dbVars, Status, MovieStatus
  <2>5. FSTypeOK' /\ MonitorTypeOK'
    BY <1>0, <1>15 DEF FSTypeOK, MonitorTypeOK, fsVars, monVars, RecordSuccess
  <2> QED
    BY <2>3, <2>4, <2>5 DEF TypeOK
<1>16. ASSUME NEW c \in Consumers, HandleOutcome(c) PROVE TypeOK'
  <2>1. Busy(c) /\ inFlight' = inFlight
    BY <1>0, <1>16, BusyStep DEF Import, HandleOutcome, Release
  <2>2. worker[c].rec \in Records
    BY <1>0, <2>1 DEF Busy, BusyHasRecord
  <2>3. QueueTypeOK'
    BY <1>0, <1>16, <2>1 DEF QueueTypeOK, Busy, HandleOutcome, queueVars
  <2>4. DBTypeOK' /\ FSTypeOK' /\ MonitorTypeOK'
    BY <1>0, <1>16 DEF DBTypeOK, FSTypeOK, MonitorTypeOK, dbVars, fsVars, monVars, HandleOutcome
  <2> QED
    BY <2>3, <2>4 DEF TypeOK
<1>17. ASSUME NEW c \in Consumers, Release(c) PROVE TypeOK'
  <2>1. QueueTypeOK'
    BY <1>0, <1>17 DEF QueueTypeOK, Release, queueVars, WorkerState, Idle, WorkerPC
  <2>2. DBTypeOK' /\ FSTypeOK' /\ MonitorTypeOK'
    BY <1>0, <1>17 DEF DBTypeOK, FSTypeOK, MonitorTypeOK, dbVars, fsVars, monVars, Release
  <2> QED
    BY <2>1, <2>2 DEF TypeOK
<1>18. ASSUME NEW r \in Records, CancelFind(r) PROVE TypeOK'
  <2>1. MonitorTypeOK'
    BY <1>0, <1>18 DEF MonitorTypeOK, CancelFind, monVars
  <2>2. DBTypeOK' /\ FSTypeOK' /\ QueueTypeOK'
    BY <1>0, <1>18 DEF DBTypeOK, FSTypeOK, QueueTypeOK, dbVars, fsVars, queueVars, CancelFind
  <2> QED
    BY <2>1, <2>2 DEF TypeOK
<1>19. ASSUME CancelTorrent PROVE TypeOK'
  <2>1. FSTypeOK'
    BY <1>0, <1>19 DEF FSTypeOK, CancelTorrent, fsVars, CancelHasRecord
  <2>2. MonitorTypeOK'
    BY <1>0, <1>19 DEF MonitorTypeOK, CancelTorrent, monVars, CancelHasRecord
  <2>3. DBTypeOK' /\ QueueTypeOK'
    BY <1>0, <1>19 DEF DBTypeOK, QueueTypeOK, dbVars, queueVars, CancelTorrent
  <2> QED
    BY <2>1, <2>2, <2>3 DEF TypeOK
<1>20. ASSUME CancelDelete PROVE TypeOK'
  <2>1. DBTypeOK'
    BY <1>0, <1>20 DEF DBTypeOK, CancelDelete, dbVars, Status, NoCancel, CancelHasRecord
  <2>2. MonitorTypeOK'
    BY <1>0, <1>20 DEF MonitorTypeOK, CancelDelete, monVars, Status, NoCancel, CancelHasRecord
  <2>3. FSTypeOK' /\ QueueTypeOK'
    BY <1>0, <1>20 DEF FSTypeOK, QueueTypeOK, fsVars, queueVars, CancelDelete
  <2> QED
    BY <2>1, <2>2, <2>3 DEF TypeOK
<1>21. ASSUME CancelCheck PROVE TypeOK'
  <2>1. MonitorTypeOK'
    BY <1>0, <1>21 DEF MonitorTypeOK, CancelCheck, monVars, NoCancel, CancelHasRecord
  <2>2. DBTypeOK' /\ FSTypeOK' /\ QueueTypeOK'
    BY <1>0, <1>21 DEF DBTypeOK, FSTypeOK, QueueTypeOK, dbVars, fsVars, queueVars, CancelCheck
  <2> QED
    BY <2>1, <2>2 DEF TypeOK
<1>22. ASSUME CancelRevert PROVE TypeOK'
  <2>1. DBTypeOK'
    BY <1>0, <1>22 DEF DBTypeOK, CancelRevert, RevertMovie, dbVars, MovieStatus, CancelHasRecord
  <2>2. MonitorTypeOK'
    BY <1>0, <1>22 DEF MonitorTypeOK, CancelRevert, monVars, NoCancel, MovieStatus, CancelHasRecord
  <2>3. FSTypeOK' /\ QueueTypeOK'
    BY <1>0, <1>22 DEF FSTypeOK, QueueTypeOK, fsVars, queueVars, CancelRevert
  <2> QED
    BY <2>1, <2>2, <2>3 DEF TypeOK
<1>23. ASSUME Crash PROVE TypeOK'
  <2>1. QueueTypeOK'
    BY <1>0, <1>23 DEF QueueTypeOK, Crash, queueVars, WorkerState, Idle, WorkerPC, NoCancel
  <2>2. MonitorTypeOK'
    BY <1>0, <1>23 DEF MonitorTypeOK, Crash, monVars, NoCancel, NoPurge
  <2>3. DBTypeOK' /\ FSTypeOK'
    BY <1>0, <1>23 DEF DBTypeOK, FSTypeOK, dbVars, fsVars, Crash
  <2> QED
    BY <2>1, <2>2, <2>3 DEF TypeOK
<1>24. ASSUME NEW r \in Records, Purge(r) PROVE TypeOK'
  <2>1. DBTypeOK'
    BY <1>0, <1>24
    DEF DBTypeOK, Purge, TorrentGone, PurgeDelete, PurgeCheck, PurgeRevert,
        RevertMovie, dbVars, Status, MovieStatus
  <2>2. MonitorTypeOK'
    BY <1>0, <1>24
    DEF MonitorTypeOK, Purge, TorrentGone, PurgeDelete, PurgeCheck, PurgeRevert
  <2>3. FSTypeOK' /\ QueueTypeOK'
    BY <1>0, <1>24
    DEF FSTypeOK, QueueTypeOK, fsVars, queueVars, Purge, TorrentGone, PurgeDelete,
        PurgeCheck, PurgeRevert
  <2> QED
    BY <2>1, <2>2, <2>3 DEF TypeOK
<1>25. ASSUME NEW c \in Consumers, RecordFailure(c) PROVE TypeOK'
  <2> DEFINE r == worker[c].rec
  <2>1. Busy(c) /\ inFlight' = inFlight
    BY <1>0, <1>25, BusyStep DEF Import, RecordFailure, Release
  <2>2. r \in Records /\ (status[r] # "deleted" => attempts[r] < MaxAttempts)
    BY <1>0, <1>25, <2>1
    DEF RecordFailure, Busy, BusyHasRecord, ImportIsExclusive, MidImport,
        ActiveHasAttempts, Active
  <2>3. QueueTypeOK'
    BY <1>0, <1>25, <2>1 DEF QueueTypeOK, Busy, RecordFailure, queueVars
  <2>4. DBTypeOK'
    BY <1>0, <1>25, <2>2 DEF DBTypeOK, RecordFailure, dbVars, Status, MovieStatus
  <2>5. FSTypeOK' /\ MonitorTypeOK'
    BY <1>0, <1>25 DEF FSTypeOK, MonitorTypeOK, fsVars, monVars, RecordFailure
  <2> QED
    BY <2>3, <2>4, <2>5 DEF TypeOK
<1>26. CASE UNCHANGED vars
  BY <1>0, <1>26 DEF TypeOK, DBTypeOK, FSTypeOK, QueueTypeOK, MonitorTypeOK, vars
<1> QED
  BY <1>1, <1>2, <1>3, <1>4, <1>5, <1>6, <1>7, <1>8, <1>9, <1>10, <1>11, <1>12,
     <1>13, <1>14, <1>15, <1>16, <1>17, <1>18, <1>19, <1>20, <1>21, <1>22, <1>23, <1>24, <1>25, <1>26 DEF Next, Import

(* The in-flight set follows the consumers exactly: only Consume and       *)
(* Release change who is busy, and both update the set under one lock.     *)
LEMMA InFlightStep ==
  ASSUME IInv, [Next]_vars
  PROVE  InFlightExact' /\ BusyHasRecord'
<1> USE ConstantsAssumption DEF ConstantsAssumption
<1>0. /\ TypeOK /\ BusyHasRecord /\ ReplacesSameMovie /\ InFlightExact
      /\ worker \in [Consumers -> WorkerState] /\ inFlight \subseteq Records
      /\ chan \in Seq(Records)
  BY DEF IInv, TypeOK, QueueTypeOK
<1>1. ASSUME NEW c \in Consumers, Consume(c) PROVE InFlightExact' /\ BusyHasRecord'
  <2>1. CASE UNCHANGED <<inFlight, worker>>
    BY <1>0, <2>1 DEF InFlightExact, BusyHasRecord
  <2>2. CASE ~UNCHANGED <<inFlight, worker>>
    <3> DEFINE r == Head(chan)
    <3>1. r \in Records /\ r \notin inFlight /\ inFlight' = inFlight \cup {r}
      BY <1>0, <1>1, <2>2 DEF Consume
    <3>2. /\ worker[c].pc = "idle" /\ worker'[c].pc = "find" /\ worker'[c].rec = r
          /\ \A d \in Consumers \ {c} : worker'[d] = worker[d]
      BY <1>0, <1>1, <2>2, ConsumeStep
    <3> HIDE DEF r
    <3> QED
      BY <1>0, <3>1, <3>2 DEF InFlightExact, BusyHasRecord
  <2> QED
    BY <2>1, <2>2
<1>2. ASSUME NEW c \in Consumers, Import(c), ~Release(c)
      PROVE InFlightExact' /\ BusyHasRecord'
  <2>1. Busy(c) /\ inFlight' = inFlight
    BY <1>0, <1>2, BusyStep
  <2>2. \A d \in Consumers : worker'[d].rec = worker[d].rec
    BY <2>1 DEF Busy
  <2>3. \A d \in Consumers : (worker'[d].pc = "idle") <=> (worker[d].pc = "idle")
    BY <2>1 DEF Busy
  <2>4. BusyHasRecord'
    BY <1>0, <2>2, <2>3 DEF BusyHasRecord
  <2>5. InFlightExact'
    BY <1>0, <2>1, <2>2, <2>3 DEF InFlightExact
  <2> QED
    BY <2>4, <2>5
<1>3. ASSUME NEW c \in Consumers, Release(c) PROVE InFlightExact' /\ BusyHasRecord'
  <2>1. /\ worker[c].pc # "idle" /\ worker'[c].pc = "idle" /\ worker'[c].rec = None
        /\ \A d \in Consumers \ {c} : worker'[d] = worker[d]
        /\ inFlight' = inFlight \ {worker[c].rec}
    BY <1>0, <1>3 DEF Release, Idle
  <2> QED
    BY <1>0, <2>1 DEF InFlightExact, BusyHasRecord
<1>4. CASE Crash
  <2>1. inFlight' = {} /\ \A c \in Consumers : worker'[c] = Idle
    BY <1>4 DEF Crash
  <2> QED
    BY <2>1 DEF InFlightExact, BusyHasRecord, Idle
<1>5. CASE UNCHANGED <<inFlight, worker>>
  BY <1>0, <1>5 DEF InFlightExact, BusyHasRecord
<1> QED
  BY <1>1, <1>2, <1>3, <1>4, <1>5
  DEF Next, vars, queueVars, Scan, Poll, StillDownloading, FlipImporting,
      PersistSavePath, EnqueueCompleted, CancelFind, CancelTorrent, CancelDelete,
      CancelCheck, CancelRevert, Purge, TorrentGone, PurgeDelete, PurgeCheck,
      PurgeRevert

(* Every step does to records and rows what the ledger allows. *)
LEMMA LedgerStep ==
  ASSUME IInv, [Next]_vars
  PROVE  Ledger!Next \/ UNCHANGED <<status, rows>>
<1> USE ConstantsAssumption DEF ConstantsAssumption
<1>0. /\ TypeOK /\ BusyHasRecord /\ CancelHasRecord /\ PolledIsFresh
      /\ ImportIsExclusive /\ ReplacesSameMovie
      /\ status \in [Records -> Status] /\ rows \subseteq Records
      /\ worker \in [Consumers -> WorkerState]
  BY DEF IInv, TypeOK, DBTypeOK, QueueTypeOK
<1>1. ASSUME NEW r \in Records, FlipImporting(r)
      PROVE Ledger!Next \/ UNCHANGED <<status, rows>>
  <2>1. status[r] \in {"downloading", "deleted"} /\ UNCHANGED rows
    BY <1>0, <1>1 DEF FlipImporting, PolledIsFresh
  <2>2. Ledger!Detect(r) \/ UNCHANGED status
    BY <1>1, <2>1 DEF FlipImporting, Ledger!Detect
  <2> QED
    BY <2>1, <2>2 DEF Ledger!Next
<1>2. ASSUME NEW c \in Consumers, RecordSuccess(c)
      PROVE Ledger!Next \/ UNCHANGED <<status, rows>>
  <2>1. worker[c].rec \in Records /\ status[worker[c].rec] \in {"importing", "deleted"}
    BY <1>0, <1>2 DEF RecordSuccess, BusyHasRecord, ImportIsExclusive, MidImport
  <2>2. Ledger!Complete(worker[c].rec) \/ UNCHANGED <<status, rows>>
    BY <1>2, <2>1 DEF RecordSuccess, Ledger!Complete
  <2> QED
    BY <2>1, <2>2 DEF Ledger!Next
<1>3. ASSUME NEW c \in Consumers, RecordFailure(c)
      PROVE Ledger!Next \/ UNCHANGED <<status, rows>>
  <2>1. worker[c].rec \in Records /\ status[worker[c].rec] \in {"importing", "deleted"}
    BY <1>0, <1>3 DEF RecordFailure, BusyHasRecord, ImportIsExclusive, MidImport
  <2>2. Ledger!Fail(worker[c].rec) \/ UNCHANGED <<status, rows>>
    BY <1>3, <2>1 DEF RecordFailure, Ledger!Fail
  <2> QED
    BY <2>1, <2>2 DEF Ledger!Next
<1>4. ASSUME NEW c \in Consumers, DeleteOldRow(c)
      PROVE Ledger!Next \/ UNCHANGED <<status, rows>>
  <2>1. OldFile(c) \in worker[c].old /\ worker[c].rec \in Replacing
    BY <1>0, <1>4 DEF DeleteOldRow, ReplacesSameMovie, OldFile
  <2>2. /\ OldFile(c) # worker[c].rec
        /\ MovieOf[OldFile(c)] = MovieOf[worker[c].rec]
    BY <1>0, <1>4, <2>1 DEF DeleteOldRow, ReplacesSameMovie
  <2>3. OldFile(c) \in Records
    BY <1>0, <2>1 DEF WorkerState
  <2>4. Ledger!Replace(OldFile(c)) \/ UNCHANGED <<status, rows>>
    BY <1>4, <2>1, <2>2 DEF DeleteOldRow, Ledger!Replace
  <2> QED
    BY <2>3, <2>4 DEF Ledger!Next
<1>5. CASE CancelDelete
  <2>1. cancel.rec \in Records /\ UNCHANGED rows
    BY <1>0, <1>5 DEF CancelDelete, CancelHasRecord
  <2>2. CASE status[cancel.rec] = "deleted"
    BY <1>0, <1>5, <2>1, <2>2 DEF CancelDelete
  <2>3. CASE status[cancel.rec] # "deleted"
    <3>1. Ledger!Cancel(cancel.rec) \/ UNCHANGED status
      BY <1>5, <2>1, <2>3 DEF CancelDelete, Ledger!Cancel
    <3> QED
      BY <2>1, <3>1 DEF Ledger!Next
  <2> QED
    BY <2>2, <2>3
<1>6. ASSUME NEW r \in Records, PurgeDelete(r)
      PROVE Ledger!Next \/ UNCHANGED <<status, rows>>
  <2>1. UNCHANGED rows /\ (Ledger!Cancel(r) \/ UNCHANGED status)
    BY <1>6 DEF PurgeDelete, Ledger!Cancel
  <2> QED
    BY <2>1 DEF Ledger!Next
<1>7. CASE UNCHANGED <<status, rows>>
  BY <1>7
<1> QED
  BY <1>1, <1>2, <1>3, <1>4, <1>5, <1>6, <1>7
  DEF Next, vars, dbVars, Import, Scan, Poll, StillDownloading, PersistSavePath,
      EnqueueCompleted, Consume, FindImporting, ListExisting, RemoveOldFile,
      ResolveDest, Transfer, Copy, HandleOutcome, Release, CancelFind,
      CancelTorrent, CancelCheck, CancelRevert, Crash, Purge, TorrentGone,
      PurgeCheck, PurgeRevert

(* A tick never works on a record that settled after its snapshot, and an  *)
(* active record keeps an attempt: settling is for ever.                   *)
LEMMA RecordStep ==
  ASSUME IInv, [Next]_vars
  PROVE  PolledIsFresh' /\ ActiveHasAttempts' /\ RowIsSettled' /\ CancelHasRecord'
<1> USE ConstantsAssumption DEF ConstantsAssumption
<1>0. /\ TypeOK /\ PolledIsFresh /\ ActiveHasAttempts /\ RowIsSettled
      /\ CancelHasRecord /\ BusyHasRecord /\ ImportIsExclusive /\ ReportIsCounted
      /\ status \in [Records -> Status] /\ rows \subseteq Records
      /\ attempts \in [Records -> 0..MaxAttempts]
      /\ polled \subseteq Records
      /\ cancel \in [pc : {"idle", "remove", "delete", "check", "revert"},
                     rec : Records \cup {None}]
  BY DEF IInv, TypeOK, DBTypeOK, MonitorTypeOK
<1>1. Ledger!Next \/ UNCHANGED <<status, rows>>
  BY LedgerStep
<1>2. RowIsSettled'
  BY <1>0, <1>1
  DEF RowIsSettled, Ledger!Next, Ledger!Detect, Ledger!Complete, Ledger!Fail,
      Ledger!Cancel, Ledger!Replace
<1>3. CancelHasRecord'
  <2>1. CASE \E r \in Records : CancelFind(r)
    BY <2>1 DEF CancelFind, CancelHasRecord
  <2>2. CASE CancelTorrent \/ CancelDelete \/ CancelCheck \/ CancelRevert \/ Crash
    <3>1. \/ cancel' = NoCancel
          \/ cancel.pc # "idle" /\ \E pc : cancel' = [cancel EXCEPT !.pc = pc]
      BY <2>2 DEF CancelTorrent, CancelDelete, CancelCheck, CancelRevert, Crash
    <3>2. NoCancel.pc = "idle"
      BY DEF NoCancel
    <3> QED
      BY <1>0, <3>1, <3>2 DEF CancelHasRecord
  <2>3. CASE UNCHANGED cancel
    BY <1>0, <2>3 DEF CancelHasRecord
  <2> QED
    BY <2>1, <2>2, <2>3
    DEF Next, vars, Import, Scan, Poll, StillDownloading, FlipImporting,
        PersistSavePath, EnqueueCompleted, Consume, FindImporting, ListExisting,
        RemoveOldFile, DeleteOldRow, ResolveDest, Transfer, Copy, RecordSuccess,
        HandleOutcome, RecordFailure, Release, Purge, TorrentGone, PurgeDelete,
        PurgeCheck, PurgeRevert
<1>4. PolledIsFresh' /\ ActiveHasAttempts'
  <2>1. ASSUME NEW r \in Records, FlipImporting(r)
        PROVE  PolledIsFresh' /\ ActiveHasAttempts'
    <3>1. polled' = polled \ {r} /\ attempts' = attempts /\ status[r] \in {"downloading", "deleted"}
      BY <1>0, <2>1 DEF FlipImporting, PolledIsFresh
    <3>2. status' = status \/ (status[r] = "downloading" /\ status' = [status EXCEPT ![r] = "importing"])
      BY <2>1, <3>1 DEF FlipImporting
    <3> QED
      BY <1>0, <3>1, <3>2 DEF PolledIsFresh, ActiveHasAttempts, Active
  <2>2. ASSUME NEW c \in Consumers, RecordSuccess(c)
        PROVE  PolledIsFresh' /\ ActiveHasAttempts'
    <3>1. worker[c].rec \in Records /\ status[worker[c].rec] \in {"importing", "deleted"}
      BY <1>0, <2>2 DEF RecordSuccess, BusyHasRecord, ImportIsExclusive, MidImport
    <3>2. polled' = polled /\ attempts' = attempts
      BY <2>2 DEF RecordSuccess, monVars
    <3>3. \/ status' = status
          \/ /\ status[worker[c].rec] = "importing"
             /\ status' = [status EXCEPT ![worker[c].rec] = "completed"]
      BY <2>2, <3>1 DEF RecordSuccess
    <3> QED
      BY <1>0, <3>1, <3>2, <3>3 DEF PolledIsFresh, ActiveHasAttempts, Active
  <2>3. ASSUME NEW c \in Consumers, RecordFailure(c)
        PROVE  PolledIsFresh' /\ ActiveHasAttempts'
    <3> DEFINE r == worker[c].rec
    <3>1. r \in Records /\ polled' = polled /\ status[r] \in {"importing", "deleted"}
      BY <1>0, <2>3 DEF RecordFailure, BusyHasRecord, ImportIsExclusive, MidImport, monVars
    <3>2. worker[c].err = "terminal" \/ attempts[r] + 1 < MaxAttempts
      BY <1>0, <2>3 DEF RecordFailure, ReportIsCounted
    <3>3. \/ UNCHANGED <<attempts, status>>
          \/ /\ status[r] = "importing"
             /\ attempts' = [attempts EXCEPT ![r] = attempts[r] + 1]
             /\ \/ status' = [status EXCEPT ![r] = "failed"]
                \/ status' = status /\ attempts[r] + 1 < MaxAttempts
      BY <2>3, <3>1, <3>2 DEF RecordFailure
    <3> HIDE DEF r
    <3> QED
      BY <1>0, <3>1, <3>3 DEF PolledIsFresh, ActiveHasAttempts, Active
  <2>4. CASE CancelDelete
    <3>1. cancel.rec \in Records /\ attempts' = attempts /\ polled' = polled
      BY <1>0, <2>4 DEF CancelDelete, CancelHasRecord, monVars
    <3>2. status' = status \/ status' = [status EXCEPT ![cancel.rec] = "deleted"]
      BY <2>4 DEF CancelDelete
    <3> QED
      BY <1>0, <3>1, <3>2 DEF PolledIsFresh, ActiveHasAttempts, Active
  <2>5. CASE Poll
    BY <1>0, <2>5 DEF Poll, dbVars, PolledIsFresh, ActiveHasAttempts
  <2>6. CASE UNCHANGED <<status, attempts>> /\ polled' \subseteq polled
    BY <1>0, <2>6 DEF PolledIsFresh, ActiveHasAttempts
  <2>7. ASSUME NEW r \in Records, PurgeDelete(r)
        PROVE  PolledIsFresh' /\ ActiveHasAttempts'
    <3>1. polled' = polled /\ attempts' = attempts
      BY <2>7 DEF PurgeDelete
    <3>2. status' = status \/ status' = [status EXCEPT ![r] = "deleted"]
      BY <2>7 DEF PurgeDelete
    <3> QED
      BY <1>0, <3>1, <3>2 DEF PolledIsFresh, ActiveHasAttempts, Active
  <2> QED
    BY <2>1, <2>2, <2>3, <2>4, <2>5, <2>6, <2>7
    DEF Next, vars, dbVars, monVars, Import, Scan, StillDownloading,
        PersistSavePath, EnqueueCompleted, Consume, FindImporting, ListExisting,
        RemoveOldFile, DeleteOldRow, ResolveDest, Transfer, Copy, HandleOutcome,
        Release, CancelFind, CancelTorrent, CancelCheck, CancelRevert, Crash, Purge,
        TorrentGone, PurgeCheck, PurgeRevert
<1> QED
  BY <1>2, <1>3, <1>4

(* Nothing settles a record, or gives it a row, while a consumer imports   *)
(* it, except that consumer's own last step.                               *)
LEMMA ExclusiveStep ==
  ASSUME IInv, [Next]_vars
  PROVE  ImportIsExclusive'
<1> USE ConstantsAssumption DEF ConstantsAssumption
<1>0. /\ TypeOK /\ BusyHasRecord /\ CancelHasRecord /\ ReplacesSameMovie
      /\ ImportIsExclusive /\ RowIsSettled /\ InFlightExact
      /\ status \in [Records -> Status] /\ rows \subseteq Records
      /\ worker \in [Consumers -> WorkerState]
  BY DEF IInv, TypeOK, DBTypeOK, QueueTypeOK
<1>1. ASSUME NEW c \in Consumers, Consume(c) PROVE ImportIsExclusive'
  <2>1. /\ UNCHANGED <<status, rows>>
        /\ worker' = worker \/ worker'[c].pc = "find"
        /\ \A d \in Consumers \ {c} : worker'[d] = worker[d]
    BY <1>0, <1>1, ConsumeStep DEF Consume, dbVars
  <2> QED
    BY <1>0, <2>1 DEF ImportIsExclusive, MidImport
<1>2. ASSUME NEW c \in Consumers, Import(c), ~Release(c),
             worker'[c].pc \in MidImport =>
               worker[c].pc \in MidImport \/ status[worker[c].rec] = "importing",
             rows' \subseteq rows, status' = status
      PROVE  ImportIsExclusive'
  <2>1. Busy(c)
    BY <1>0, <1>2, BusyStep
  <2>2. worker[c].rec \in Records
    BY <1>0, <2>1 DEF Busy, BusyHasRecord
  <2> QED
    BY <1>0, <1>2, <2>1, <2>2 DEF ImportIsExclusive, Busy, RowIsSettled
<1>3. ASSUME NEW c \in Consumers, FindImporting(c) PROVE ImportIsExclusive'
  <2>1. worker'[c].pc \in MidImport => status[worker[c].rec] = "importing"
    BY <1>0, <1>3, LeaveType, FailWithType, "release" \in WorkerPC
    DEF FindImporting, MidImport, WorkerPC
  <2> QED
    BY <1>2, <1>3, <2>1 DEF Import, FindImporting, Release, dbVars
<1>4. ASSUME NEW c \in Consumers,
             \/ ListExisting(c) \/ RemoveOldFile(c) \/ DeleteOldRow(c)
             \/ ResolveDest(c) \/ Transfer(c) \/ Copy(c)
      PROVE  ImportIsExclusive'
  <2>1. worker[c].pc \in MidImport
    BY <1>4 DEF ListExisting, RemoveOldFile, DeleteOldRow, ResolveDest, Transfer,
                Copy, MidImport
  <2>2. ~Release(c) /\ rows' \subseteq rows /\ status' = status
    BY <1>4, <2>1 DEF ListExisting, RemoveOldFile, DeleteOldRow, ResolveDest,
                      Transfer, Copy, Release, MidImport, dbVars
  <2> QED
    BY <1>2, <1>4, <2>1, <2>2 DEF Import
<1>5. ASSUME NEW c \in Consumers, RecordSuccess(c) \/ RecordFailure(c)
      PROVE  ImportIsExclusive'
  <2>1. Busy(c) /\ worker'[c].pc \notin MidImport
    <3>1. Busy(c)
      BY <1>0, <1>5, BusyStep DEF Import, RecordSuccess, RecordFailure, Release
    <3>2. worker'[c].pc \in {"outcome", "release"}
      BY <1>0, <1>5, LeaveType, FailWithType, "release" \in WorkerPC
      DEF RecordSuccess, RecordFailure, WorkerPC
    <3> QED
      BY <3>1, <3>2 DEF MidImport
  <2>2. \A r \in Records \ {worker[c].rec} :
          status'[r] = status[r] /\ (r \in rows' <=> r \in rows)
    BY <1>0, <1>5 DEF RecordSuccess, RecordFailure
  <2>3. ASSUME NEW d \in Consumers, worker'[d].pc \in MidImport
        PROVE  /\ status'[worker'[d].rec] \in {"importing", "deleted"}
               /\ worker'[d].rec \notin rows'
    <3>1. d # c /\ worker'[d] = worker[d]
      BY <2>1, <2>3 DEF Busy
    <3>2. worker[d].pc # "idle" /\ worker[d].rec # worker[c].rec /\ worker[d].rec \in Records
      BY <1>0, <2>3, <3>1 DEF InFlightExact, MidImport, BusyHasRecord
    <3> QED
      BY <1>0, <2>2, <2>3, <3>1, <3>2 DEF ImportIsExclusive
  <2> QED
    BY <2>3 DEF ImportIsExclusive
<1>6. CASE Crash \/ \E c \in Consumers : Release(c)
  <2>1. UNCHANGED <<status, rows>>
    BY <1>6 DEF Crash, Release, dbVars
  <2>2. \A d \in Consumers : worker'[d] = worker[d] \/ worker'[d].pc = "idle"
    BY <1>0, <1>6 DEF Crash, Release, Idle
  <2> QED
    BY <1>0, <2>1, <2>2 DEF ImportIsExclusive, MidImport
<1>7. CASE CancelDelete \/ \E r \in Records : FlipImporting(r) \/ PurgeDelete(r)
  <2>1. UNCHANGED <<rows, worker>>
    BY <1>7 DEF CancelDelete, FlipImporting, PurgeDelete
  <2>2. \A r \in Records : status'[r] \in {status[r], "importing", "deleted"}
    BY <1>0, <1>7 DEF CancelDelete, FlipImporting, PurgeDelete
  <2>3. \A d \in Consumers : worker[d].pc \in MidImport => worker[d].rec \in Records
    BY <1>0 DEF BusyHasRecord, MidImport
  <2> QED
    BY <1>0, <2>1, <2>2, <2>3 DEF ImportIsExclusive
<1>8. CASE UNCHANGED <<status, rows, worker>>
  BY <1>0, <1>8 DEF ImportIsExclusive
<1>9. ASSUME NEW c \in Consumers, HandleOutcome(c) PROVE ImportIsExclusive'
  <2>1. worker'[c].pc \in MidImport => status[worker[c].rec] = "importing"
    BY <1>0, <1>9, OutcomeType DEF FailureApplies, MidImport
  <2> QED
    BY <1>2, <1>9, <2>1 DEF Import, HandleOutcome, Release, dbVars
<1> QED
  BY <1>1, <1>3, <1>4, <1>5, <1>6, <1>7, <1>8, <1>9
  DEF Next, vars, dbVars, Import, Scan, Poll, StillDownloading, PersistSavePath,
      EnqueueCompleted, CancelFind, CancelTorrent, CancelCheck, CancelRevert,
      Purge, TorrentGone, PurgeCheck, PurgeRevert

(* The files a replacement takes away are those of its movie, read before  *)
(* its own row exists.                                                     *)
LEMMA ReplaceStep ==
  ASSUME IInv, [Next]_vars
  PROVE  ReplacesSameMovie'
<1> USE ConstantsAssumption DEF ConstantsAssumption
<1>0. /\ TypeOK /\ BusyHasRecord /\ ReplacesSameMovie /\ ImportIsExclusive
      /\ worker \in [Consumers -> WorkerState] /\ rows \subseteq Records
      /\ {"unlink", "unrow", "resolve", "release"} \subseteq WorkerPC
  BY DEF IInv, TypeOK, DBTypeOK, QueueTypeOK, WorkerPC
<1>1. ASSUME NEW c \in Consumers,
             \A d \in Consumers \ {c} : worker'[d] = worker[d],
             worker'[c].pc \notin {"unlink", "unrow"}
      PROVE  ReplacesSameMovie'
  BY <1>0, <1>1 DEF ReplacesSameMovie
<1>2. ASSUME NEW c \in Consumers, Consume(c) PROVE ReplacesSameMovie'
  <2>1. /\ worker' = worker \/ worker'[c].pc = "find"
        /\ \A d \in Consumers \ {c} : worker'[d] = worker[d]
    BY <1>0, <1>2, ConsumeStep DEF Consume
  <2> QED
    BY <1>0, <1>1, <2>1 DEF ReplacesSameMovie
<1>3. ASSUME NEW c \in Consumers, ListExisting(c) PROVE ReplacesSameMovie'
  <2> DEFINE r == worker[c].rec
             old == RowsOf(MovieOf[r])
  <2>1. r \notin rows /\ old \subseteq Records /\ \A f \in old : f # r /\ MovieOf[f] = MovieOf[r]
    BY <1>0, <1>3 DEF ListExisting, ImportIsExclusive, MidImport, RowsOf
  <2>2. CASE FailWith(c, "retryable") \/ FailWith(c, "terminal") \/ Goto(c, "resolve")
    <3>1. /\ worker'[c].pc \in {"outcome", "resolve"}
          /\ \A d \in Consumers \ {c} : worker'[d] = worker[d]
      BY <1>0, <2>2, FailWithType, GotoType
    <3> QED
      BY <1>1, <3>1
  <2>3. CASE old # {} /\ r \in Replacing /\ GotoWith(c, "unlink", old)
    <3>1. /\ worker'[c].rec = r /\ worker'[c].old = old
          /\ \A d \in Consumers \ {c} : worker'[d] = worker[d]
      BY <1>0, <2>1, <2>3, GotoWithType
    <3> HIDE DEF r, old
    <3> QED
      BY <1>0, <2>1, <2>3, <3>1 DEF ReplacesSameMovie
  <2> QED
    BY <1>3, <2>2, <2>3 DEF ListExisting
<1>4. ASSUME NEW c \in Consumers, RemoveOldFile(c) PROVE ReplacesSameMovie'
  <2>1. worker[c].pc = "unlink" /\ Goto(c, "unrow")
    BY <1>4 DEF RemoveOldFile
  <2>2. /\ worker'[c].rec = worker[c].rec /\ worker'[c].old = worker[c].old
        /\ \A d \in Consumers \ {c} : worker'[d] = worker[d]
    BY <1>0, <2>1, GotoType
  <2> QED
    BY <1>0, <2>1, <2>2 DEF ReplacesSameMovie
<1>5. ASSUME NEW c \in Consumers, DeleteOldRow(c) PROVE ReplacesSameMovie'
  <2> DEFINE rest == worker[c].old \ {OldFile(c)}
             pc == IF rest = {} THEN "resolve" ELSE "unlink"
  <2>1. worker[c].pc = "unrow" /\ rest \subseteq Records /\ pc \in WorkerPC
    BY <1>0, <1>5 DEF DeleteOldRow, WorkerState
  <2>2. CASE FailWith(c, "retryable")
    <3>1. worker'[c].pc = "outcome" /\ \A d \in Consumers \ {c} : worker'[d] = worker[d]
      BY <1>0, <2>2, FailWithType
    <3> QED
      BY <1>1, <3>1
  <2>3. CASE GotoWith(c, pc, rest)
    <3>1. /\ worker'[c].rec = worker[c].rec /\ worker'[c].old = rest
          /\ worker'[c].pc = pc
          /\ \A d \in Consumers \ {c} : worker'[d] = worker[d]
      BY <1>0, <2>1, <2>3, GotoWithType
    <3>2. worker'[c].pc \in {"unlink", "unrow"} => rest # {}
      BY <3>1
    <3>3. rest \subseteq worker[c].old
      OBVIOUS
    <3> HIDE DEF rest, pc
    <3> QED
      BY <1>0, <2>1, <3>1, <3>2, <3>3 DEF ReplacesSameMovie
  <2> QED
    BY <1>5, <2>2, <2>3 DEF DeleteOldRow
<1>6. ASSUME NEW c \in Consumers, Import(c), ~Release(c),
             ~ListExisting(c), ~RemoveOldFile(c), ~DeleteOldRow(c)
      PROVE  ReplacesSameMovie'
  <2>1. Busy(c) /\ worker'[c].pc \notin {"unlink", "unrow"}
    <3>1. Busy(c)
      BY <1>0, <1>6, BusyStep
    <3>2. CASE FindImporting(c)
      BY <1>0, <3>1, <3>2, LeaveType, FailWithType DEF FindImporting, WorkerState
    <3>3. CASE ResolveDest(c) \/ RecordSuccess(c) \/ RecordFailure(c)
      BY <1>0, <3>1, <3>3, LeaveType, FailWithType
      DEF ResolveDest, RecordSuccess, RecordFailure, WorkerPC
    <3>4. CASE Transfer(c) \/ Copy(c)
      BY <1>0, <3>1, <3>4, LeaveType, GotoType, FailWithType
      DEF Transfer, Copy, WorkerPC
    <3>5. CASE HandleOutcome(c)
      BY <1>0, <3>1, <3>5, OutcomeType
    <3> QED
      BY <1>6, <3>1, <3>2, <3>3, <3>4, <3>5 DEF Import
  <2> QED
    BY <1>1, <2>1 DEF Busy
<1>7. CASE Crash \/ \E c \in Consumers : Release(c)
  <2>1. \A d \in Consumers : worker'[d] = worker[d] \/ worker'[d].pc = "idle"
    BY <1>0, <1>7 DEF Crash, Release, Idle
  <2> QED
    BY <1>0, <2>1 DEF ReplacesSameMovie
<1>8. CASE UNCHANGED worker
  BY <1>0, <1>8 DEF ReplacesSameMovie
<1> QED
  BY <1>2, <1>3, <1>4, <1>5, <1>6, <1>7, <1>8
  DEF Next, vars, Import, Scan, Poll, StillDownloading, FlipImporting,
      PersistSavePath, EnqueueCompleted, CancelFind, CancelTorrent, CancelDelete,
      CancelCheck, CancelRevert, Purge, TorrentGone, PurgeDelete, PurgeCheck,
      PurgeRevert

(* A movie stays available only as long as it has a row. *)
LEMMA AvailableStep ==
  ASSUME IInv, [Next]_vars
  PROVE  AvailableHasRow'
<1> USE ConstantsAssumption DEF ConstantsAssumption
<1>0. /\ TypeOK /\ BusyHasRecord /\ ReplacesSameMovie /\ CancelHasRecord
      /\ AvailableHasRow
      /\ movie \in [Movies -> MovieStatus] /\ rows \subseteq Records
      /\ worker \in [Consumers -> WorkerState]
  BY DEF IInv, TypeOK, DBTypeOK, QueueTypeOK
<1>1. ASSUME NEW c \in Consumers, DeleteOldRow(c) PROVE AvailableHasRow'
  <2> DEFINE f == OldFile(c)
             m == MovieOf[worker[c].rec]
  <2>1. f \in worker[c].old
    BY <1>0, <1>1 DEF DeleteOldRow, ReplacesSameMovie, OldFile
  <2>2. MovieOf[f] = m
    BY <1>0, <1>1, <2>1 DEF DeleteOldRow, ReplacesSameMovie
  <2>3. \/ UNCHANGED <<rows, movie>>
        \/ rows' = rows \ {f} /\ movie' = [movie EXCEPT ![m] = "wanted"]
    BY <1>1 DEF DeleteOldRow, RevertMovie
  <2> HIDE DEF f, m
  <2> QED
    BY <1>0, <2>2, <2>3 DEF AvailableHasRow, RowsOf
<1>2. ASSUME NEW c \in Consumers, RecordSuccess(c) PROVE AvailableHasRow'
  <2> DEFINE r == worker[c].rec
  <2>1. r \in Records
    BY <1>0, <1>2 DEF RecordSuccess, BusyHasRecord
  <2>2. \/ UNCHANGED <<rows, movie>>
        \/ rows' = rows \cup {r} /\ movie' = [movie EXCEPT ![MovieOf[r]] = "available"]
    BY <1>2 DEF RecordSuccess
  <2> HIDE DEF r
  <2> QED
    BY <1>0, <2>1, <2>2 DEF AvailableHasRow, RowsOf
<1>3. ASSUME NEW c \in Consumers, RecordFailure(c) PROVE AvailableHasRow'
  BY <1>0, <1>3 DEF RecordFailure, AvailableHasRow, RowsOf
<1>4. CASE CancelRevert \/ \E r \in Records : PurgeRevert(r)
  BY <1>0, <1>4
  DEF CancelRevert, PurgeRevert, RevertMovie, AvailableHasRow, RowsOf
<1>5. CASE UNCHANGED <<movie, rows>>
  BY <1>0, <1>5 DEF AvailableHasRow, RowsOf
<1> QED
  BY <1>1, <1>2, <1>3, <1>4, <1>5
  DEF Next, vars, dbVars, Import, Scan, Poll, StillDownloading, FlipImporting,
      PersistSavePath, EnqueueCompleted, Consume, FindImporting, ListExisting,
      RemoveOldFile, ResolveDest, Transfer, Copy, HandleOutcome, Release,
      CancelFind, CancelTorrent, CancelDelete, CancelCheck, Crash, Purge,
      TorrentGone, PurgeDelete, PurgeCheck

(* How far a consumer gets with its record in one step, and why.           *)
Advances(c) ==
  LET r == worker[c].rec
      pc == worker'[c].pc
      terminal == pc = "outcome" /\ worker'[c].err = "terminal"
  IN
  \/ pc = "outcome" /\ worker'[c].err = "retryable"
  \/ /\ FindImporting(c)
     /\ \/ terminal /\ r \notin saved
        \/ pc = "list" /\ worker'[c].path = (r \in saved)
  \/ /\ ListExisting(c)
     /\ \/ terminal /\ RowsOf(MovieOf[r]) # {} /\ r \notin Replacing
        \/ pc = "resolve" /\ RowsOf(MovieOf[r]) = {} /\ worker'[c].path = worker[c].path
        \/ pc = "unlink" /\ r \in Replacing /\ worker'[c].path = worker[c].path
  \/ /\ RemoveOldFile(c) \/ DeleteOldRow(c)
     /\ pc \in {"unlink", "unrow", "resolve"}
     /\ r \in Replacing /\ worker'[c].path = worker[c].path
  \/ /\ ResolveDest(c)
     /\ \/ terminal /\ (source[r] # "good" \/ (disk[DestOf[r]] # None /\ ~OwnInode(r)))
        \/ pc = "transfer" /\ worker[c].path
        \/ pc = "record" /\ worker[c].path /\ OwnInode(r)
  \/ /\ Transfer(c)
     /\ pc \in {"copying", "record"} /\ disk' = [disk EXCEPT ![DestOf[r]] = r]
  \/ Copy(c) /\ pc = "record"
  \/ /\ HandleOutcome(c) /\ FailureApplies(r)
     /\ pc = "report" /\ worker'[c].path = FALSE
     /\ \/ worker'[c].err = "terminal"
            /\ (worker[c].err = "terminal" \/ LastAttempt(attempts[r] + 1))
        \/ ~LastAttempt(attempts[r] + 1)

LEMMA WorkerStep ==
  ASSUME IInv, [Next]_vars, NEW c \in Consumers
  PROVE  \/ worker'[c] = worker[c]
         \/ worker'[c].pc \in {"idle", "find", "release"}
         \/ /\ Import(c) /\ worker'[c].rec = worker[c].rec /\ worker[c].rec \in Records
            /\ Advances(c)
<1>0. /\ TypeOK /\ BusyHasRecord /\ ReplacesSameMovie
      /\ worker \in [Consumers -> WorkerState] /\ rows \subseteq Records
      /\ {"idle", "find", "list", "unlink", "unrow", "resolve", "transfer", "copying",
          "record", "outcome", "report", "release"} \subseteq WorkerPC
  BY DEF IInv, TypeOK, DBTypeOK, QueueTypeOK, WorkerPC
<1>1. CASE UNCHANGED worker
  BY <1>1
<1>2. CASE Crash \/ \E d \in Consumers : Release(d)
  BY <1>0, <1>2 DEF Crash, Release, Idle
<1>3. ASSUME NEW d \in Consumers, Consume(d)
      PROVE  worker'[c] = worker[c] \/ worker'[c].pc = "find"
  <2>1. CASE UNCHANGED worker
    BY <2>1
  <2>2. CASE ~UNCHANGED worker
    BY <1>0, <1>3, <2>2, ConsumeStep
  <2> QED
    BY <2>1, <2>2
<1>4. ASSUME NEW d \in Consumers, Import(d), ~Release(d)
      PROVE  \/ worker'[c] = worker[c]
             \/ worker'[c].pc = "release"
             \/ /\ Import(c) /\ worker'[c].rec = worker[c].rec /\ worker[c].rec \in Records
                /\ Advances(c)
  <2>1. Busy(d)
    BY <1>0, <1>4, BusyStep
  <2>2. CASE d # c
    BY <2>1, <2>2 DEF Busy
  <2>3. CASE d = c
    <3> DEFINE r == worker[c].rec
    <3>1. r \in Records /\ worker'[c].rec = r /\ Import(c)
      BY <1>0, <1>4, <2>1, <2>3 DEF Busy, BusyHasRecord
    <3>2. ASSUME NEW err \in {"nil", "retryable", "terminal"}, FailWith(c, err)
          PROVE  worker'[c].pc = "outcome" /\ worker'[c].err = err
      BY <1>0, <3>2, FailWithType
    <3>3. ASSUME NEW pc \in WorkerPC, Leave(c, pc, "nil")
          PROVE  worker'[c].pc = pc
      BY <1>0, <3>3, LeaveType
    <3>4. ASSUME NEW pc \in WorkerPC, Goto(c, pc)
          PROVE  worker'[c].pc = pc /\ worker'[c].path = worker[c].path
      BY <1>0, <3>4, GotoType
    <3>5. CASE FailWith(c, "retryable")
      BY <3>1, <3>2, <3>5 DEF Advances
    <3>6. CASE FindImporting(c)
      <4>1. CASE worker' = [worker EXCEPT ![c].pc = "list", ![c].path = r \in saved]
        <5>1. worker'[c].pc = "list" /\ worker'[c].path = (r \in saved)
          BY <1>0, <4>1 DEF WorkerState
        <5> QED
          BY <3>1, <3>6, <5>1 DEF Advances
      <4>2. CASE RootsConfigured /\ r \notin saved /\ FailWith(c, "terminal")
        BY <3>1, <3>2, <3>6, <4>2 DEF Advances
      <4>3. CASE Leave(c, "release", "nil")
        BY <1>0, <3>3, <4>3
      <4> QED
        BY <3>5, <3>6, <4>1, <4>2, <4>3 DEF FindImporting
    <3>7. CASE ListExisting(c)
      <4> DEFINE old == RowsOf(MovieOf[r])
      <4>1. CASE old = {} /\ Goto(c, "resolve")
        BY <1>0, <3>1, <3>4, <3>7, <4>1 DEF Advances
      <4>2. CASE old # {} /\ r \notin Replacing /\ FailWith(c, "terminal")
        BY <3>1, <3>2, <3>7, <4>2 DEF Advances
      <4>3. CASE old # {} /\ r \in Replacing /\ GotoWith(c, "unlink", old)
        <5>1. old \in SUBSET Records
          BY <1>0 DEF RowsOf
        <5>2. worker'[c].pc = "unlink" /\ worker'[c].path = worker[c].path
          BY <1>0, <4>3, <5>1, GotoWithType
        <5> QED
          BY <3>1, <3>7, <4>3, <5>2 DEF Advances
      <4> QED
        BY <3>5, <3>7, <4>1, <4>2, <4>3 DEF ListExisting
    <3>8. CASE RemoveOldFile(c)
      BY <1>0, <3>1, <3>4, <3>8 DEF RemoveOldFile, Advances, ReplacesSameMovie
    <3>9. CASE DeleteOldRow(c)
      <4> DEFINE rest == worker[c].old \ {OldFile(c)}
                 to == IF rest = {} THEN "resolve" ELSE "unlink"
      <4>1. CASE GotoWith(c, to, rest)
        <5>1. to \in WorkerPC /\ rest \in SUBSET Records /\ to \in {"unlink", "resolve"}
          BY <1>0 DEF WorkerState
        <5> HIDE DEF to, rest
        <5>2. worker'[c].pc = to /\ worker'[c].path = worker[c].path
          BY <1>0, <4>1, <5>1, GotoWithType
        <5>3. r \in Replacing
          BY <1>0, <3>9 DEF DeleteOldRow, ReplacesSameMovie
        <5> QED
          BY <3>1, <3>9, <5>1, <5>2, <5>3 DEF Advances
      <4> QED
        BY <3>5, <3>9, <4>1 DEF DeleteOldRow
    <3>10. CASE ResolveDest(c)
      BY <1>0, <3>1, <3>2, <3>3, <3>5, <3>10 DEF ResolveDest, Advances
    <3>11. CASE Transfer(c)
      BY <1>0, <3>1, <3>3, <3>4, <3>5, <3>11 DEF Transfer, Advances
    <3>12. CASE Copy(c)
      BY <1>0, <3>1, <3>3, <3>5, <3>12 DEF Copy, Advances
    <3>13. CASE RecordSuccess(c) \/ RecordFailure(c)
      BY <1>0, <3>3, <3>5, <3>13 DEF RecordSuccess, RecordFailure
    <3>14. CASE HandleOutcome(c)
      BY <1>0, <3>1, <3>14, OutcomeType DEF Advances
    <3> QED
      BY <1>4, <2>3, <3>6, <3>7, <3>8, <3>9, <3>10, <3>11, <3>12, <3>13, <3>14 DEF Import
  <2> QED
    BY <2>2, <2>3
<1> QED
  BY <1>1, <1>2, <1>3, <1>4
  DEF Next, vars, Scan, Poll, StillDownloading, FlipImporting, PersistSavePath,
      EnqueueCompleted, CancelFind, CancelTorrent, CancelDelete, CancelCheck,
      CancelRevert, Purge, TorrentGone, PurgeDelete, PurgeCheck, PurgeRevert

(* The record of a consumer about to report has no other one that could     *)
(* count an attempt of it.                                                  *)
LEMMA CountStays ==
  ASSUME IInv, [Next]_vars, NEW c \in Consumers,
         worker[c].pc = "report", worker'[c] = worker[c]
  PROVE  attempts'[worker[c].rec] = attempts[worker[c].rec]
<1>0. /\ BusyHasRecord /\ InFlightExact
      /\ attempts \in [Records -> 0..MaxAttempts]
      /\ worker \in [Consumers -> WorkerState]
  BY DEF IInv, TypeOK, DBTypeOK, QueueTypeOK
<1>1. ASSUME NEW d \in Consumers, RecordFailure(d)
      PROVE  attempts'[worker[c].rec] = attempts[worker[c].rec]
  <2>1. worker[d].pc = "report" /\ worker'[d].pc = "release"
    BY <1>0, <1>1, LeaveType DEF RecordFailure, WorkerPC
  <2>2. d # c /\ worker[c].rec # worker[d].rec
    BY <1>0, <2>1 DEF InFlightExact
  <2>3. worker[c].rec \in Records /\ worker[d].rec \in Records
    BY <1>0, <2>1 DEF BusyHasRecord
  <2>4. \/ UNCHANGED attempts
        \/ attempts' = [attempts EXCEPT ![worker[d].rec] = @ + 1]
    BY <1>1 DEF RecordFailure
  <2> QED
    BY <1>0, <2>2, <2>3, <2>4
<1> QED
  BY <1>1
  DEF Next, vars, dbVars, Import, Scan, Poll, StillDownloading, FlipImporting,
      PersistSavePath, EnqueueCompleted, Consume, FindImporting, ListExisting,
      RemoveOldFile, DeleteOldRow, ResolveDest, Transfer, Copy, RecordSuccess,
      HandleOutcome, Release, CancelFind, CancelTorrent, CancelDelete,
      CancelCheck, CancelRevert, Crash, Purge, TorrentGone, PurgeDelete,
      PurgeCheck, PurgeRevert

(* A failure is reported with the count read when its outcome was decided: *)
(* the record has no other consumer to count an attempt of it.             *)
LEMMA ReportStep ==
  ASSUME IInv, [Next]_vars
  PROVE  ReportIsCounted'
<1> USE ConstantsAssumption DEF ConstantsAssumption
<1>0. /\ BusyHasRecord /\ ReplacesSameMovie /\ ReportIsCounted /\ InFlightExact
      /\ TypeOK /\ attempts \in [Records -> 0..MaxAttempts]
      /\ worker \in [Consumers -> WorkerState]
  BY DEF IInv, TypeOK, DBTypeOK, QueueTypeOK
<1>1. ASSUME NEW c \in Consumers, worker'[c].pc = "report", worker'[c] # worker[c]
      PROVE  /\ UNCHANGED attempts /\ worker'[c].rec = worker[c].rec
             /\ worker'[c].err = "terminal" \/ attempts[worker[c].rec] + 1 < MaxAttempts
  <2>1. /\ HandleOutcome(c) /\ worker'[c].rec = worker[c].rec
        /\ worker'[c].err = "terminal" \/ ~LastAttempt(attempts[worker[c].rec] + 1)
    BY <1>0, <1>1, WorkerStep, OutcomeType DEF Advances
  <2>2. worker[c].rec \in Records
    BY <1>0, <2>1 DEF HandleOutcome, BusyHasRecord
  <2> QED
    BY <1>0, <2>1, <2>2 DEF HandleOutcome, LastAttempt, dbVars
<1>2. ASSUME NEW c \in Consumers, worker'[c].pc = "report", worker'[c] = worker[c]
      PROVE  attempts'[worker[c].rec] = attempts[worker[c].rec]
  BY <1>2, CountStays
<1> QED
  BY <1>0, <1>1, <1>2 DEF ReportIsCounted

-----------------------------------------------------------------------------
(* The inductive invariant holds before anything has run.                  *)
LEMMA InitIInv ==
  ASSUME Init
  PROVE  IInv
<1> USE ConstantsAssumption DEF ConstantsAssumption
<1>1. DBTypeOK
  BY DEF Init, DBTypeOK, Status, MovieStatus
<1>2. FSTypeOK
  <2>1. disk \in [Paths -> Records \cup {None}]
    BY DEF Init
  <2>2. partial \subseteq Paths /\ mode \in Modes
    BY DEF Init
  <2>3. source \in [Records -> {"good", "bad", "gone"}]
    BY DEF Init
  <2> QED
    BY <2>1, <2>2, <2>3 DEF FSTypeOK
<1>3. QueueTypeOK
  BY DEF Init, QueueTypeOK, WorkerState, WorkerPC, Idle
<1>4. MonitorTypeOK
  BY DEF Init, MonitorTypeOK, NoCancel, NoPurge
<1>5. InFlightExact /\ BusyHasRecord
  BY DEF Init, InFlightExact, BusyHasRecord, Idle
<1>6. AvailableHasRow
  BY DEF Init, InitialStatus, AvailableHasRow, RowsOf
<1>7. ActiveHasAttempts
  BY DEF Init, ActiveHasAttempts
<1>8. PolledIsFresh /\ RowIsSettled /\ CancelHasRecord
  BY DEF Init, PolledIsFresh, RowIsSettled, CancelHasRecord, NoCancel
<1>9. ImportIsExclusive /\ ReplacesSameMovie /\ ReportIsCounted
  BY DEF Init, ImportIsExclusive, ReplacesSameMovie, ReportIsCounted, MidImport, Idle
<1> QED
  BY <1>1, <1>2, <1>3, <1>4, <1>5, <1>6, <1>7, <1>8, <1>9
  DEF IInv, TypeOK

(* The conjunction of the invariants above is inductive. *)
THEOREM Invariance == Spec => []IInv
<1>1. Init => IInv
  BY InitIInv
<1>2. IInv /\ [Next]_vars => IInv'
  BY TypeStep, InFlightStep, RecordStep, ExclusiveStep, ReplaceStep, AvailableStep,
     ReportStep DEF IInv
<1> QED
  BY <1>1, <1>2, PTL DEF Spec

(* The variables hold values of their types in every reachable state; in   *)
(* particular no import is attempted more than MaxAttempts times.          *)
THEOREM TypeCorrect == Spec => []TypeOK
<1>1. IInv => TypeOK
  BY DEF IInv
<1> QED
  BY <1>1, Invariance, PTL

(* No two consumers ever import one record, and the in-flight set neither  *)
(* misses a record being imported nor keeps one that is done.              *)
THEOREM InFlightIsExact == Spec => []InFlightExact
<1>1. IInv => InFlightExact
  BY DEF IInv
<1> QED
  BY <1>1, Invariance, PTL

(* Whatever is cancelled, replaced or retried, an available movie has a    *)
(* media-file row.                                                         *)
THEOREM AvailableMovieHasRow == Spec => []AvailableHasRow
<1>1. IInv => AvailableHasRow
  BY DEF IInv
<1> QED
  BY <1>1, Invariance, PTL

(* The importer implements the ledger: each record is imported at most     *)
(* once, settles for ever, and gives up its row only to a record of the    *)
(* same movie flagged to replace it.                                       *)
THEOREM ImplementsLedger == Spec => LedgerSpec
<1>1. Init => Ledger!Init
  BY DEF Init, Ledger!Init
<1>2. IInv /\ [Next]_vars => [Ledger!Next]_<<status, rows>>
  BY LedgerStep
<1>3. [Ledger!Next]_<<status, rows>> => [Ledger!Next]_(Ledger!ledger)
  BY DEF Ledger!ledger
<1> QED
  BY <1>1, <1>2, <1>3, Invariance, PTL DEF Spec, LedgerSpec, Ledger!Spec
-----------------------------------------------------------------------------
(* The record's own file stands at its destination, half copied.           *)
Truncated(r) == disk[DestOf[r]] = r /\ DestOf[r] \in partial

(* A file that has a row, or is about to, is whole; without copies every   *)
(* file is.                                                                *)
Whole ==
  /\ \A r \in rows : ~Truncated(r)
  /\ \A c \in Consumers : worker[c].pc = "record" => ~Truncated(worker[c].rec)
  /\ mode # "copy" => partial = {}

(* Only the start of a record's own copy leaves its file truncated.        *)
LEMMA CopyTruncates ==
  ASSUME IInv, Whole, [Next]_vars, NEW r \in Records, ~Truncated(r), Truncated(r)'
  PROVE  \E c \in Consumers :
           Transfer(c) /\ worker[c].rec = r /\ worker'[c].pc = "copying"
<1> USE ConstantsAssumption DEF ConstantsAssumption
<1>0. /\ BusyHasRecord
      /\ disk \in [Paths -> Records \cup {None}] /\ partial \subseteq Paths
      /\ worker \in [Consumers -> WorkerState] /\ "copying" \in WorkerPC
  BY DEF IInv, TypeOK, FSTypeOK, QueueTypeOK, WorkerPC
<1>1. ASSUME NEW c \in Consumers, RemoveOldFile(c) PROVE FALSE
  <2> DEFINE p == DestOf[OldFile(c)]
  <2>1. \/ disk' = [disk EXCEPT ![p] = None] /\ partial' = partial \ {p}
        \/ UNCHANGED <<disk, partial>>
    BY <1>1 DEF RemoveOldFile
  <2> HIDE DEF p
  <2> QED
    BY <1>0, <2>1 DEF Truncated
<1>2. ASSUME NEW c \in Consumers, Copy(c) PROVE FALSE
  BY <1>2 DEF Copy, Truncated
<1>3. ASSUME NEW c \in Consumers, Transfer(c)
      PROVE  Transfer(c) /\ worker[c].rec = r /\ worker'[c].pc = "copying"
  <2> DEFINE s == worker[c].rec
  <2>1. s \in Records
    BY <1>0, <1>3 DEF Transfer, BusyHasRecord
  <2>2. \/ UNCHANGED <<disk, partial>>
        \/ mode # "copy" /\ disk' = [disk EXCEPT ![DestOf[s]] = s]
             /\ partial' \subseteq partial
        \/ disk' = [disk EXCEPT ![DestOf[s]] = s] /\ partial' = partial \cup {DestOf[s]}
             /\ Goto(c, "copying")
    BY <1>3 DEF Transfer
  <2>3. Goto(c, "copying") => worker'[c].pc = "copying"
    BY <1>0, GotoType
  <2> HIDE DEF s
  <2>4. /\ disk' = [disk EXCEPT ![DestOf[s]] = s]
        /\ partial' = partial \cup {DestOf[s]}
        /\ Goto(c, "copying")
    BY <1>0, <2>1, <2>2 DEF Truncated, Whole
  <2>5. s = r
    BY <1>0, <2>1, <2>4 DEF Truncated
  <2> QED
    BY <1>3, <2>3, <2>4, <2>5 DEF s
<1>4. CASE UNCHANGED <<disk, partial>>
  BY <1>4 DEF Truncated
<1> QED
  BY <1>1, <1>2, <1>3, <1>4
  DEF Next, vars, fsVars, Import, Scan, Poll, StillDownloading, FlipImporting,
      PersistSavePath, EnqueueCompleted, Consume, FindImporting, ListExisting,
      DeleteOldRow, ResolveDest, RecordSuccess, HandleOutcome, RecordFailure, Release,
      CancelFind, CancelTorrent, CancelDelete, CancelCheck, CancelRevert, Crash,
      Purge, TorrentGone, PurgeDelete, PurgeCheck, PurgeRevert

(* A row appears for a record about to have one, and a record comes to be  *)
(* about to have one with its file whole.                                  *)
LEMMA RecordsWhole ==
  ASSUME IInv, Whole, [Next]_vars
  PROVE  /\ \A r \in rows' \ rows :
              \E c \in Consumers : worker[c].pc = "record" /\ worker[c].rec = r
         /\ \A c \in Consumers :
              worker'[c].pc = "record" =>
                \/ worker[c].pc = "record" /\ worker'[c].rec = worker[c].rec
                \/ ~Truncated(worker[c].rec)'
<1> USE ConstantsAssumption DEF ConstantsAssumption
<1>0. /\ TypeOK /\ BusyHasRecord /\ ReplacesSameMovie
      /\ disk \in [Paths -> Records \cup {None}] /\ partial \subseteq Paths
      /\ worker \in [Consumers -> WorkerState]
      /\ {"list", "unlink", "unrow", "resolve", "transfer", "copying", "record",
          "outcome", "release"} \subseteq WorkerPC
  BY DEF IInv, TypeOK, FSTypeOK, QueueTypeOK, WorkerPC
<1>1. \A r \in rows' \ rows :
        \E c \in Consumers : worker[c].pc = "record" /\ worker[c].rec = r
  BY DEF Next, vars, dbVars, Import, Scan, Poll, StillDownloading, FlipImporting,
         PersistSavePath, EnqueueCompleted, Consume, FindImporting, ListExisting,
         RemoveOldFile, DeleteOldRow, ResolveDest, Transfer, Copy, RecordSuccess,
         HandleOutcome, RecordFailure, Release, CancelFind, CancelTorrent,
         CancelDelete, CancelCheck, CancelRevert, Crash, Purge, TorrentGone, PurgeDelete,
         PurgeCheck, PurgeRevert
<1>2. ASSUME NEW c \in Consumers, worker'[c].pc = "record",
             worker'[c] # worker[c]
      PROVE  ~Truncated(worker[c].rec)'
  <2> DEFINE r == worker[c].rec
  <2>1. ResolveDest(c) \/ Transfer(c) \/ Copy(c)
    <3>1. ~Crash /\ \A d \in Consumers : ~Release(d)
      BY <1>0, <1>2 DEF Crash, Release, Idle
    <3>2. \A d \in Consumers : ~Consume(d)
      <4> SUFFICES ASSUME NEW d \in Consumers, Consume(d) PROVE FALSE
        OBVIOUS
      <4> QED
        BY <1>0, <1>2, ConsumeStep
    <3>3. PICK d \in Consumers : Import(d)
      BY <1>2, <3>1, <3>2
      DEF Next, vars, Scan, Poll, StillDownloading, FlipImporting,
          PersistSavePath, EnqueueCompleted, CancelFind, CancelTorrent,
          CancelDelete, CancelCheck, CancelRevert, Purge, TorrentGone,
          PurgeDelete, PurgeCheck, PurgeRevert
    <3>4. d = c
      BY <1>0, <1>2, <3>1, <3>3, BusyStep DEF Busy
    <3>5. ASSUME FindImporting(c) PROVE FALSE
      BY <1>0, <1>2, <3>5, LeaveType, FailWithType DEF FindImporting, WorkerState
    <3>6. ASSUME ListExisting(c) PROVE FALSE
      <4>1. RowsOf(MovieOf[r]) \subseteq Records
        BY <1>0 DEF RowsOf, TypeOK, DBTypeOK
      <4> QED
        BY <1>0, <1>2, <3>6, <4>1, GotoType, GotoWithType, FailWithType
        DEF ListExisting
    <3>7. ASSUME RemoveOldFile(c) PROVE FALSE
      BY <1>0, <1>2, <3>7, GotoType DEF RemoveOldFile
    <3>8. ASSUME DeleteOldRow(c) PROVE FALSE
      <4>1. worker[c].old \ {OldFile(c)} \subseteq Records
        BY <1>0 DEF WorkerState
      <4> QED
        BY <1>0, <1>2, <3>8, <4>1, GotoWithType, FailWithType DEF DeleteOldRow
    <3>9. ASSUME RecordSuccess(c) \/ RecordFailure(c) PROVE FALSE
      BY <1>0, <1>2, <3>9, LeaveType, FailWithType DEF RecordSuccess, RecordFailure
    <3>10. ASSUME HandleOutcome(c) PROVE FALSE
      BY <1>0, <1>2, <3>10, OutcomeType
    <3> QED
      BY <3>1, <3>3, <3>4, <3>5, <3>6, <3>7, <3>8, <3>9, <3>10 DEF Import
  <2>2. r \in Records /\ worker'[c].rec = r
    BY <1>0, <2>1, BusyStep
    DEF Import, Release, ResolveDest, Transfer, Copy, Busy, BusyHasRecord
  <2>3. CASE ResolveDest(c)
    <3>1. Leave(c, "record", "nil") => mode = "hardlink"
      BY <1>0, <2>3, <2>2, LeaveType, FailWithType DEF ResolveDest, OwnInode
    <3>2. mode = "hardlink"
      <4>1. FailWith(c, "retryable") \/ FailWith(c, "terminal")
              \/ Leave(c, "transfer", "nil") => FALSE
        BY <1>0, <1>2, LeaveType, FailWithType
      <4> QED
        BY <2>3, <4>1 DEF ResolveDest, OwnInode
    <3>3. partial' = {}
      BY <2>3, <3>2 DEF ResolveDest, Whole, fsVars
    <3> QED
      BY <3>3 DEF Truncated
  <2>4. CASE Transfer(c)
    <3>1. ~FailWith(c, "retryable") /\ ~Goto(c, "copying")
      BY <1>0, <1>2, GotoType, FailWithType
    <3>2. mode # "copy" /\ partial' \subseteq partial
      BY <2>4, <3>1 DEF Transfer
    <3> QED
      BY <3>2 DEF Whole, Truncated
  <2>5. CASE Copy(c)
    <3>1. ~FailWith(c, "retryable")
      BY <1>0, <1>2, FailWithType
    <3>2. UNCHANGED disk /\ (disk[DestOf[r]] = r => DestOf[r] \notin partial')
      BY <2>5, <3>1 DEF Copy
    <3> QED
      BY <2>2, <3>2 DEF Truncated
  <2> QED
    BY <2>1, <2>3, <2>4, <2>5
<1> QED
  BY <1>1, <1>2

(* Without copies nothing is ever half copied. *)
LEMMA OnlyCopiesArePartial ==
  ASSUME IInv, Whole, [Next]_vars
  PROVE  mode' # "copy" => partial' = {}
<1>1. UNCHANGED mode /\ (mode # "copy" => partial' \subseteq partial)
  BY DEF Next, vars, fsVars, Import, Scan, Poll, StillDownloading, FlipImporting,
         PersistSavePath, EnqueueCompleted, Consume, FindImporting, ListExisting,
         RemoveOldFile, DeleteOldRow, ResolveDest, Transfer, Copy, RecordSuccess,
         HandleOutcome, RecordFailure, Release, CancelFind, CancelTorrent,
         CancelDelete, CancelCheck, CancelRevert, Crash, Purge, TorrentGone, PurgeDelete,
         PurgeCheck, PurgeRevert
<1> QED
  BY <1>1 DEF Whole

(* A copy truncates no file that has a row or is about to have one. *)
LEMMA WholeStep ==
  ASSUME IInv, Whole, [Next]_vars
  PROVE  Whole'
<1>0. /\ BusyHasRecord /\ InFlightExact /\ ImportIsExclusive
      /\ rows \subseteq Records
      /\ worker \in [Consumers -> WorkerState] /\ "copying" \in WorkerPC
  BY DEF IInv, TypeOK, DBTypeOK, QueueTypeOK, WorkerPC
<1>1. ASSUME NEW r \in Records, ~Truncated(r), Truncated(r)',
             r \in rows \/ \E c \in Consumers : worker[c].pc = "record" /\ worker[c].rec = r
      PROVE  FALSE
  <2>1. PICK d \in Consumers : Transfer(d) /\ worker[d].rec = r
    BY <1>1, CopyTruncates
  <2>2. worker[d].pc = "transfer"
    BY <2>1 DEF Transfer
  <2>3. r \notin rows
    BY <1>0, <2>1, <2>2 DEF ImportIsExclusive, MidImport
  <2> QED
    BY <1>0, <1>1, <2>1, <2>2, <2>3 DEF InFlightExact
<1>2. ASSUME NEW r \in rows' PROVE ~Truncated(r)'
  <2>1. r \in rows \/ \E c \in Consumers : worker[c].pc = "record" /\ worker[c].rec = r
    BY <1>2, RecordsWhole
  <2>2. r \in Records /\ ~Truncated(r)
    BY <1>0, <2>1 DEF Whole, BusyHasRecord
  <2> QED
    BY <1>1, <2>1, <2>2
<1>3. ASSUME NEW c \in Consumers, worker'[c].pc = "record"
      PROVE  ~Truncated(worker[c].rec)'
  <2> DEFINE r == worker[c].rec
  <2>1. CASE worker[c].pc = "record" /\ worker'[c].rec = r
    <3>1. r \in Records /\ ~Truncated(r)
      BY <1>0, <2>1 DEF Whole, BusyHasRecord
    <3>2. ~(disk'[DestOf[r]] = r /\ DestOf[r] \in partial')
      BY <1>1, <2>1, <3>1 DEF Truncated
    <3> QED
      BY <2>1, <3>2 DEF Truncated
  <2> QED
    BY <1>3, <2>1, RecordsWhole
<1> QED
  BY <1>2, <1>3, OnlyCopiesArePartial DEF Whole

(* A copy that failed or was cut short is never recorded as a file: the    *)
(* next attempt finds the destination taken and refuses it.                *)
THEOREM RowsAreWhole == Spec => []NoTruncatedRow
<1>1. Init => Whole
  BY DEF Init, Whole, Truncated, Idle
<1>2. IInv /\ Whole /\ [Next]_vars => Whole'
  BY WholeStep
<1>3. Whole => NoTruncatedRow
  BY DEF Whole, Truncated, NoTruncatedRow
<1> QED
  BY <1>1, <1>2, <1>3, Invariance, PTL DEF Spec
-----------------------------------------------------------------------------
(***************************************************************************)
(* What holds when at most one record of a movie is downloaded at a time,  *)
(* beside those imported before.                                           *)
(***************************************************************************)
OneGrab == \A r, s \in Records \ Imported : MovieOf[r] = MovieOf[s] => r = s

(* Records imported before the run begins stay completed. *)
NewOnly ==
  /\ \A r \in Imported :
       status[r] = "completed" /\ r \notin polled /\ purge[r] = "none"
  /\ cancel.pc # "idle" => cancel.rec \notin Imported

LEMMA NewOnlyStep ==
  ASSUME IInv, NewOnly, [Next]_vars
  PROVE  NewOnly'
<1> USE ConstantsAssumption DEF ConstantsAssumption
<1>0. /\ BusyHasRecord /\ CancelHasRecord /\ ImportIsExclusive
      /\ status \in [Records -> Status]
      /\ purge \in [Records -> {"none", "delete", "check", "revert"}]
      /\ cancel \in [pc : {"idle", "remove", "delete", "check", "revert"},
                     rec : Records \cup {None}]
  BY DEF IInv, TypeOK, DBTypeOK, MonitorTypeOK
<1>1. ASSUME NEW r \in Records, FlipImporting(r) PROVE NewOnly'
  BY <1>0, <1>1 DEF FlipImporting, NewOnly
<1>2. ASSUME NEW r \in Records, Purge(r) PROVE NewOnly'
  <2>1. UNCHANGED cancel /\ polled' \subseteq polled
    BY <1>2 DEF Purge, TorrentGone, PurgeDelete, PurgeCheck, PurgeRevert
  <2>2. r \notin Imported
    BY <1>2 DEF Purge, TorrentGone, PurgeDelete, PurgeCheck, PurgeRevert, NewOnly
  <2>3. \A s \in Records \ {r} : status'[s] = status[s] /\ purge'[s] = purge[s]
    BY <1>0, <1>2 DEF Purge, TorrentGone, PurgeDelete, PurgeCheck, PurgeRevert, dbVars
  <2> QED
    BY <2>1, <2>2, <2>3 DEF NewOnly
<1>3. ASSUME NEW c \in Consumers, RecordSuccess(c) \/ RecordFailure(c) PROVE NewOnly'
  <2>1. worker[c].rec \in Records /\ UNCHANGED <<cancel, polled, purge>>
    BY <1>0, <1>3 DEF RecordSuccess, RecordFailure, BusyHasRecord, monVars
  <2>2. \/ UNCHANGED status
        \/ status[worker[c].rec] # "completed"
             /\ \E v : status' = [status EXCEPT ![worker[c].rec] = v]
    BY <1>0, <1>3, <2>1
    DEF RecordSuccess, RecordFailure, ImportIsExclusive, MidImport
  <2> QED
    BY <1>0, <2>1, <2>2 DEF NewOnly
<1>4. CASE CancelTorrent \/ CancelDelete \/ CancelCheck \/ CancelRevert
  <2>1. cancel.pc # "idle" /\ UNCHANGED <<polled, purge>>
    BY <1>4 DEF CancelTorrent, CancelDelete, CancelCheck, CancelRevert, monVars
  <2>2. status' = status \/ status' = [status EXCEPT ![cancel.rec] = "deleted"]
    BY <1>4 DEF CancelTorrent, CancelDelete, CancelCheck, CancelRevert, dbVars
  <2>3. cancel' = NoCancel \/ \E pc : cancel' = [cancel EXCEPT !.pc = pc]
    BY <1>4 DEF CancelTorrent, CancelDelete, CancelCheck, CancelRevert
  <2>4. cancel'.pc = "idle" \/ cancel'.rec = cancel.rec
    BY <1>0, <2>3 DEF NoCancel
  <2> QED
    BY <1>0, <2>1, <2>2, <2>4 DEF NewOnly
<1>5. ASSUME NEW r \in Records, CancelFind(r) PROVE NewOnly'
  BY <1>5 DEF CancelFind, NewOnly, Active, dbVars, monVars
<1>6. CASE Poll
  BY <1>6 DEF Poll, NewOnly, dbVars
<1>7. CASE Crash
  BY <1>7 DEF Crash, NewOnly, NoPurge, NoCancel, dbVars
<1>8. CASE UNCHANGED <<status, cancel, purge>> /\ polled' \subseteq polled
  BY <1>8 DEF NewOnly
<1> QED
  BY <1>1, <1>2, <1>3, <1>4, <1>5, <1>6, <1>7, <1>8
  DEF Next, vars, dbVars, monVars, Import, Scan, StillDownloading, PersistSavePath,
      EnqueueCompleted, Consume, FindImporting, ListExisting, RemoveOldFile,
      DeleteOldRow, ResolveDest, Transfer, Copy, HandleOutcome, Release

(* A consumer in an import has one of the new records. *)
LEMMA MidImportIsNew ==
  ASSUME IInv, NewOnly, NEW c \in Consumers, worker[c].pc \in MidImport
  PROVE  worker[c].rec \in Records \ Imported
  BY DEF IInv, BusyHasRecord, ImportIsExclusive, NewOnly, MidImport

(* A row appears by the last step of its record's own import.              *)
LEMMA RowStep ==
  ASSUME IInv, NewOnly, [Next]_vars, NEW r \in rows' \ rows
  PROVE  /\ r \notin Imported
         /\ \E c \in Consumers :
              /\ worker[c].pc = "record" /\ worker[c].rec = r
              /\ worker'[c].pc = "release"
<1>0. worker \in [Consumers -> WorkerState] /\ "release" \in WorkerPC
  BY DEF IInv, TypeOK, QueueTypeOK, WorkerPC
<1>1. ASSUME NEW c \in Consumers, RecordSuccess(c)
      PROVE  /\ r \notin Imported
             /\ worker[c].pc = "record" /\ worker[c].rec = r
             /\ worker'[c].pc = "release"
  <2>1. worker[c].rec \notin Imported
    BY <1>1, MidImportIsNew DEF RecordSuccess, MidImport
  <2> QED
    BY <1>0, <1>1, <2>1, LeaveType DEF RecordSuccess
<1>2. \E c \in Consumers : RecordSuccess(c)
  BY DEF Next, vars, dbVars, Import, Scan, Poll, StillDownloading, FlipImporting,
         PersistSavePath, EnqueueCompleted, Consume, FindImporting, ListExisting,
         RemoveOldFile, DeleteOldRow, ResolveDest, Transfer, Copy,
         HandleOutcome, RecordFailure, Release, CancelFind, CancelTorrent,
         CancelDelete, CancelCheck, CancelRevert, Crash, Purge, TorrentGone, PurgeDelete,
         PurgeCheck, PurgeRevert
<1> QED
  BY <1>1, <1>2

LEMMA InitNewOnly == Init => NewOnly
<1> SUFFICES ASSUME Init PROVE NewOnly
  OBVIOUS
<1>1. ASSUME NEW r \in Imported
      PROVE  status[r] = "completed" /\ r \notin polled /\ purge[r] = "none"
  <2>1. r \in Records
    BY ConstantsAssumption DEF ConstantsAssumption
  <2> QED
    BY <2>1 DEF Init, NoPurge
<1>2. cancel.pc = "idle"
  BY DEF Init, NoCancel
<1> QED
  BY <1>1, <1>2 DEF NewOnly

-----------------------------------------------------------------------------
(* A record's file appears by its own transfer only.                       *)
LEMMA FileAppears ==
  ASSUME IInv, [Next]_vars, NEW r \in Records, disk'[DestOf[r]] = r, disk[DestOf[r]] # r
  PROVE  \E c \in Consumers : Transfer(c) /\ worker[c].rec = r
<1> USE ConstantsAssumption DEF ConstantsAssumption
<1>0. BusyHasRecord /\ disk \in [Paths -> Records \cup {None}]
  BY DEF IInv, TypeOK, FSTypeOK
<1>1. ASSUME NEW c \in Consumers, RemoveOldFile(c) PROVE FALSE
  <2> DEFINE p == DestOf[OldFile(c)]
  <2>1. disk' = [disk EXCEPT ![p] = None] \/ UNCHANGED disk
    BY <1>1 DEF RemoveOldFile
  <2> HIDE DEF p
  <2> QED
    BY <1>0, <2>1
<1>2. ASSUME NEW c \in Consumers, Transfer(c) PROVE worker[c].rec = r
  BY <1>0, <1>2 DEF Transfer, BusyHasRecord
<1> QED
  BY <1>1, <1>2
  DEF Next, vars, fsVars, Import, Scan, Poll, StillDownloading, FlipImporting,
      PersistSavePath, EnqueueCompleted, Consume, FindImporting, ListExisting,
      DeleteOldRow, ResolveDest, Copy, RecordSuccess, HandleOutcome, RecordFailure,
      Release, CancelFind, CancelTorrent, CancelDelete, CancelCheck, CancelRevert, Crash,
      Purge, TorrentGone, PurgeDelete, PurgeCheck, PurgeRevert

-----------------------------------------------------------------------------
(* What a consumer or a retry may conclude from what it sees on disk: a     *)
(* record placed by an import had its save path, a record that replaces     *)
(* nothing is placed only when its movie has no file, and a placed file     *)
(* gives no terminal error but that of the last attempt.                    *)
PlacedIsSaved ==
  /\ \A c \in Consumers :
       /\ worker[c].pc \in MidImport
       /\ worker[c].path \/ worker[c].pc \in {"transfer", "copying", "record"}
       => worker[c].rec \in saved
  /\ \A r \in Records : disk[DestOf[r]] = r => r \in saved

PlacedIsAlone ==
  /\ \A c \in Consumers :
       worker[c].pc \in {"resolve", "transfer", "copying", "record"}
       /\ worker[c].rec \notin Replacing
       => RowsOf(MovieOf[worker[c].rec]) = {}
  /\ \A r \in Records \ Imported :
       disk[DestOf[r]] = r /\ r \notin Replacing => RowsOf(MovieOf[r]) \subseteq {r}

PlacedIsNotRefused ==
  \A c \in Consumers :
    mode = "hardlink" /\ worker[c].pc \in {"outcome", "report"}
    /\ worker[c].err = "terminal" /\ source[worker[c].rec] = "good"
    /\ disk[DestOf[worker[c].rec]] = worker[c].rec
    => worker[c].pc = "report" /\ LastAttempt(attempts[worker[c].rec] + 1)

(* Save paths stay set, sources stay gone and the mode stays put.           *)
LEMMA Lasting ==
  ASSUME IInv, [Next]_vars
  PROVE  /\ UNCHANGED mode
         /\ saved \subseteq saved'
         /\ \A r \in Records : source'[r] = "good" => source[r] = "good"
<1>0. source \in [Records -> {"good", "bad", "gone"}]
  BY DEF IInv, TypeOK, FSTypeOK
<1>1. ASSUME NEW r \in Records, source' = [source EXCEPT ![r] = "gone"]
      PROVE  \A s \in Records : source'[s] = "good" => source[s] = "good"
  BY <1>0, <1>1
<1>2. CASE CancelTorrent
  <2>1. cancel.rec \in Records
    BY <1>2 DEF IInv, CancelHasRecord, CancelTorrent
  <2> QED
    BY <1>1, <1>2, <2>1 DEF CancelTorrent, dbVars
<1>3. ASSUME NEW c \in Consumers, Transfer(c)
      PROVE  /\ UNCHANGED <<mode, saved>>
             /\ \A s \in Records : source'[s] = "good" => source[s] = "good"
  <2>1. worker[c].rec \in Records
    BY <1>3 DEF IInv, BusyHasRecord, Transfer
  <2>2. UNCHANGED source \/ source' = [source EXCEPT ![worker[c].rec] = "gone"]
    BY <1>3 DEF Transfer
  <2>3. UNCHANGED <<mode, saved>>
    BY <1>3 DEF Transfer, dbVars
  <2> QED
    BY <1>1, <2>1, <2>2, <2>3
<1> QED
  BY <1>2, <1>3
  DEF Next, vars, dbVars, fsVars, Import, Scan, Poll, StillDownloading, FlipImporting,
      PersistSavePath, EnqueueCompleted, Consume, FindImporting, ListExisting,
      RemoveOldFile, DeleteOldRow, ResolveDest, Copy, RecordSuccess, HandleOutcome,
      RecordFailure, Release, CancelFind, CancelDelete, CancelCheck, CancelRevert, Crash, Purge,
      TorrentGone, PurgeDelete, PurgeCheck, PurgeRevert

LEMMA PlacedIsSavedStep ==
  ASSUME IInv, PlacedIsSaved, [Next]_vars
  PROVE  PlacedIsSaved'
<1>1. ASSUME NEW r \in Records, disk'[DestOf[r]] = r PROVE r \in saved'
  <2>1. CASE disk[DestOf[r]] = r
    BY <1>1, <2>1, Lasting DEF PlacedIsSaved
  <2>2. ASSUME NEW c \in Consumers, Transfer(c), worker[c].rec = r PROVE r \in saved
    BY <2>2 DEF PlacedIsSaved, Transfer, MidImport
  <2> QED
    BY <1>1, <2>1, <2>2, FileAppears, Lasting
<1>2. ASSUME NEW c \in Consumers, worker'[c].pc \in MidImport,
             worker'[c].path \/ worker'[c].pc \in {"transfer", "copying", "record"}
      PROVE  worker'[c].rec \in saved'
  <2>1. CASE worker'[c] = worker[c]
    BY <1>2, <2>1, Lasting DEF PlacedIsSaved
  <2>2. CASE worker'[c].rec = worker[c].rec /\ Advances(c)
    <3>1. \/ worker[c].rec \in saved
          \/ worker[c].pc \in MidImport
             /\ (worker[c].path \/ worker[c].pc \in {"transfer", "copying", "record"})
      BY <1>2, <2>2
      DEF Advances, MidImport, ListExisting, RemoveOldFile, DeleteOldRow, ResolveDest,
          Transfer, Copy
    <3> QED
      BY <2>2, <3>1, Lasting DEF PlacedIsSaved
  <2> QED
    BY <1>2, <2>1, <2>2, WorkerStep DEF MidImport
<1> QED
  BY <1>1, <1>2 DEF PlacedIsSaved

(* With one grab of a movie, the rows it gains during an import are none    *)
(* but the importing consumer's own last step.                              *)
LEMMA NoRivalRow ==
  ASSUME OneGrab, IInv, NewOnly, [Next]_vars, NEW r \in Records \ Imported,
         NEW s \in rows' \ rows, MovieOf[s] = MovieOf[r]
  PROVE  /\ s = r
         /\ \E c \in Consumers :
              worker[c].pc = "record" /\ worker[c].rec = r /\ worker'[c].pc = "release"
<1>1. s \in Records
  BY TypeStep DEF IInv, TypeOK, DBTypeOK
<1>2. s \notin Imported
      /\ \E c \in Consumers :
           worker[c].pc = "record" /\ worker[c].rec = s /\ worker'[c].pc = "release"
  BY RowStep
<1>3. s = r
  BY <1>1, <1>2 DEF OneGrab
<1> QED
  BY <1>2, <1>3

LEMMA PlacedIsAloneStep ==
  ASSUME OneGrab, IInv, NewOnly, PlacedIsAlone, [Next]_vars
  PROVE  PlacedIsAlone'
<1> DEFINE Placing == {"resolve", "transfer", "copying", "record"}
<1>0. InFlightExact
  BY DEF IInv
<1>1. ASSUME NEW c \in Consumers, worker'[c].pc \in Placing,
             worker'[c].rec \notin Replacing
      PROVE  \A s \in rows' : MovieOf[s] # MovieOf[worker'[c].rec]
  <2> DEFINE r == worker[c].rec
  <2>1. worker'[c] = worker[c] \/ (worker'[c].rec = r /\ Advances(c))
    BY <1>1, WorkerStep
  <2>2. worker'[c].rec = r
    BY <2>1
  <2>3. worker[c].pc \in MidImport
    BY <1>1, <2>1
    DEF Advances, MidImport, ListExisting, RemoveOldFile, DeleteOldRow, ResolveDest,
        Transfer, Copy
  <2>4. r \in Records \ Imported
    BY <2>3, MidImportIsNew
  <2>5. RowsOf(MovieOf[r]) = {}
    <3>1. worker[c].pc \in Placing \/ RowsOf(MovieOf[r]) = {}
      BY <1>1, <2>1, <2>2 DEF Advances, ResolveDest, Transfer, Copy
    <3> QED
      BY <1>1, <2>2, <3>1 DEF PlacedIsAlone
  <2>6. ASSUME NEW s \in rows', MovieOf[s] = MovieOf[r] PROVE FALSE
    <3>1. s \in rows' \ rows
      BY <2>5, <2>6 DEF RowsOf
    <3>2. PICK d \in Consumers :
            worker[d].pc = "record" /\ worker[d].rec = r /\ worker'[d].pc = "release"
      BY <2>4, <2>6, <3>1, NoRivalRow
    <3>3. d = c
      BY <1>0, <2>3, <3>2 DEF InFlightExact, MidImport
    <3> QED
      BY <1>1, <3>2, <3>3
  <2> QED
    BY <2>2, <2>6
<1>2. ASSUME NEW r \in Records \ Imported, disk'[DestOf[r]] = r, r \notin Replacing
      PROVE  \A s \in rows' : MovieOf[s] = MovieOf[r] => s = r
  <2>1. RowsOf(MovieOf[r]) \subseteq {r}
    <3>1. CASE disk[DestOf[r]] = r
      BY <1>2, <3>1 DEF PlacedIsAlone
    <3>2. ASSUME NEW c \in Consumers, Transfer(c), worker[c].rec = r
          PROVE  RowsOf(MovieOf[r]) = {}
      BY <1>2, <3>2 DEF PlacedIsAlone, Transfer
    <3> QED
      BY <1>2, <3>1, <3>2, FileAppears
  <2> QED
    BY <2>1, NoRivalRow DEF RowsOf
<1> QED
  BY <1>1, <1>2 DEF PlacedIsAlone, RowsOf

(* A terminal error is not about a file that is in place.                   *)
LEMMA PlacedIsNotRefusedStep ==
  ASSUME IInv, NewOnly, PlacedIsSaved, PlacedIsAlone, PlacedIsNotRefused, [Next]_vars
  PROVE  PlacedIsNotRefused'
<1>0. /\ InFlightExact /\ ImportIsExclusive
      /\ rows \subseteq Records
      /\ worker \in [Consumers -> WorkerState]
  BY DEF IInv, TypeOK, DBTypeOK, QueueTypeOK
<1> SUFFICES ASSUME NEW c \in Consumers, mode' = "hardlink",
                    worker'[c].pc \in {"outcome", "report"},
                    worker'[c].err = "terminal", source'[worker'[c].rec] = "good",
                    disk'[DestOf[worker'[c].rec]] = worker'[c].rec
             PROVE  /\ worker'[c].pc = "report"
                    /\ LastAttempt(attempts'[worker'[c].rec] + 1)
  BY DEF PlacedIsNotRefused, LastAttempt
<1> DEFINE r == worker[c].rec
<1>1. mode = "hardlink"
  BY Lasting
<1>2. CASE worker'[c] = worker[c]
  <2>1. r \in Records
    BY <1>2 DEF IInv, BusyHasRecord
  <2>2. disk[DestOf[r]] = r
    <3>1. ASSUME NEW d \in Consumers, Transfer(d), worker[d].rec = r PROVE FALSE
      BY <1>0, <1>2, <3>1 DEF InFlightExact, Transfer
    <3> QED
      BY <1>2, <2>1, <3>1, FileAppears
  <2>3. worker[c].pc = "report" /\ LastAttempt(attempts[r] + 1)
    BY <1>1, <1>2, <2>1, <2>2, Lasting DEF PlacedIsNotRefused
  <2>4. attempts'[r] = attempts[r]
    BY <1>2, <2>3, CountStays
  <2> QED
    BY <1>2, <2>3, <2>4
<1>3. CASE worker'[c].rec = r /\ r \in Records /\ Advances(c) /\ ~HandleOutcome(c)
  <2>1. \/ FindImporting(c) /\ r \notin saved
        \/ ListExisting(c) /\ RowsOf(MovieOf[r]) # {} /\ r \notin Replacing
        \/ ResolveDest(c)
            /\ (source[r] # "good" \/ (disk[DestOf[r]] # None /\ ~OwnInode(r)))
    BY <1>3 DEF Advances
  <2>2. UNCHANGED disk /\ disk[DestOf[r]] = r /\ source[r] = "good"
    BY <1>3, <2>1, Lasting DEF FindImporting, ListExisting, ResolveDest, fsVars
  <2>3. r \in saved
    BY <1>3, <2>2 DEF PlacedIsSaved
  <2>4. OwnInode(r)
    BY <1>1, <2>2 DEF OwnInode
  <2>5. CASE ListExisting(c) /\ RowsOf(MovieOf[r]) # {} /\ r \notin Replacing
    <3>1. r \in Records \ Imported /\ r \notin rows
      BY <1>0, <2>5, MidImportIsNew DEF ListExisting, ImportIsExclusive, MidImport
    <3>2. RowsOf(MovieOf[r]) \subseteq {r}
      BY <2>2, <2>5, <3>1 DEF PlacedIsAlone
    <3> QED
      BY <2>5, <3>1, <3>2 DEF RowsOf
  <2> QED
    BY <2>1, <2>2, <2>3, <2>4, <2>5
<1>4. CASE worker'[c].rec = r /\ r \in Records /\ Advances(c) /\ HandleOutcome(c)
  <2>1. worker[c].pc = "outcome" /\ UNCHANGED <<disk, source, attempts>>
    BY <1>4 DEF HandleOutcome, dbVars, fsVars
  <2>2. worker[c].err # "terminal"
    BY <1>1, <1>4, <2>1 DEF PlacedIsNotRefused
  <2>3. worker'[c].pc = "report" /\ LastAttempt(attempts[r] + 1)
    BY <1>0, <1>4, <2>2, OutcomeType
  <2> QED
    BY <1>4, <2>1, <2>3
<1> QED
  BY <1>2, <1>3, <1>4, WorkerStep

(* A record fails only by the report of its import, which counts the        *)
(* attempt, and its count does not move before it is imported again.        *)
LEMMA FailStep ==
  ASSUME IInv, [Next]_vars, NEW r \in Records, status'[r] = "failed"
  PROVE  \/ status[r] = "failed" /\ attempts'[r] = attempts[r]
         \/ \E c \in Consumers :
              /\ RecordFailure(c) /\ worker[c].rec = r
              /\ worker[c].err = "terminal" /\ attempts'[r] = attempts[r] + 1
<1>0. /\ BusyHasRecord /\ CancelHasRecord /\ ImportIsExclusive
      /\ status \in [Records -> Status] /\ attempts \in [Records -> 0..MaxAttempts]
  BY DEF IInv, TypeOK, DBTypeOK
<1>1. ASSUME NEW c \in Consumers, RecordFailure(c)
      PROVE  \/ status[r] = "failed" /\ attempts'[r] = attempts[r]
             \/ /\ worker[c].rec = r
                /\ worker[c].err = "terminal" /\ attempts'[r] = attempts[r] + 1
  <2> DEFINE q == worker[c].rec
  <2>1. q \in Records /\ status[q] \in {"importing", "deleted"}
    BY <1>0, <1>1 DEF RecordFailure, BusyHasRecord, ImportIsExclusive, MidImport
  <2>2. CASE UNCHANGED <<attempts, status>>
    BY <2>2
  <2>3. CASE /\ attempts' = [attempts EXCEPT ![q] = @ + 1]
             /\ UNCHANGED status
    BY <1>0, <2>1, <2>3
  <2>4. CASE /\ attempts' = [attempts EXCEPT ![q] = @ + 1]
             /\ status' = [status EXCEPT ![q] = "failed"]
             /\ worker[c].err = "terminal"
    BY <1>0, <2>1, <2>4
  <2> QED
    BY <1>1, <2>2, <2>3, <2>4 DEF RecordFailure
<1>2. ASSUME UNCHANGED attempts,
             \/ UNCHANGED status
             \/ \E q \in Records, v \in {"importing", "deleted", "completed"} :
                  status' = [status EXCEPT ![q] = v]
      PROVE  status[r] = "failed" /\ attempts'[r] = attempts[r]
  BY <1>0, <1>2
<1>3. CASE CancelDelete
  <2>1. cancel.rec \in Records
    BY <1>0, <1>3 DEF CancelDelete, CancelHasRecord
  <2> QED
    BY <1>2, <1>3, <2>1 DEF CancelDelete
<1>4. ASSUME NEW c \in Consumers, RecordSuccess(c)
      PROVE  status[r] = "failed" /\ attempts'[r] = attempts[r]
  <2>1. worker[c].rec \in Records
    BY <1>0, <1>4 DEF RecordSuccess, BusyHasRecord
  <2> QED
    BY <1>2, <1>4, <2>1 DEF RecordSuccess
<1>5. ASSUME NEW q \in Records, FlipImporting(q)
      PROVE  status[r] = "failed" /\ attempts'[r] = attempts[r]
  BY <1>2, <1>5 DEF FlipImporting
<1>6. ASSUME NEW q \in Records, PurgeDelete(q)
      PROVE  status[r] = "failed" /\ attempts'[r] = attempts[r]
  BY <1>2, <1>6 DEF PurgeDelete
<1>7. CASE UNCHANGED <<status, attempts>>
  BY <1>7
<1> QED
  BY <1>1, <1>3, <1>4, <1>5, <1>6, <1>7
  DEF Next, vars, dbVars, Import, Scan, Poll, StillDownloading,
      PersistSavePath, EnqueueCompleted, Consume, FindImporting, ListExisting,
      RemoveOldFile, DeleteOldRow, ResolveDest, Transfer, Copy, HandleOutcome,
      Release, CancelFind, CancelTorrent, CancelCheck, CancelRevert, Crash, Purge,
      TorrentGone, PurgeCheck, PurgeRevert

LEMMA RetryStep ==
  ASSUME IInv, PlacedIsNotRefused, HardlinkRetryIdempotent, [Next]_vars
  PROVE  HardlinkRetryIdempotent'
<1> USE ConstantsAssumption DEF ConstantsAssumption
<1>0. ImportIsExclusive /\ attempts' \in [Records -> 0..MaxAttempts]
  BY TypeStep DEF IInv, TypeOK, DBTypeOK
<1> SUFFICES ASSUME mode' = "hardlink", NEW r \in Records, status'[r] = "failed",
                    disk'[DestOf[r]] = r, source'[r] = "good"
             PROVE  attempts'[r] = MaxAttempts
  BY DEF HardlinkRetryIdempotent, PlacedFailsLate
<1>1. mode = "hardlink" /\ source[r] = "good"
  BY Lasting
<1>2. CASE status[r] = "failed" /\ attempts'[r] = attempts[r]
  <2>1. ASSUME NEW c \in Consumers, Transfer(c), worker[c].rec = r PROVE FALSE
    BY <1>0, <1>2, <2>1 DEF Transfer, ImportIsExclusive, MidImport
  <2>2. disk[DestOf[r]] = r
    BY <2>1, FileAppears
  <2> QED
    BY <1>1, <1>2, <2>2 DEF HardlinkRetryIdempotent, PlacedFailsLate
<1>3. ASSUME NEW c \in Consumers, RecordFailure(c), worker[c].rec = r,
             worker[c].err = "terminal", attempts'[r] = attempts[r] + 1
      PROVE  attempts'[r] = MaxAttempts
  <2>1. worker[c].pc = "report" /\ UNCHANGED disk
    BY <1>3 DEF RecordFailure, fsVars
  <2>2. attempts[r] + 1 >= MaxAttempts
    BY <1>1, <1>3, <2>1 DEF PlacedIsNotRefused, LastAttempt
  <2> QED
    BY <1>0, <1>3, <2>2
<1> QED
  BY <1>2, <1>3, FailStep

(* With hardlinks and one download of a movie at a time, a retry after any  *)
(* failure, cancel or crash takes its own earlier placement for what it is: *)
(* a record whose file is in place fails by using up its attempts, never by *)
(* refusing its destination or its movie (placeFile, os.SameFile, and       *)
(* importMovieRecord's refusal of a second file).                           *)
THEOREM RetryKnowsItsFile ==
  ASSUME OneGrab
  PROVE  Spec => []HardlinkRetryIdempotent
<1> DEFINE Placed == PlacedIsSaved /\ PlacedIsAlone /\ PlacedIsNotRefused
           Inv == NewOnly /\ Placed /\ HardlinkRetryIdempotent
<1>1. Init => Inv
  <2> SUFFICES ASSUME Init PROVE Placed /\ HardlinkRetryIdempotent
    BY InitNewOnly
  <2>1. \A c \in Consumers : worker[c].pc = "idle"
    BY DEF Init, Idle
  <2>2. \A r \in Records : disk[DestOf[r]] = r => r \in Imported
    BY ConstantsAssumption DEF ConstantsAssumption, Init
  <2>3. PlacedIsSaved
    BY <2>1, <2>2 DEF PlacedIsSaved, MidImport, Init
  <2>4. PlacedIsAlone /\ PlacedIsNotRefused
    BY <2>1, <2>2 DEF PlacedIsAlone, PlacedIsNotRefused
  <2>5. \A r \in Records : status[r] # "failed"
    BY DEF Init
  <2> QED
    BY <2>3, <2>4, <2>5 DEF HardlinkRetryIdempotent, PlacedFailsLate
<1>2. IInv /\ Inv /\ [Next]_vars => Inv'
  BY NewOnlyStep, PlacedIsSavedStep, PlacedIsAloneStep, PlacedIsNotRefusedStep, RetryStep
<1> HIDE DEF Placed
<1>3. Inv => HardlinkRetryIdempotent
  OBVIOUS
<1> HIDE DEF Inv
<1> QED
  BY <1>1, <1>2, <1>3, Invariance, PTL DEF Spec
=============================================================================
