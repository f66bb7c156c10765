--------------------------- MODULE DownloadTracking ---------------------------
(***************************************************************************)
(* Who tracks a torrent: grabs (internal/download/manager.go, grab), the   *)
(* download_monitor job with CheckStatus and AdoptManualTorrents           *)
(* (internal/download/adopt.go), the hourly PurgeOrphanedTorrents, the     *)
(* requests that cancel a download or decide on a proposal, and a download *)
(* client that has a life of its own.  The importer is reduced to what     *)
(* ImportWorker details: it settles importing records.                     *)
(*                                                                         *)
(* One step is one call of the client together with the statement it       *)
(* decides on, or one statement of the database.  A record that is deleted *)
(* is "free"; its id is used again once no local variable holds it, so     *)
(* that ids stand for an endless supply.                                   *)
(***************************************************************************)
EXTENDS Naturals

CONSTANTS
  Torrents,      \* info hashes
  Movies,
  MovieOf,       \* the movie a torrent is a release of
  GoodQuality,   \* torrents that meet their movie's quality profile
  Ids,           \* download_record ids in use at once
  Grabbers,      \* bound: grabs in progress at once
  KeepSeeding,   \* Library.KeepTorrentSeeding
  WithFile,      \* movies that may have a file in the beginning
  MaxGrabs,      \* bound: grabs in one behaviour
  Faults,        \* the failures that happen: "database", "client", "crash"
  OrphanJob,     \* bound: is PurgeOrphanedTorrents due in this behaviour
  None           \* no torrent, no record

ASSUME ConstantsAssumption ==
  /\ MovieOf \in [Torrents -> Movies]
  /\ GoodQuality \subseteq Torrents
  /\ KeepSeeding \in BOOLEAN
  /\ WithFile \subseteq Movies
  /\ MaxGrabs \in Nat
  /\ Faults \subseteq {"database", "client", "crash"}
  /\ OrphanJob \in BOOLEAN
  /\ None \notin Torrents \cup Ids

VARIABLES
  client,             \* the torrents of the download client
  status, torrent,    \* download_record
  movie, hasFile,     \* movie.status; has it a media_file row
  grabber,            \* the grabs in progress
  polled, monitor,    \* CheckStatus, then AdoptManualTorrents
  listed,             \* PurgeOrphanedTorrents
  request,            \* one request of a user
  grabs

dbVars == <<status, torrent, movie, hasFile>>
procVars == <<grabber, polled, monitor, listed, request, grabs>>
vars == <<client, dbVars, procVars>>

Status == {"free", "downloading", "importing", "completed", "failed",
           "pending", "dismissed"}
Active == {"downloading", "importing"}
MovieStatus == {"wanted", "downloading", "available", "failed"}

NoGrab == [pc |-> "idle", hash |-> None]
NoAdoption == [pc |-> "idle", known |-> {}, found |-> {}, now |-> None,
               auto |-> FALSE]
NoRequest == [pc |-> "idle", id |-> None]

(* An error that its caller logs or returns, without another change.       *)
Fails(what) == what \in Faults

ActiveOf(m) == {i \in Ids : status[i] \in Active /\ MovieOf[torrent[i]] = m}

TypeOK ==
  /\ client \in [Torrents -> {"absent", "active", "done"}]
  /\ status \in [Ids -> Status]
  /\ \A i \in Ids : status[i] # "free" => torrent[i] \in Torrents
  /\ movie \in [Movies -> MovieStatus]
  /\ hasFile \in [Movies -> BOOLEAN]
  /\ \A g \in Grabbers :
       grabber[g] \in [pc : {"idle", "add", "record", "flip"},
                       hash : Torrents \cup {None}]
  /\ polled \subseteq Ids
  /\ monitor \in [pc : {"idle", "records", "list", "classify", "persist"},
                  known : SUBSET Torrents, found : SUBSET Torrents,
                  now : Torrents \cup {None}, auto : BOOLEAN]
  /\ listed \subseteq Ids
  /\ request \in [pc : {"idle", "remove", "delete", "clear", "import",
                       "dismiss"},
                  id : Ids \cup {None}]
  /\ grabs \in 0..MaxGrabs

Init ==
  /\ client = [h \in Torrents |-> "absent"]
  /\ status = [i \in Ids |-> "free"]
  /\ torrent = [i \in Ids |-> None]
  /\ hasFile \in [Movies -> BOOLEAN]
  /\ \A m \in Movies : hasFile[m] => m \in WithFile
  /\ movie = [m \in Movies |-> IF hasFile[m] THEN "available" ELSE "wanted"]
  /\ grabber = [g \in Grabbers |-> NoGrab]
  /\ polled = {}
  /\ monitor = NoAdoption
  /\ listed = {}
  /\ request = NoRequest
  /\ grabs = 0

-----------------------------------------------------------------------------
(* The client, and its owner at the client's own user interface.           *)
Finish(h) ==
  /\ client[h] = "active"
  /\ client' = [client EXCEPT ![h] = "done"]
  /\ UNCHANGED <<dbVars, procVars>>

AddByHand(h) ==
  /\ client[h] = "absent"
  /\ client' = [client EXCEPT ![h] = "active"]
  /\ UNCHANGED <<dbVars, procVars>>

RemoveByHand(h) ==
  /\ client[h] # "absent"
  /\ client' = [client EXCEPT ![h] = "absent"]
  /\ UNCHANGED <<dbVars, procVars>>

(* RemoveTorrent: any error is only logged by its callers.                 *)
RemoveTorrent(h) ==
  \/ client' = [client EXCEPT ![h] = "absent"]
  \/ Fails("client") /\ UNCHANGED client

-----------------------------------------------------------------------------
(* CreateDownloadRecord with an id nothing in the process remembers.       *)
Fresh ==
  {i \in Ids : status[i] = "free"} \ (polled \cup listed \cup {request.id})

CreateWithoutHash(i, h, s) ==
  /\ status' = [status EXCEPT ![i] = s]
  /\ torrent' = [torrent EXCEPT ![i] = None]

Create(i, h, s) ==
  /\ status' = [status EXCEPT ![i] = s]
  /\ torrent' = [torrent EXCEPT ![i] = h]

(* A grab starts with a movie off the list of a search, which leaves out a *)
(* movie with a download under way, or with a release a user has picked.   *)
Begin(g, h) ==
  /\ grabber[g].pc = "idle" /\ grabs < MaxGrabs
  /\ grabber' = [grabber EXCEPT ![g] = [pc |-> "add", hash |-> h]]
  /\ grabs' = grabs + 1
  /\ UNCHANGED <<client, dbVars, polled, monitor, listed, request>>

Eligible(m) == movie[m] = "wanted" /\ ActiveOf(m) = {}

Search(g, h) == Eligible(MovieOf[h]) /\ Begin(g, h)

GrabByHand(g, h) == Begin(g, h)

GrabStep(g, next) ==
  /\ grabber' = [grabber EXCEPT ![g] = next]
  /\ UNCHANGED <<polled, monitor, listed, request, grabs>>

(* AddTorrent: refused when the client has the torrent.  An error may hide *)
(* that the torrent was added.                                             *)
AddTorrent(g) ==
  LET h == grabber[g].hash
      added == [client EXCEPT ![h] = "active"]
  IN
  /\ grabber[g].pc = "add"
  /\ \/ /\ client[h] # "absent" \/ Fails("client")
        /\ GrabStep(g, NoGrab)
        /\ UNCHANGED client
     \/ /\ client[h] = "absent"
        /\ client' = added
        /\ \/ Fails("client") /\ GrabStep(g, NoGrab)
           \/ GrabStep(g, [grabber[g] EXCEPT !.pc = "record"])
  /\ UNCHANGED dbVars

CreateRecord(g) ==
  /\ grabber[g].pc = "record"
  /\ \/ /\ Fails("database")
        /\ GrabStep(g, NoGrab)
        /\ UNCHANGED <<status, torrent>>
     \/ LET i == CHOOSE i \in Fresh : TRUE IN
        /\ Fresh # {}
        /\ Create(i, grabber[g].hash, "downloading")
        /\ GrabStep(g, [grabber[g] EXCEPT !.pc = "flip"])
  /\ UNCHANGED <<client, movie, hasFile>>

(* UpdateMovieStatus: unconditional, whatever has become of the download.  *)
FlipMovie(g) ==
  /\ grabber[g].pc = "flip"
  /\ GrabStep(g, NoGrab)
  /\ \/ movie' = [movie EXCEPT ![MovieOf[grabber[g].hash]] = "downloading"]
     \/ Fails("database") /\ UNCHANGED movie
  /\ UNCHANGED <<client, status, torrent, hasFile>>

Grab(g) == AddTorrent(g) \/ CreateRecord(g) \/ FlipMovie(g)

-----------------------------------------------------------------------------
(* monitorOrphanGrace and orphanGrace: no purge while the grab that made   *)
(* the record goes on.  How old a record is otherwise is not modelled.     *)
Young(i) ==
  \E g \in Grabbers : grabber[g].pc = "flip" /\ grabber[g].hash = torrent[i]

(* DeleteDownloadRecord and RevertMovieToWantedIfNoFile, whose steps       *)
(* ImportWorker takes apart; a database error ends it anywhere.            *)
Delete(i) ==
  LET m == MovieOf[torrent[i]] IN
  \/ /\ status[i] # "free"
     /\ status' = [status EXCEPT ![i] = "free"]
     /\ \/ movie' = IF hasFile[m] THEN movie ELSE [movie EXCEPT ![m] = "wanted"]
        \/ Fails("database") /\ UNCHANGED movie
  \/ status[i] = "free" /\ UNCHANGED <<status, movie>>
  \/ Fails("database") /\ UNCHANGED <<status, movie>>

-----------------------------------------------------------------------------
(* CheckStatus: a snapshot of the downloading records, one goroutine each. *)
(* A list that fails ends the tick, the adoption pass included.            *)
Poll ==
  /\ monitor.pc = "idle"
  /\ \/ Fails("database") /\ UNCHANGED <<monitor, polled>>
     \/ /\ monitor' = [monitor EXCEPT !.pc = "records"]
        /\ polled' = {i \in Ids : status[i] = "downloading"}
  /\ UNCHANGED <<client, dbVars, grabber, listed, request, grabs>>

MissingNever(h) == FALSE

(* ErrTorrentNotFound.                                                     *)
Missing(h) == client[h] = "absent"

(* The torrent is in progress, the client does not answer, or the record   *)
(* is too young to be purged.                                              *)
Leave(i) ==
  /\ i \in polled
  /\ polled' = polled \ {i}
  /\ UNCHANGED <<client, dbVars, grabber, monitor, listed, request, grabs>>

(* A finished torrent: the update is by id, and fails when the record is   *)
(* gone.                                                                   *)
FlipImporting(i) ==
  /\ i \in polled /\ client[torrent[i]] = "done"
  /\ polled' = polled \ {i}
  /\ status[i] # "free"
  /\ status' = [status EXCEPT ![i] = "importing"]
  /\ UNCHANGED <<client, torrent, movie, hasFile, grabber, monitor, listed,
                 request, grabs>>

PurgeRecord(i) ==
  /\ i \in polled /\ Missing(torrent[i]) /\ ~Young(i)
  /\ polled' = polled \ {i}
  /\ Delete(i)
  /\ UNCHANGED <<client, torrent, hasFile, grabber, monitor, listed,
                 request, grabs>>

CheckStatus(i) == Leave(i) \/ FlipImporting(i) \/ PurgeRecord(i)

-----------------------------------------------------------------------------
(* AdoptManualTorrents, in the same job after CheckStatus.  The hashes of  *)
(* all records are read first, the client is listed second; proposals for  *)
(* torrents that are gone are pruned before anything is adopted.           *)
MonitorStep(next) ==
  /\ monitor' = next
  /\ UNCHANGED <<client, movie, hasFile, grabber, polled, listed, request,
                 grabs>>

KnownActive == {torrent[i] : i \in {j \in Ids : status[j] \in Active}}

KnownDeleted == {torrent[i] : i \in Ids} \ {None}

(* AllDownloadRecordHashes: of records of any status.                      *)
KnownHashes == {torrent[i] : i \in {j \in Ids : status[j] # "free"}}

AdoptKnown ==
  /\ monitor.pc = "records"
  /\ polled = {}
  /\ \/ Fails("database") /\ MonitorStep(NoAdoption)
     \/ MonitorStep([monitor EXCEPT !.pc = "list", !.known = KnownHashes])
  /\ UNCHANGED <<status, torrent>>

NextFound(found) ==
  IF found = {} THEN NoAdoption
                ELSE [NoAdoption EXCEPT !.pc = "classify", !.found = found]

Stale(i) == status[i] = "pending" /\ client[torrent[i]] = "absent"

PruneAfterEarlyExit(found) ==
  status' = [i \in Ids |-> IF found # {} /\ Stale(i) THEN "free" ELSE status[i]]

(* DeleteStalePendingAdoptions; an error is only logged.                   *)
Prune(found) ==
  \/ status' = [i \in Ids |-> IF Stale(i) THEN "free" ELSE status[i]]
  \/ Fails("database") /\ UNCHANGED status

AdoptList ==
  /\ monitor.pc = "list"
  /\ \/ /\ Fails("client")
        /\ MonitorStep(NoAdoption)
        /\ UNCHANGED status
     \/ LET found == {h \in Torrents : client[h] = "done"} \ monitor.known IN
        /\ MonitorStep(NextFound(found))
        /\ Prune(found)
  /\ UNCHANGED torrent

(* classifyMovieAdoption: import it when the movie has no file and the     *)
(* quality will do; a file check that fails counts as a file.              *)
AdoptClassify(h) ==
  /\ monitor.pc = "classify"
  /\ h \in monitor.found
  /\ \E auto \in BOOLEAN :
       /\ auto => ~hasFile[MovieOf[h]] /\ h \in GoodQuality
       /\ MonitorStep([monitor EXCEPT !.pc = "persist", !.now = h,
                                      !.auto = auto])
  /\ UNCHANGED <<status, torrent>>

AdoptPersist ==
  /\ monitor.pc = "persist"
  /\ MonitorStep(NextFound(monitor.found \ {monitor.now}))
  /\ \/ Fails("database") /\ UNCHANGED <<status, torrent>>
     \/ /\ Fresh # {}
        /\ Create(CHOOSE i \in Fresh : TRUE, monitor.now,
                  IF monitor.auto THEN "importing" ELSE "pending")

Adopt == AdoptKnown \/ AdoptList \/ AdoptPersist
         \/ \E h \in Torrents : AdoptClassify(h)

-----------------------------------------------------------------------------
(* PurgeOrphanedTorrents: one record after the other, off a list read in   *)
(* the beginning.                                                          *)
OrphanList ==
  /\ OrphanJob
  /\ listed = {}
  /\ listed' = {i \in Ids : status[i] = "downloading"}
  /\ listed' # {}
  /\ UNCHANGED <<client, dbVars, grabber, polled, monitor, request, grabs>>

OrphanVisit(i) ==
  /\ i \in listed
  /\ listed' = listed \ {i}
  /\ UNCHANGED <<status, movie>> \/ (Missing(torrent[i]) /\ ~Young(i) /\ Delete(i))
  /\ UNCHANGED <<client, torrent, hasFile, grabber, polled, monitor,
                 request, grabs>>

(* PurgeOldRecords, after the retention periods.                           *)
PurgeOld(i) ==
  /\ status[i] \in {"completed", "failed"}
  /\ status' = [status EXCEPT ![i] = "free"]
  /\ UNCHANGED <<client, torrent, movie, hasFile, procVars>>

-----------------------------------------------------------------------------
(* Worker.runImport, as far as other components see it.                    *)
(* replaceMovieFiles, for a record that was flagged to replace the file.   *)
DropOldFile(i) ==
  LET m == MovieOf[torrent[i]] IN
  /\ status[i] = "importing" /\ hasFile[m]
  /\ hasFile' = [hasFile EXCEPT ![m] = FALSE]
  /\ movie' = [movie EXCEPT ![m] = "wanted"]
  /\ UNCHANGED <<client, status, torrent, procVars>>

ImportSucceeds(i) ==
  LET m == MovieOf[torrent[i]] IN
  /\ status[i] = "importing" /\ ~hasFile[m]
  /\ status' = [status EXCEPT ![i] = "completed"]
  /\ hasFile' = [hasFile EXCEPT ![m] = TRUE]
  /\ movie' = [movie EXCEPT ![m] = "available"]
  /\ IF KeepSeeding THEN UNCHANGED client ELSE RemoveTorrent(torrent[i])
  /\ UNCHANGED <<torrent, procVars>>

ImportFails(i) ==
  /\ status[i] = "importing"
  /\ status' = [status EXCEPT ![i] = "failed"]
  /\ movie' = [movie EXCEPT ![MovieOf[torrent[i]]] = "failed"]
  /\ UNCHANGED <<client, torrent, hasFile, procVars>>

Import(i) ==
  DropOldFile(i) \/ ImportSucceeds(i) \/ ImportFails(i)

-----------------------------------------------------------------------------
(* Requests, one at a time: CancelQueueItem on an active record, and the   *)
(* three answers to a proposal.  Each finds its record and then acts on    *)
(* the id.                                                                 *)
RequestVars == <<movie, hasFile, grabber, polled, monitor, listed, grabs>>

CancelFind(i) ==
  /\ request.pc = "idle"
  /\ status[i] \in Active
  /\ request' = [pc |-> "remove", id |-> i]
  /\ UNCHANGED <<client, status, torrent, RequestVars>>

CancelTorrent ==
  /\ request.pc = "remove"
  /\ request' = [request EXCEPT !.pc = "delete"]
  /\ RemoveTorrent(torrent[request.id])
  /\ UNCHANGED <<status, torrent, RequestVars>>

CancelDelete ==
  /\ request.pc = "delete"
  /\ request' = NoRequest
  /\ Delete(request.id)
  /\ UNCHANGED <<client, torrent, hasFile, grabber, polled, monitor, listed,
                 grabs>>

(* ImportPending, ReplacePending and IgnorePending.                        *)
PendingFind(i) ==
  /\ request.pc = "idle"
  /\ status[i] = "pending"
  /\ \E pc \in {"clear", "import", "dismiss"} : request' = [pc |-> pc, id |-> i]
  /\ UNCHANGED <<client, status, torrent, RequestVars>>

PendingUpdate(s) ==
  /\ status[request.id] # "free"
  /\ status' = [status EXCEPT ![request.id] = s]

(* The record is gone meanwhile, or the update fails.                      *)
PendingRefused ==
  /\ status[request.id] = "free" \/ Fails("database")
  /\ UNCHANGED status

(* clearExistingFile; an error ends the request.                           *)
ClearExisting ==
  LET m == MovieOf[torrent[request.id]] IN
  /\ request.pc = "clear"
  /\ \/ /\ request' = [request EXCEPT !.pc = "import"]
        /\ hasFile' = [hasFile EXCEPT ![m] = FALSE]
        /\ movie' = IF hasFile[m] THEN [movie EXCEPT ![m] = "wanted"] ELSE movie
     \/ /\ Fails("database")
        /\ request' = NoRequest
        /\ UNCHANGED <<movie, hasFile>>
  /\ UNCHANGED <<client, status, torrent, grabber, polled, monitor, listed,
                 grabs>>

(* The last statement of ReplacePending as well.                           *)
ImportPending ==
  /\ request.pc = "import"
  /\ request' = NoRequest
  /\ PendingUpdate("importing") \/ PendingRefused
  /\ UNCHANGED <<client, torrent, RequestVars>>

(* The torrent is removed as well when the user asks for it.               *)
IgnorePending ==
  /\ request.pc = "dismiss"
  /\ request' = NoRequest
  /\ \/ /\ PendingUpdate("dismissed")
        /\ RemoveTorrent(torrent[request.id]) \/ UNCHANGED client
     \/ PendingRefused /\ UNCHANGED client
  /\ UNCHANGED <<torrent, RequestVars>>

Respond ==
  \/ CancelTorrent \/ CancelDelete
  \/ ClearExisting \/ ImportPending \/ IgnorePending

(* The process dies and restarts; the client and the database go on.       *)
Crash ==
  /\ Fails("crash")
  /\ grabber' = [g \in Grabbers |-> NoGrab]
  /\ polled' = {}
  /\ monitor' = NoAdoption
  /\ listed' = {}
  /\ request' = NoRequest
  /\ UNCHANGED <<client, dbVars, grabs>>

-----------------------------------------------------------------------------
Works ==
  \/ \E h \in Torrents : Finish(h) \/ AddByHand(h) \/ RemoveByHand(h)
  \/ \E g \in Grabbers :
       Grab(g) \/ \E h \in Torrents : Search(g, h) \/ GrabByHand(g, h)
  \/ Poll \/ Adopt
  \/ \E i \in Ids : CheckStatus(i)
  \/ OrphanList
  \/ \E i \in Ids : OrphanVisit(i) \/ PurgeOld(i) \/ Import(i)
  \/ \E i \in Ids : CancelFind(i) \/ PendingFind(i)
  \/ Respond

Next == Works \/ Crash

Spec == Init /\ [][Next]_vars

(* The job ticks for ever, and grabs and requests run to their end; the    *)
(* calls the job makes of the client and the database do not fail every    *)
(* time, a record gets old enough to be purged, and the process does not   *)
(* restart for ever.                                                       *)
Fairness ==
  /\ <>[][Works]_vars
  /\ WF_vars(Poll) /\ WF_vars(Adopt) /\ WF_vars(Respond)
  /\ \A g \in Grabbers : WF_vars(Grab(g))
  /\ \A i \in Ids :
       /\ WF_vars(CheckStatus(i)) /\ WF_vars(OrphanVisit(i))
       /\ SF_vars(PurgeRecord(i) /\ status' # status)
  /\ SF_vars(AdoptKnown /\ monitor'.pc = "list")
  /\ SF_vars(AdoptList /\ monitor'.pc = "classify")
  /\ SF_vars(AdoptList /\ status' # status)
  /\ SF_vars(AdoptPersist /\ status' # status)

FairSpec == Spec /\ Fairness

-----------------------------------------------------------------------------
(***************************************************************************)
(* Properties.                                                             *)
(***************************************************************************)

(* A torrent is proposed at most once, also after its proposal was         *)
(* dismissed: the adoption pass skips hashes of records of any status.     *)
ProposedOnce ==
  \A i, j \in Ids :
    /\ status[i] \in {"pending", "dismissed"}
    /\ status[j] \in {"pending", "dismissed"}
    /\ torrent[i] = torrent[j]
    => i = j

(* A finished torrent does not stay untracked: whatever a grab or a cancel *)
(* left behind in the client, the adoption pass picks up, or it is removed.*)
DoneIsTracked ==
  \A h \in Torrents :
    client[h] = "done"
      ~> \/ \E i \in Ids : status[i] # "free" /\ torrent[i] = h
         \/ client[h] # "done"

(* A record whose torrent is gone does not download for ever.  (Of a client*)
(* that stays configured: CheckStatus and PurgeOrphanedTorrents pass over  *)
(* the records of a client the configuration no longer names.)             *)
VanishedIsPurged ==
  \A i \in Ids :
    (status[i] = "downloading" /\ client[torrent[i]] = "absent")
      ~> (status[i] # "downloading" \/ client[torrent[i]] # "absent")

(* "so an emptied needs-attention queue self-heals" (AdoptManualTorrents): *)
(* a proposal does not outlive its torrent.                                *)
StaleProposalPruned ==
  \A i \in Ids :
    (status[i] = "pending" /\ client[torrent[i]] = "absent")
      ~> (status[i] # "pending" \/ client[torrent[i]] # "absent")

(* "so its media reverts instead of being stuck "downloading"" (CheckStatus*)
(* on a vanished torrent): a downloading movie has a download.             *)
NoMovieStuck ==
  \A m \in Movies :
    movie[m] = "downloading" => ActiveOf(m) # {}
=============================================================================
