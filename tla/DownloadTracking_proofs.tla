------------------------ MODULE DownloadTracking_proofs ------------------------
(***************************************************************************)
(* What holds of the tracking of torrents for any number of torrents,      *)
(* records and grabs, whatever the client, its owner, the faults and the   *)
(* other jobs do.                                                          *)
(***************************************************************************)
EXTENDS DownloadTracking, TLAPS

GrabState == [pc : {"idle", "add", "record", "flip"}, hash : Torrents \cup {None}]
AdoptionState ==
  [pc : {"idle", "records", "list", "classify", "persist"},
   known : SUBSET Torrents, found : SUBSET Torrents,
   now : Torrents \cup {None}, auto : BOOLEAN]
RequestState ==
  [pc : {"idle", "remove", "delete", "clear", "import", "dismiss"},
   id : Ids \cup {None}]

(* A grab has its torrent, a request its record, an adoption one it found. *)
Types ==
  /\ client \in [Torrents -> {"absent", "active", "done"}]
  /\ status \in [Ids -> Status]
  /\ torrent \in [Ids -> Torrents \cup {None}]
  /\ \A i \in Ids : status[i] # "free" => torrent[i] \in Torrents
  /\ movie \in [Movies -> MovieStatus]
  /\ hasFile \in [Movies -> BOOLEAN]
  /\ grabber \in [Grabbers -> GrabState]
  /\ \A g \in Grabbers : grabber[g].pc # "idle" => grabber[g].hash \in Torrents
  /\ polled \subseteq Ids
  /\ monitor \in AdoptionState
  /\ monitor.pc = "persist" => monitor.now \in monitor.found
  /\ listed \subseteq Ids
  /\ request \in RequestState
  /\ request.pc # "idle" => request.id \in Ids
  /\ grabs \in 0..MaxGrabs

LEMMA InitTypes == Init => Types
  BY ConstantsAssumption
  DEF Init, Types, ConstantsAssumption, Status, MovieStatus, GrabState,
      AdoptionState, RequestState, NoGrab, NoAdoption, NoRequest
-----------------------------------------------------------------------------
(* What becomes of record i in a step.                                     *)
RecordMoves(i) ==
  \/ status'[i] = status[i] /\ torrent'[i] = torrent[i]
  \/ status'[i] = "free" /\ torrent'[i] = torrent[i]
  \/ /\ \/ status[i] = "importing"
        \/ i \in polled /\ status[i] # "free"
        \/ /\ request.pc = "import" /\ request.id = i /\ status[i] # "free"
           /\ request' = NoRequest
     /\ status'[i] \in {"importing", "completed", "failed"}
     /\ torrent'[i] = torrent[i]
  \/ /\ request.pc = "dismiss" /\ request.id = i /\ status[i] # "free"
     /\ request' = NoRequest
     /\ status'[i] = "dismissed" /\ torrent'[i] = torrent[i]
  \/ /\ \E g \in Grabbers : grabber[g].pc = "record" /\ torrent'[i] = grabber[g].hash
     /\ i \in Fresh
     /\ status'[i] = "downloading"
  \/ /\ monitor.pc = "persist" /\ torrent'[i] = monitor.now
     /\ monitor'.found = monitor.found \ {monitor.now}
     /\ i \in Fresh
     /\ status'[i] \in {"importing", "pending"}
     /\ \A j \in Ids \ {i} : status'[j] = status[j] /\ torrent'[j] = torrent[j]

LEMMA RecordStep ==
  ASSUME Types, [Next]_vars, NEW i \in Ids
  PROVE  RecordMoves(i)
<1>0. /\ status \in [Ids -> Status] /\ torrent \in [Ids -> Torrents \cup {None}]
  BY DEF Types
<1>1. CASE UNCHANGED <<status, torrent>>
  BY <1>1 DEF RecordMoves
<1>2. ASSUME NEW g \in Grabbers, CreateRecord(g) PROVE RecordMoves(i)
  <2>1. CASE UNCHANGED <<status, torrent>>
    BY <1>1, <2>1
  <2>2. CASE ~UNCHANGED <<status, torrent>>
    <3> DEFINE n == CHOOSE j \in Fresh : TRUE
    <3>1. n \in Fresh /\ grabber[g].pc = "record"
          /\ Create(n, grabber[g].hash, "downloading")
      BY <1>2, <2>2 DEF CreateRecord
    <3> HIDE DEF n
    <3> QED
      BY <1>0, <3>1 DEF Create, RecordMoves
  <2> QED
    BY <2>1, <2>2
<1>3. CASE AdoptPersist
  <2>1. CASE UNCHANGED <<status, torrent>>
    BY <1>1, <2>1
  <2>2. CASE ~UNCHANGED <<status, torrent>>
    <3> DEFINE n == CHOOSE j \in Fresh : TRUE
               s == IF monitor.auto THEN "importing" ELSE "pending"
    <3>1. n \in Fresh /\ monitor.pc = "persist" /\ Create(n, monitor.now, s)
      BY <1>3, <2>2 DEF AdoptPersist
    <3>2. monitor'.found = monitor.found \ {monitor.now}
      BY <1>3 DEF AdoptPersist, MonitorStep, NextFound, NoAdoption
    <3>3. s \in {"importing", "pending"}
      OBVIOUS
    <3> HIDE DEF n, s
    <3> QED
      BY <1>0, <3>1, <3>2, <3>3 DEF Create, RecordMoves
  <2> QED
    BY <2>1, <2>2
<1>4. CASE AdoptList
  <2>1. UNCHANGED torrent /\ \A j \in Ids : status'[j] \in {status[j], "free"}
    BY <1>4 DEF AdoptList, Prune, MonitorStep
  <2> QED
    BY <2>1 DEF RecordMoves
<1>5. ASSUME NEW j \in Ids, CheckStatus(j) \/ OrphanVisit(j) \/ PurgeOld(j) \/ Import(j)
      PROVE  RecordMoves(i)
  <2>1. UNCHANGED torrent
    BY <1>5 DEF CheckStatus, Leave, FlipImporting, PurgeRecord, OrphanVisit,
                PurgeOld, Import, DropOldFile, ImportSucceeds, ImportFails, dbVars
  <2>2. \/ UNCHANGED status
        \/ status' = [status EXCEPT ![j] = "free"]
        \/ /\ status[j] = "importing" \/ (j \in polled /\ status[j] # "free")
           /\ \E s \in {"importing", "completed", "failed"} :
                status' = [status EXCEPT ![j] = s]
    BY <1>5 DEF CheckStatus, Leave, FlipImporting, PurgeRecord, OrphanVisit,
                PurgeOld, Import, DropOldFile, ImportSucceeds, ImportFails, dbVars, Delete
  <2> QED
    BY <1>0, <2>1, <2>2 DEF RecordMoves
<1>6. CASE Respond
  <2>1. UNCHANGED torrent
    BY <1>6 DEF Respond, CancelTorrent, CancelDelete, ClearExisting, ImportPending,
                IgnorePending
  <2>2. \/ UNCHANGED status
        \/ status' = [status EXCEPT ![request.id] = "free"]
        \/ /\ request.pc = "import" /\ status[request.id] # "free"
           /\ request' = NoRequest
           /\ status' = [status EXCEPT ![request.id] = "importing"]
        \/ /\ request.pc = "dismiss" /\ status[request.id] # "free"
           /\ request' = NoRequest
           /\ status' = [status EXCEPT ![request.id] = "dismissed"]
    BY <1>6 DEF Respond, CancelTorrent, CancelDelete, ClearExisting, ImportPending,
                IgnorePending, PendingUpdate, PendingRefused, Delete
  <2> QED
    BY <1>0, <2>1, <2>2 DEF RecordMoves
<1> QED
  BY <1>1, <1>2, <1>3, <1>4, <1>5, <1>6
  DEF Next, Works, vars, dbVars, Finish, AddByHand, RemoveByHand, Grab, AddTorrent, FlipMovie,
      Search, GrabByHand, Begin, Poll, Adopt, AdoptKnown, AdoptClassify, OrphanList,
      CancelFind, PendingFind, Crash

LEMMA TypesStep == Types /\ [Next]_vars => Types'
<1> SUFFICES ASSUME Types, [Next]_vars PROVE Types'
  OBVIOUS
<1>0. /\ client \in [Torrents -> {"absent", "active", "done"}]
      /\ status \in [Ids -> Status] /\ torrent \in [Ids -> Torrents \cup {None}]
      /\ movie \in [Movies -> MovieStatus] /\ hasFile \in [Movies -> BOOLEAN]
      /\ grabber \in [Grabbers -> GrabState]
      /\ \A g \in Grabbers : grabber[g].pc # "idle" => grabber[g].hash \in Torrents
      /\ polled \subseteq Ids /\ listed \subseteq Ids
      /\ monitor \in AdoptionState
      /\ monitor.pc = "persist" => monitor.now \in monitor.found
      /\ request \in RequestState
      /\ request.pc # "idle" => request.id \in Ids
      /\ grabs \in 0..MaxGrabs
  BY DEF Types
<1>1. client' \in [Torrents -> {"absent", "active", "done"}]
  <2>1. \/ UNCHANGED client
        \/ \E h, v : /\ v \in {"absent", "active", "done"}
                     /\ client' = [client EXCEPT ![h] = v]
    BY DEF RemoveTorrent, Next, Works, vars, dbVars, procVars, Finish, AddByHand, RemoveByHand, Grab, GrabStep,
      AddTorrent, CreateRecord, FlipMovie, Search, GrabByHand, Begin, Poll, Adopt,
      MonitorStep, AdoptKnown, AdoptList, AdoptClassify, AdoptPersist, CheckStatus,
      Leave, FlipImporting, PurgeRecord, OrphanList, OrphanVisit, PurgeOld, Import,
      DropOldFile, ImportSucceeds, ImportFails, CancelFind, PendingFind, RequestVars,
      Respond, CancelTorrent, CancelDelete, ClearExisting, ImportPending,
      IgnorePending, Crash
  <2> QED
    BY <1>0, <2>1
<1>2. status' \in [Ids -> Status] /\ torrent' \in [Ids -> Torrents \cup {None}]
  <2>1. \/ UNCHANGED <<status, torrent>>
        \/ \E j, h, v : /\ h \in Torrents /\ v \in Status
                        /\ Create(j, h, v)
        \/ UNCHANGED torrent /\ \E j, v : v \in Status /\ status' = [status EXCEPT ![j] = v]
        \/ UNCHANGED torrent /\ \E S : status' = [j \in Ids |-> IF j \in S THEN "free" ELSE status[j]]
    <3>1. CASE AdoptList
      <4>1. CASE UNCHANGED <<status, torrent>>
        BY <4>1
      <4>2. CASE status' = [j \in Ids |-> IF Stale(j) THEN "free" ELSE status[j]]
        <5>1. status' = [j \in Ids |-> IF j \in {k \in Ids : Stale(k)} THEN "free" ELSE status[j]]
          BY <4>2
        <5> QED
          BY <3>1, <5>1 DEF AdoptList
      <4> QED
        BY <3>1, <4>1, <4>2 DEF AdoptList, Prune
    <3>2. CASE AdoptPersist
      BY <1>0, <3>2 DEF AdoptPersist, AdoptionState, Status
    <3>3. ASSUME NEW g \in Grabbers, CreateRecord(g)
          PROVE  \/ UNCHANGED <<status, torrent>>
                 \/ \E j, h, v : /\ h \in Torrents /\ v \in Status
                                 /\ Create(j, h, v)
      BY <1>0, <3>3 DEF CreateRecord, Status
    <3>4. CASE ~AdoptList /\ ~AdoptPersist /\ ~\E g \in Grabbers : CreateRecord(g)
      BY <3>4 DEF Next, Works, vars, dbVars, procVars, Finish, AddByHand, RemoveByHand, Grab,
      AddTorrent, FlipMovie, Search, GrabByHand, Begin, Poll, Adopt,
      AdoptKnown, AdoptClassify, CheckStatus, Leave, FlipImporting, PurgeRecord,
      OrphanList, OrphanVisit, PurgeOld, Import, DropOldFile, ImportSucceeds,
      ImportFails, CancelFind, PendingFind, Respond, CancelTorrent, CancelDelete,
      ClearExisting, ImportPending, IgnorePending, PendingUpdate, PendingRefused,
      Crash, Delete, Status
    <3> QED
      BY <3>1, <3>2, <3>3, <3>4
  <2> QED
    BY <1>0, <2>1 DEF Create, Status
<1>3. \A i \in Ids : status'[i] # "free" => torrent'[i] \in Torrents
  <2> SUFFICES ASSUME NEW i \in Ids, status'[i] # "free" PROVE torrent'[i] \in Torrents
    OBVIOUS
  <2>1. RecordMoves(i)
    BY RecordStep
  <2>2. monitor.pc = "persist" => monitor.now \in Torrents
    BY <1>0 DEF AdoptionState
  <2> QED
    BY <1>0, <2>1, <2>2 DEF RecordMoves, Types
<1>4. movie' \in [Movies -> MovieStatus] /\ hasFile' \in [Movies -> BOOLEAN]
  <2>1. \/ UNCHANGED movie
        \/ \E m, v : v \in MovieStatus /\ movie' = [movie EXCEPT ![m] = v]
    BY DEF MovieStatus, Delete, Next, Works, vars, dbVars, procVars, Finish, AddByHand, RemoveByHand, Grab, GrabStep,
      AddTorrent, CreateRecord, FlipMovie, Search, GrabByHand, Begin, Poll, Adopt,
      MonitorStep, AdoptKnown, AdoptList, AdoptClassify, AdoptPersist, CheckStatus,
      Leave, FlipImporting, PurgeRecord, OrphanList, OrphanVisit, PurgeOld, Import,
      DropOldFile, ImportSucceeds, ImportFails, CancelFind, PendingFind, RequestVars,
      Respond, CancelTorrent, CancelDelete, ClearExisting, ImportPending,
      IgnorePending, Crash
  <2>2. \/ UNCHANGED hasFile
        \/ \E m, v : v \in BOOLEAN /\ hasFile' = [hasFile EXCEPT ![m] = v]
    BY DEF Next, Works, vars, dbVars, procVars, Finish, AddByHand, RemoveByHand, Grab, GrabStep,
      AddTorrent, CreateRecord, FlipMovie, Search, GrabByHand, Begin, Poll, Adopt,
      MonitorStep, AdoptKnown, AdoptList, AdoptClassify, AdoptPersist, CheckStatus,
      Leave, FlipImporting, PurgeRecord, OrphanList, OrphanVisit, PurgeOld, Import,
      DropOldFile, ImportSucceeds, ImportFails, CancelFind, PendingFind, RequestVars,
      Respond, CancelTorrent, CancelDelete, ClearExisting, ImportPending,
      IgnorePending, Crash
  <2> QED
    BY <1>0, <2>1, <2>2
<1>5. /\ grabber' \in [Grabbers -> GrabState]
      /\ \A g \in Grabbers : grabber'[g].pc # "idle" => grabber'[g].hash \in Torrents
  <2>1. NoGrab.pc = "idle" /\ NoGrab \in GrabState
    BY DEF NoGrab, GrabState
  <2>2. ASSUME NEW g \in Grabbers, NEW v \in GrabState,
               grabber' = [grabber EXCEPT ![g] = v],
               v.pc # "idle" => v.hash \in Torrents
        PROVE  /\ grabber' \in [Grabbers -> GrabState]
               /\ \A k \in Grabbers : grabber'[k].pc # "idle" => grabber'[k].hash \in Torrents
    BY <1>0, <2>2
  <2>3. ASSUME NEW g \in Grabbers, NEW h \in Torrents, Begin(g, h)
        PROVE  \E v \in GrabState : /\ grabber' = [grabber EXCEPT ![g] = v]
                                    /\ v.pc # "idle" => v.hash \in Torrents
    <3> DEFINE v == [pc |-> "add", hash |-> h]
    <3>1. v \in GrabState /\ v.hash \in Torrents
      BY DEF GrabState
    <3>2. grabber' = [grabber EXCEPT ![g] = v]
      BY <2>3 DEF Begin
    <3> QED
      BY <3>1, <3>2
  <2>4. ASSUME NEW g \in Grabbers, Grab(g)
        PROVE  \E v \in GrabState : /\ grabber' = [grabber EXCEPT ![g] = v]
                                    /\ v.pc # "idle" => v.hash \in Torrents
    <3>1. \/ grabber' = [grabber EXCEPT ![g] = NoGrab]
          \/ /\ grabber[g].pc # "idle"
             /\ \E pc \in {"record", "flip"} :
                  grabber' = [grabber EXCEPT ![g] = [grabber[g] EXCEPT !.pc = pc]]
      BY <2>4 DEF Grab, GrabStep, AddTorrent, CreateRecord, FlipMovie
    <3>2. \A pc \in {"record", "flip"} :
            /\ [grabber[g] EXCEPT !.pc = pc] \in GrabState
            /\ [grabber[g] EXCEPT !.pc = pc].hash = grabber[g].hash
      BY <1>0 DEF GrabState
    <3> QED
      BY <1>0, <2>1, <3>1, <3>2
  <2>5. CASE Crash
    BY <2>1, <2>5 DEF Crash
  <2>6. CASE UNCHANGED grabber
    BY <1>0, <2>6
  <2> QED
    BY <2>2, <2>3, <2>4, <2>5, <2>6
    DEF Next, Works, vars, procVars, Finish, AddByHand, RemoveByHand, Search, GrabByHand,
      Poll, Adopt, MonitorStep, AdoptKnown, AdoptList, AdoptClassify, AdoptPersist,
      CheckStatus, Leave, FlipImporting, PurgeRecord, OrphanList, OrphanVisit,
      PurgeOld, Import, DropOldFile, ImportSucceeds, ImportFails, CancelFind,
      PendingFind, RequestVars, Respond, CancelTorrent, CancelDelete, ClearExisting,
      ImportPending, IgnorePending
<1>6. polled' \subseteq Ids /\ listed' \subseteq Ids
  BY <1>0 DEF Next, Works, vars, dbVars, procVars, Finish, AddByHand, RemoveByHand, Grab, GrabStep,
      AddTorrent, CreateRecord, FlipMovie, Search, GrabByHand, Begin, Poll, Adopt,
      MonitorStep, AdoptKnown, AdoptList, AdoptClassify, AdoptPersist, CheckStatus,
      Leave, FlipImporting, PurgeRecord, OrphanList, OrphanVisit, PurgeOld, Import,
      DropOldFile, ImportSucceeds, ImportFails, CancelFind, PendingFind, RequestVars,
      Respond, CancelTorrent, CancelDelete, ClearExisting, ImportPending,
      IgnorePending, Crash
<1>7. monitor' \in AdoptionState /\ (monitor'.pc = "persist" => monitor'.now \in monitor'.found)
  <2>1. CASE UNCHANGED monitor
    BY <1>0, <2>1
  <2>2. NoAdoption \in AdoptionState /\ NoAdoption.pc = "idle"
    BY DEF NoAdoption, AdoptionState
  <2>3. ASSUME NEW found \in SUBSET Torrents, monitor' = NextFound(found)
        PROVE  monitor' \in AdoptionState /\ monitor'.pc # "persist"
    BY <2>3 DEF NextFound, NoAdoption, AdoptionState
  <2>4. CASE Poll
    BY <1>0, <2>4 DEF Poll, AdoptionState
  <2>5. CASE AdoptKnown
    <3>1. KnownHashes \subseteq Torrents
      BY DEF KnownHashes, Types
    <3> QED
      BY <1>0, <2>2, <2>5, <3>1 DEF AdoptKnown, MonitorStep, AdoptionState
  <2>6. CASE AdoptList
    <3>1. \/ monitor' = NoAdoption
          \/ monitor' = NextFound({h \in Torrents : client[h] = "done"} \ monitor.known)
      BY <2>6 DEF AdoptList, MonitorStep
    <3> QED
      BY <2>2, <2>3, <3>1
  <2>7. ASSUME NEW h \in Torrents, AdoptClassify(h)
        PROVE  monitor' \in AdoptionState /\ monitor'.now \in monitor'.found
    <3>1. PICK auto \in BOOLEAN :
            monitor' = [monitor EXCEPT !.pc = "persist", !.now = h, !.auto = auto]
      BY <2>7 DEF AdoptClassify, MonitorStep
    <3>2. h \in monitor.found
      BY <2>7 DEF AdoptClassify
    <3> QED
      BY <1>0, <3>1, <3>2 DEF AdoptionState
  <2>8. CASE AdoptPersist
    <3>1. monitor' = NextFound(monitor.found \ {monitor.now})
      BY <2>8 DEF AdoptPersist, MonitorStep
    <3>2. monitor.found \ {monitor.now} \in SUBSET Torrents
      BY <1>0 DEF AdoptionState
    <3> QED
      BY <2>3, <3>1, <3>2
  <2>9. CASE Crash
    BY <2>2, <2>9 DEF Crash
  <2> QED
    BY <2>1, <2>4, <2>5, <2>6, <2>7, <2>8, <2>9
    DEF Next, Works, vars, procVars, Finish, AddByHand, RemoveByHand, Grab, GrabStep,
      AddTorrent, CreateRecord, FlipMovie, Search, GrabByHand, Begin, Adopt,
      CheckStatus, Leave, FlipImporting, PurgeRecord, OrphanList, OrphanVisit,
      PurgeOld, Import, DropOldFile, ImportSucceeds, ImportFails, CancelFind,
      PendingFind, RequestVars, Respond, CancelTorrent, CancelDelete, ClearExisting,
      ImportPending, IgnorePending
<1>8. request' \in RequestState /\ (request'.pc # "idle" => request'.id \in Ids)
  <2>1. NoRequest \in RequestState /\ NoRequest.pc = "idle"
    BY DEF NoRequest, RequestState
  <2>2. ASSUME NEW i \in Ids, CancelFind(i) \/ PendingFind(i)
        PROVE  request' \in RequestState /\ request'.id \in Ids
    BY <2>2 DEF CancelFind, PendingFind, RequestState
  <2>3. \/ UNCHANGED request
        \/ request' = NoRequest
        \/ request.pc = "remove" /\ request' = [request EXCEPT !.pc = "delete"]
        \/ request.pc = "clear" /\ request' = [request EXCEPT !.pc = "import"]
        \/ \E i \in Ids : CancelFind(i) \/ PendingFind(i)
    BY DEF Next, Works, vars, procVars, Finish, AddByHand, RemoveByHand, Grab, GrabStep,
      AddTorrent, CreateRecord, FlipMovie, Search, GrabByHand, Begin, Poll, Adopt,
      MonitorStep, AdoptKnown, AdoptList, AdoptClassify, AdoptPersist, CheckStatus,
      Leave, FlipImporting, PurgeRecord, OrphanList, OrphanVisit, PurgeOld, Import,
      DropOldFile, ImportSucceeds, ImportFails, Respond, CancelTorrent, CancelDelete,
      ClearExisting, ImportPending, IgnorePending, Crash
  <2>4. CASE request.pc = "remove" /\ request' = [request EXCEPT !.pc = "delete"]
    BY <1>0, <2>4 DEF RequestState
  <2>5. CASE request.pc = "clear" /\ request' = [request EXCEPT !.pc = "import"]
    BY <1>0, <2>5 DEF RequestState
  <2> QED
    BY <1>0, <2>1, <2>2, <2>3, <2>4, <2>5
<1>9. grabs' \in 0..MaxGrabs
  <2>1. UNCHANGED grabs \/ (grabs < MaxGrabs /\ grabs' = grabs + 1)
    BY DEF Next, Works, vars, dbVars, procVars, Finish, AddByHand, RemoveByHand, Grab, GrabStep,
      AddTorrent, CreateRecord, FlipMovie, Search, GrabByHand, Begin, Poll, Adopt,
      MonitorStep, AdoptKnown, AdoptList, AdoptClassify, AdoptPersist, CheckStatus,
      Leave, FlipImporting, PurgeRecord, OrphanList, OrphanVisit, PurgeOld, Import,
      DropOldFile, ImportSucceeds, ImportFails, CancelFind, PendingFind, RequestVars,
      Respond, CancelTorrent, CancelDelete, ClearExisting, ImportPending,
      IgnorePending, Crash
  <2> QED
    BY <1>0, <2>1, ConstantsAssumption DEF ConstantsAssumption
<1> QED
  BY <1>1, <1>2, <1>3, <1>4, <1>5, <1>6, <1>7, <1>8, <1>9 DEF Types
-----------------------------------------------------------------------------
(* The torrents some user was asked about, or refused.                     *)
Proposals == {"pending", "dismissed"}
Proposed == {torrent[i] : i \in {j \in Ids : status[j] \in Proposals}}

(* What an adoption pass has found is not proposed by then: the records it *)
(* has read are not polled and not a request's until they are proposals,   *)
(* and only this pass makes proposals.                                     *)
Tracking ==
  /\ \A i \in polled : status[i] \notin Proposals
  /\ request.pc \in {"clear", "import", "dismiss"} =>
       status[request.id] \in {"pending", "free"}
  /\ monitor.pc = "list" => Proposed \subseteq monitor.known
  /\ monitor.pc \in {"classify", "persist"} => monitor.found \cap Proposed = {}
  /\ ProposedOnce

(* A proposal comes from an adoption, or was one before. *)
LEMMA ProposalStep ==
  ASSUME Types, Tracking, [Next]_vars, NEW i \in Ids, status'[i] \in Proposals
  PROVE  \/ status[i] \in Proposals /\ torrent'[i] = torrent[i]
         \/ /\ monitor.pc = "persist" /\ torrent'[i] = monitor.now
            /\ monitor'.found = monitor.found \ {monitor.now}
            /\ \A j \in Ids \ {i} : status'[j] = status[j] /\ torrent'[j] = torrent[j]
<1>1. RecordMoves(i)
  BY RecordStep
<1>2. request.pc = "dismiss" /\ request.id = i /\ status[i] # "free" => status[i] = "pending"
  BY DEF Tracking
<1> QED
  BY <1>1, <1>2 DEF RecordMoves, Proposals

LEMMA MonitorMoves ==
  ASSUME Types, [Next]_vars
  PROVE  \/ UNCHANGED monitor
         \/ monitor'.pc \in {"idle", "records"}
         \/ /\ monitor'.pc = "list" /\ monitor'.known = KnownHashes
            /\ UNCHANGED <<status, torrent>>
         \/ /\ monitor.pc = "list" /\ monitor'.pc = "classify"
            /\ monitor'.found \cap monitor.known = {}
         \/ /\ monitor.pc = "classify" /\ monitor'.pc = "persist"
            /\ monitor'.found = monitor.found
            /\ UNCHANGED <<status, torrent>>
         \/ /\ monitor.pc = "persist" /\ monitor'.pc = "classify"
            /\ monitor'.found = monitor.found \ {monitor.now}
<1>0. monitor \in AdoptionState
  BY DEF Types
<1>1. CASE UNCHANGED monitor
  BY <1>1
<1>2. CASE Poll
  BY <1>0, <1>2 DEF Poll, AdoptionState
<1>3. NoAdoption.pc = "idle"
  BY DEF NoAdoption
<1>4. ASSUME NEW found, monitor' = NextFound(found)
      PROVE  \/ monitor'.pc = "idle"
             \/ monitor'.pc = "classify" /\ monitor'.found = found
  BY <1>4 DEF NextFound, NoAdoption
<1>5. CASE AdoptKnown
  BY <1>0, <1>3, <1>5 DEF AdoptKnown, MonitorStep, AdoptionState
<1>6. CASE AdoptList
  <2>1. \/ monitor' = NoAdoption
        \/ monitor' = NextFound({h \in Torrents : client[h] = "done"} \ monitor.known)
    BY <1>6 DEF AdoptList, MonitorStep
  <2> QED
    BY <1>3, <1>4, <1>6, <2>1 DEF AdoptList
<1>7. ASSUME NEW h \in Torrents, AdoptClassify(h)
      PROVE  /\ monitor.pc = "classify" /\ monitor'.pc = "persist"
             /\ monitor'.found = monitor.found
             /\ UNCHANGED <<status, torrent>>
  <2>1. PICK auto \in BOOLEAN :
          monitor' = [monitor EXCEPT !.pc = "persist", !.now = h, !.auto = auto]
    BY <1>7 DEF AdoptClassify, MonitorStep
  <2> QED
    BY <1>0, <1>7, <2>1 DEF AdoptClassify, AdoptionState
<1>8. CASE AdoptPersist
  <2>1. monitor.pc = "persist" /\ monitor' = NextFound(monitor.found \ {monitor.now})
    BY <1>8 DEF AdoptPersist, MonitorStep
  <2> QED
    BY <1>4, <2>1
<1>9. CASE Crash
  BY <1>3, <1>9 DEF Crash
<1> QED
  BY <1>1, <1>2, <1>5, <1>6, <1>7, <1>8, <1>9
  DEF Next, Works, vars, procVars, Finish, AddByHand, RemoveByHand, Grab, GrabStep,
      AddTorrent, CreateRecord, FlipMovie, Search, GrabByHand, Begin, Adopt,
      CheckStatus, Leave, FlipImporting, PurgeRecord, OrphanList, OrphanVisit,
      PurgeOld, Import, DropOldFile, ImportSucceeds, ImportFails, CancelFind,
      PendingFind, RequestVars, Respond, CancelTorrent, CancelDelete, ClearExisting,
      ImportPending, IgnorePending

LEMMA TrackingStep == Types /\ Tracking /\ [Next]_vars => Tracking'
<1> SUFFICES ASSUME Types, Tracking, [Next]_vars PROVE Tracking'
  OBVIOUS
<1>0. /\ polled \subseteq Ids /\ request \in RequestState
      /\ request.pc # "idle" => request.id \in Ids
      /\ monitor.pc = "persist" => monitor.now \in monitor.found
  BY DEF Types
<1>1. ASSUME NEW i \in polled' PROVE status'[i] \notin Proposals
  <2>1. CASE i \in polled
    <3>1. i \in Ids /\ status[i] \notin Proposals
      BY <1>0, <2>1 DEF Tracking
    <3>2. RecordMoves(i) /\ i \notin Fresh
      BY <2>1, <3>1, RecordStep DEF Fresh
    <3> QED
      BY <3>1, <3>2 DEF RecordMoves, Proposals, Tracking
  <2>2. CASE i \notin polled
    <3>1. Poll
      BY <1>1, <2>2 DEF Adopt, MonitorStep, AdoptKnown, AdoptList, AdoptClassify,
        AdoptPersist, Crash, Next, Works, vars, procVars, Finish, AddByHand, RemoveByHand, Grab, GrabStep,
      AddTorrent, CreateRecord, FlipMovie, Search, GrabByHand, Begin, Adopt,
      CheckStatus, Leave, FlipImporting, PurgeRecord, OrphanList, OrphanVisit,
      PurgeOld, Import, DropOldFile, ImportSucceeds, ImportFails, CancelFind,
      PendingFind, RequestVars, Respond, CancelTorrent, CancelDelete, ClearExisting,
      ImportPending, IgnorePending
    <3> QED
      BY <1>1, <2>2, <3>1 DEF Poll, dbVars, Proposals
  <2> QED
    BY <2>1, <2>2
<1>2. ASSUME request'.pc \in {"clear", "import", "dismiss"}
      PROVE  status'[request'.id] \in {"pending", "free"}
  <2>1. CASE \E i \in Ids : PendingFind(i)
    <3>1. PICK i \in Ids : PendingFind(i)
      BY <2>1
    <3> QED
      BY <3>1 DEF PendingFind
  <2>2. CASE ~\E i \in Ids : PendingFind(i)
    <3>1. \/ UNCHANGED request
          \/ request' = NoRequest
          \/ request' = [request EXCEPT !.pc = "delete"]
          \/ request.pc = "clear" /\ request' = [request EXCEPT !.pc = "import"]
          \/ \E i \in Ids : request' = [pc |-> "remove", id |-> i]
      BY <2>2 DEF Adopt, Poll, MonitorStep, AdoptKnown, AdoptList, AdoptClassify,
        AdoptPersist, Crash, Next, Works, vars, procVars, Finish, AddByHand, RemoveByHand, Grab, GrabStep,
      AddTorrent, CreateRecord, FlipMovie, Search, GrabByHand, Begin, Adopt,
      CheckStatus, Leave, FlipImporting, PurgeRecord, OrphanList, OrphanVisit,
      PurgeOld, Import, DropOldFile, ImportSucceeds, ImportFails, CancelFind,
      PendingFind, RequestVars, Respond, CancelTorrent, CancelDelete, ClearExisting,
      ImportPending, IgnorePending
    <3>2. request' # NoRequest
      BY <1>2 DEF NoRequest
    <3>3. request'.id = request.id /\ request.pc \in {"clear", "import", "dismiss"}
      BY <1>0, <1>2, <3>1, <3>2 DEF RequestState
    <3>4. request.id \in Ids /\ status[request.id] \in {"pending", "free"}
      BY <1>0, <3>3 DEF Tracking
    <3>5. RecordMoves(request.id) /\ request.id \notin Fresh
      BY <3>4, RecordStep DEF Fresh
    <3>6. request.id \in polled => status[request.id] = "free"
      BY <3>4 DEF Tracking, Proposals
    <3> QED
      BY <3>2, <3>3, <3>4, <3>5, <3>6 DEF RecordMoves
  <2> QED
    BY <2>1, <2>2
<1>3. monitor.pc # "persist" => Proposed' \subseteq Proposed
  BY ProposalStep DEF Proposed
<1>4. monitor.pc = "persist" => /\ Proposed' \subseteq Proposed \cup {monitor.now}
                                /\ \/ Proposed' \subseteq Proposed
                                   \/ monitor'.found = monitor.found \ {monitor.now}
  BY ProposalStep DEF Proposed
<1>5. ASSUME monitor'.pc = "list" PROVE Proposed' \subseteq monitor'.known
  <2>1. CASE UNCHANGED monitor
    BY <1>3, <1>5, <2>1 DEF Tracking
  <2>2. CASE monitor'.known = KnownHashes /\ UNCHANGED <<status, torrent>>
    BY <2>2 DEF Proposed, KnownHashes, Proposals
  <2> QED
    BY <1>5, <2>1, <2>2, MonitorMoves
<1>6. ASSUME monitor'.pc \in {"classify", "persist"}
      PROVE  monitor'.found \cap Proposed' = {}
  <2>1. CASE UNCHANGED monitor
    BY <1>0, <1>3, <1>4, <1>6, <2>1 DEF Tracking
  <2>2. CASE monitor.pc = "list" /\ monitor'.found \cap monitor.known = {}
    BY <1>3, <2>2 DEF Tracking
  <2>3. CASE monitor.pc = "classify" /\ monitor'.found = monitor.found
    BY <1>3, <2>3 DEF Tracking
  <2>4. CASE monitor.pc = "persist" /\ monitor'.found = monitor.found \ {monitor.now}
    BY <1>4, <2>4 DEF Tracking
  <2> QED
    BY <1>6, <2>1, <2>2, <2>3, <2>4, MonitorMoves
<1>7. ProposedOnce'
  <2> SUFFICES ASSUME NEW i \in Ids, NEW j \in Ids,
                      status'[i] \in Proposals, status'[j] \in Proposals,
                      torrent'[i] = torrent'[j]
               PROVE  i = j
    BY DEF ProposedOnce, Proposals
  <2>1. ProposedOnce /\ (monitor.pc = "persist" => monitor.now \notin Proposed)
    BY <1>0 DEF Tracking
  <2> QED
    BY <2>1, ProposalStep DEF ProposedOnce, Proposed, Proposals
<1> QED
  BY <1>1, <1>2, <1>5, <1>6, <1>7 DEF Tracking

(* The variables hold values of their types; in particular every record    *)
(* has the torrent it tracks, whichever of the jobs and requests made it.  *)
THEOREM TypeCorrect == Spec => []TypeOK
<1>1. Types /\ [Next]_vars => Types'
  BY TypesStep
<1>2. Types => TypeOK
  BY DEF Types, TypeOK, GrabState, AdoptionState, RequestState
<1> QED
  BY <1>1, <1>2, InitTypes, PTL DEF Spec

(* No torrent is proposed twice, although the hashes of the records are     *)
(* read before the client is listed (adopt.go:179), and grabs, polls,       *)
(* purges and the answers of users go on between any two steps of a pass.   *)
THEOREM NoSecondProposal == Spec => []ProposedOnce
<1>1. Init => Types /\ Tracking
  BY InitTypes DEF Init, Tracking, Proposals, Proposed, ProposedOnce, NoAdoption, NoRequest
<1>2. Types /\ Tracking /\ [Next]_vars => Types' /\ Tracking'
  BY TypesStep, TrackingStep
<1>3. Tracking => ProposedOnce
  BY DEF Tracking
<1> QED
  BY <1>1, <1>2, <1>3, PTL DEF Spec
=============================================================================
