--------------------------- MODULE BulkImport_proofs ---------------------------
(***************************************************************************)
(* What holds of the bulk import for any number of scans, files, requests  *)
(* and commits, and all faults.                                            *)
(***************************************************************************)
EXTENDS BulkImport, TLAPS

Statuses == {"free", "running", "awaiting_review", "committing", "completed",
             "failed", "cancelled", "deleted"}
Classes == {"none", "review", "existing", "confirmed"}
ScannerState == [pc : {"off", "walk", "existing", "match"},
                 known : SUBSET Movies, todo : SUBSET Files, live : BOOLEAN]
RequestState == [pc : {"idle", "create", "cancel", "delete", "commit"},
                 scan : Scans \cup {"none"}]
CommitState == [pc : {"off", "list", "files"}, scan : Scans \cup {"none"},
                files : SUBSET Files]

Types ==
  /\ status \in [Scans -> Statuses]
  /\ class \in [Scans -> [Files -> Classes]]
  /\ lost \in [Scans -> SUBSET Files]
  /\ added \subseteq Movies
  /\ nextRow \in Nat /\ \A r \in rows : r.id \in Nat
  /\ scanner \in [Scans -> ScannerState]
  /\ request \in [Clients -> RequestState]
  /\ commit \in [Clients -> CommitState]
  /\ worker = [c \in Clients |-> [f \in Files |-> worker[c][f]]]
-----------------------------------------------------------------------------
(* Become changes one worker.                                              *)
LEMMA BecomeIs ==
  ASSUME Types, NEW c \in Clients, NEW f \in Files, NEW w, Become(c, f, w)
  PROVE  /\ worker' = [d \in Clients |-> [g \in Files |-> worker'[d][g]]]
         /\ worker'[c][f] = w
         /\ \A d \in Clients, g \in Files :
              d # c \/ g # f => worker'[d][g] = worker[d][g]
  BY DEF Become, Types

(* A worker at rest is not remembered. *)
Moves(c, f, pcs) ==
  /\ worker' = [d \in Clients |-> [g \in Files |-> worker'[d][g]]]
  /\ worker'[c][f] = NoWorker \/ worker'[c][f].pc \in pcs
  /\ \A d \in Clients, g \in Files :
       d # c \/ g # f => worker'[d][g] = worker[d][g]

(* Where the steps of a file lead. *)
LEMMA CommitOneMoves ==
  ASSUME Types, NEW c \in Clients, NEW f \in Files
  PROVE  /\ ListExisting(c, f) => Moves(c, f, {"create", "remove"})
         /\ RemoveOld(c, f) => Moves(c, f, {"unrow"})
         /\ DeleteOldRow(c, f) => Moves(c, f, {"create", "remove"})
         /\ AddMovie(c, f) => Moves(c, f, {"place", "create"})
         /\ Place(c, f) => Moves(c, f, {"create"})
         /\ CreateRow(c, f) => Moves(c, f, {"flip"})
         /\ MarkAvailable(c, f) => Moves(c, f, {})
<1>0. Done(c, f) => Moves(c, f, {})
  BY BecomeIs DEF Done, Moves
<1>1. ASSUME NEW w, Become(c, f, w)
      PROVE  Moves(c, f, {w.pc})
  BY <1>1, BecomeIs DEF Moves
<1>2. ListExisting(c, f) => Moves(c, f, {"create", "remove"})
  BY <1>0, <1>1 DEF ListExisting, Fail, Moves
<1>3. RemoveOld(c, f) => Moves(c, f, {"unrow"})
  BY <1>0, <1>1 DEF RemoveOld, Fail, Moves
<1>4. DeleteOldRow(c, f) => Moves(c, f, {"create", "remove"})
  BY <1>0, <1>1 DEF DeleteOldRow, Fail, Moves
<1>5. AddMovie(c, f) => Moves(c, f, {"place", "create"})
  BY <1>0, <1>1 DEF AddMovie, Added, Placing, Fail, Moves
<1>6. Place(c, f) => Moves(c, f, {"create"})
  BY <1>0, <1>1 DEF Place, Placing, Moves
<1>7. CreateRow(c, f) => Moves(c, f, {"flip"})
  BY <1>0, <1>1 DEF CreateRow, Placing, Fail, Moves
<1>8. MarkAvailable(c, f) => Moves(c, f, {})
  BY <1>0, <1>1 DEF MarkAvailable, Fail, Moves
<1> QED
  BY <1>2, <1>3, <1>4, <1>5, <1>6, <1>7, <1>8

LEMMA InitTypes == Init => Types
  BY ConstantsAssumption
  DEF Init, Types, ConstantsAssumption, Statuses, Classes, ScannerState,
      RequestState, CommitState, NoScanner, NoRequest, NoCommit, NoWorker

LEMMA TypesStep == Types /\ [Next]_vars => Types'
<1> SUFFICES ASSUME Types, [Next]_vars PROVE Types'
  OBVIOUS
<1>0. /\ scanner \in [Scans -> ScannerState]
      /\ request \in [Clients -> RequestState]
      /\ commit \in [Clients -> CommitState]
      /\ added \subseteq Movies
  BY DEF Types
<1>1. ASSUME NEW s \in Scans, RunScan(s) PROVE Types'
  <2>1. UNCHANGED <<libVars, request, commit, worker>>
    BY <1>1 DEF RunScan, Walk, BuildExisting, Persist, StopMatching, FinishScan
  <2>2. status' \in [Scans -> Statuses]
    BY <1>1 DEF RunScan, Walk, BuildExisting, Persist, StopMatching, FinishScan,
                TrySetStatus, SetStatus, LoseStatus, FailToSet, Types, Statuses, scanVars
  <2>3. scanner' \in [Scans -> ScannerState]
    <3>1. CASE Walk(s)
      <4>1. \/ scanner' = [scanner EXCEPT ![s].pc = "existing",
                                          ![s].todo = Files \cap disk]
            \/ scanner' = [scanner EXCEPT ![s] = NoScanner]
        BY <3>1 DEF Walk
      <4>2. NoScanner \in ScannerState
        BY DEF NoScanner, ScannerState
      <4>3. Files \cap disk \in SUBSET Files
        OBVIOUS
      <4>4. CASE scanner' = [scanner EXCEPT ![s].pc = "existing",
                                            ![s].todo = Files \cap disk]
        BY <1>0, <4>3, <4>4 DEF ScannerState
      <4> QED
        BY <1>0, <4>1, <4>2, <4>4
    <3>2. CASE BuildExisting(s)
      <4>1. \/ scanner' = [scanner EXCEPT ![s].pc = "match", ![s].known = added]
            \/ scanner' = [scanner EXCEPT ![s].pc = "match"]
        BY <3>2 DEF BuildExisting
      <4> QED
        BY <1>0, <4>1 DEF ScannerState
    <3>3. CASE Persist(s)
      <4>1. PICK batch : scanner' = [scanner EXCEPT ![s].todo = @ \ batch]
        BY <3>3 DEF Persist
      <4> QED
        BY <1>0, <4>1 DEF ScannerState
    <3>4. CASE StopMatching(s)
      <4>1. PICK started \in SUBSET scanner[s].todo :
              scanner' = [scanner EXCEPT ![s].todo = started, ![s].live = FALSE]
        BY <3>4 DEF StopMatching
      <4>2. started \in SUBSET Files
        BY <1>0 DEF ScannerState
      <4> QED
        BY <1>0, <4>1, <4>2 DEF ScannerState
    <3>5. CASE FinishScan(s)
      BY <3>5 DEF FinishScan, NoScanner, Types, ScannerState
    <3> QED
      BY <1>1, <3>1, <3>2, <3>3, <3>4, <3>5 DEF RunScan
  <2>4. class' \in [Scans -> [Files -> Classes]] /\ lost' \in [Scans -> SUBSET Files]
    <3>1. CASE Persist(s)
      <4>1. PICK batch \in SUBSET scanner[s].todo \ {{}} :
              \/ /\ \E k \in [batch -> {"review", "existing", "confirmed"}] :
                      class' = [class EXCEPT ![s] =
                                  [f \in Files |-> IF f \in batch THEN k[f] ELSE @[f]]]
                 /\ UNCHANGED lost
              \/ /\ lost' = [lost EXCEPT ![s] = @ \cup batch]
                 /\ UNCHANGED class
        BY <3>1 DEF Persist
      <4>2. batch \subseteq Files
        BY <1>0, <4>1 DEF ScannerState
      <4> QED
        <5>1. CASE /\ lost' = [lost EXCEPT ![s] = @ \cup batch]
                   /\ UNCHANGED class
          BY <4>2, <5>1 DEF Types
        <5>2. CASE /\ \E k \in [batch -> {"review", "existing", "confirmed"}] :
                        class' = [class EXCEPT ![s] =
                                    [f \in Files |-> IF f \in batch THEN k[f] ELSE @[f]]]
                   /\ UNCHANGED lost
          <6>1. PICK k \in [batch -> {"review", "existing", "confirmed"}] :
                  class' = [class EXCEPT ![s] =
                              [f \in Files |-> IF f \in batch THEN k[f] ELSE class[s][f]]]
            BY <5>2
          <6>2. [f \in Files |-> IF f \in batch THEN k[f] ELSE class[s][f]]
                  \in [Files -> Classes]
            BY <6>1 DEF Types, Classes
          <6> QED
            BY <5>2, <6>1, <6>2 DEF Types
        <5> QED
          BY <4>1, <5>1, <5>2
    <3> QED
      BY <1>1, <3>1 DEF RunScan, Walk, BuildExisting, StopMatching, FinishScan, scanVars, Types
  <2> QED
    BY <2>1, <2>2, <2>3, <2>4 DEF Types, libVars
<1>2. ASSUME NEW c \in Clients, Requests(c) PROVE Types'
  <2>1. UNCHANGED <<lost, libVars, worker>>
    BY <1>2 DEF Requests, CountActive, Cancel, Delete, Commit, CreateScan,
                FindToCancel, FindToDelete, FindToCommit, Find, scanVars
  <2>2. \/ UNCHANGED status
        \/ \E s, v : v \in Statuses /\ status' = [status EXCEPT ![s] = v]
    BY <1>2 DEF Requests, CountActive, Cancel, Delete, Commit, CreateScan,
                FindToCancel, FindToDelete, FindToCommit, Find, scanVars,
                SetStatus, Statuses
  <2>3. \/ UNCHANGED class
        \/ \E s : class' = [class EXCEPT ![s] = [f \in Files |-> "none"]]
    BY <1>2 DEF Requests, CountActive, Cancel, Delete, Commit, CreateScan,
                FindToCancel, FindToDelete, FindToCommit, Find, scanVars
  <2>4. \/ request' = [request EXCEPT ![c].pc = "create"]
        \/ \E v \in RequestState : request' = [request EXCEPT ![c] = v]
    <3>1. NoRequest \in RequestState
      BY DEF NoRequest, RequestState
    <3>2. \A s \in Scans : \A pc \in {"cancel", "delete", "commit"} :
            [pc |-> pc, scan |-> s] \in RequestState
      BY DEF RequestState
    <3>3. CASE \E s \in Scans :
                 FindToCancel(c, s) \/ FindToDelete(c, s) \/ FindToCommit(c, s)
      BY <3>2, <3>3 DEF FindToCancel, FindToDelete, FindToCommit, Find
    <3>4. CASE Cancel(c) \/ Delete(c) \/ Commit(c) \/ \E s \in Scans : CreateScan(c, s)
      BY <3>1, <3>4 DEF Cancel, Delete, Commit, CreateScan
    <3> QED
      BY <1>2, <3>3, <3>4 DEF Requests, CountActive
  <2>5. \/ UNCHANGED commit
        \/ /\ request[c].pc = "commit"
           /\ commit' = [commit EXCEPT ![c] = [pc |-> "list",
                                               scan |-> request[c].scan, files |-> {}]]
    BY <1>2 DEF Requests, CountActive, Cancel, Delete, Commit, CreateScan,
                FindToCancel, FindToDelete, FindToCommit, Find
  <2>6. \/ UNCHANGED scanner
        \/ \E s \in Scans : scanner' = [scanner EXCEPT ![s].pc = "walk"]
    BY <1>2 DEF Requests, CountActive, Cancel, Delete, Commit, CreateScan,
                FindToCancel, FindToDelete, FindToCommit, Find
  <2>7. status' \in [Scans -> Statuses]
    BY <2>2 DEF Types
  <2>8. class' \in [Scans -> [Files -> Classes]]
    BY <2>3 DEF Types, Classes
  <2>9. request' \in [Clients -> RequestState]
    BY <1>0, <2>4 DEF RequestState
  <2>10. commit' \in [Clients -> CommitState]
    BY <1>0, <2>5 DEF RequestState, CommitState
  <2>11. scanner' \in [Scans -> ScannerState]
    BY <1>0, <2>6 DEF ScannerState
  <2> QED
    BY <2>1, <2>7, <2>8, <2>9, <2>10, <2>11 DEF Types, libVars
<1>3. ASSUME NEW c \in Clients, ListForCommit(c) \/ FinishCommit(c) PROVE Types'
  <2>1. UNCHANGED <<class, lost, libVars, scanner, request>>
    BY <1>3 DEF ListForCommit, FinishCommit
  <2>2. status' \in [Scans -> Statuses]
    BY <1>3 DEF ListForCommit, FinishCommit, TrySetStatus, SetStatus,
                LoseStatus, FailToSet, Types, Statuses
  <2>3. \/ \E chosen \in SUBSET Files :
             commit' = [commit EXCEPT ![c].pc = "files", ![c].files = chosen]
        \/ commit' = [commit EXCEPT ![c] = NoCommit]
    BY <1>3 DEF ListForCommit, FinishCommit
  <2>4. commit' \in [Clients -> CommitState]
    BY <1>0, <2>3 DEF CommitState, NoCommit
  <2>5. \/ UNCHANGED worker
        \/ \E w : worker' = [worker EXCEPT ![c] = [f \in Files |-> w[f]]]
    <3>1. CASE FinishCommit(c)
      BY <3>1 DEF FinishCommit
    <3>2. CASE ListForCommit(c)
      <4>1. CASE UNCHANGED worker
        BY <4>1
      <4>2. CASE \E chosen \in SUBSET Files :
                   worker' = [worker EXCEPT ![c] =
                     [f \in Files |->
                        IF f \notin chosen THEN NoWorker
                        ELSE Placing(IF class[commit[c].scan][f] = "existing"
                                     THEN "list" ELSE "add", "none")]]
        <5>1. PICK chosen \in SUBSET Files :
                worker' = [worker EXCEPT ![c] =
                     [f \in Files |->
                        IF f \notin chosen THEN NoWorker
                        ELSE Placing(IF class[commit[c].scan][f] = "existing"
                                     THEN "list" ELSE "add", "none")]]
          BY <4>2
        <5> DEFINE w == [f \in Files |->
                        IF f \notin chosen THEN NoWorker
                        ELSE Placing(IF class[commit[c].scan][f] = "existing"
                                     THEN "list" ELSE "add", "none")]
        <5>2. worker' = [worker EXCEPT ![c] = [f \in Files |-> w[f]]]
          BY <5>1
        <5> HIDE DEF w
        <5> QED
          BY <5>2
      <4> QED
        BY <3>2, <4>1, <4>2 DEF ListForCommit
    <3> QED
      BY <1>3, <3>1, <3>2
  <2>6. worker' = [d \in Clients |-> [g \in Files |-> worker'[d][g]]]
    BY <2>5 DEF Types
  <2> QED
    BY <2>1, <2>2, <2>4, <2>6 DEF Types, libVars
<1>4. ASSUME NEW c \in Clients, NEW f \in Files, CommitOne(c, f) PROVE Types'
  <2>1. worker' = [d \in Clients |-> [g \in Files |-> worker'[d][g]]]
    BY <1>4, CommitOneMoves DEF CommitOne, Moves
  <2>2. /\ added' \subseteq Movies
        /\ nextRow' \in Nat /\ \A r \in rows' : r.id \in Nat
    BY <1>4, ConstantsAssumption
    DEF CommitOne, ListExisting, RemoveOld, DeleteOldRow, AddMovie, Added,
        Place, CreateRow, MarkAvailable, Fail, libVars, Types, ConstantsAssumption
  <2> QED
    BY <1>4, <2>1, <2>2 DEF CommitOne, Types, scanVars
<1>5. CASE Crash
  BY <1>5 DEF Crash, BootAborts, Aborted, Types, Statuses, ScannerState, RequestState,
              CommitState, NoScanner, NoRequest, NoCommit, libVars
<1>6. CASE UNCHANGED vars
  BY <1>6 DEF vars, Types
<1> QED
  BY <1>1, <1>2, <1>3, <1>4, <1>5, <1>6 DEF Next, RunCommit
-----------------------------------------------------------------------------
(* Requests and commits work on scans that were found; a client with a     *)
(* commit starts no other; workers belong to a commit of files.            *)
Commits ==
  /\ \A c \in Clients :
       request[c].pc \in {"cancel", "delete", "commit"} => request[c].scan \in Scans
  /\ \A c \in Clients : commit[c].pc # "off" => commit[c].scan \in Scans
  /\ \A c \in Clients : request[c].pc = "commit" => commit[c] = NoCommit
  /\ \A c \in Clients :
       commit[c].pc # "files" => \A f \in Files : worker[c][f] = NoWorker
  /\ \A c \in Clients, f \in Files :
       worker[c][f].pc = "off" => worker[c][f] = NoWorker

(* What a commit makes of the files it lists. *)
LEMMA ListForCommitIs ==
  ASSUME Types, NEW c \in Clients, ListForCommit(c)
  PROVE  \/ UNCHANGED worker /\ commit' = [commit EXCEPT ![c] = NoCommit]
         \/ /\ commit'[c].pc = "files" /\ commit'[c].scan = commit[c].scan
            /\ \A d \in Clients \ {c} :
                 commit'[d] = commit[d] /\ worker'[d] = worker[d]
            /\ \A f \in Files :
                 \/ worker'[c][f] = NoWorker
                 \/ worker'[c][f].pc = "add"
                 \/ worker'[c][f].pc = "list" /\ class[commit[c].scan][f] = "existing"
<1>0. commit \in [Clients -> CommitState]
  BY DEF Types
<1>1. ASSUME NEW chosen \in SUBSET Files,
             commit' = [commit EXCEPT ![c].pc = "files", ![c].files = chosen],
             worker' = [worker EXCEPT ![c] =
                  [f \in Files |->
                     IF f \notin chosen THEN NoWorker
                     ELSE Placing(IF class[commit[c].scan][f] = "existing"
                                  THEN "list" ELSE "add", "none")]]
      PROVE  /\ commit'[c].pc = "files" /\ commit'[c].scan = commit[c].scan
             /\ \A d \in Clients \ {c} :
                  commit'[d] = commit[d] /\ worker'[d] = worker[d]
             /\ \A f \in Files :
                  \/ worker'[c][f] = NoWorker
                  \/ worker'[c][f].pc = "add"
                  \/ worker'[c][f].pc = "list" /\ class[commit[c].scan][f] = "existing"
  <2>1. /\ commit'[c].pc = "files" /\ commit'[c].scan = commit[c].scan
        /\ \A d \in Clients \ {c} : commit'[d] = commit[d]
    BY <1>0, <1>1 DEF CommitState
  <2>2. \A d \in Clients \ {c} : worker'[d] = worker[d]
    BY <1>1 DEF Types
  <2>3. ASSUME NEW f \in Files
        PROVE  worker'[c][f] =
                 IF f \notin chosen THEN NoWorker
                 ELSE Placing(IF class[commit[c].scan][f] = "existing"
                              THEN "list" ELSE "add", "none")
    BY <1>1 DEF Types
  <2>4. \A pc : Placing(pc, "none").pc = pc
    BY DEF Placing
  <2>5. ASSUME NEW f \in Files
        PROVE  \/ worker'[c][f] = NoWorker
               \/ worker'[c][f].pc = "add"
               \/ worker'[c][f].pc = "list" /\ class[commit[c].scan][f] = "existing"
    <3>1. CASE f \notin chosen
      BY <2>3, <3>1
    <3>2. CASE f \in chosen /\ class[commit[c].scan][f] = "existing"
      <4>1. worker'[c][f] = Placing("list", "none")
        BY <2>3, <3>2
      <4> QED
        BY <2>4, <3>2, <4>1
    <3>3. CASE f \in chosen /\ class[commit[c].scan][f] # "existing"
      <4>1. worker'[c][f] = Placing("add", "none")
        BY <2>3, <3>3
      <4> QED
        BY <2>4, <4>1
    <3> QED
      BY <3>1, <3>2, <3>3
  <2> QED
    BY <2>1, <2>2, <2>5
<1> QED
  BY <1>1 DEF ListForCommit

LEMMA InitCommits == Init => Commits
  BY DEF Init, Commits, NoRequest, NoCommit, NoWorker

LEMMA CommitsStep == Types /\ Commits /\ [Next]_vars => Commits'
<1> SUFFICES ASSUME Types, Commits, [Next]_vars PROVE Commits'
  OBVIOUS
<1>0. /\ request \in [Clients -> RequestState]
      /\ commit \in [Clients -> CommitState]
  BY DEF Types
<1>1. ASSUME NEW c \in Clients, NEW s \in Scans,
             FindToCancel(c, s) \/ FindToDelete(c, s) \/ FindToCommit(c, s)
      PROVE  Commits'
  <2>1. UNCHANGED <<commit, worker>>
    BY <1>1 DEF FindToCancel, FindToDelete, FindToCommit, Find
  <2>2. PICK pc : /\ request' = [request EXCEPT ![c] = [pc |-> pc, scan |-> s]]
                  /\ pc = "commit" => commit[c] = NoCommit
    BY <1>1 DEF FindToCancel, FindToDelete, FindToCommit, Find
  <2> QED
    BY <1>0, <2>1, <2>2 DEF Commits
<1>2. ASSUME NEW c \in Clients, Commit(c) PROVE Commits'
  <2>1. UNCHANGED worker /\ request' = [request EXCEPT ![c] = NoRequest]
    BY <1>2 DEF Commit
  <2>2. request[c].scan \in Scans /\ \A f \in Files : worker[c][f] = NoWorker
    BY <1>2 DEF Commit, Commits, NoCommit
  <2>3. \/ UNCHANGED commit
        \/ commit' = [commit EXCEPT ![c] = [pc |-> "list", scan |-> request[c].scan,
                                            files |-> {}]]
    BY <1>2 DEF Commit
  <2> QED
    BY <1>0, <2>1, <2>2, <2>3 DEF Commits, NoRequest
<1>3. ASSUME NEW c \in Clients,
             \/ CountActive(c) \/ Cancel(c) \/ Delete(c)
             \/ \E s \in Scans : CreateScan(c, s)
      PROVE  Commits'
  <2>1. UNCHANGED <<commit, worker>>
    BY <1>3 DEF CountActive, Cancel, Delete, CreateScan
  <2>2. \/ request' = [request EXCEPT ![c].pc = "create"]
        \/ request' = [request EXCEPT ![c] = NoRequest]
    BY <1>3 DEF CountActive, Cancel, Delete, CreateScan
  <2> QED
    BY <1>0, <2>1, <2>2 DEF Commits, RequestState, NoRequest
<1>4. ASSUME NEW c \in Clients, ListForCommit(c) PROVE Commits'
  <2>1. UNCHANGED request /\ commit[c].pc = "list"
    BY <1>4 DEF ListForCommit
  <2>2. request[c].pc # "commit" /\ commit[c].scan \in Scans
        /\ \A f \in Files : worker[c][f] = NoWorker
    BY <2>1 DEF Commits, NoCommit
  <2>3. CASE UNCHANGED worker /\ commit' = [commit EXCEPT ![c] = NoCommit]
    BY <1>0, <2>1, <2>2, <2>3 DEF Commits, NoCommit
  <2> QED
    BY <1>4, <2>1, <2>2, <2>3, ListForCommitIs DEF Commits
<1>5. ASSUME NEW c \in Clients, FinishCommit(c) PROVE Commits'
  <2>1. UNCHANGED <<request, worker>> /\ commit' = [commit EXCEPT ![c] = NoCommit]
        /\ \A f \in Files : worker[c][f].pc = "off"
    BY <1>5 DEF FinishCommit
  <2> QED
    BY <1>0, <2>1 DEF Commits, NoCommit
<1>6. ASSUME NEW c \in Clients, NEW f \in Files, CommitOne(c, f) PROVE Commits'
  <2>1. UNCHANGED <<request, commit>>
    BY <1>6 DEF CommitOne
  <2>2. worker[c][f].pc # "off"
    BY <1>6 DEF CommitOne, ListExisting, RemoveOld, DeleteOldRow, AddMovie, Place,
                CreateRow, MarkAvailable
  <2>3. commit[c].pc = "files"
    BY <2>2 DEF Commits, NoWorker
  <2>4. Moves(c, f, {"create", "remove", "unrow", "place", "flip"})
    BY <1>6, CommitOneMoves DEF CommitOne, Moves
  <2> QED
    BY <2>1, <2>3, <2>4 DEF Commits, Moves
<1>7. CASE Crash
  BY <1>7 DEF Crash, Commits, NoRequest, NoCommit
<1>8. CASE UNCHANGED <<request, commit, worker>>
  BY <1>8 DEF Commits
<1> QED
  BY <1>1, <1>2, <1>3, <1>4, <1>5, <1>6, <1>7, <1>8
  DEF Next, vars, Requests, RunCommit, RunScan, Walk, BuildExisting, Persist,
      StopMatching, FinishScan
-----------------------------------------------------------------------------
(* What is known of a movie is known of one in the library. *)
Library ==
  /\ \A r \in rows : r.id < nextRow /\ r.movie \in added
  /\ \A q, r \in rows : q.id = r.id /\ q.movie = r.movie => q = r
  /\ available \subseteq added
  /\ \A s \in Scans : scanner[s].known \subseteq added
  /\ \A s \in Scans, f \in Files : class[s][f] = "existing" => MovieOf[f] \in added
  /\ \A c \in Clients, f \in Files :
       worker[c][f].pc \notin {"off", "add"} => MovieOf[f] \in added

LEMMA InitLibrary == Init => Library
  BY DEF Init, Library, NoScanner, NoWorker

(* Only the rows of a batch change, to what the scan may take them for. *)
LEMMA PersistIs ==
  ASSUME Types, NEW s \in Scans, Persist(s)
  PROVE  \E batch \in SUBSET scanner[s].todo :
           /\ scanner'[s].todo = scanner[s].todo \ batch
           /\ scanner'[s].pc = "match" /\ scanner'[s].known = scanner[s].known
           /\ scanner'[s].live = scanner[s].live
           /\ \A t \in Scans \ {s} : scanner'[t] = scanner[t]
           /\ \/ /\ status[s] # "deleted" /\ UNCHANGED lost
                 /\ \A f \in Files :
                      IF f \in batch THEN class'[s][f] \in ClassOf(f, scanner[s].known)
                                     ELSE class'[s][f] = class[s][f]
                 /\ \A t \in Scans \ {s} : class'[t] = class[t]
              \/ /\ UNCHANGED class
                 /\ lost' = [lost EXCEPT ![s] = @ \cup batch]
<1>0. scanner \in [Scans -> ScannerState] /\ class \in [Scans -> [Files -> Classes]]
  BY DEF Types
<1>1. PICK batch \in SUBSET scanner[s].todo :
        /\ scanner' = [scanner EXCEPT ![s].todo = @ \ batch]
        /\ \/ /\ status[s] # "deleted"
              /\ \E k \in [batch -> {"review", "existing", "confirmed"}] :
                   /\ \A f \in batch : k[f] \in ClassOf(f, scanner[s].known)
                   /\ class' = [class EXCEPT ![s] =
                                  [f \in Files |-> IF f \in batch THEN k[f]
                                                                  ELSE @[f]]]
              /\ UNCHANGED lost
           \/ /\ lost' = [lost EXCEPT ![s] = @ \cup batch]
              /\ UNCHANGED class
  BY DEF Persist
<1>2. /\ scanner'[s].todo = scanner[s].todo \ batch
      /\ scanner'[s].pc = "match" /\ scanner'[s].known = scanner[s].known
      /\ scanner'[s].live = scanner[s].live
      /\ \A t \in Scans \ {s} : scanner'[t] = scanner[t]
  BY <1>0, <1>1 DEF Persist, ScannerState
<1>3. ASSUME NEW k,
             \A f \in batch : k[f] \in ClassOf(f, scanner[s].known),
             class' = [class EXCEPT ![s] =
                         [f \in Files |-> IF f \in batch THEN k[f] ELSE class[s][f]]]
      PROVE  /\ \A f \in Files :
                  IF f \in batch THEN class'[s][f] \in ClassOf(f, scanner[s].known)
                                 ELSE class'[s][f] = class[s][f]
             /\ \A t \in Scans \ {s} : class'[t] = class[t]
  <2>1. class'[s] = [f \in Files |-> IF f \in batch THEN k[f] ELSE class[s][f]]
        /\ \A t \in Scans \ {s} : class'[t] = class[t]
    BY <1>0, <1>3
  <2> QED
    BY <1>3, <2>1
<1> QED
  BY <1>1, <1>2, <1>3

LEMMA LibraryStep == Types /\ Commits /\ Library /\ [Next]_vars => Library'
<1> SUFFICES ASSUME Types, Commits, Library, [Next]_vars PROVE Library'
  OBVIOUS
<1>0. /\ scanner \in [Scans -> ScannerState] /\ class \in [Scans -> [Files -> Classes]]
      /\ nextRow \in Nat /\ \A r \in rows : r.id \in Nat
  BY DEF Types
<1>1. ASSUME NEW s \in Scans, RunScan(s) PROVE Library'
  <2>1. UNCHANGED <<added, available, rows, nextRow, worker>>
    BY <1>1 DEF RunScan, Walk, BuildExisting, Persist, StopMatching, FinishScan, libVars
  <2>2. CASE Persist(s)
    BY <2>1, <2>2, PersistIs DEF Library, ClassOf
  <2>3. CASE ~Persist(s)
    <3>1. UNCHANGED class
      BY <1>1, <2>3 DEF RunScan, Walk, BuildExisting, StopMatching, FinishScan, scanVars
    <3>2. \A t \in Scans : scanner'[t].known \in {scanner[t].known, added, {}}
      <4>1. CASE Walk(s)
        <5>1. \/ scanner' = [scanner EXCEPT ![s].pc = "existing",
                                            ![s].todo = Files \cap disk]
              \/ scanner' = [scanner EXCEPT ![s] = NoScanner]
          BY <4>1 DEF Walk
        <5>2. NoScanner.known = {}
          BY DEF NoScanner
        <5> QED
          BY <1>0, <5>1, <5>2 DEF ScannerState
      <4>2. CASE BuildExisting(s)
        <5>1. \/ scanner' = [scanner EXCEPT ![s].pc = "match", ![s].known = added]
              \/ scanner' = [scanner EXCEPT ![s].pc = "match"]
          BY <4>2 DEF BuildExisting
        <5>2. CASE scanner' = [scanner EXCEPT ![s].pc = "match", ![s].known = added]
          BY <1>0, <5>2 DEF ScannerState
        <5>3. CASE scanner' = [scanner EXCEPT ![s].pc = "match"]
          BY <1>0, <5>3 DEF ScannerState
        <5> QED
          BY <5>1, <5>2, <5>3
      <4>3. CASE StopMatching(s)
        <5>1. PICK started :
                scanner' = [scanner EXCEPT ![s].todo = started, ![s].live = FALSE]
          BY <4>3 DEF StopMatching
        <5> QED
          BY <1>0, <5>1 DEF ScannerState
      <4>4. CASE FinishScan(s)
        BY <1>0, <4>4 DEF FinishScan, NoScanner
      <4> QED
        BY <1>1, <2>3, <4>1, <4>2, <4>3, <4>4 DEF RunScan
    <3> QED
      BY <2>1, <3>1, <3>2 DEF Library
  <2> QED
    BY <2>2, <2>3
<1>2. ASSUME NEW c \in Clients, Requests(c) PROVE Library'
  <2>1. UNCHANGED <<added, available, rows, nextRow, worker>>
    BY <1>2 DEF Requests, CountActive, Cancel, Delete, Commit, CreateScan,
                FindToCancel, FindToDelete, FindToCommit, Find, libVars
  <2>2. \/ UNCHANGED class
        \/ \E s : class' = [class EXCEPT ![s] = [f \in Files |-> "none"]]
    BY <1>2 DEF Requests, CountActive, Cancel, Delete, Commit, CreateScan,
                FindToCancel, FindToDelete, FindToCommit, Find, scanVars
  <2>3. \/ UNCHANGED scanner
        \/ \E s \in Scans : scanner' = [scanner EXCEPT ![s].pc = "walk"]
    BY <1>2 DEF Requests, CountActive, Cancel, Delete, Commit, CreateScan,
                FindToCancel, FindToDelete, FindToCommit, Find
  <2>4. \A s \in Scans : scanner'[s].known = scanner[s].known
    BY <1>0, <2>3 DEF ScannerState
  <2>5. \A s \in Scans, f \in Files : class'[s][f] \in {"none", class[s][f]}
    BY <1>0, <2>2
  <2> QED
    BY <2>1, <2>4, <2>5 DEF Library
<1>3. ASSUME NEW c \in Clients, ListForCommit(c) \/ FinishCommit(c) PROVE Library'
  <2>1. UNCHANGED <<class, added, available, rows, nextRow, scanner>>
    BY <1>3 DEF ListForCommit, FinishCommit, libVars
  <2>2. CASE UNCHANGED worker
    BY <2>1, <2>2 DEF Library
  <2>3. CASE ListForCommit(c)
    <3>1. commit[c].scan \in Scans
      BY <2>3 DEF ListForCommit, Commits
    <3>2. UNCHANGED worker
          \/ \A d \in Clients, f \in Files :
               worker'[d][f].pc \in {"off", "add", worker[d][f].pc}
               \/ MovieOf[f] \in added
      BY <2>3, <3>1, ListForCommitIs DEF Library, NoWorker
    <3> QED
      BY <2>1, <2>2, <3>2 DEF Library
  <2> QED
    BY <1>3, <2>2, <2>3 DEF FinishCommit
<1>4. ASSUME NEW c \in Clients, NEW f \in Files, CommitOne(c, f) PROVE Library'
  <2>1. UNCHANGED <<class, scanner>>
    BY <1>4 DEF CommitOne, scanVars
  <2>2. Moves(c, f, {"create", "remove", "unrow", "place", "flip"})
    BY <1>4, CommitOneMoves DEF CommitOne, Moves
  <2>3. CASE AddMovie(c, f)
    <3>1. UNCHANGED <<available, rows, nextRow>> /\ added \subseteq added'
      BY <2>3 DEF AddMovie, Added, Fail, libVars
    <3>2. MovieOf[f] \in added' \/ worker'[c][f] = NoWorker
      BY <2>3, BecomeIs DEF AddMovie, Added, Fail, Done
    <3> QED
      BY <2>1, <2>2, <3>1, <3>2 DEF Library, Moves, NoWorker
  <2>4. CASE ~AddMovie(c, f)
    <3>1. MovieOf[f] \in added /\ UNCHANGED added
      BY <1>4, <2>4 DEF CommitOne, ListExisting, RemoveOld, DeleteOldRow, Place,
                        CreateRow, MarkAvailable, Fail, libVars, Library
    <3>2. available' \subseteq available \cup {MovieOf[f]}
      BY <1>4, <2>4 DEF CommitOne, ListExisting, RemoveOld, DeleteOldRow, Place,
                        CreateRow, MarkAvailable, Fail, libVars
    <3>3. \/ rows' \subseteq rows /\ UNCHANGED nextRow
          \/ /\ rows' = rows \cup {[id |-> nextRow, movie |-> MovieOf[f],
                                    path |-> worker[c][f].path]}
             /\ nextRow' = nextRow + 1
      BY <1>4, <2>4 DEF CommitOne, ListExisting, RemoveOld, DeleteOldRow, Place,
                        CreateRow, MarkAvailable, Fail, libVars
    <3>4. /\ \A r \in rows' : r.id < nextRow' /\ r.movie \in added
          /\ \A q, r \in rows' : q.id = r.id /\ q.movie = r.movie => q = r
      BY <1>0, <3>1, <3>3 DEF Library
    <3> QED
      BY <2>1, <2>2, <3>1, <3>2, <3>4 DEF Library, Moves
  <2> QED
    BY <2>3, <2>4
<1>5. CASE Crash
  BY <1>5 DEF Crash, Library, libVars, NoScanner, NoWorker
<1>6. CASE UNCHANGED vars
  BY <1>6 DEF vars, Library
<1> QED
  BY <1>1, <1>2, <1>3, <1>4, <1>5, <1>6 DEF Next, RunCommit

(* Rows have their own ids and a movie in the library, and a request       *)
(* without a commit has no goroutine at work, whatever fails or crashes.   *)
THEOREM TypeCorrect == Spec => []TypeOK
<1>1. Init => Types /\ Commits /\ Library
  BY InitTypes, InitCommits, InitLibrary
<1>2. Types /\ Commits /\ Library /\ [Next]_vars => Types' /\ Commits' /\ Library'
  BY TypesStep, CommitsStep, LibraryStep
<1>3. ASSUME Types, Commits, Library PROVE TypeOK
  <2>1. status \in [Scans -> Statuses]
    BY <1>3 DEF Types
  <2>2. /\ \A r \in rows : r.id < nextRow /\ r.movie \in added
        /\ \A q, r \in rows : q.id = r.id /\ q.movie = r.movie => q = r
        /\ available \subseteq added
    BY <1>3 DEF Library
  <2>3. ASSUME NEW c \in Clients, commit[c] = NoCommit, NEW f \in Files
        PROVE  worker[c][f] = NoWorker
    <3>1. commit[c].pc # "files"
      BY <2>3 DEF NoCommit
    <3> QED
      BY <1>3, <3>1 DEF Commits
  <2> QED
    BY <2>1, <2>2, <2>3 DEF TypeOK, Statuses
<1> QED
  BY <1>1, <1>2, <1>3, PTL DEF Spec
-----------------------------------------------------------------------------
(* How the status, the scanner and the files of a scan move.               *)
LEMMA StatusStep ==
  ASSUME Types, [Next]_vars, NEW s \in Scans
  PROVE  /\ status[s] = "deleted" => status'[s] = "deleted"
         /\ status[s] # "free" => status'[s] # "free"
         /\ status'[s] = "awaiting_review" =>
              status[s] = "awaiting_review" \/ (FinishScan(s) /\ scanner[s].live)
<1>0. status \in [Scans -> Statuses]
  BY DEF Types
<1> DEFINE Write(t, v) == /\ v \notin {"free", "awaiting_review"}
                          /\ status[t] = "deleted" => v = "deleted"
                          /\ status' = [status EXCEPT ![t] = v]
<1>1. ASSUME NEW t \in Scans, RunScan(t)
      PROVE  \/ UNCHANGED status
             \/ \E v : Write(t, v)
             \/ /\ FinishScan(t) /\ scanner[t].live
                /\ status[t] # "deleted"
                /\ status' = [status EXCEPT ![t] = "awaiting_review"]
  BY <1>1 DEF RunScan, Walk, BuildExisting, Persist, StopMatching, FinishScan,
              TrySetStatus, SetStatus, LoseStatus, FailToSet, scanVars
<1>2. ASSUME NEW c \in Clients, Requests(c)
      PROVE  UNCHANGED status \/ \E t, v : Write(t, v)
  BY <1>2 DEF Requests, CountActive, Cancel, Delete, Commit, CreateScan,
              FindToCancel, FindToDelete, FindToCommit, Find, scanVars, SetStatus
<1>3. ASSUME NEW c \in Clients, RunCommit(c)
      PROVE  UNCHANGED status \/ \E t, v : Write(t, v)
  BY <1>3 DEF RunCommit, ListForCommit, FinishCommit, CommitOne, TrySetStatus,
              SetStatus, LoseStatus, FailToSet, scanVars
<1>4. CASE UNCHANGED status \/ \E t, v : Write(t, v)
  <2>1. CASE UNCHANGED status
    BY <2>1
  <2>2. CASE \E t, v : Write(t, v)
    <3>1. PICK t, v : Write(t, v)
      BY <2>2
    <3>2. status'[s] = IF s = t THEN v ELSE status[s]
      BY <1>0, <3>1
    <3> QED
      BY <3>1, <3>2
  <2> QED
    BY <1>4, <2>1, <2>2
<1>5. CASE \E t \in Scans : RunScan(t)
  <2>1. PICK t \in Scans : RunScan(t)
    BY <1>5
  <2>2. CASE UNCHANGED status \/ \E v : Write(t, v)
    BY <1>4, <2>2
  <2>3. CASE /\ FinishScan(t) /\ scanner[t].live
             /\ status[t] # "deleted"
             /\ status' = [status EXCEPT ![t] = "awaiting_review"]
    <3>1. status'[s] = IF s = t THEN "awaiting_review" ELSE status[s]
      BY <1>0, <2>3
    <3> QED
      BY <2>3, <3>1
  <2> QED
    BY <1>1, <2>1, <2>2, <2>3
<1>6. CASE Crash
  <2>1. \/ status'[s] = IF status[s] \in Active THEN "failed" ELSE status[s]
        \/ UNCHANGED status
    BY <1>6 DEF Crash, BootAborts, Aborted
  <2> QED
    BY <2>1 DEF Active
<1> QED
  BY <1>2, <1>3, <1>4, <1>5, <1>6 DEF Next, vars

LEMMA ScannerStep ==
  ASSUME Types, [Next]_vars, NEW s \in Scans
  PROVE  \/ scanner'[s] = scanner[s]
         \/ scanner'[s].pc = "off" /\ scanner'[s].known = {}
         \/ /\ status[s] = "free"
            /\ scanner'[s].pc = "walk" /\ scanner'[s].known = scanner[s].known
         \/ /\ Walk(s) /\ scanner'[s].pc = "existing"
            /\ scanner'[s].todo = Files \cap disk
            /\ scanner'[s].known = scanner[s].known
         \/ /\ BuildExisting(s)
            /\ scanner'[s].todo = scanner[s].todo /\ scanner'[s].live = scanner[s].live
            /\ scanner'[s].known \in {scanner[s].known, added}
         \/ Persist(s)
         \/ /\ StopMatching(s) /\ ~scanner'[s].live
            /\ scanner'[s].known = scanner[s].known
<1>0. scanner \in [Scans -> ScannerState]
  BY DEF Types
<1>1. ASSUME NEW t \in Scans, RunScan(t), t # s PROVE scanner'[s] = scanner[s]
  BY <1>1 DEF RunScan, Walk, BuildExisting, Persist, StopMatching, FinishScan, Types
<1>2. NoScanner.pc = "off" /\ NoScanner.known = {}
  BY DEF NoScanner
<1>3. CASE Walk(s)
  <2>1. CASE scanner' = [scanner EXCEPT ![s].pc = "existing",
                                        ![s].todo = Files \cap disk]
    BY <1>0, <1>3, <2>1 DEF ScannerState
  <2>2. CASE scanner' = [scanner EXCEPT ![s] = NoScanner]
    BY <1>0, <1>2, <2>2
  <2> QED
    BY <1>3, <2>1, <2>2 DEF Walk
<1>4. CASE BuildExisting(s)
  <2>1. CASE scanner' = [scanner EXCEPT ![s].pc = "match", ![s].known = added]
    BY <1>0, <1>4, <2>1 DEF ScannerState
  <2>2. CASE scanner' = [scanner EXCEPT ![s].pc = "match"]
    BY <1>0, <1>4, <2>2 DEF ScannerState
  <2> QED
    BY <1>4, <2>1, <2>2 DEF BuildExisting
<1>5. CASE StopMatching(s)
  <2>1. PICK started :
          scanner' = [scanner EXCEPT ![s].todo = started, ![s].live = FALSE]
    BY <1>5 DEF StopMatching
  <2> QED
    BY <1>0, <1>5, <2>1 DEF ScannerState
<1>6. CASE FinishScan(s)
  BY <1>0, <1>2, <1>6 DEF FinishScan
<1>7. CASE \E c \in Clients, t \in Scans : CreateScan(c, t)
  <2>1. PICK t \in Scans :
          status[t] = "free" /\ scanner' = [scanner EXCEPT ![t].pc = "walk"]
    BY <1>7 DEF CreateScan
  <2> QED
    BY <1>0, <2>1 DEF ScannerState
<1>8. CASE Crash
  BY <1>2, <1>8 DEF Crash
<1>9. CASE UNCHANGED scanner
  BY <1>9
<1>10. CASE \E t \in Scans : RunScan(t)
  BY <1>1, <1>3, <1>4, <1>5, <1>6, <1>10 DEF RunScan
<1>11. ASSUME NEW c \in Clients, Requests(c), ~\E t \in Scans : CreateScan(c, t)
       PROVE  UNCHANGED scanner
  BY <1>11 DEF Requests, CountActive, Cancel, Delete, Commit, FindToCancel,
               FindToDelete, FindToCommit, Find
<1>12. ASSUME NEW c \in Clients, RunCommit(c) PROVE UNCHANGED scanner
  BY <1>12 DEF RunCommit, ListForCommit, FinishCommit, CommitOne
<1> QED
  BY <1>7, <1>8, <1>9, <1>10, <1>11, <1>12 DEF Next, vars

LEMMA ClassStep ==
  ASSUME Types, [Next]_vars, NEW s \in Scans, NEW f \in Files
  PROVE  /\ \/ class'[s][f] = class[s][f]
            \/ class'[s][f] = "none" /\ status'[s] = "deleted"
            \/ Persist(s) /\ class'[s][f] \in ClassOf(f, scanner[s].known)
         /\ lost[s] \subseteq lost'[s]
<1>0. /\ class \in [Scans -> [Files -> Classes]] /\ lost \in [Scans -> SUBSET Files]
      /\ status \in [Scans -> Statuses]
  BY DEF Types
<1>1. CASE \E c \in Clients : Delete(c)
  <2>1. PICK t : /\ class' = [class EXCEPT ![t] = [g \in Files |-> "none"]]
                 /\ status' = [status EXCEPT ![t] = "deleted"]
                 /\ UNCHANGED lost
    BY <1>1 DEF Delete
  <2> QED
    BY <1>0, <2>1
<1>2. CASE \E t \in Scans : Persist(t)
  BY <1>0, <1>2, PersistIs
<1>3. CASE UNCHANGED <<class, lost>>
  BY <1>3
<1>4. ASSUME NEW c \in Clients, Requests(c), ~Delete(c) PROVE UNCHANGED <<class, lost>>
  BY <1>4 DEF Requests, CountActive, Cancel, Commit, CreateScan, FindToCancel,
              FindToDelete, FindToCommit, Find, scanVars
<1>5. ASSUME NEW c \in Clients, RunCommit(c) PROVE UNCHANGED <<class, lost>>
  BY <1>5 DEF RunCommit, ListForCommit, FinishCommit, CommitOne, scanVars
<1>6. ASSUME NEW t \in Scans, RunScan(t), ~Persist(t) PROVE UNCHANGED <<class, lost>>
  BY <1>6 DEF RunScan, Walk, BuildExisting, StopMatching, FinishScan, scanVars
<1> QED
  BY <1>1, <1>2, <1>3, <1>4, <1>5, <1>6 DEF Next, Crash, BootAborts, vars

(* No file of the scanned directory appears. *)
LEMMA DiskStep ==
  ASSUME [Next]_vars, NEW f \in Files, f \notin disk
  PROVE  f \notin disk'
<1>1. ASSUME NEW c \in Clients, NEW g \in Files, CommitOne(c, g) PROVE f \notin disk'
  BY <1>1, ConstantsAssumption
  DEF CommitOne, ListExisting, RemoveOld, DeleteOldRow, AddMovie, Added, Place,
      CreateRow, MarkAvailable, Fail, libVars, ConstantsAssumption
<1> QED
  BY <1>1 DEF Next, vars, Requests, CountActive, Cancel, Delete, Commit, CreateScan,
              FindToCancel, FindToDelete, FindToCommit, Find, RunCommit,
              ListForCommit, FinishCommit, RunScan, Walk, BuildExisting, Persist,
              StopMatching, FinishScan, Crash, BootAborts, libVars
-----------------------------------------------------------------------------
(* A file the reviewer is shown, or need not be.                           *)
Seen(s, f) == class[s][f] # "none" \/ f \in lost[s] \/ f \notin disk

(* While a scan is matched, what was not seen is still to do. *)
Review ==
  \A s \in Scans, f \in Files : status[s] # "deleted" =>
    /\ status[s] = "awaiting_review" => Seen(s, f)
    /\ scanner[s].pc \in {"existing", "match"} /\ scanner[s].live =>
         Seen(s, f) \/ f \in scanner[s].todo

LEMMA ReviewStep == Types /\ Review /\ [Next]_vars => Review'
<1> SUFFICES ASSUME Types, Review, [Next]_vars, NEW s \in Scans, NEW f \in Files,
                    status'[s] # "deleted"
             PROVE  /\ status'[s] = "awaiting_review" => Seen(s, f)'
                    /\ scanner'[s].pc \in {"existing", "match"} /\ scanner'[s].live =>
                         Seen(s, f)' \/ f \in scanner'[s].todo
  BY DEF Review
<1>1. status[s] # "deleted"
  BY StatusStep
<1>2. Seen(s, f) => Seen(s, f)'
  BY ClassStep, DiskStep DEF Seen, ClassOf
<1>3. ASSUME FinishScan(s), scanner[s].live PROVE Seen(s, f)
  BY <1>1, <1>3 DEF FinishScan, Review
<1>4. status'[s] = "awaiting_review" => Seen(s, f)'
  BY <1>1, <1>2, <1>3, StatusStep DEF Review
<1>5. ASSUME scanner'[s].pc \in {"existing", "match"}, scanner'[s].live,
             f \notin scanner'[s].todo
      PROVE  Seen(s, f)'
  <2>1. CASE scanner'[s] = scanner[s]
    BY <1>1, <1>2, <1>5, <2>1 DEF Review
  <2>2. CASE scanner'[s].todo = Files \cap disk
    BY <1>2, <1>5, <2>2 DEF Seen
  <2>3. CASE BuildExisting(s) /\ scanner'[s].todo = scanner[s].todo
                              /\ scanner'[s].live = scanner[s].live
    BY <1>1, <1>2, <1>5, <2>3 DEF BuildExisting, Review
  <2>4. CASE Persist(s)
    <3>1. PICK batch \in SUBSET scanner[s].todo :
            /\ scanner'[s].todo = scanner[s].todo \ batch
            /\ scanner'[s].live = scanner[s].live
            /\ \/ f \in batch => class'[s][f] \in ClassOf(f, scanner[s].known)
               \/ lost' = [lost EXCEPT ![s] = @ \cup batch]
      BY <2>4, PersistIs
    <3>2. CASE f \in batch
      <4>1. class'[s][f] \in ClassOf(f, scanner[s].known) \/ f \in lost'[s]
        BY <3>1, <3>2 DEF Types
      <4> QED
        BY <4>1 DEF Seen, ClassOf
    <3>3. CASE f \notin batch
      <4>1. f \notin scanner[s].todo /\ scanner[s].live /\ scanner[s].pc = "match"
        BY <1>5, <2>4, <3>1, <3>3 DEF Persist
      <4> QED
        BY <1>1, <1>2, <4>1 DEF Review
    <3> QED
      BY <3>2, <3>3
  <2> QED
    BY <1>5, <2>1, <2>2, <2>3, <2>4, ScannerStep
<1> QED
  BY <1>4, <1>5

(* Whichever goroutine writes a batch, whatever is cancelled or crashes and *)
(* however many scans run at once, a scan comes up for review with every    *)
(* file it walked, but for those whose batch could not be written.          *)
THEOREM ReviewIsComplete == Spec => []ReviewComplete
<1>1. Init => Types /\ Review
  BY InitTypes DEF Init, Review, NoScanner
<1>2. Types /\ Review /\ [Next]_vars => Types' /\ Review'
  BY TypesStep, ReviewStep
<1>3. Types /\ Review => ReviewComplete
  BY DEF Review, ReviewComplete, Seen
<1> QED
  BY <1>1, <1>2, <1>3, PTL DEF Spec
-----------------------------------------------------------------------------
(* With one scan, the library a scan was matched against is the library    *)
(* before its commits: what is new is new for all of them.                 *)
Begun ==
  \/ added # Known
  \/ \E c \in Clients : commit[c] # NoCommit \/ request[c].pc = "commit"

Scanning ==
  /\ \A s \in Scans : status[s] = "awaiting_review" => scanner[s].pc = "off"
  /\ Begun => \A s \in Scans : scanner[s].pc = "off" /\ status[s] # "free"
  /\ \A s \in Scans : scanner[s].known \subseteq Known
  /\ \A s \in Scans, f \in Files : class[s][f] = "existing" => MovieOf[f] \in Known

LEMMA BeginsWithCommit ==
  ASSUME Types, Commits, [Next]_vars, ~Begun, Begun'
  PROVE  \E c \in Clients, s \in Scans : FindToCommit(c, s)
<1>0. request \in [Clients -> RequestState] /\ commit \in [Clients -> CommitState]
  BY DEF Types
<1>1. /\ added = Known
      /\ \A c \in Clients : commit[c] = NoCommit /\ request[c].pc # "commit"
  BY DEF Begun
<1>2. NoCommit.pc = "off" /\ NoRequest.pc = "idle"
  BY DEF NoCommit, NoRequest
<1>3. \A c \in Clients, f \in Files : worker[c][f].pc = "off"
  BY <1>1, <1>2 DEF Commits, NoWorker
<1>4. ASSUME NEW c \in Clients PROVE ~RunCommit(c)
  BY <1>1, <1>2, <1>3, <1>4 DEF RunCommit, ListForCommit, FinishCommit, CommitOne,
     ListExisting, RemoveOld, DeleteOldRow, AddMovie, Place, CreateRow, MarkAvailable
<1>5. ASSUME NEW c \in Clients, Requests(c), ~\E s \in Scans : FindToCommit(c, s)
      PROVE  ~Begun'
  <2>1. UNCHANGED <<added, commit>>
    BY <1>1, <1>5 DEF Requests, CountActive, Cancel, Delete, Commit, CreateScan,
                      FindToCancel, FindToDelete, Find, libVars
  <2>2. \/ request' = [request EXCEPT ![c].pc = "create"]
        \/ request' = [request EXCEPT ![c] = NoRequest]
        \/ \E pc \in {"cancel", "delete"}, s \in Scans :
             request' = [request EXCEPT ![c] = [pc |-> pc, scan |-> s]]
    BY <1>1, <1>5 DEF Requests, CountActive, Cancel, Delete, Commit, CreateScan,
                      FindToCancel, FindToDelete, Find
  <2>3. \A d \in Clients : request'[d].pc # "commit"
    <3>1. CASE request' = [request EXCEPT ![c].pc = "create"]
      BY <1>0, <1>1, <3>1 DEF RequestState
    <3>2. CASE request' = [request EXCEPT ![c] = NoRequest]
      BY <1>0, <1>1, <1>2, <3>2
    <3>3. CASE \E pc \in {"cancel", "delete"}, s \in Scans :
                 request' = [request EXCEPT ![c] = [pc |-> pc, scan |-> s]]
      BY <1>0, <1>1, <3>3
    <3> QED
      BY <2>2, <3>1, <3>2, <3>3
  <2> QED
    BY <1>1, <2>1, <2>3 DEF Begun
<1>6. ASSUME NEW s \in Scans, RunScan(s) PROVE UNCHANGED <<added, commit, request>>
  BY <1>6 DEF RunScan, Walk, BuildExisting, Persist, StopMatching, FinishScan, libVars
<1>7. CASE Crash
  BY <1>1, <1>2, <1>7 DEF Crash, Begun, libVars
<1>8. CASE UNCHANGED <<added, commit, request>>
  BY <1>8 DEF Begun
<1> QED
  BY <1>4, <1>5, <1>6, <1>7, <1>8 DEF Next, vars

LEMMA ScanningStep ==
  ASSUME \A s, t \in Scans : s = t, Types, Commits, Scanning, [Next]_vars
  PROVE  Scanning'
<1>1. ASSUME NEW s \in Scans, status'[s] = "awaiting_review"
      PROVE  scanner'[s].pc = "off"
  <2>1. CASE FinishScan(s)
    BY <2>1 DEF FinishScan, NoScanner, Types
  <2>2. CASE status[s] = "awaiting_review"
    <3>1. scanner[s].pc = "off"
      BY <2>2 DEF Scanning
    <3> QED
      BY <2>2, <3>1, ScannerStep DEF Walk, BuildExisting, Persist, StopMatching
  <2> QED
    BY <1>1, <2>1, <2>2, StatusStep
<1>2. ASSUME Begun', NEW s \in Scans PROVE scanner'[s].pc = "off" /\ status'[s] # "free"
  <2>1. scanner[s].pc = "off" /\ status[s] # "free"
    <3>1. CASE Begun
      BY <3>1 DEF Scanning
    <3>2. CASE ~Begun
      <4>1. PICK c \in Clients, t \in Scans : FindToCommit(c, t)
        BY <1>2, <3>2, BeginsWithCommit
      <4>2. status[s] = "awaiting_review"
        BY <4>1 DEF FindToCommit, Find
      <4> QED
        BY <4>2 DEF Scanning
    <3> QED
      BY <3>1, <3>2
  <2> QED
    BY <2>1, ScannerStep, StatusStep DEF Walk, BuildExisting, Persist, StopMatching
<1>3. ASSUME NEW s \in Scans PROVE scanner'[s].known \subseteq Known
  <2>1. CASE BuildExisting(s)
    <3>1. added = Known
      BY <2>1 DEF BuildExisting, Scanning, Begun
    <3> QED
      BY <2>1, <3>1, ScannerStep DEF Scanning, Walk, Persist, StopMatching, BuildExisting
  <2>2. CASE Persist(s)
    BY <2>2, PersistIs DEF Scanning
  <2> QED
    BY <2>1, <2>2, ScannerStep DEF Scanning
<1>4. ASSUME NEW s \in Scans, NEW f \in Files, class'[s][f] = "existing"
      PROVE  MovieOf[f] \in Known
  BY <1>4, ClassStep DEF ClassOf, Scanning
<1> QED
  BY <1>1, <1>2, <1>3, <1>4 DEF Scanning

(* A worker on the way to the row of a movie it added. *)
Maker(c, f) == worker[c][f].pc \in {"place", "create"} /\ MovieOf[f] \notin Known

Making ==
  /\ \A c \in Clients, f \in Files :
       worker[c][f].pc \in {"list", "remove", "unrow"} => MovieOf[f] \in Known
  /\ \A c \in Clients, f \in Files :
       Maker(c, f) => \A r \in rows : r.movie # MovieOf[f]
  /\ \A c, d \in Clients, f, g \in Files :
       Maker(c, f) /\ Maker(d, g) /\ MovieOf[f] = MovieOf[g] => c = d /\ f = g
  /\ NewMovieOneFile

(* A step that makes no maker and no row. *)
LEMMA MakingKept ==
  ASSUME Making, rows' \subseteq rows,
         \A c \in Clients, f \in Files : Maker(c, f)' => Maker(c, f),
         \A c \in Clients, f \in Files :
           worker'[c][f].pc \in {"list", "remove", "unrow"} => MovieOf[f] \in Known
  PROVE  Making'
<1>1. \A c \in Clients, f \in Files :
        Maker(c, f)' => \A r \in rows' : r.movie # MovieOf[f]
  BY DEF Making
<1>2. \A c, d \in Clients, f, g \in Files :
        Maker(c, f)' /\ Maker(d, g)' /\ MovieOf[f] = MovieOf[g] => c = d /\ f = g
  BY DEF Making
<1>3. NewMovieOneFile'
  BY DEF Making, NewMovieOneFile
<1> QED
  BY <1>1, <1>2, <1>3 DEF Making

LEMMA MakingStep ==
  Types /\ Commits /\ Library /\ Scanning /\ Making /\ [Next]_vars => Making'
<1> SUFFICES ASSUME Types, Commits, Library, Scanning, Making, [Next]_vars PROVE Making'
  OBVIOUS
<1>0. NoWorker.pc = "off"
  BY DEF NoWorker
<1>1. CASE UNCHANGED <<rows, worker>>
  BY <1>1, MakingKept DEF Maker, Making
<1>2. ASSUME NEW c \in Clients, ListForCommit(c) PROVE Making'
  <2>1. UNCHANGED rows
    BY <1>2 DEF ListForCommit, libVars
  <2>2. CASE UNCHANGED worker
    BY <1>1, <2>1, <2>2
  <2>3. CASE ~UNCHANGED worker
    <3>1. commit[c].scan \in Scans
      BY <1>2 DEF ListForCommit, Commits
    <3>2. \A d \in Clients, f \in Files :
            \/ worker'[d][f] = worker[d][f]
            \/ worker'[d][f].pc \in {"off", "add"}
            \/ worker'[d][f].pc = "list" /\ MovieOf[f] \in Known
      BY <1>0, <1>2, <2>3, <3>1, ListForCommitIs DEF Scanning
    <3> QED
      BY <2>1, <3>2, MakingKept DEF Maker, Making
  <2> QED
    BY <2>2, <2>3
<1>3. ASSUME NEW c \in Clients, NEW f \in Files, CommitOne(c, f) PROVE Making'
  <2>1. CASE AddMovie(c, f)
    <3>1. UNCHANGED rows /\ Moves(c, f, {"place", "create"})
      BY <2>1, CommitOneMoves DEF AddMovie, Added, Fail, libVars
    <3>2. CASE worker'[c][f] = NoWorker
      BY <1>0, <3>1, <3>2, MakingKept DEF Maker, Making, Moves
    <3>3. CASE worker'[c][f] # NoWorker
      <4>1. MovieOf[f] \notin added
        BY <2>1, <3>3, BecomeIs DEF AddMovie, Fail, Done
      <4>2. /\ \A r \in rows : r.movie # MovieOf[f]
            /\ \A d \in Clients, g \in Files : Maker(d, g) => MovieOf[g] # MovieOf[f]
        BY <4>1 DEF Library, Maker
      <4>3. \A d \in Clients, g \in Files :
              d # c \/ g # f => worker'[d][g] = worker[d][g]
        BY <3>1 DEF Moves
      <4>4. \A d \in Clients, g \in Files :
              Maker(d, g)' => Maker(d, g) \/ (d = c /\ g = f)
        BY <4>3 DEF Maker
      <4>5. \A d \in Clients, g \in Files :
              Maker(d, g)' => \A r \in rows' : r.movie # MovieOf[g]
        BY <3>1, <4>2, <4>4 DEF Making
      <4>6. \A d, e \in Clients, g, h \in Files :
              Maker(d, g)' /\ Maker(e, h)' /\ MovieOf[g] = MovieOf[h] => d = e /\ g = h
        BY <4>2, <4>4 DEF Making
      <4>7. \A d \in Clients, g \in Files :
              worker'[d][g].pc \in {"list", "remove", "unrow"} => MovieOf[g] \in Known
        BY <1>0, <3>1 DEF Making, Moves
      <4> QED
        BY <3>1, <4>5, <4>6, <4>7 DEF Making, NewMovieOneFile
    <3> QED
      BY <3>2, <3>3
  <2>2. CASE CreateRow(c, f)
    <3>1. Moves(c, f, {"flip"}) /\ worker[c][f].pc = "create"
      BY <2>2, CommitOneMoves DEF CreateRow
    <3>2. \/ UNCHANGED rows
          \/ rows' = rows \cup {[id |-> nextRow, movie |-> MovieOf[f],
                                 path |-> worker[c][f].path]}
      BY <2>2 DEF CreateRow, Fail, libVars
    <3>3. \A d \in Clients, g \in Files :
            Maker(d, g)' => Maker(d, g) /\ (d # c \/ g # f)
      BY <1>0, <3>1 DEF Maker, Moves
    <3>4. \A d \in Clients, g \in Files :
            Maker(d, g)' /\ Maker(c, f) => MovieOf[g] # MovieOf[f]
      BY <3>3 DEF Making
    <3>5. \A d \in Clients, g \in Files :
            worker'[d][g].pc \in {"list", "remove", "unrow"} => MovieOf[g] \in Known
      BY <1>0, <3>1 DEF Making, Moves
    <3>6. \A d \in Clients, g \in Files :
            Maker(d, g)' /\ MovieOf[g] = MovieOf[f] => Maker(c, f)
      BY <3>1, <3>3 DEF Maker
    <3>7. \A d \in Clients, g \in Files :
            Maker(d, g)' => \A r \in rows' : r.movie # MovieOf[g]
      BY <3>2, <3>3, <3>4, <3>6 DEF Making
    <3>8. NewMovieOneFile'
      <4>1. MovieOf[f] \in Known \/ \A r \in rows : r.movie # MovieOf[f]
        BY <3>1 DEF Making, Maker
      <4> QED
        BY <3>2, <4>1 DEF Making, NewMovieOneFile
    <3> QED
      BY <3>3, <3>5, <3>7, <3>8 DEF Making
  <2>3. CASE ListExisting(c, f) \/ RemoveOld(c, f) \/ DeleteOldRow(c, f)
    <3>1. MovieOf[f] \in Known
      BY <2>3 DEF ListExisting, RemoveOld, DeleteOldRow, Making
    <3>2. rows' \subseteq rows
      BY <2>3 DEF ListExisting, RemoveOld, DeleteOldRow, Fail, libVars
    <3>3. Moves(c, f, {"create", "remove", "unrow"})
      BY <2>3, CommitOneMoves DEF Moves
    <3> QED
      BY <3>1, <3>2, <3>3, MakingKept DEF Maker, Making, Moves
  <2>4. CASE Place(c, f) \/ MarkAvailable(c, f)
    <3>1. UNCHANGED rows
      BY <2>4 DEF Place, MarkAvailable, Fail, libVars
    <3>2. /\ worker'[c][f] = NoWorker
             \/ (worker[c][f].pc = "place" /\ worker'[c][f].pc = "create")
          /\ \A d \in Clients, g \in Files :
               d # c \/ g # f => worker'[d][g] = worker[d][g]
      BY <2>4, CommitOneMoves DEF Moves, Place
    <3> QED
      BY <1>0, <3>1, <3>2, MakingKept DEF Maker, Making
  <2> QED
    BY <1>3, <2>1, <2>2, <2>3, <2>4 DEF CommitOne
<1>4. CASE Crash
  BY <1>0, <1>4, MakingKept DEF Crash, Maker, libVars
<1> QED
  BY <1>1, <1>2, <1>3, <1>4
  DEF Next, vars, libVars, RunCommit, FinishCommit, Requests, CountActive, Cancel,
      Delete, Commit, CreateScan, FindToCancel, FindToDelete, FindToCommit, Find,
      RunScan, Walk, BuildExisting, Persist, StopMatching, FinishScan

(* Of the files matched with one new movie, one is attached, however many   *)
(* requests commit the scan (committer.go:39 checks and flips its status in *)
(* two statements), and whatever fails or crashes.  With a second scan this *)
(* is not so: it may find the movie the first one added, and replaces.      *)
THEOREM NewMovieHasOneFile ==
  ASSUME \A s, t \in Scans : s = t
  PROVE  Spec => []NewMovieOneFile
<1> DEFINE Inv == Types /\ Commits /\ Library /\ Scanning /\ Making
<1>1. Init => Inv
  <2> SUFFICES ASSUME Init PROVE Inv
    OBVIOUS
  <2>1. Types /\ Commits /\ Library
    BY InitTypes, InitCommits, InitLibrary
  <2>2. Scanning
    BY DEF Init, Scanning, Begun, NoScanner, NoCommit, NoRequest
  <2>3. Making
    BY DEF Init, Making, Maker, NoWorker, NewMovieOneFile
  <2> QED
    BY <2>1, <2>2, <2>3
<1>2. Inv /\ [Next]_vars => Inv'
  BY TypesStep, CommitsStep, LibraryStep, ScanningStep, MakingStep
<1>3. Inv => NewMovieOneFile
  BY DEF Making
<1> HIDE DEF Inv
<1> QED
  BY <1>1, <1>2, <1>3, PTL DEF Spec
=============================================================================
