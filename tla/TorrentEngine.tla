---------------------------- MODULE TorrentEngine ----------------------------
(***************************************************************************)
(* The built-in torrent engine (internal/bittorrent): one row per torrent  *)
(* in torrent_sessions, one torrent in the client library, and flags in    *)
(* memory that mirror the row.  An operation touches the three one after   *)
(* the other, the enforcer of seed limits runs beside it once a minute,    *)
(* and a boot makes the library's torrents and the flags from the rows.    *)
(*                                                                         *)
(* Whether data may flow is modelled, the data and its progress are not:   *)
(* a torrent may be complete, and past its limit, at any time.             *)
(***************************************************************************)
EXTENDS Naturals, FiniteSets

CONSTANTS
  Hashes,
  EngineUsers,  \* callers of the download.Client and Manager operations
  Faults,       \* subset of {"db", "disk", "add", "crash"}
  MaxTorrents,  \* bound of the model: torrents the library ever holds
  Absent        \* no row, no torrent, no entry

\* The flags of a row and of e.state; a torrent of the library, by what it was
\* told: may data flow down and up, does a seed stop wait for its metadata.
Flags == [paused : BOOLEAN, stopped : BOOLEAN, completed : BOOLEAN]
Torrent == [id : Nat, info : BOOLEAN, down : BOOLEAN, up : BOOLEAN,
            stop : BOOLEAN]

ASSUME AbsentAssumption == Absent \notin Flags /\ Absent \notin Torrent

VARIABLES
  row,       \* hash -> torrent_sessions: the flags, or Absent
  live,      \* hash -> torrent of the library, or Absent
  mem,       \* hash -> e.state: the flags, or Absent
  op,        \* user -> the operation in progress
  enforcer,  \* enforceOnce: torrents not yet looked at, and the one it is at
  up,        \* restore is done
  torrents,  \* number of torrents added to the library
  uneven,    \* ghost: hashes a failure left with row, torrent and flags apart
  torn,      \* ghost: hashes added and removed at once since the last start
  met,       \* ghost: hashes two operations were at work on at once
  freed      \* ghost: paused torrents that were added again

ghosts == <<uneven, torn, met, freed>>
engineVars == <<row, live, mem, op, enforcer, up, torrents, ghosts>>

Fresh == [paused |-> FALSE, stopped |-> FALSE, completed |-> FALSE]
NoCall == [pc |-> "idle"]
Resting == [pc |-> "idle", todo |-> {}]

EngineInit ==
  /\ row = [h \in Hashes |-> Absent]
  /\ live = [h \in Hashes |-> Absent]
  /\ mem = [h \in Hashes |-> Absent]
  /\ op = [c \in EngineUsers |-> NoCall]
  /\ enforcer = Resting
  /\ up = TRUE /\ torrents = 0
  /\ uneven = {} /\ torn = {} /\ met = {} /\ freed = {}

\* getState, setState: a missing entry is made.
State(h) == IF mem[h] = Absent THEN Fresh ELSE mem[h]
SetState(h, flags) == mem' = [mem EXCEPT ![h] = flags]

\* SetTorrentSession...: no row, no update, and no error.
Write(h, flags) == row' = IF row[h] = Absent THEN row
                          ELSE [row EXCEPT ![h] = flags]

\* A handle outlives its torrent: what is done to it then has no effect.
IsLive(h, id) == live[h] # Absent /\ live[h].id = id
Flow(h, id, down, upload) ==
  live' = IF IsLive(h, id)
          THEN [live EXCEPT ![h].down = down, ![h].up = upload] ELSE live

Adding == {"spec", "state"}
Removing == {"drop", "files", "unrow", "forget"}
Others(h) == {c \in EngineUsers : op[c] # NoCall /\ op[c].hash = h}

\* Nothing keeps an operation from starting while another is at work on the
\* torrent: the handlers take no lock.
Meets(pc, h) ==
  /\ met' = IF Others(h) = {} THEN met ELSE met \cup {h}
  /\ torn' = IF \E d \in Others(h) :
                  \/ pc \in Adding /\ op[d].pc \in Removing
                  \/ pc \in Removing /\ op[d].pc \in Adding
             THEN torn \cup {h} ELSE torn

Start(c, what) ==
  /\ up /\ op[c] = NoCall
  /\ op' = [op EXCEPT ![c] = what]
  /\ Meets(what.pc, what.hash)
At(c, pc) == up /\ op[c].pc = pc
Goto(c, pc) == op' = [op EXCEPT ![c].pc = pc]
Done(c) == op' = [op EXCEPT ![c] = NoCall]

-----------------------------------------------------------------------------
(* AddTorrent. *)

\* Mutant: a row that could not be written is no reason to stop.
CreateSessionAnyway(c, h) ==
  /\ \/ row' = [row EXCEPT ![h] = IF @ = Absent THEN Fresh ELSE @]
     \/ "db" \in Faults /\ UNCHANGED row
  /\ Start(c, [pc |-> "spec", hash |-> h])
  /\ UNCHANGED <<live, mem, enforcer, up, torrents, uneven, freed>>

\* The row comes first; one that exists is left as it is.
CreateSession(c, h) ==
  /\ Start(c, [pc |-> "spec", hash |-> h])
  /\ row' = [row EXCEPT ![h] = IF @ = Absent THEN Fresh ELSE @]
  /\ UNCHANGED <<live, mem, enforcer, up, torrents, uneven, freed>>

\* AddTorrentSpec.  The spec, which lets data flow, is merged into a torrent
\* that is there already, be it paused.
AddSpec(c) ==
  LET h == op[c].hash IN
  /\ At(c, "spec")
  /\ \/ /\ live[h] # Absent
        /\ live' = [live EXCEPT ![h].down = TRUE, ![h].up = TRUE]
        /\ freed' = IF State(h).paused THEN freed \cup {h} ELSE freed
        /\ Goto(c, "state")
        /\ UNCHANGED torrents
     \/ /\ live[h] = Absent /\ torrents < MaxTorrents
        /\ torrents' = torrents + 1
        /\ live' = [live EXCEPT ![h] = [id |-> torrents, info |-> FALSE,
                                        down |-> TRUE, up |-> TRUE,
                                        stop |-> FALSE]]
        /\ Goto(c, "state")
        /\ UNCHANGED freed
     \/ /\ "add" \in Faults
        /\ Done(c)
        /\ UNCHANGED <<live, torrents, freed>>
  /\ UNCHANGED <<row, mem, enforcer, up, uneven, torn, met>>

AddState(c) ==
  /\ At(c, "state")
  /\ SetState(op[c].hash, State(op[c].hash))
  /\ Done(c)
  /\ UNCHANGED <<row, live, enforcer, up, torrents, ghosts>>

\* startWhenReady: the metadata arrives; a seed stop is applied again.
GotInfo(h) ==
  /\ up /\ live[h] # Absent /\ ~live[h].info
  /\ live' = [live EXCEPT ![h].info = TRUE,
                          ![h].up = @ /\ ~live[h].stop]
  /\ UNCHANGED <<row, mem, op, enforcer, up, torrents, ghosts>>

-----------------------------------------------------------------------------
(* RemoveTorrent. *)

FindToRemove(c, h) ==
  /\ live[h] # Absent
  /\ Start(c, [pc |-> "drop", hash |-> h, id |-> live[h].id])
  /\ UNCHANGED <<row, live, mem, enforcer, up, torrents, uneven, freed>>

Drop(c) ==
  LET h == op[c].hash IN
  /\ At(c, "drop")
  /\ live' = IF IsLive(h, op[c].id) THEN [live EXCEPT ![h] = Absent] ELSE live
  /\ Goto(c, "files")
  /\ UNCHANGED <<row, mem, enforcer, up, torrents, ghosts>>

\* A failure ends the removal: the row is still there.
Abandon(c, fault) ==
  /\ fault \in Faults
  /\ uneven' = uneven \cup {op[c].hash}
  /\ Done(c)
  /\ UNCHANGED <<row, mem>>

DeleteFiles(c) ==
  /\ At(c, "files")
  /\ \/ Goto(c, "unrow") /\ UNCHANGED <<row, mem, uneven>>
     \/ Abandon(c, "disk")
  /\ UNCHANGED <<live, enforcer, up, torrents, torn, met, freed>>

DeleteSession(c) ==
  /\ At(c, "unrow")
  /\ \/ /\ row' = [row EXCEPT ![op[c].hash] = Absent]
        /\ Goto(c, "forget")
        /\ UNCHANGED <<mem, uneven>>
     \/ Abandon(c, "db")
  /\ UNCHANGED <<live, enforcer, up, torrents, torn, met, freed>>

Forget(c) ==
  /\ At(c, "forget")
  /\ mem' = [mem EXCEPT ![op[c].hash] = Absent]
  /\ uneven' = uneven \ {op[c].hash}
  /\ Done(c)
  /\ UNCHANGED <<row, live, enforcer, up, torrents, torn, met, freed>>

-----------------------------------------------------------------------------
(* PauseTorrent, ResumeTorrent: library, memory, row. *)

Pause(c, h) ==
  /\ live[h] # Absent
  /\ Start(c, [pc |-> "pause", hash |-> h])
  /\ Flow(h, live[h].id, FALSE, FALSE)
  /\ freed' = freed \ {h}
  /\ UNCHANGED <<row, mem, enforcer, up, torrents, uneven>>

\* The flags are read before, and may be old when uploads are allowed.
Resume(c, h) ==
  /\ live[h] # Absent
  /\ Start(c, [pc |-> "allow", hash |-> h, id |-> live[h].id,
               stopped |-> State(h).stopped])
  /\ UNCHANGED <<row, live, mem, enforcer, up, torrents, uneven, freed>>

AllowData(c) ==
  LET h == op[c].hash IN
  /\ At(c, "allow")
  /\ live[h] # Absent =>
       Flow(h, op[c].id, TRUE, live[h].up \/ ~op[c].stopped)
  /\ live[h] = Absent => UNCHANGED live
  /\ Goto(c, "resume")
  /\ UNCHANGED <<row, mem, enforcer, up, torrents, ghosts>>

SetPaused(c, pc, paused) ==
  /\ At(c, pc)
  /\ SetState(op[c].hash, [State(op[c].hash) EXCEPT !.paused = paused])
  /\ op' = [op EXCEPT ![c] = [pc |-> "save", paused |-> paused,
                                      hash |-> op[c].hash]]
  /\ UNCHANGED <<row, live, enforcer, up, torrents, ghosts>>

PauseState(c) == SetPaused(c, "pause", TRUE)
ResumeState(c) == SetPaused(c, "resume", FALSE)

SavePaused(c) ==
  LET h == op[c].hash IN
  /\ At(c, "save")
  /\ \/ /\ row[h] # Absent =>
             Write(h, [row[h] EXCEPT !.paused = op[c].paused])
        /\ row[h] = Absent => UNCHANGED row
        /\ UNCHANGED uneven
     \/ /\ "db" \in Faults
        /\ uneven' = uneven \cup {h}
        /\ UNCHANGED row
  /\ Done(c)
  /\ UNCHANGED <<live, mem, enforcer, up, torrents, torn, met, freed>>

-----------------------------------------------------------------------------
(* enforceOnce. *)

StartTick ==
  /\ up /\ enforcer = Resting
  /\ enforcer' = [pc |-> "look", todo |-> {h \in Hashes : live[h] # Absent},
                  ids |-> [h \in Hashes |-> IF live[h] = Absent THEN 0
                                                              ELSE live[h].id]]
  /\ UNCHANGED <<row, live, mem, op, up, torrents, ghosts>>

\* A torrent that is not complete, paused or stopped is skipped.
Look(h) ==
  /\ up /\ enforcer.pc = "look" /\ h \in enforcer.todo
  /\ \/ enforcer' = [enforcer EXCEPT !.todo = @ \ {h}]
     \/ /\ IsLive(h, enforcer.ids[h]) => live[h].info
        /\ ~State(h).paused /\ ~State(h).stopped
        /\ enforcer' = [pc |-> IF State(h).completed THEN "judge" ELSE "mark",
                        hash |-> h, todo |-> enforcer.todo \ {h},
                        ids |-> enforcer.ids]
  /\ UNCHANGED <<row, live, mem, op, up, torrents, ghosts>>

EndTick ==
  /\ up /\ enforcer.pc = "look" /\ enforcer.todo = {}
  /\ enforcer' = Resting
  /\ UNCHANGED <<row, live, mem, op, up, torrents, ghosts>>

EnforcerAt(pc) == up /\ enforcer.pc = pc
EnforcerGoto(pc) == enforcer' = [enforcer EXCEPT !.pc = pc]

\* completedAt, in memory and then in the row.
Mark ==
  /\ EnforcerAt("mark")
  /\ SetState(enforcer.hash, [State(enforcer.hash) EXCEPT !.completed = TRUE])
  /\ EnforcerGoto("saveMark")
  /\ UNCHANGED <<row, live, op, up, torrents, ghosts>>

SaveMark ==
  LET h == enforcer.hash IN
  /\ EnforcerAt("saveMark")
  /\ \/ /\ row[h] # Absent
        /\ Write(h, [row[h] EXCEPT !.completed = TRUE])
     \/ (row[h] = Absent \/ "db" \in Faults) /\ UNCHANGED row
  /\ EnforcerGoto("judge")
  /\ UNCHANGED <<live, mem, op, up, torrents, ghosts>>

\* shouldStopSeeding, then DisallowDataUpload.
Judge ==
  LET h == enforcer.hash IN
  /\ EnforcerAt("judge")
  /\ \/ EnforcerGoto("look") /\ UNCHANGED live
     \/ /\ live[h] # Absent => Flow(h, enforcer.ids[h], live[h].down, FALSE)
        /\ live[h] = Absent => UNCHANGED live
        /\ EnforcerGoto("stop")
  /\ UNCHANGED <<row, mem, op, up, torrents, ghosts>>

StopSeeding ==
  /\ EnforcerAt("stop")
  /\ SetState(enforcer.hash, [State(enforcer.hash) EXCEPT !.stopped = TRUE])
  /\ EnforcerGoto("saveStop")
  /\ UNCHANGED <<row, live, op, up, torrents, ghosts>>

SaveStop ==
  LET h == enforcer.hash IN
  /\ EnforcerAt("saveStop")
  /\ \/ /\ row[h] # Absent
        /\ Write(h, [row[h] EXCEPT !.stopped = TRUE])
     \/ (row[h] = Absent \/ "db" \in Faults) /\ UNCHANGED row
  /\ EnforcerGoto("look")
  /\ UNCHANGED <<live, mem, op, up, torrents, ghosts>>

-----------------------------------------------------------------------------
(* The process dies; New restores the rows one after the other. *)

EngineCrash ==
  /\ up /\ "crash" \in Faults
  /\ up' = FALSE
  /\ live' = [h \in Hashes |-> Absent]
  /\ mem' = [h \in Hashes |-> Absent]
  /\ op' = [c \in EngineUsers |-> NoCall]
  /\ enforcer' = [Resting EXCEPT !.todo = {h \in Hashes : row[h] # Absent}]
  /\ uneven' = {} /\ torn' = {} /\ met' = {} /\ freed' = {}
  /\ UNCHANGED <<row, torrents>>

\* Mutant: the torrent starts whatever its row says.
RestoreFlowing(h) ==
  /\ ~up /\ h \in enforcer.todo
  /\ torrents < MaxTorrents
  /\ torrents' = torrents + 1
  /\ live' = [live EXCEPT ![h] = [id |-> torrents, info |-> FALSE,
                                  down |-> TRUE, up |-> TRUE, stop |-> row[h].stopped]]
  /\ SetState(h, row[h])
  /\ enforcer' = [enforcer EXCEPT !.todo = @ \ {h}]
  /\ UNCHANGED <<row, op, up, ghosts>>

\* A row that cannot be restored is skipped with a warning.
Restore(h) ==
  /\ ~up /\ h \in enforcer.todo
  /\ \/ /\ torrents < MaxTorrents
        /\ torrents' = torrents + 1
        /\ live' = [live EXCEPT ![h] = [id |-> torrents, info |-> FALSE,
                                        down |-> ~row[h].paused,
                                        up |-> ~row[h].paused,
                                        stop |-> row[h].stopped]]
        /\ SetState(h, row[h])
        /\ UNCHANGED uneven
     \/ /\ "add" \in Faults
        /\ uneven' = uneven \cup {h}
        /\ UNCHANGED <<live, mem, torrents>>
  /\ enforcer' = [enforcer EXCEPT !.todo = @ \ {h}]
  /\ UNCHANGED <<row, op, up, torn, met, freed>>

Restored ==
  /\ ~up /\ enforcer.todo = {}
  /\ up' = TRUE
  /\ UNCHANGED <<row, live, mem, op, enforcer, torrents, ghosts>>

Operate(c) ==
  \/ AddSpec(c) \/ AddState(c)
  \/ Drop(c) \/ DeleteFiles(c) \/ DeleteSession(c) \/ Forget(c)
  \/ PauseState(c) \/ AllowData(c) \/ ResumeState(c) \/ SavePaused(c)
  \/ \E h \in Hashes : \/ CreateSession(c, h) \/ FindToRemove(c, h)
                       \/ Pause(c, h) \/ Resume(c, h)

Enforce ==
  \/ StartTick \/ EndTick \/ Mark \/ SaveMark
  \/ Judge \/ StopSeeding \/ SaveStop
  \/ \E h \in Hashes : Look(h)

EngineNext ==
  \/ \E c \in EngineUsers : Operate(c)
  \/ Enforce
  \/ \E h \in Hashes : GotInfo(h) \/ Restore(h)
  \/ EngineCrash \/ Restored

EngineSpec == EngineInit /\ [][EngineNext]_engineVars

-----------------------------------------------------------------------------
\* No operation is at work on a torrent of the library.
Settled(h) ==
  /\ up /\ live[h] # Absent
  /\ \A c \in EngineUsers : op[c] = NoCall \/ op[c].hash # h

EngineTypeOK ==
  /\ row \in [Hashes -> Flags \cup {Absent}]
  /\ live \in [Hashes -> Torrent \cup {Absent}]
  /\ mem \in [Hashes -> Flags \cup {Absent}]
  /\ torrents \in Nat /\ up \in BOOLEAN
  /\ uneven \subseteq Hashes /\ torn \subseteq Hashes
  /\ met \subseteq Hashes /\ freed \subseteq Hashes

\* "The torrent list survives restarts via the torrent_sessions table"
\* (engine.go:2): what the library holds has a row, through failed additions
\* and removals that end half way, whatever else goes on, unless the torrent
\* was being added while it was being removed.
LiveHasRow == \A h \in Hashes : Settled(h) /\ h \notin torn => row[h] # Absent

\* A paused torrent is paused after a restart too, and moves no data, whatever
\* the enforcer does to it meanwhile.  A failure that left the row behind or
\* without the flag, and two operations at once on the torrent, void it until
\* the next restart; adding a paused torrent again lets its data flow until it
\* is paused again.
PauseHolds ==
  \A h \in Hashes : Settled(h) /\ h \notin uneven \cup met =>
    /\ mem[h].paused = row[h].paused
    /\ mem[h].paused /\ h \notin freed => ~live[h].down /\ ~live[h].up
=============================================================================
