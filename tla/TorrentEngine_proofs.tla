--------------------------- MODULE TorrentEngine_proofs ---------------------------
(***************************************************************************)
(* What holds of the torrent engine for any number of torrents, operations *)
(* at once on the same torrent, restarts and failures.                     *)
(***************************************************************************)
EXTENDS TorrentEngine, TLAPS

Hashed == {"spec", "state", "pause"}
Resuming == {"allow", "resume"}

Call == {NoCall}
        \cup [pc : Hashed, hash : Hashes]
        \cup [pc : Removing, hash : Hashes, id : Nat]
        \cup [pc : Resuming, hash : Hashes, id : Nat, stopped : BOOLEAN]
        \cup [pc : {"save"}, paused : BOOLEAN, hash : Hashes]

Enforcement ==
  [pc : {"idle"}, todo : SUBSET Hashes]
    \cup [pc : {"look"}, todo : SUBSET Hashes, ids : [Hashes -> Nat]]
    \cup [pc : {"look", "mark", "saveMark", "judge", "stop", "saveStop"},
          hash : Hashes, todo : SUBSET Hashes, ids : [Hashes -> Nat]]

EngineTypes ==
  /\ EngineTypeOK
  /\ op \in [EngineUsers -> Call]
  /\ enforcer \in Enforcement

(* Where the user's operation on h stands. *)
Stage(u, h) == IF op[u] # NoCall /\ op[u].hash = h THEN op[u].pc ELSE "idle"

(* A torrent's row comes before it and goes after it. *)
RowAround(u, h) ==
  /\ live[h] # Absent => row[h] # Absent
  /\ Stage(u, h) \in {"spec", "state"} => row[h] # Absent
  /\ Stage(u, h) = "drop" => live[h] # Absent /\ live[h].id = op[u].id
  /\ Stage(u, h) \in {"files", "unrow", "forget"} => live[h] = Absent
  /\ Stage(u, h) \in {"state", "pause", "allow", "resume", "save"} => live[h] # Absent
  /\ Stage(u, h) = "forget" => row[h] = Absent
  /\ live[h] # Absent /\ Stage(u, h) # "state" => mem[h] # Absent

(* A restart asks for the torrents that have a row. *)
RestoresRows ==
  ~up => /\ \A c \in EngineUsers : op[c] = NoCall
         /\ \A h \in enforcer.todo : row[h] # Absent

Still(h) == ~live[h].down /\ ~live[h].up

(* A torrent that is paused in memory is still and paused in its row, but for *)
(* what an operation is about to change, and unless it was added again.       *)
PausedLive(u, h) ==
  /\ Stage(u, h) = "pause" => Still(h) /\ h \notin freed
  /\ Stage(u, h) = "save" =>
       State(h).paused = op[u].paused /\ (op[u].paused /\ h \notin freed => Still(h))
  /\ Stage(u, h) \in {"idle", "spec", "state", "drop"} =>
       State(h).paused = row[h].paused /\ (State(h).paused /\ h \notin freed => Still(h))

(* A hash without a torrent has nothing to say of a pause. *)
PausedGone(u, h) ==
  Stage(u, h) \notin {"files", "unrow"} =>
    /\ row[h] = Absent \/ ~row[h].paused
    /\ Stage(u, h) # "forget" => ~State(h).paused

PausedTogether(u, h) ==
  h \notin uneven /\ (up \/ h \notin enforcer.todo) =>
    IF live[h] # Absent THEN PausedLive(u, h) ELSE PausedGone(u, h)

Coherent(u, h) == RowAround(u, h) /\ PausedTogether(u, h)
-----------------------------------------------------------------------------
LEMMA FlagsAre == Fresh \in Flags /\ Fresh # Absent /\ ~Fresh.paused
<1>1. Fresh \in Flags /\ ~Fresh.paused
  BY DEF Fresh, Flags
<1> QED
  BY <1>1, AbsentAssumption

(* What an operation in progress has of its own. *)
LEMMA CallIs ==
  ASSUME NEW o \in Call, o # NoCall
  PROVE  /\ o.pc \in Hashed \cup Removing \cup Resuming \cup {"save"}
         /\ o.hash \in Hashes
         /\ o.pc \in Hashed => o \in [pc : Hashed, hash : Hashes]
         /\ o.pc \in Removing => o \in [pc : Removing, hash : Hashes, id : Nat]
         /\ o.pc \in Resuming =>
              o \in [pc : Resuming, hash : Hashes, id : Nat, stopped : BOOLEAN]
         /\ o.pc = "save" => o \in [pc : {"save"}, paused : BOOLEAN, hash : Hashes]
  BY DEF Call, Hashed, Removing, Resuming

LEMMA NoCallIsIdle ==
  ASSUME NEW o \in Call
  PROVE  o = NoCall <=> o.pc = "idle"
  BY DEF Call, NoCall, Hashed, Removing, Resuming

(* An operation that goes on keeps what it has. *)
LEMMA GotoIs ==
  ASSUME EngineTypes, NEW u \in EngineUsers, NEW pc, Goto(u, pc), op[u] # NoCall,
         \/ op[u].pc \in Hashed /\ pc \in Hashed
         \/ op[u].pc \in Removing /\ pc \in Removing
         \/ op[u].pc \in Resuming /\ pc \in Resuming
  PROVE  /\ op' \in [EngineUsers -> Call]
         /\ op'[u] # NoCall
         /\ op'[u].pc = pc /\ op'[u].hash = op[u].hash
         /\ pc \in Removing \cup Resuming => op'[u].id = op[u].id
<1>0. op \in [EngineUsers -> Call] /\ op[u] \in Call
  BY DEF EngineTypes
<1>1. op' = [op EXCEPT ![u] = [op[u] EXCEPT !.pc = pc]]
  BY DEF Goto
<1> DEFINE o == [op[u] EXCEPT !.pc = pc]
<1>2. /\ o \in Call /\ o.pc = pc /\ o.hash = op[u].hash
      /\ pc \in Removing \cup Resuming => o.id = op[u].id
  <2>1. CASE op[u].pc \in Hashed /\ pc \in Hashed
    <3>1. op[u] \in [pc : Hashed, hash : Hashes]
      BY <1>0, <2>1, CallIs
    <3>2. o \in [pc : Hashed, hash : Hashes] /\ o.pc = pc /\ o.hash = op[u].hash
      BY <2>1, <3>1
    <3> QED
      BY <2>1, <3>2 DEF Call, Hashed, Removing, Resuming
  <2>2. CASE op[u].pc \in Removing /\ pc \in Removing
    <3>1. op[u] \in [pc : Removing, hash : Hashes, id : Nat]
      BY <1>0, <2>2, CallIs
    <3>2. /\ o \in [pc : Removing, hash : Hashes, id : Nat]
          /\ o.pc = pc /\ o.hash = op[u].hash /\ o.id = op[u].id
      BY <2>2, <3>1
    <3> QED
      BY <3>2 DEF Call
  <2>3. CASE op[u].pc \in Resuming /\ pc \in Resuming
    <3>1. op[u] \in [pc : Resuming, hash : Hashes, id : Nat, stopped : BOOLEAN]
      BY <1>0, <2>3, CallIs
    <3>2. /\ o \in [pc : Resuming, hash : Hashes, id : Nat, stopped : BOOLEAN]
          /\ o.pc = pc /\ o.hash = op[u].hash /\ o.id = op[u].id
      BY <2>3, <3>1
    <3> QED
      BY <3>2 DEF Call
  <2> QED
    BY <2>1, <2>2, <2>3
<1> HIDE DEF o
<1>3. o # NoCall
  BY <1>2 DEF NoCall, Hashed, Removing, Resuming
<1> QED
  BY <1>0, <1>1, <1>2, <1>3 DEF o

(* Flags of a torrent are flags. *)
LEMMA StateIs ==
  ASSUME EngineTypes, NEW h \in Hashes
  PROVE  /\ State(h) \in Flags
         /\ mem[h] # Absent => State(h) = mem[h]
         /\ mem[h] = Absent => ~State(h).paused
  BY FlagsAre DEF EngineTypes, EngineTypeOK, State

LEMMA InitEngine == EngineInit => EngineTypes
<1> SUFFICES ASSUME EngineInit PROVE EngineTypes
  OBVIOUS
<1>1. EngineTypeOK
  BY DEF EngineInit, EngineTypeOK
<1>2. NoCall \in Call /\ Resting \in Enforcement
  BY DEF Call, Enforcement, Resting
<1> QED
  BY <1>1, <1>2 DEF EngineInit, EngineTypes

(* What each step writes stays within its type. *)
LEMMA OperateTypes ==
  ASSUME EngineTypes, NEW u \in EngineUsers, Operate(u)
  PROVE  EngineTypes'
<1>0. /\ row \in [Hashes -> Flags \cup {Absent}]
      /\ live \in [Hashes -> Torrent \cup {Absent}]
      /\ mem \in [Hashes -> Flags \cup {Absent}]
      /\ torrents \in Nat /\ up \in BOOLEAN /\ uneven \subseteq Hashes
      /\ torn \subseteq Hashes /\ met \subseteq Hashes /\ freed \subseteq Hashes
      /\ op \in [EngineUsers -> Call] /\ enforcer \in Enforcement
      /\ op[u] \in Call
  BY DEF EngineTypes, EngineTypeOK
<1> DEFINE q == op[u].hash
<1>1. op[u] # NoCall =>
        /\ q \in Hashes /\ State(q) \in Flags
        /\ op[u].pc \in Hashed => op[u] \in [pc : Hashed, hash : Hashes]
        /\ op[u].pc \in Removing => op[u] \in [pc : Removing, hash : Hashes, id : Nat]
        /\ op[u].pc \in Resuming =>
             op[u] \in [pc : Resuming, hash : Hashes, id : Nat, stopped : BOOLEAN]
        /\ op[u].pc = "save" =>
             op[u] \in [pc : {"save"}, paused : BOOLEAN, hash : Hashes]
  BY <1>0, CallIs, StateIs
<1>2. ASSUME NEW o \in Call, op' = [op EXCEPT ![u] = o]
      PROVE  op' \in [EngineUsers -> Call]
  BY <1>0, <1>2
<1>3. NoCall \in Call
  BY DEF Call
<1>4. ASSUME NEW h \in Hashes, NEW id, NEW down \in BOOLEAN, NEW upload \in BOOLEAN,
             Flow(h, id, down, upload)
      PROVE  live' \in [Hashes -> Torrent \cup {Absent}]
  <2>1. CASE live' = live
    BY <1>0, <2>1
  <2>2. CASE IsLive(h, id)
    <3>1. live[h] \in Torrent
      BY <1>0, <2>2 DEF IsLive
    <3>2. [live[h] EXCEPT !.down = down, !.up = upload] \in Torrent
      BY <3>1 DEF Torrent
    <3>3. live' = [live EXCEPT ![h] = [live[h] EXCEPT !.down = down, !.up = upload]]
      BY <1>0, <1>4, <2>2, <3>1 DEF Flow, Torrent
    <3> QED
      BY <1>0, <3>2, <3>3
  <2> QED
    BY <1>4, <2>1, <2>2 DEF Flow
<1>g. torn' \subseteq Hashes /\ met' \subseteq Hashes /\ freed' \subseteq Hashes
  <2>1. ASSUME NEW h \in Hashes, NEW pc, Meets(pc, h)
        PROVE  torn' \subseteq Hashes /\ met' \subseteq Hashes
    BY <1>0, <2>1 DEF Meets
  <2>2. ASSUME NEW h \in Hashes,
               CreateSession(u, h) \/ FindToRemove(u, h) \/ Pause(u, h) \/ Resume(u, h)
        PROVE  torn' \subseteq Hashes /\ met' \subseteq Hashes /\ freed' \subseteq Hashes
    <3>1. /\ \E pc : Meets(pc, h)
          /\ freed' \subseteq freed
      BY <2>2 DEF CreateSession, FindToRemove, Pause, Resume, Start
    <3> QED
      BY <1>0, <2>1, <3>1
  <2>3. CASE AddSpec(u)
    <3>1. q \in Hashes
      BY <1>1, <2>3 DEF AddSpec, At, NoCall
    <3> QED
      BY <1>0, <2>3, <3>1 DEF AddSpec
  <2> QED
    BY <1>0, <2>2, <2>3 DEF Operate, AddState, Drop, DeleteFiles, DeleteSession, Forget,
       PauseState, AllowData, ResumeState, SetPaused, SavePaused, ghosts
<1>5. ASSUME NEW h \in Hashes, CreateSession(u, h) PROVE EngineTypes'
  <2>1. [pc |-> "spec", hash |-> h] \in Call
    BY DEF Call, Hashed
  <2>2. op' \in [EngineUsers -> Call]
    BY <1>2, <1>5, <2>1 DEF CreateSession, Start
  <2>3. row' \in [Hashes -> Flags \cup {Absent}]
    BY <1>0, <1>5, FlagsAre DEF CreateSession
  <2> QED
    BY <1>0, <1>g, <1>5, <2>2, <2>3 DEF CreateSession, EngineTypes, EngineTypeOK, ghosts
<1>6. CASE AddSpec(u)
  <2>1. op[u] # NoCall /\ op[u].pc = "spec"
    BY <1>6 DEF AddSpec, At, NoCall
  <2>2. op' \in [EngineUsers -> Call]
    BY <1>2, <1>3, <1>6, <2>1, GotoIs DEF AddSpec, Done, Hashed
  <2>3. [id |-> torrents, info |-> FALSE, down |-> TRUE, up |-> TRUE, stop |-> FALSE]
          \in Torrent
    BY <1>0 DEF Torrent
  <2>4. ASSUME live[q] # Absent, live' = [live EXCEPT ![q].down = TRUE, ![q].up = TRUE]
        PROVE  live' \in [Hashes -> Torrent \cup {Absent}]
    <3>1. live[q] \in Torrent
      BY <1>0, <1>1, <2>1, <2>4
    <3>2. [live[q] EXCEPT !.down = TRUE, !.up = TRUE] \in Torrent
      BY <3>1 DEF Torrent
    <3>3. live' = [live EXCEPT ![q] = [live[q] EXCEPT !.down = TRUE, !.up = TRUE]]
      BY <1>0, <1>1, <2>1, <2>4, <3>1 DEF Torrent
    <3> QED
      BY <1>0, <3>2, <3>3
  <2>7. \/ live' = live
        \/ live[q] # Absent /\ live' = [live EXCEPT ![q].down = TRUE, ![q].up = TRUE]
        \/ live' = [live EXCEPT ![q] = [id |-> torrents, info |-> FALSE, down |-> TRUE,
                                       up |-> TRUE, stop |-> FALSE]]
    BY <1>6 DEF AddSpec
  <2>5. live' \in [Hashes -> Torrent \cup {Absent}]
    <3>1. CASE live[q] # Absent /\ live' = [live EXCEPT ![q].down = TRUE, ![q].up = TRUE]
      BY <2>4, <3>1
    <3>2. CASE live' = [live EXCEPT ![q] = [id |-> torrents, info |-> FALSE, down |-> TRUE,
                                           up |-> TRUE, stop |-> FALSE]]
      BY <1>0, <2>3, <3>2
    <3> QED
      BY <1>0, <2>7, <3>1, <3>2
  <2>6. torrents' \in Nat
    BY <1>0, <1>6 DEF AddSpec
  <2> QED
    BY <1>0, <1>g, <1>6, <2>2, <2>5, <2>6 DEF AddSpec, EngineTypes, EngineTypeOK, ghosts
<1>7. CASE AddState(u)
  <2>1. op[u] # NoCall
    BY <1>7 DEF AddState, At, NoCall
  <2>2. op' \in [EngineUsers -> Call] /\ mem' \in [Hashes -> Flags \cup {Absent}]
    BY <1>0, <1>1, <1>2, <1>3, <1>7, <2>1 DEF AddState, Done, SetState
  <2> QED
    BY <1>0, <1>g, <1>7, <2>2 DEF AddState, EngineTypes, EngineTypeOK, ghosts
<1>8. ASSUME NEW h \in Hashes, FindToRemove(u, h) PROVE EngineTypes'
  <2>1. live[h].id \in Nat
    BY <1>0, <1>8 DEF FindToRemove, Torrent
  <2>2. [pc |-> "drop", hash |-> h, id |-> live[h].id] \in Call
    BY <2>1 DEF Call, Removing
  <2>3. op' \in [EngineUsers -> Call]
    BY <1>2, <1>8, <2>2 DEF FindToRemove, Start
  <2> QED
    BY <1>0, <1>g, <1>8, <2>3 DEF FindToRemove, EngineTypes, EngineTypeOK, ghosts
<1>9. CASE Drop(u)
  <2>1. op[u] # NoCall /\ op[u].pc = "drop"
    BY <1>9 DEF Drop, At, NoCall
  <2>2. op' \in [EngineUsers -> Call]
    BY <1>9, <2>1, GotoIs DEF Drop, Removing
  <2>3. live' \in [Hashes -> Torrent \cup {Absent}]
    BY <1>0, <1>9 DEF Drop
  <2> QED
    BY <1>0, <1>g, <1>9, <2>2, <2>3 DEF Drop, EngineTypes, EngineTypeOK, ghosts
<1>10. CASE DeleteFiles(u)
  <2>1. op[u] # NoCall /\ op[u].pc = "files"
    BY <1>10 DEF DeleteFiles, At, NoCall
  <2>2. op' \in [EngineUsers -> Call]
    BY <1>2, <1>3, <1>10, <2>1, GotoIs DEF DeleteFiles, Abandon, Done, Removing
  <2> QED
    BY <1>0, <1>g, <1>1, <1>10, <2>1, <2>2 DEF DeleteFiles, Abandon, EngineTypes, EngineTypeOK, ghosts
<1>11. CASE DeleteSession(u)
  <2>1. op[u] # NoCall /\ op[u].pc = "unrow"
    BY <1>11 DEF DeleteSession, At, NoCall
  <2>2. op' \in [EngineUsers -> Call]
    BY <1>2, <1>3, <1>11, <2>1, GotoIs DEF DeleteSession, Abandon, Done, Removing
  <2>3. row' \in [Hashes -> Flags \cup {Absent}]
    BY <1>0, <1>11 DEF DeleteSession, Abandon
  <2> QED
    BY <1>0, <1>g, <1>1, <1>11, <2>1, <2>2, <2>3
    DEF DeleteSession, Abandon, EngineTypes, EngineTypeOK, ghosts
<1>12. CASE Forget(u)
  <2>1. op' \in [EngineUsers -> Call] /\ mem' \in [Hashes -> Flags \cup {Absent}]
    BY <1>0, <1>2, <1>3, <1>12 DEF Forget, Done
  <2> QED
    BY <1>0, <1>g, <1>12, <2>1 DEF Forget, EngineTypes, EngineTypeOK, ghosts
<1>13. ASSUME NEW h \in Hashes, Pause(u, h) PROVE EngineTypes'
  <2>1. [pc |-> "pause", hash |-> h] \in Call
    BY DEF Call, Hashed
  <2>2. op' \in [EngineUsers -> Call] /\ live' \in [Hashes -> Torrent \cup {Absent}]
    BY <1>2, <1>4, <1>13, <2>1 DEF Pause, Start
  <2> QED
    BY <1>0, <1>g, <1>13, <2>2 DEF Pause, EngineTypes, EngineTypeOK, ghosts
<1>14. ASSUME NEW h \in Hashes, Resume(u, h) PROVE EngineTypes'
  <2>1. live[h].id \in Nat /\ State(h).stopped \in BOOLEAN
    BY <1>0, <1>14, StateIs DEF Resume, Torrent, Flags
  <2>2. [pc |-> "allow", hash |-> h, id |-> live[h].id, stopped |-> State(h).stopped]
          \in Call
    BY <2>1 DEF Call, Resuming
  <2>3. op' \in [EngineUsers -> Call]
    BY <1>2, <1>14, <2>2 DEF Resume, Start
  <2> QED
    BY <1>0, <1>g, <1>14, <2>3 DEF Resume, EngineTypes, EngineTypeOK, ghosts
<1>15. CASE AllowData(u)
  <2>1. op[u] # NoCall /\ op[u].pc = "allow"
    BY <1>15 DEF AllowData, At, NoCall
  <2>2. op' \in [EngineUsers -> Call]
    BY <1>15, <2>1, GotoIs DEF AllowData, Resuming
  <2>3. live[q] # Absent => live[q].up \in BOOLEAN /\ op[u].stopped \in BOOLEAN
    BY <1>0, <1>1, <2>1 DEF Torrent, Resuming
  <2>4. live' \in [Hashes -> Torrent \cup {Absent}]
    BY <1>0, <1>1, <1>4, <1>15, <2>1, <2>3 DEF AllowData
  <2> QED
    BY <1>0, <1>g, <1>15, <2>2, <2>4 DEF AllowData, EngineTypes, EngineTypeOK, ghosts
<1>16. CASE PauseState(u) \/ ResumeState(u)
  <2>1. PICK pc \in {"pause", "resume"}, paused \in BOOLEAN : SetPaused(u, pc, paused)
    BY <1>16 DEF PauseState, ResumeState
  <2>2. op[u] # NoCall
    BY <2>1 DEF SetPaused, At, NoCall
  <2>3. [pc |-> "save", paused |-> paused, hash |-> q] \in Call
    BY <1>1, <2>2 DEF Call
  <2>4. [State(q) EXCEPT !.paused = paused] \in Flags
    BY <1>1, <2>2 DEF Flags
  <2>5. op' \in [EngineUsers -> Call] /\ mem' \in [Hashes -> Flags \cup {Absent}]
    BY <1>0, <1>2, <2>1, <2>3, <2>4 DEF SetPaused, SetState
  <2> QED
    BY <1>0, <1>g, <2>1, <2>5 DEF SetPaused, EngineTypes, EngineTypeOK, ghosts
<1>17. CASE SavePaused(u)
  <2>1. op[u] # NoCall /\ op[u].pc = "save"
    BY <1>17 DEF SavePaused, At, NoCall
  <2>2. row[q] # Absent => [row[q] EXCEPT !.paused = op[u].paused] \in Flags
    BY <1>0, <1>1, <2>1 DEF Flags
  <2>3. row' \in [Hashes -> Flags \cup {Absent}] /\ uneven' \subseteq Hashes
    BY <1>0, <1>1, <1>17, <2>1, <2>2 DEF SavePaused, Write
  <2>4. op' \in [EngineUsers -> Call]
    BY <1>2, <1>3, <1>17 DEF SavePaused, Done
  <2> QED
    BY <1>0, <1>g, <1>17, <2>3, <2>4 DEF SavePaused, EngineTypes, EngineTypeOK, ghosts
<1> QED
  BY <1>5, <1>6, <1>7, <1>8, <1>9, <1>10, <1>11, <1>12, <1>13, <1>14, <1>15, <1>16, <1>17
  DEF Operate

LEMMA EnforceTypes ==
  ASSUME EngineTypes, Enforce
  PROVE  EngineTypes'
<1>0. /\ row \in [Hashes -> Flags \cup {Absent}]
      /\ live \in [Hashes -> Torrent \cup {Absent}]
      /\ mem \in [Hashes -> Flags \cup {Absent}]
      /\ enforcer \in Enforcement
  BY DEF EngineTypes, EngineTypeOK
<1>1. ASSUME enforcer.pc \in {"mark", "saveMark", "judge", "stop", "saveStop"}
      PROVE  /\ enforcer.hash \in Hashes /\ State(enforcer.hash) \in Flags
             /\ enforcer.ids \in [Hashes -> Nat]
             /\ \A pc \in {"look", "saveMark", "judge", "stop", "saveStop"} :
                  [enforcer EXCEPT !.pc = pc] \in Enforcement
  <2>1. enforcer \in [pc : {"look", "mark", "saveMark", "judge", "stop", "saveStop"},
                      hash : Hashes, todo : SUBSET Hashes, ids : [Hashes -> Nat]]
    BY <1>0, <1>1 DEF Enforcement
  <2>2. \A pc \in {"look", "saveMark", "judge", "stop", "saveStop"} :
          [enforcer EXCEPT !.pc = pc]
            \in [pc : {"look", "mark", "saveMark", "judge", "stop", "saveStop"},
                 hash : Hashes, todo : SUBSET Hashes, ids : [Hashes -> Nat]]
    BY <2>1
  <2> QED
    BY <2>1, <2>2, StateIs DEF Enforcement
<1>2. CASE StartTick \/ EndTick
  <2>1. {h \in Hashes : live[h] # Absent} \in SUBSET Hashes
    OBVIOUS
  <2>2. [h \in Hashes |-> IF live[h] = Absent THEN 0 ELSE live[h].id] \in [Hashes -> Nat]
    BY <1>0 DEF Torrent
  <2>3. enforcer' \in Enforcement
    BY <1>2, <2>1, <2>2 DEF StartTick, EndTick, Resting, Enforcement
  <2> QED
    BY <1>2, <2>3 DEF StartTick, EndTick, EngineTypes, EngineTypeOK, ghosts
<1>3. ASSUME NEW h \in Hashes, Look(h) PROVE EngineTypes'
  <2>1. /\ enforcer.todo \subseteq Hashes /\ enforcer.ids \in [Hashes -> Nat]
        /\ [enforcer EXCEPT !.todo = @ \ {h}] \in Enforcement
    <3>1. CASE enforcer \in [pc : {"look"}, todo : SUBSET Hashes, ids : [Hashes -> Nat]]
      <4>1. [enforcer EXCEPT !.todo = @ \ {h}]
              \in [pc : {"look"}, todo : SUBSET Hashes, ids : [Hashes -> Nat]]
        BY <3>1
      <4> QED
        BY <3>1, <4>1 DEF Enforcement
    <3>2. CASE enforcer \in [pc : {"look", "mark", "saveMark", "judge", "stop", "saveStop"},
                            hash : Hashes, todo : SUBSET Hashes, ids : [Hashes -> Nat]]
      <4>1. [enforcer EXCEPT !.todo = @ \ {h}]
              \in [pc : {"look", "mark", "saveMark", "judge", "stop", "saveStop"},
                   hash : Hashes, todo : SUBSET Hashes, ids : [Hashes -> Nat]]
        BY <3>2
      <4> QED
        BY <3>2, <4>1 DEF Enforcement
    <3> QED
      BY <1>0, <1>3, <3>1, <3>2 DEF Look, Enforcement
  <2>2. \A pc \in {"judge", "mark"} :
          [pc |-> pc, hash |-> h, todo |-> enforcer.todo \ {h}, ids |-> enforcer.ids]
            \in Enforcement
    BY <2>1 DEF Enforcement
  <2>3. enforcer' \in Enforcement
    BY <1>3, <2>1, <2>2 DEF Look
  <2> QED
    BY <1>3, <2>3 DEF Look, EngineTypes, EngineTypeOK, ghosts
<1>4. CASE Mark \/ StopSeeding
  <2>1. /\ enforcer.pc \in {"mark", "stop"}
        /\ enforcer' = [enforcer EXCEPT !.pc = IF enforcer.pc = "mark" THEN "saveMark"
                                                                     ELSE "saveStop"]
    BY <1>4 DEF Mark, StopSeeding, EnforcerAt, EnforcerGoto
  <2>2. PICK flags \in Flags : mem' = [mem EXCEPT ![enforcer.hash] = flags]
    <3>1. /\ [State(enforcer.hash) EXCEPT !.completed = TRUE] \in Flags
          /\ [State(enforcer.hash) EXCEPT !.stopped = TRUE] \in Flags
      BY <1>1, <2>1 DEF Flags
    <3> QED
      BY <1>4, <3>1 DEF Mark, StopSeeding, SetState
  <2>3. enforcer' \in Enforcement /\ mem' \in [Hashes -> Flags \cup {Absent}]
    BY <1>0, <1>1, <2>1, <2>2
  <2> QED
    BY <1>4, <2>3 DEF Mark, StopSeeding, EngineTypes, EngineTypeOK, ghosts
<1>5. CASE SaveMark \/ SaveStop
  <2> DEFINE h == enforcer.hash
  <2>1. /\ enforcer.pc \in {"saveMark", "saveStop"}
        /\ enforcer' = [enforcer EXCEPT !.pc = IF enforcer.pc = "saveMark" THEN "judge"
                                                                         ELSE "look"]
    BY <1>5 DEF SaveMark, SaveStop, EnforcerAt, EnforcerGoto
  <2>2. row[h] # Absent => /\ [row[h] EXCEPT !.completed = TRUE] \in Flags
                           /\ [row[h] EXCEPT !.stopped = TRUE] \in Flags
    BY <1>0, <1>1, <2>1 DEF Flags
  <2>3. \/ row' = row
        \/ /\ row[h] # Absent
           /\ \/ row' = [row EXCEPT ![h] = [row[h] EXCEPT !.completed = TRUE]]
              \/ row' = [row EXCEPT ![h] = [row[h] EXCEPT !.stopped = TRUE]]
    BY <1>5 DEF SaveMark, SaveStop, Write
  <2>4. enforcer' \in Enforcement /\ row' \in [Hashes -> Flags \cup {Absent}]
    BY <1>0, <1>1, <2>1, <2>2, <2>3
  <2> QED
    BY <1>5, <2>4 DEF SaveMark, SaveStop, EngineTypes, EngineTypeOK, ghosts
<1>6. CASE Judge
  <2> DEFINE h == enforcer.hash
  <2>1. enforcer.pc = "judge" /\ enforcer' \in Enforcement
    BY <1>1, <1>6 DEF Judge, EnforcerAt, EnforcerGoto
  <2>2. \/ live' = live
        \/ /\ live[h] # Absent
           /\ live' = [live EXCEPT ![h].down = live[h].down, ![h].up = FALSE]
    BY <1>6 DEF Judge, Flow
  <2>3. live[h] # Absent =>
          [live[h] EXCEPT !.down = live[h].down, !.up = FALSE] \in Torrent
    BY <1>0, <1>1, <2>1 DEF Torrent
  <2>4. live' \in [Hashes -> Torrent \cup {Absent}]
    BY <1>0, <1>1, <2>1, <2>2, <2>3
  <2> QED
    BY <1>6, <2>1, <2>4 DEF Judge, EngineTypes, EngineTypeOK, ghosts
<1> QED
  BY <1>2, <1>3, <1>4, <1>5, <1>6 DEF Enforce

LEMMA EngineTypesStep ==
  ASSUME EngineTypes, RestoresRows, [EngineNext]_engineVars
  PROVE  EngineTypes' /\ RestoresRows'
<1>0. /\ row \in [Hashes -> Flags \cup {Absent}]
      /\ live \in [Hashes -> Torrent \cup {Absent}]
      /\ mem \in [Hashes -> Flags \cup {Absent}]
      /\ torrents \in Nat /\ up \in BOOLEAN /\ uneven \subseteq Hashes
      /\ torn \subseteq Hashes /\ met \subseteq Hashes /\ freed \subseteq Hashes
      /\ op \in [EngineUsers -> Call] /\ enforcer \in Enforcement
  BY DEF EngineTypes, EngineTypeOK
<1>1. ASSUME NEW c \in EngineUsers, Operate(c) PROVE EngineTypes' /\ RestoresRows'
  <2>1. up /\ up' = up
    BY <1>1 DEF Operate, CreateSession, AddSpec, AddState, FindToRemove, Drop, DeleteFiles,
       DeleteSession, Forget, Pause, Resume, AllowData, PauseState, ResumeState, SetPaused,
       SavePaused, Start, At
  <2> QED
    BY <1>1, <2>1, OperateTypes DEF RestoresRows
<1>2. CASE Enforce
  <2>1. up /\ up' = up
    BY <1>2 DEF Enforce, StartTick, EndTick, Look, Mark, SaveMark, Judge, StopSeeding,
       SaveStop, EnforcerAt
  <2> QED
    BY <1>2, <2>1, EnforceTypes DEF RestoresRows
<1>3. ASSUME NEW h \in Hashes, GotInfo(h) PROVE EngineTypes' /\ RestoresRows'
  <2>1. live[h] \in Torrent
    BY <1>0, <1>3 DEF GotInfo
  <2>2. [live[h] EXCEPT !.info = TRUE, !.up = @ /\ ~live[h].stop] \in Torrent
    BY <2>1 DEF Torrent
  <2>3. live' = [live EXCEPT ![h] = [live[h] EXCEPT !.info = TRUE, !.up = @ /\ ~live[h].stop]]
    BY <1>0, <1>3, <2>1 DEF GotInfo, Torrent
  <2>4. live' \in [Hashes -> Torrent \cup {Absent}]
    BY <1>0, <2>2, <2>3
  <2> QED
    BY <1>3, <2>4 DEF GotInfo, RestoresRows, EngineTypes, EngineTypeOK, ghosts
<1>4. ASSUME NEW h \in Hashes, Restore(h) PROVE EngineTypes' /\ RestoresRows'
  <2>1. ~up /\ row[h] \in Flags
    BY <1>0, <1>4 DEF Restore, RestoresRows
  <2>2. [id |-> torrents, info |-> FALSE, down |-> ~row[h].paused, up |-> ~row[h].paused,
         stop |-> row[h].stopped] \in Torrent
    BY <1>0, <2>1 DEF Torrent, Flags
  <2>3. /\ live' \in [Hashes -> Torrent \cup {Absent}] /\ torrents' \in Nat
        /\ mem' \in [Hashes -> Flags \cup {Absent}] /\ uneven' \subseteq Hashes
    <3>1. \/ /\ torrents' = torrents + 1
             /\ live' = [live EXCEPT ![h] =
                          [id |-> torrents, info |-> FALSE, down |-> ~row[h].paused,
                           up |-> ~row[h].paused, stop |-> row[h].stopped]]
             /\ mem' = [mem EXCEPT ![h] = row[h]] /\ uneven' = uneven
          \/ UNCHANGED <<live, mem, torrents>> /\ uneven' = uneven \cup {h}
      BY <1>4 DEF Restore, SetState
    <3>2. CASE UNCHANGED <<live, mem, torrents>> /\ uneven' = uneven \cup {h}
      BY <1>0, <3>2
    <3>3. CASE /\ torrents' = torrents + 1
               /\ live' = [live EXCEPT ![h] =
                            [id |-> torrents, info |-> FALSE, down |-> ~row[h].paused,
                             up |-> ~row[h].paused, stop |-> row[h].stopped]]
               /\ mem' = [mem EXCEPT ![h] = row[h]] /\ uneven' = uneven
      <4>1. live' \in [Hashes -> Torrent \cup {Absent}] /\ torrents' \in Nat
        BY <1>0, <2>2, <3>3
      <4>2. mem' \in [Hashes -> Flags \cup {Absent}]
        BY <1>0, <2>1, <3>3
      <4> QED
        BY <1>0, <3>3, <4>1, <4>2
    <3> QED
      BY <3>1, <3>2, <3>3
  <2>4. enforcer' = [enforcer EXCEPT !.todo = @ \ {h}]
    BY <1>4 DEF Restore
  <2>5. enforcer' \in Enforcement /\ enforcer'.todo = enforcer.todo \ {h}
    <3>1. CASE enforcer \in [pc : {"idle"}, todo : SUBSET Hashes]
      <4>1. /\ [enforcer EXCEPT !.todo = @ \ {h}] \in [pc : {"idle"}, todo : SUBSET Hashes]
            /\ [enforcer EXCEPT !.todo = @ \ {h}].todo = enforcer.todo \ {h}
        BY <3>1
      <4> QED
        BY <2>4, <4>1 DEF Enforcement
    <3>2. CASE enforcer \in [pc : {"look"}, todo : SUBSET Hashes, ids : [Hashes -> Nat]]
      <4>1. /\ [enforcer EXCEPT !.todo = @ \ {h}]
                  \in [pc : {"look"}, todo : SUBSET Hashes, ids : [Hashes -> Nat]]
            /\ [enforcer EXCEPT !.todo = @ \ {h}].todo = enforcer.todo \ {h}
        BY <3>2
      <4> QED
        BY <2>4, <4>1 DEF Enforcement
    <3>3. CASE enforcer \in [pc : {"look", "mark", "saveMark", "judge", "stop", "saveStop"},
                            hash : Hashes, todo : SUBSET Hashes, ids : [Hashes -> Nat]]
      <4>1. /\ [enforcer EXCEPT !.todo = @ \ {h}]
                  \in [pc : {"look", "mark", "saveMark", "judge", "stop", "saveStop"},
                       hash : Hashes, todo : SUBSET Hashes, ids : [Hashes -> Nat]]
            /\ [enforcer EXCEPT !.todo = @ \ {h}].todo = enforcer.todo \ {h}
        BY <3>3
      <4> QED
        BY <2>4, <4>1 DEF Enforcement
    <3> QED
      BY <1>0, <3>1, <3>2, <3>3 DEF Enforcement
  <2>6. UNCHANGED <<row, op, up, torn, met, freed>>
    BY <1>4 DEF Restore
  <2> QED
    BY <1>0, <2>3, <2>5, <2>6 DEF RestoresRows, EngineTypes, EngineTypeOK, ghosts
<1>5. CASE EngineCrash
  <2> DEFINE todo == {h \in Hashes : row[h] # Absent}
  <2>1. enforcer' = [pc |-> "idle", todo |-> todo]
    BY <1>5 DEF EngineCrash, Resting
  <2>2. todo \in SUBSET Hashes /\ \A h \in todo : row[h] # Absent
    OBVIOUS
  <2>3. enforcer' \in Enforcement /\ enforcer'.todo = todo
    BY <2>1, <2>2 DEF Enforcement
  <2>4. /\ live' \in [Hashes -> Torrent \cup {Absent}]
        /\ mem' \in [Hashes -> Flags \cup {Absent}]
        /\ op' = [c \in EngineUsers |-> NoCall] /\ up' = FALSE
        /\ uneven' = {} /\ torn' = {} /\ met' = {} /\ freed' = {}
        /\ UNCHANGED <<row, torrents>>
    BY <1>5 DEF EngineCrash
  <2> QED
    BY <1>0, <2>2, <2>3, <2>4 DEF Call, RestoresRows, EngineTypes, EngineTypeOK, ghosts
<1>6. CASE Restored
  BY <1>6 DEF Restored, RestoresRows, EngineTypes, EngineTypeOK, ghosts
<1>7. CASE UNCHANGED engineVars
  BY <1>7 DEF engineVars, RestoresRows, EngineTypes, EngineTypeOK, ghosts
<1> QED
  BY <1>1, <1>2, <1>3, <1>4, <1>5, <1>6, <1>7 DEF EngineNext

(* A step that takes no row or torrent away, lets no more data flow and leaves *)
(* the pauses as they are.                                                     *)
Gentle(h) ==
  /\ up /\ up' /\ op' = op
  /\ UNCHANGED <<uneven, torn, met, freed>>
  /\ row'[h] = Absent <=> row[h] = Absent
  /\ row[h] # Absent => row'[h].paused = row[h].paused
  /\ live'[h] = Absent <=> live[h] = Absent
  /\ live[h] # Absent => live'[h].id = live[h].id /\ (Still(h) => Still(h)')
  /\ mem[h] # Absent => mem'[h] # Absent
  /\ State(h)'.paused = State(h).paused

LEMMA GentleStep ==
  ASSUME NEW u \in EngineUsers, NEW h \in Hashes, Coherent(u, h), Gentle(h)
  PROVE  Coherent(u, h)'
<1>1. Stage(u, h)' = Stage(u, h) /\ op'[u] = op[u]
  BY DEF Gentle, Stage
<1>2. RowAround(u, h)'
  BY <1>1 DEF Gentle, Coherent, RowAround
<1>3. PausedTogether(u, h)'
  BY <1>1 DEF Gentle, Coherent, PausedTogether, PausedLive, PausedGone
<1> QED
  BY <1>2, <1>3 DEF Coherent

(* The user is not at work on the torrent, before or after. *)
LEMMA Elsewhere ==
  ASSUME EngineTypes, NEW u \in EngineUsers, NEW h \in Hashes, Coherent(u, h),
         up, up', Stage(u, h) = "idle", Stage(u, h)' = "idle",
         row'[h] = row[h], live'[h] = live[h], mem'[h] = mem[h],
         h \in uneven' <=> h \in uneven, h \in freed' <=> h \in freed
  PROVE  Coherent(u, h)'
<1>1. State(h)' = State(h) /\ (live[h] # Absent => (Still(h)' <=> Still(h)))
  BY DEF State, Still
<1>2. RowAround(u, h)'
  BY DEF Coherent, RowAround
<1>3. PausedTogether(u, h)'
  BY <1>1 DEF Coherent, PausedTogether, PausedLive, PausedGone
<1> QED
  BY <1>2, <1>3 DEF Coherent

(* What an operation on another torrent leaves alone. *)
LEMMA OperateElsewhere ==
  ASSUME EngineTypes, NEW u \in EngineUsers, NEW h \in Hashes, Operate(u),
         Stage(u, h) = "idle", Stage(u, h)' = "idle"
  PROVE  /\ row'[h] = row[h] /\ live'[h] = live[h] /\ mem'[h] = mem[h]
         /\ h \in uneven' <=> h \in uneven
         /\ h \in freed' <=> h \in freed
<1>0. /\ row \in [Hashes -> Flags \cup {Absent}]
      /\ live \in [Hashes -> Torrent \cup {Absent}]
      /\ mem \in [Hashes -> Flags \cup {Absent}]
      /\ op \in [EngineUsers -> Call] /\ op[u] \in Call
  BY DEF EngineTypes, EngineTypeOK
<1>1. ASSUME NEW k \in Hashes, NEW o, Start(u, o), o.pc # "idle", o.hash = k
      PROVE  k # h
  <2>1. op'[u] = o
    BY <1>0, <1>1 DEF Start
  <2> QED
    BY <1>1, <2>1 DEF Stage, NoCall
<1>2. ASSUME NEW k \in Hashes,
             CreateSession(u, k) \/ FindToRemove(u, k) \/ Pause(u, k) \/ Resume(u, k)
      PROVE  k # h
  <2>1. CASE CreateSession(u, k)
    <3> DEFINE o == [pc |-> "spec", hash |-> k]
    <3>1. Start(u, o) /\ o.pc # "idle" /\ o.hash = k
      BY <2>1 DEF CreateSession
    <3> QED
      BY <1>1, <3>1
  <2>2. CASE FindToRemove(u, k)
    <3> DEFINE o == [pc |-> "drop", hash |-> k, id |-> live[k].id]
    <3>1. Start(u, o) /\ o.pc # "idle" /\ o.hash = k
      BY <2>2 DEF FindToRemove
    <3> QED
      BY <1>1, <3>1
  <2>3. CASE Pause(u, k)
    <3> DEFINE o == [pc |-> "pause", hash |-> k]
    <3>1. Start(u, o) /\ o.pc # "idle" /\ o.hash = k
      BY <2>3 DEF Pause
    <3> QED
      BY <1>1, <3>1
  <2>4. CASE Resume(u, k)
    <3> DEFINE o == [pc |-> "allow", hash |-> k, id |-> live[k].id, stopped |-> State(k).stopped]
    <3>1. Start(u, o) /\ o.pc # "idle" /\ o.hash = k
      BY <2>4 DEF Resume
    <3> QED
      BY <1>1, <3>1
  <2> QED
    BY <1>2, <2>1, <2>2, <2>3, <2>4
<1>3. ASSUME NEW k \in Hashes,
             CreateSession(u, k) \/ FindToRemove(u, k) \/ Pause(u, k) \/ Resume(u, k)
      PROVE  /\ row'[h] = row[h] /\ live'[h] = live[h] /\ mem'[h] = mem[h]
             /\ h \in uneven' <=> h \in uneven
             /\ h \in freed' <=> h \in freed
  <2>1. k # h
    BY <1>2, <1>3
  <2>2. CASE CreateSession(u, k)
    BY <1>0, <2>1, <2>2 DEF CreateSession
  <2>3. CASE FindToRemove(u, k) \/ Resume(u, k)
    BY <2>3 DEF FindToRemove, Resume
  <2>4. CASE Pause(u, k)
    <3>1. /\ UNCHANGED <<row, mem, uneven>> /\ freed' = freed \ {k}
          /\ \/ live' = live
             \/ live' = [live EXCEPT ![k].down = FALSE, ![k].up = FALSE]
      BY <2>4 DEF Pause, Flow
    <3>2. live'[h] = live[h]
      BY <1>0, <2>1, <3>1
    <3> QED
      BY <2>1, <3>1, <3>2
  <2> QED
    BY <1>3, <2>2, <2>3, <2>4
<1> DEFINE q == op[u].hash
<1>4. ASSUME op[u].pc # "idle" PROVE q # h
  BY <1>4 DEF Stage, NoCall
<1>5. CASE AddSpec(u)
  <2>1. q # h
    BY <1>4, <1>5 DEF AddSpec, At
  <2>2. /\ UNCHANGED <<row, mem, uneven>>
        /\ freed' = freed \/ freed' = freed \cup {q}
        /\ \/ live' = live
           \/ live' = [live EXCEPT ![q].down = TRUE, ![q].up = TRUE]
           \/ \E made : live' = [live EXCEPT ![q] = made]
    BY <1>5 DEF AddSpec
  <2>3. live'[h] = live[h]
    BY <1>0, <2>1, <2>2
  <2> QED
    BY <2>1, <2>2, <2>3
<1>6. CASE AllowData(u)
  <2>1. q # h
    BY <1>4, <1>6 DEF AllowData, At
  <2>2. /\ UNCHANGED <<row, mem, uneven, freed>>
        /\ \/ live' = live
           \/ live' = [live EXCEPT ![q].down = TRUE, ![q].up = live[q].up \/ ~op[u].stopped]
    BY <1>6 DEF AllowData, Flow, ghosts
  <2>3. live'[h] = live[h]
    BY <1>0, <2>1, <2>2
  <2> QED
    BY <2>2, <2>3
<1>7. CASE AddState(u) \/ Drop(u) \/ Forget(u)
  <2>1. q # h
    BY <1>4, <1>7 DEF AddState, Drop, Forget, At
  <2> QED
    BY <1>0, <1>7, <2>1 DEF AddState, Drop, Forget, SetState, ghosts
<1>8. CASE DeleteFiles(u) \/ DeleteSession(u)
  <2>1. q # h
    BY <1>4, <1>8 DEF DeleteFiles, DeleteSession, At
  <2> QED
    BY <1>0, <1>8, <2>1 DEF DeleteFiles, DeleteSession, Abandon
<1>9. CASE PauseState(u) \/ ResumeState(u)
  <2>1. PICK pc \in {"pause", "resume"}, paused \in BOOLEAN : SetPaused(u, pc, paused)
    BY <1>9 DEF PauseState, ResumeState
  <2>2. q # h
    BY <1>4, <2>1 DEF SetPaused, At
  <2> QED
    BY <1>0, <2>1, <2>2 DEF SetPaused, SetState, ghosts
<1>10. CASE SavePaused(u)
  <2>1. q # h
    BY <1>4, <1>10 DEF SavePaused, At
  <2> QED
    BY <1>0, <1>10, <2>1 DEF SavePaused, Write
<1> QED
  BY <1>3, <1>5, <1>6, <1>7, <1>8, <1>9, <1>10 DEF Operate

LEMMA OperateCoherent ==
  ASSUME EngineTypes, NEW u \in EngineUsers, NEW h \in Hashes, Coherent(u, h),
         Operate(u)
  PROVE  Coherent(u, h)'
<1>0. /\ row \in [Hashes -> Flags \cup {Absent}]
      /\ live \in [Hashes -> Torrent \cup {Absent}]
      /\ mem \in [Hashes -> Flags \cup {Absent}]
      /\ torrents \in Nat /\ up \in BOOLEAN /\ uneven \subseteq Hashes
      /\ torn \subseteq Hashes /\ met \subseteq Hashes /\ freed \subseteq Hashes
      /\ op \in [EngineUsers -> Call] /\ op[u] \in Call
  BY DEF EngineTypes, EngineTypeOK
<1>t. row[h] \in Flags \cup {Absent} /\ live[h] \in Torrent \cup {Absent}
  BY <1>0
<1>u. up /\ up' = up
  BY DEF Operate, CreateSession, AddSpec, AddState, FindToRemove, Drop, DeleteFiles,
     DeleteSession, Forget, Pause, Resume, AllowData, PauseState, ResumeState, SetPaused,
     SavePaused, Start, At
<1>1. up /\ up'
  BY <1>u
<1>2. op[u] = NoCall => Stage(u, h) = "idle"
  BY DEF Stage
<1>3. op'[u] = NoCall => Stage(u, h)' = "idle"
  BY DEF Stage
<1>e. ASSUME Stage(u, h) = "idle", Stage(u, h)' = "idle" PROVE Coherent(u, h)'
  BY <1>1, <1>e, OperateElsewhere, Elsewhere
<1>4. ASSUME NEW k \in Hashes, CreateSession(u, k) PROVE Coherent(u, h)'
  <2>1. /\ op[u] = NoCall /\ op'[u] = [pc |-> "spec", hash |-> k]
        /\ UNCHANGED <<live, mem, uneven, freed>>
        /\ row' = [row EXCEPT ![k] = IF @ = Absent THEN Fresh ELSE @]
    BY <1>0, <1>4 DEF CreateSession, Start
  <2>2. op'[u] # NoCall
    BY <2>1 DEF NoCall
  <2>3. CASE k # h
    <3>1. Stage(u, h) = "idle" /\ Stage(u, h)' = "idle"
      BY <1>0, <1>2, <2>1, <2>3 DEF Stage
    <3> QED
      BY <3>1, <1>e
  <2>4. CASE k = h
    <3>1. Stage(u, h)' = "spec" /\ Stage(u, h) = "idle"
      BY <1>2, <2>1, <2>2, <2>4 DEF Stage
    <3>2. /\ row'[h] # Absent
          /\ row[h] # Absent => row'[h] = row[h]
          /\ row[h] = Absent => ~row'[h].paused
      BY <1>0, <2>1, <2>4, FlagsAre
    <3>3. State(h)' = State(h) /\ (live[h] # Absent => (Still(h)' <=> Still(h)))
      BY <2>1 DEF State, Still
    <3>4. RowAround(u, h)'
      BY <2>1, <3>1, <3>2 DEF Coherent, RowAround
    <3>5. PausedTogether(u, h)'
      BY <1>1, <2>1, <3>1, <3>2, <3>3
      DEF Coherent, RowAround, PausedTogether, PausedLive, PausedGone
    <3> QED
      BY <3>4, <3>5 DEF Coherent
  <2> QED
    BY <2>3, <2>4
<1>5. CASE AddSpec(u)
  <2>1. op[u] # NoCall /\ op[u].pc = "spec" /\ op[u].hash \in Hashes
    BY <1>0, <1>5, CallIs DEF AddSpec, At, NoCall
  <2> DEFINE q == op[u].hash
             made == [id |-> torrents, info |-> FALSE, down |-> TRUE, up |-> TRUE,
                      stop |-> FALSE]
  <2>2. /\ UNCHANGED <<row, mem, uneven>>
        /\ \/ /\ live[q] # Absent
              /\ live' = [live EXCEPT ![q].down = TRUE, ![q].up = TRUE]
              /\ freed' = IF State(q).paused THEN freed \cup {q} ELSE freed
              /\ Goto(u, "state")
           \/ /\ live[q] = Absent /\ live' = [live EXCEPT ![q] = made]
              /\ freed' = freed /\ Goto(u, "state")
           \/ live' = live /\ freed' = freed /\ Done(u)
    BY <1>5 DEF AddSpec
  <2>3. Goto(u, "state") => op'[u] # NoCall /\ op'[u].pc = "state" /\ op'[u].hash = q
    BY <2>1, GotoIs DEF Hashed
  <2>4. Done(u) => op'[u] = NoCall
    BY <1>0 DEF Done
  <2>5. CASE q # h
    <3>1. Stage(u, h) = "idle" /\ Stage(u, h)' = "idle"
      BY <1>3, <2>1, <2>2, <2>3, <2>4, <2>5 DEF Stage
    <3> QED
      BY <3>1, <1>e
  <2>6. CASE q = h
    <3>1. Stage(u, h) = "spec" /\ State(h)' = State(h) /\ row[h] # Absent
      BY <2>1, <2>2, <2>6 DEF Stage, State, Coherent, RowAround
    <3>2. State(h).paused \in BOOLEAN /\ row[h].paused \in BOOLEAN
      BY <1>t, <3>1, StateIs DEF Flags
    <3>3. CASE /\ live[h] # Absent
               /\ live' = [live EXCEPT ![h].down = TRUE, ![h].up = TRUE]
               /\ freed' = IF State(h).paused THEN freed \cup {h} ELSE freed
               /\ Goto(u, "state")
      <4>1. Stage(u, h)' = "state" /\ (State(h).paused => h \in freed')
        BY <2>3, <2>6, <3>3 DEF Stage
      <4>2. live'[h] # Absent
        <5>1. live[h] \in Torrent
          BY <1>t, <3>3
        <5>2. live'[h] = [live[h] EXCEPT !.down = TRUE, !.up = TRUE]
          BY <1>0, <3>3, <5>1 DEF Torrent
        <5>3. live'[h] \in Torrent
          BY <5>1, <5>2 DEF Torrent
        <5> QED
          BY <5>3, AbsentAssumption
      <4>3. RowAround(u, h)'
        BY <2>2, <3>1, <4>1, <4>2 DEF Coherent, RowAround
      <4>4. PausedTogether(u, h)'
        BY <1>1, <2>2, <3>1, <3>2, <3>3, <4>1, <4>2
        DEF Coherent, PausedTogether, PausedLive
      <4> QED
        BY <4>3, <4>4 DEF Coherent
    <3>4. CASE /\ live[h] = Absent /\ live' = [live EXCEPT ![h] = made]
               /\ freed' = freed /\ Goto(u, "state")
      <4>1. Stage(u, h)' = "state"
        BY <2>3, <2>6, <3>4 DEF Stage
      <4>2. live'[h] # Absent
        <5>1. made \in Torrent
          BY <1>0 DEF Torrent
        <5> QED
          BY <1>0, <3>4, <5>1, AbsentAssumption
      <4>3. RowAround(u, h)'
        BY <2>2, <3>1, <4>1, <4>2 DEF Coherent, RowAround
      <4>4. PausedTogether(u, h)'
        BY <1>1, <2>2, <3>1, <3>2, <3>4, <4>1, <4>2
        DEF Coherent, PausedTogether, PausedLive, PausedGone
      <4> QED
        BY <4>3, <4>4 DEF Coherent
    <3>5. CASE live' = live /\ freed' = freed /\ Done(u)
      <4>1. Stage(u, h)' = "idle" /\ (Still(h)' <=> Still(h))
        BY <1>3, <2>4, <3>5 DEF Still
      <4>2. RowAround(u, h)'
        BY <2>2, <3>1, <3>5, <4>1 DEF Coherent, RowAround
      <4>3. PausedTogether(u, h)'
        BY <1>1, <2>2, <3>1, <3>5, <4>1 DEF Coherent, PausedTogether, PausedLive, PausedGone
      <4> QED
        BY <4>2, <4>3 DEF Coherent
    <3> QED
      BY <2>2, <2>6, <3>3, <3>4, <3>5
  <2> QED
    BY <2>5, <2>6
<1>6. CASE AddState(u)
  <2>1. op[u] # NoCall /\ op[u].pc = "state" /\ op[u].hash \in Hashes
    BY <1>0, <1>6, CallIs DEF AddState, At, NoCall
  <2> DEFINE q == op[u].hash
  <2>2. /\ op'[u] = NoCall /\ UNCHANGED <<row, live, uneven, freed>>
        /\ mem' = [mem EXCEPT ![q] = State(q)]
    BY <1>0, <1>6 DEF AddState, Done, SetState, ghosts
  <2>3. CASE q # h
    <3>1. Stage(u, h) = "idle" /\ Stage(u, h)' = "idle"
      BY <1>0, <2>1, <2>2, <2>3 DEF Stage
    <3> QED
      BY <3>1, <1>e
  <2>4. CASE q = h
    <3>1. Stage(u, h) = "state" /\ Stage(u, h)' = "idle" /\ (Still(h)' <=> Still(h))
      BY <1>3, <2>1, <2>2, <2>4 DEF Stage, Still
    <3>2. mem'[h] # Absent /\ State(h)' = State(h)
      <4>1. State(h) \in Flags /\ mem'[h] = State(h)
        BY <1>0, <2>2, <2>4, StateIs
      <4>2. mem'[h] # Absent
        BY <4>1, AbsentAssumption
      <4> QED
        BY <4>1, <4>2 DEF State
    <3>3. RowAround(u, h)'
      BY <2>2, <3>1, <3>2 DEF Coherent, RowAround
    <3>4. PausedTogether(u, h)'
      BY <1>1, <2>2, <3>1, <3>2 DEF Coherent, RowAround, PausedTogether, PausedLive, PausedGone
    <3> QED
      BY <3>3, <3>4 DEF Coherent
  <2> QED
    BY <2>3, <2>4
<1>7. ASSUME NEW k \in Hashes, FindToRemove(u, k) \/ Resume(u, k) PROVE Coherent(u, h)'
  <2>1. /\ op[u] = NoCall /\ live[k] # Absent /\ UNCHANGED <<row, live, mem, uneven, freed>>
        /\ op'[u].pc \in {"drop", "allow"} /\ op'[u].hash = k /\ op'[u].id = live[k].id
    BY <1>0, <1>7 DEF FindToRemove, Resume, Start
  <2>2. op'[u] # NoCall
    BY <2>1 DEF NoCall
  <2>3. CASE k # h
    <3>1. Stage(u, h) = "idle" /\ Stage(u, h)' = "idle"
      BY <1>2, <2>1, <2>3 DEF Stage
    <3> QED
      BY <3>1, <1>e
  <2>4. CASE k = h
    <3>1. /\ Stage(u, h)' \in {"drop", "allow"} /\ Stage(u, h) = "idle"
          /\ State(h)' = State(h) /\ (Still(h)' <=> Still(h))
      BY <1>2, <2>1, <2>2, <2>4 DEF Stage, State, Still
    <3>2. RowAround(u, h)'
      BY <2>1, <2>4, <3>1 DEF Coherent, RowAround
    <3>3. PausedTogether(u, h)'
      BY <1>1, <2>1, <2>4, <3>1 DEF Coherent, PausedTogether, PausedLive
    <3> QED
      BY <3>2, <3>3 DEF Coherent
  <2> QED
    BY <2>3, <2>4
<1>8. CASE Drop(u)
  <2>1. op[u] # NoCall /\ op[u].pc = "drop" /\ op[u].hash \in Hashes
    BY <1>0, <1>8, CallIs DEF Drop, At, NoCall
  <2> DEFINE q == op[u].hash
  <2>2. op'[u] # NoCall /\ op'[u].pc = "files" /\ op'[u].hash = q
    BY <1>8, <2>1, GotoIs DEF Drop, Removing
  <2>3. /\ UNCHANGED <<row, mem, uneven, freed>>
        /\ live' = IF IsLive(q, op[u].id) THEN [live EXCEPT ![q] = Absent] ELSE live
    BY <1>8 DEF Drop, ghosts
  <2>4. CASE q # h
    <3>1. Stage(u, h) = "idle" /\ Stage(u, h)' = "idle"
      BY <1>0, <2>1, <2>2, <2>3, <2>4 DEF Stage
    <3> QED
      BY <3>1, <1>e
  <2>5. CASE q = h
    <3>1. Stage(u, h) = "drop" /\ Stage(u, h)' = "files"
      BY <2>1, <2>2, <2>5 DEF Stage
    <3>2. live'[h] = Absent
      <4>1. IsLive(q, op[u].id)
        BY <2>5, <3>1 DEF Coherent, RowAround, IsLive
      <4> QED
        BY <1>0, <2>3, <2>5, <4>1
    <3>3. RowAround(u, h)'
      BY <3>1, <3>2 DEF RowAround
    <3>4. PausedTogether(u, h)'
      BY <3>1, <3>2 DEF PausedTogether, PausedGone
    <3> QED
      BY <3>3, <3>4 DEF Coherent
  <2> QED
    BY <2>4, <2>5
<1>9. CASE DeleteFiles(u)
  <2>1. op[u] # NoCall /\ op[u].pc = "files" /\ op[u].hash \in Hashes
    BY <1>0, <1>9, CallIs DEF DeleteFiles, At, NoCall
  <2> DEFINE q == op[u].hash
  <2>2. /\ UNCHANGED <<row, mem, live, freed>>
        /\ \/ /\ op'[u] # NoCall /\ op'[u].pc = "unrow" /\ op'[u].hash = q
              /\ uneven' = uneven
           \/ op'[u] = NoCall /\ uneven' = uneven \cup {q}
    <3>1. Goto(u, "unrow") => op'[u] # NoCall /\ op'[u].pc = "unrow" /\ op'[u].hash = q
      BY <2>1, GotoIs DEF Removing
    <3>2. Done(u) => op'[u] = NoCall
      BY <1>0 DEF Done
    <3> QED
      BY <1>9, <3>1, <3>2 DEF DeleteFiles, Abandon
  <2>3. CASE q # h
    <3>1. Stage(u, h) = "idle" /\ Stage(u, h)' = "idle"
      BY <1>3, <2>1, <2>2, <2>3 DEF Stage
    <3> QED
      BY <3>1, <1>e
  <2>4. CASE q = h
    <3>1. /\ Stage(u, h) = "files"
          /\ \/ Stage(u, h)' = "unrow"
             \/ Stage(u, h)' = "idle" /\ h \in uneven'
      BY <1>3, <2>1, <2>2, <2>4 DEF Stage
    <3>2. RowAround(u, h)'
      BY <2>2, <3>1 DEF Coherent, RowAround
    <3>3. PausedTogether(u, h)'
      BY <2>2, <3>1 DEF Coherent, RowAround, PausedTogether, PausedGone
    <3> QED
      BY <3>2, <3>3 DEF Coherent
  <2> QED
    BY <2>3, <2>4
<1>10. CASE DeleteSession(u)
  <2>1. op[u] # NoCall /\ op[u].pc = "unrow" /\ op[u].hash \in Hashes
    BY <1>0, <1>10, CallIs DEF DeleteSession, At, NoCall
  <2> DEFINE q == op[u].hash
  <2>2. /\ UNCHANGED <<mem, live, freed>>
        /\ \/ /\ op'[u] # NoCall /\ op'[u].pc = "forget" /\ op'[u].hash = q
              /\ uneven' = uneven /\ row' = [row EXCEPT ![q] = Absent]
           \/ op'[u] = NoCall /\ uneven' = uneven \cup {q} /\ row' = row
    <3>1. Goto(u, "forget") => op'[u] # NoCall /\ op'[u].pc = "forget" /\ op'[u].hash = q
      BY <2>1, GotoIs DEF Removing
    <3>2. Done(u) => op'[u] = NoCall
      BY <1>0 DEF Done
    <3> QED
      BY <1>10, <3>1, <3>2 DEF DeleteSession, Abandon
  <2>3. CASE q # h
    <3>1. Stage(u, h) = "idle" /\ Stage(u, h)' = "idle"
      BY <1>0, <1>3, <2>1, <2>2, <2>3 DEF Stage
    <3> QED
      BY <3>1, <1>e
  <2>4. CASE q = h
    <3>1. /\ Stage(u, h) = "unrow" /\ live'[h] = Absent
          /\ \/ Stage(u, h)' = "forget" /\ row'[h] = Absent
             \/ Stage(u, h)' = "idle" /\ h \in uneven'
      <4>1. Stage(u, h) = "unrow"
        BY <2>1, <2>4 DEF Stage
      <4>2. live[h] = Absent
        BY <4>1 DEF Coherent, RowAround
      <4> QED
        BY <1>0, <1>3, <2>1, <2>2, <2>4, <4>1, <4>2 DEF Stage
    <3>2. RowAround(u, h)'
      BY <3>1 DEF RowAround
    <3>3. PausedTogether(u, h)'
      BY <3>1 DEF PausedTogether, PausedGone
    <3> QED
      BY <3>2, <3>3 DEF Coherent
  <2> QED
    BY <2>3, <2>4
<1>11. CASE Forget(u)
  <2>1. op[u] # NoCall /\ op[u].pc = "forget" /\ op[u].hash \in Hashes
    BY <1>0, <1>11, CallIs DEF Forget, At, NoCall
  <2> DEFINE q == op[u].hash
  <2>2. /\ UNCHANGED <<row, live, freed>> /\ op'[u] = NoCall
        /\ mem' = [mem EXCEPT ![q] = Absent] /\ uneven' = uneven \ {q}
    BY <1>0, <1>11 DEF Forget, Done
  <2>3. CASE q # h
    <3>1. Stage(u, h) = "idle" /\ Stage(u, h)' = "idle"
      BY <1>0, <2>1, <2>2, <2>3 DEF Stage
    <3> QED
      BY <3>1, <1>e
  <2>4. CASE q = h
    <3>1. Stage(u, h) = "forget" /\ Stage(u, h)' = "idle"
      BY <1>3, <2>1, <2>2, <2>4 DEF Stage
    <3>2. row'[h] = Absent /\ live'[h] = Absent
      BY <2>2, <3>1 DEF Coherent, RowAround
    <3>3. ~State(h)'.paused
      BY <1>0, <2>2, <2>4, FlagsAre DEF State
    <3>4. RowAround(u, h)'
      BY <3>1, <3>2 DEF RowAround
    <3>5. PausedTogether(u, h)'
      BY <3>1, <3>2, <3>3 DEF PausedTogether, PausedGone
    <3> QED
      BY <3>4, <3>5 DEF Coherent
  <2> QED
    BY <2>3, <2>4
<1>12. ASSUME NEW k \in Hashes, Pause(u, k) PROVE Coherent(u, h)'
  <2>1. /\ op[u] = NoCall /\ live[k] # Absent /\ UNCHANGED <<row, mem, uneven>>
        /\ freed' = freed \ {k}
        /\ op'[u] = [pc |-> "pause", hash |-> k]
        /\ live' = [live EXCEPT ![k].down = FALSE, ![k].up = FALSE]
    BY <1>0, <1>12 DEF Pause, Start, Flow, IsLive
  <2>2. op'[u] # NoCall
    BY <2>1 DEF NoCall
  <2>3. CASE k # h
    <3>1. Stage(u, h) = "idle" /\ Stage(u, h)' = "idle"
      BY <1>0, <1>2, <2>1, <2>3 DEF Stage
    <3> QED
      BY <3>1, <1>e
  <2>4. CASE k = h
    <3>1. Stage(u, h)' = "pause" /\ Stage(u, h) = "idle"
      BY <1>2, <2>1, <2>2, <2>4 DEF Stage
    <3>2. live'[h] # Absent /\ Still(h)'
      <4>1. live[h] \in Torrent
        BY <1>0, <2>1, <2>4
      <4>2. live'[h] = [live[h] EXCEPT !.down = FALSE, !.up = FALSE]
        BY <1>0, <2>1, <2>4, <4>1 DEF Torrent
      <4>3. live'[h] \in Torrent /\ ~live'[h].down /\ ~live'[h].up
        BY <4>1, <4>2 DEF Torrent
      <4> QED
        BY <4>3, AbsentAssumption DEF Still
    <3>3. RowAround(u, h)'
      BY <2>1, <2>4, <3>1, <3>2 DEF Coherent, RowAround
    <3>4. PausedTogether(u, h)'
      BY <2>1, <2>4, <3>1, <3>2 DEF PausedTogether, PausedLive
    <3> QED
      BY <3>3, <3>4 DEF Coherent
  <2> QED
    BY <2>3, <2>4
<1>13. CASE AllowData(u)
  <2>1. op[u] # NoCall /\ op[u].pc = "allow" /\ op[u].hash \in Hashes
    BY <1>0, <1>13, CallIs DEF AllowData, At, NoCall
  <2> DEFINE q == op[u].hash
  <2>2. op'[u] # NoCall /\ op'[u].pc = "resume" /\ op'[u].hash = q
    BY <1>13, <2>1, GotoIs DEF AllowData, Resuming
  <2>3. /\ UNCHANGED <<row, mem, uneven, freed>>
        /\ live[q] # Absent => Flow(q, op[u].id, TRUE, live[q].up \/ ~op[u].stopped)
        /\ live[q] = Absent => live' = live
    BY <1>13 DEF AllowData, ghosts
  <2>4. CASE q # h
    <3>1. Stage(u, h) = "idle" /\ Stage(u, h)' = "idle"
      BY <1>0, <2>1, <2>2, <2>3, <2>4 DEF Stage
    <3> QED
      BY <3>1, <1>e
  <2>5. CASE q = h
    <3>1. Stage(u, h) = "allow" /\ Stage(u, h)' = "resume"
      BY <2>1, <2>2, <2>5 DEF Stage
    <3>2. live[h] # Absent /\ live'[h] # Absent
      <4>1. live[h] \in Torrent
        BY <1>t, <3>1 DEF Coherent, RowAround
      <4>2. \/ live' = live
            \/ live' = [live EXCEPT ![h].down = TRUE, ![h].up = live[h].up \/ ~op[u].stopped]
        BY <2>3, <2>5 DEF Flow
      <4>3. CASE live' = live
        BY <4>1, <4>3, AbsentAssumption
      <4>4. CASE live' # live
        <5>1. live'[h] = [live[h] EXCEPT !.down = TRUE, !.up = live[h].up \/ ~op[u].stopped]
          BY <1>0, <4>1, <4>2, <4>4 DEF Torrent
        <5>2. live'[h].id = live[h].id /\ DOMAIN live'[h] = DOMAIN live[h]
          BY <4>1, <5>1 DEF Torrent
        <5>3. op[u].stopped \in BOOLEAN
          BY <1>0, <2>1, CallIs DEF Resuming
        <5>4. live'[h] \in Torrent
          BY <4>1, <5>1, <5>3 DEF Torrent
        <5> QED
          BY <4>1, <5>4, AbsentAssumption
      <4> QED
        BY <4>3, <4>4
    <3>3. RowAround(u, h)'
      BY <2>3, <3>1, <3>2 DEF Coherent, RowAround
    <3>4. PausedTogether(u, h)'
      BY <3>1, <3>2 DEF PausedTogether, PausedLive
    <3> QED
      BY <3>3, <3>4 DEF Coherent
  <2> QED
    BY <2>4, <2>5
<1>14. CASE PauseState(u) \/ ResumeState(u)
  <2>1. PICK pc \in {"pause", "resume"}, paused \in BOOLEAN :
          SetPaused(u, pc, paused) /\ paused = (pc = "pause")
    <3>1. CASE PauseState(u)
      BY <3>1 DEF PauseState
    <3>2. CASE ResumeState(u)
      BY <3>2 DEF ResumeState
    <3> QED
      BY <1>14, <3>1, <3>2
  <2>2. op[u] # NoCall /\ op[u].pc = pc /\ op[u].hash \in Hashes
    BY <1>0, <2>1, CallIs DEF SetPaused, At, NoCall
  <2> DEFINE q == op[u].hash
  <2>3. /\ UNCHANGED <<row, live, uneven, freed>>
        /\ mem' = [mem EXCEPT ![q] = [State(q) EXCEPT !.paused = paused]]
        /\ op'[u] = [pc |-> "save", paused |-> paused, hash |-> q]
    BY <1>0, <2>1 DEF SetPaused, SetState, ghosts
  <2>4. op'[u] # NoCall
    BY <2>3 DEF NoCall
  <2>5. CASE q # h
    <3>1. Stage(u, h) = "idle" /\ Stage(u, h)' = "idle"
      BY <1>0, <2>2, <2>3, <2>4, <2>5 DEF Stage
    <3> QED
      BY <3>1, <1>e
  <2>6. CASE q = h
    <3>1. Stage(u, h) = pc /\ Stage(u, h)' = "save" /\ (Still(h)' <=> Still(h))
      BY <2>2, <2>3, <2>4, <2>6 DEF Stage, Still
    <3>2. mem'[h] # Absent /\ State(h)'.paused = paused
      <4>1. State(h) \in Flags /\ mem'[h] = [State(h) EXCEPT !.paused = paused]
        BY <1>0, <2>3, <2>6, StateIs
      <4>2. mem'[h] \in Flags /\ mem'[h].paused = paused
        BY <4>1 DEF Flags
      <4>3. mem'[h] # Absent
        BY <4>2, AbsentAssumption
      <4> QED
        BY <4>2, <4>3 DEF State
    <3>3. RowAround(u, h)'
      BY <2>1, <2>3, <3>1, <3>2 DEF Coherent, RowAround
    <3>4. live[h] # Absent /\ op'[u].paused = paused
      BY <2>1, <2>3, <3>1 DEF Coherent, RowAround
    <3>5. PausedTogether(u, h)'
      BY <1>1, <2>1, <2>3, <3>1, <3>2, <3>4 DEF Coherent, PausedTogether, PausedLive
    <3> QED
      BY <3>3, <3>5 DEF Coherent
  <2> QED
    BY <2>5, <2>6
<1>15. CASE SavePaused(u)
  <2>1. op[u] # NoCall /\ op[u].pc = "save" /\ op[u].hash \in Hashes
    BY <1>0, <1>15, CallIs DEF SavePaused, At, NoCall
  <2> DEFINE q == op[u].hash
  <2>2. /\ UNCHANGED <<live, mem, freed>> /\ op'[u] = NoCall
        /\ \/ /\ row[q] # Absent /\ uneven' = uneven
              /\ row' = [row EXCEPT ![q] = [row[q] EXCEPT !.paused = op[u].paused]]
           \/ row[q] = Absent /\ row' = row /\ uneven' = uneven
           \/ row' = row /\ uneven' = uneven \cup {q}
    BY <1>0, <1>15 DEF SavePaused, Write, Done
  <2>3. CASE q # h
    <3>1. Stage(u, h) = "idle" /\ Stage(u, h)' = "idle"
      BY <1>0, <2>1, <2>2, <2>3 DEF Stage
    <3> QED
      BY <3>1, <1>e
  <2>4. CASE q = h
    <3>1. /\ Stage(u, h) = "save" /\ Stage(u, h)' = "idle"
          /\ (Still(h)' <=> Still(h)) /\ State(h)' = State(h)
      BY <1>3, <2>1, <2>2, <2>4 DEF Stage, Still, State
    <3>2. live[h] # Absent /\ row[h] # Absent /\ mem[h] # Absent
      BY <3>1 DEF Coherent, RowAround
    <3>3. row'[h] # Absent /\ (h \in uneven' \/ row'[h].paused = op[u].paused)
      <4>1. op[u].paused \in BOOLEAN
        BY <1>0, <2>1, CallIs
      <4>2. /\ [row[h] EXCEPT !.paused = op[u].paused] \in Flags
            /\ [row[h] EXCEPT !.paused = op[u].paused].paused = op[u].paused
        BY <1>0, <3>2, <4>1 DEF Flags
      <4>3. \/ row'[h] = [row[h] EXCEPT !.paused = op[u].paused]
            \/ row'[h] = row[h] /\ h \in uneven'
        BY <1>0, <2>2, <2>4, <3>2
      <4> QED
        BY <3>2, <4>2, <4>3, AbsentAssumption
    <3>4. RowAround(u, h)'
      BY <2>2, <3>1, <3>2, <3>3 DEF RowAround
    <3>5. uneven \subseteq uneven'
      BY <2>2
    <3>6. PausedTogether(u, h)'
      BY <1>1, <2>2, <3>1, <3>2, <3>3, <3>5 DEF Coherent, PausedTogether, PausedLive
    <3> QED
      BY <3>4, <3>6 DEF Coherent
  <2> QED
    BY <2>3, <2>4
<1> QED
  BY <1>4, <1>5, <1>6, <1>7, <1>8, <1>9, <1>10, <1>11, <1>12, <1>13, <1>14, <1>15 DEF Operate

(* The enforcer and the metadata of a torrent leave its row and its pause be. *)
LEMMA EnforceGentle ==
  ASSUME EngineTypes, NEW h \in Hashes, Enforce \/ \E k \in Hashes : GotInfo(k)
  PROVE  Gentle(h)
<1>0. /\ row \in [Hashes -> Flags \cup {Absent}]
      /\ live \in [Hashes -> Torrent \cup {Absent}]
      /\ mem \in [Hashes -> Flags \cup {Absent}]
      /\ enforcer \in Enforcement
  BY DEF EngineTypes, EngineTypeOK
<1>1. /\ row[h] \in Flags \cup {Absent} /\ live[h] \in Torrent \cup {Absent}
      /\ mem[h] \in Flags \cup {Absent} /\ State(h) \in Flags
  BY <1>0, StateIs
<1>2. up /\ up' = up /\ op' = op /\ UNCHANGED <<uneven, torn, met, freed>>
  BY DEF Enforce, StartTick, EndTick, Look, Mark, SaveMark, Judge, StopSeeding, SaveStop,
     EnforcerAt, GotInfo, ghosts
<1>4. CASE UNCHANGED <<row, live, mem>>
  <2>1. State(h)' = State(h) /\ (live[h] # Absent => (Still(h)' <=> Still(h)))
    BY <1>4 DEF State, Still
  <2> QED
    BY <1>2, <1>4, <2>1 DEF Gentle
<1>5. CASE Mark \/ StopSeeding
  <2>1. PICK flags \in Flags :
          /\ mem' = [mem EXCEPT ![enforcer.hash] = flags]
          /\ flags.paused = State(enforcer.hash).paused
    <3>1. State(enforcer.hash) \in Flags
      <4>1. enforcer.hash \in Hashes
        BY <1>0, <1>5 DEF Mark, StopSeeding, EnforcerAt, Enforcement
      <4> QED
        BY <4>1, StateIs
    <3>2. /\ [State(enforcer.hash) EXCEPT !.completed = TRUE] \in Flags
          /\ [State(enforcer.hash) EXCEPT !.stopped = TRUE] \in Flags
          /\ [State(enforcer.hash) EXCEPT !.completed = TRUE].paused
               = State(enforcer.hash).paused
          /\ [State(enforcer.hash) EXCEPT !.stopped = TRUE].paused
               = State(enforcer.hash).paused
      BY <3>1 DEF Flags
    <3> QED
      BY <1>5, <3>2 DEF Mark, StopSeeding, SetState
  <2>2. UNCHANGED <<row, live>>
    BY <1>5 DEF Mark, StopSeeding
  <2>3. (mem[h] # Absent => mem'[h] # Absent) /\ State(h)'.paused = State(h).paused
    <3>1. CASE enforcer.hash = h
      <4>1. mem'[h] = flags /\ flags # Absent /\ flags.paused = State(h).paused
        BY <1>0, <2>1, <3>1, AbsentAssumption
      <4> QED
        BY <4>1 DEF State
    <3>2. CASE enforcer.hash # h
      <4>1. mem'[h] = mem[h]
        BY <1>0, <2>1, <3>2
      <4> QED
        BY <4>1 DEF State
    <3> QED
      BY <3>1, <3>2
  <2>4. live[h] # Absent => (Still(h)' <=> Still(h))
    BY <2>2 DEF Still
  <2> QED
    BY <1>2, <2>2, <2>3, <2>4 DEF Gentle
<1>6. CASE SaveMark \/ SaveStop
  <2> DEFINE k == enforcer.hash
  <2>1. \/ row' = row
        \/ /\ row[k] # Absent
           /\ \/ row' = [row EXCEPT ![k] = [row[k] EXCEPT !.completed = TRUE]]
              \/ row' = [row EXCEPT ![k] = [row[k] EXCEPT !.stopped = TRUE]]
    BY <1>6 DEF SaveMark, SaveStop, Write
  <2>2. row[h] # Absent =>
          /\ [row[h] EXCEPT !.completed = TRUE] \in Flags
          /\ [row[h] EXCEPT !.stopped = TRUE] \in Flags
          /\ [row[h] EXCEPT !.completed = TRUE].paused = row[h].paused
          /\ [row[h] EXCEPT !.stopped = TRUE].paused = row[h].paused
    BY <1>1 DEF Flags
  <2>3. /\ row'[h] = Absent <=> row[h] = Absent
        /\ row[h] # Absent => row'[h].paused = row[h].paused
    <3>1. \/ row'[h] = row[h]
          \/ /\ row[h] # Absent
             /\ \/ row'[h] = [row[h] EXCEPT !.completed = TRUE]
                \/ row'[h] = [row[h] EXCEPT !.stopped = TRUE]
      BY <1>0, <2>1
    <3> QED
      BY <2>2, <3>1, AbsentAssumption
  <2>4. UNCHANGED <<live, mem>>
    BY <1>6 DEF SaveMark, SaveStop
  <2>5. State(h)' = State(h) /\ (live[h] # Absent => (Still(h)' <=> Still(h)))
    BY <2>4 DEF State, Still
  <2> QED
    BY <1>2, <2>3, <2>4, <2>5 DEF Gentle
<1>7. ASSUME NEW k, UNCHANGED <<row, mem>>, live[k] # Absent,
             \/ live' = live
             \/ live' = [live EXCEPT ![k].down = live[k].down, ![k].up = FALSE]
             \/ live' = [live EXCEPT ![k].info = TRUE, ![k].up = @ /\ ~live[k].stop]
      PROVE  Gentle(h)
  <2>1. \/ live'[h] = live[h]
        \/ /\ live[h] # Absent
           /\ \/ live'[h] = [live[h] EXCEPT !.down = live[h].down, !.up = FALSE]
              \/ live'[h] = [live[h] EXCEPT !.info = TRUE, !.up = @ /\ ~live[h].stop]
    BY <1>0, <1>1, <1>7 DEF Torrent
  <2>2. /\ live'[h] = Absent <=> live[h] = Absent
        /\ live[h] # Absent => live'[h].id = live[h].id /\ (Still(h) => Still(h)')
    <3>1. CASE live'[h] = live[h]
      BY <3>1 DEF Still
    <3>2. CASE /\ live[h] # Absent
               /\ live'[h] = [live[h] EXCEPT !.down = live[h].down, !.up = FALSE]
      <4>1. /\ live'[h] \in Torrent /\ live'[h].id = live[h].id
            /\ live'[h].down = live[h].down /\ ~live'[h].up
        BY <1>1, <3>2 DEF Torrent
      <4> QED
        BY <3>2, <4>1, AbsentAssumption DEF Still
    <3>3. CASE /\ live[h] # Absent
               /\ live'[h] = [live[h] EXCEPT !.info = TRUE, !.up = @ /\ ~live[h].stop]
      <4>1. /\ live'[h] \in Torrent /\ live'[h].id = live[h].id
            /\ live'[h].down = live[h].down /\ (live'[h].up => live[h].up)
        BY <1>1, <3>3 DEF Torrent
      <4> QED
        BY <3>3, <4>1, AbsentAssumption DEF Still
    <3> QED
      BY <2>1, <3>1, <3>2, <3>3
  <2>3. State(h)' = State(h)
    BY <1>7 DEF State
  <2> QED
    BY <1>2, <1>7, <2>2, <2>3 DEF Gentle
<1>8. CASE Judge
  <2>1. /\ UNCHANGED <<row, mem>>
        /\ \/ live' = live
           \/ /\ live[enforcer.hash] # Absent
              /\ live' = [live EXCEPT ![enforcer.hash].down = live[enforcer.hash].down,
                                      ![enforcer.hash].up = FALSE]
    BY <1>8 DEF Judge, Flow
  <2> QED
    BY <1>4, <1>7, <2>1
<1>9. ASSUME NEW k \in Hashes, GotInfo(k) PROVE Gentle(h)
  BY <1>7, <1>9 DEF GotInfo
<1>10. CASE StartTick \/ EndTick \/ \E k \in Hashes : Look(k)
  BY <1>4, <1>10 DEF StartTick, EndTick, Look
<1> QED
  BY <1>5, <1>6, <1>8, <1>9, <1>10 DEF Enforce

(* A restart makes torrent and flags from the row. *)
LEMMA RestartCoherent ==
  ASSUME EngineTypes, RestoresRows, NEW u \in EngineUsers, NEW h \in Hashes,
         Coherent(u, h), EngineCrash \/ Restored \/ \E k \in Hashes : Restore(k)
  PROVE  Coherent(u, h)'
<1>0. /\ row \in [Hashes -> Flags \cup {Absent}]
      /\ live \in [Hashes -> Torrent \cup {Absent}]
      /\ mem \in [Hashes -> Flags \cup {Absent}]
      /\ torrents \in Nat /\ enforcer \in Enforcement
  BY DEF EngineTypes, EngineTypeOK
<1>1. CASE EngineCrash
  <2>1. /\ row' = row /\ live'[h] = Absent /\ mem'[h] = Absent /\ op'[u] = NoCall
        /\ up' = FALSE /\ enforcer'.todo = {k \in Hashes : row[k] # Absent}
    BY <1>1 DEF EngineCrash, Resting
  <2>2. Stage(u, h)' = "idle" /\ ~State(h)'.paused
    BY <2>1, FlagsAre DEF Stage, State
  <2>3. RowAround(u, h)'
    BY <2>1, <2>2 DEF RowAround
  <2>4. PausedTogether(u, h)'
    BY <2>1, <2>2 DEF PausedTogether, PausedGone
  <2> QED
    BY <2>3, <2>4 DEF Coherent
<1>2. CASE Restored
  <2>1. /\ UNCHANGED <<row, live, mem, op, enforcer, uneven, freed>>
        /\ enforcer.todo = {} /\ ~up /\ up'
    BY <1>2 DEF Restored, ghosts
  <2>2. /\ Stage(u, h)' = Stage(u, h) /\ State(h)' = State(h)
        /\ Still(h)' <=> Still(h)
    BY <2>1 DEF Stage, State, Still
  <2>3. RowAround(u, h)'
    BY <2>1, <2>2 DEF Coherent, RowAround
  <2>4. PausedTogether(u, h)'
    BY <2>1, <2>2 DEF Coherent, PausedTogether, PausedLive, PausedGone
  <2> QED
    BY <2>3, <2>4 DEF Coherent
<1>3. ASSUME NEW k \in Hashes, Restore(k) PROVE Coherent(u, h)'
  <2> DEFINE made == [id |-> torrents, info |-> FALSE, down |-> ~row[k].paused,
                      up |-> ~row[k].paused, stop |-> row[k].stopped]
  <2>1. /\ ~up /\ ~up' /\ k \in enforcer.todo /\ op[u] = NoCall /\ op'[u] = NoCall
        /\ row' = row /\ row[k] \in Flags /\ freed' = freed
    BY <1>0, <1>3 DEF Restore, RestoresRows
  <2>2. /\ enforcer'.todo = enforcer.todo \ {k}
        /\ \/ /\ live' = [live EXCEPT ![k] = made] /\ mem' = [mem EXCEPT ![k] = row[k]]
              /\ uneven' = uneven
           \/ UNCHANGED <<live, mem>> /\ uneven' = uneven \cup {k}
    <3>1. enforcer' = [enforcer EXCEPT !.todo = @ \ {k}]
      BY <1>3 DEF Restore
    <3>2. enforcer'.todo = enforcer.todo \ {k}
      BY <1>0, <3>1 DEF Enforcement
    <3> QED
      BY <1>3, <3>2 DEF Restore, SetState
  <2>3. Stage(u, h) = "idle" /\ Stage(u, h)' = "idle"
    BY <2>1 DEF Stage
  <2>4. CASE k # h
    <3>1. /\ live'[h] = live[h] /\ mem'[h] = mem[h]
          /\ h \in uneven' <=> h \in uneven
          /\ h \in enforcer'.todo <=> h \in enforcer.todo
      BY <1>0, <2>2, <2>4
    <3>2. State(h)' = State(h) /\ (Still(h)' <=> Still(h))
      BY <3>1 DEF State, Still
    <3>3. RowAround(u, h)'
      BY <2>1, <2>3, <3>1 DEF Coherent, RowAround
    <3>4. PausedTogether(u, h)'
      BY <2>1, <2>3, <3>1, <3>2 DEF Coherent, PausedTogether, PausedLive, PausedGone
    <3> QED
      BY <3>3, <3>4 DEF Coherent
  <2>5. CASE k = h /\ UNCHANGED <<live, mem>> /\ uneven' = uneven \cup {k}
    <3>1. RowAround(u, h)'
      BY <2>1, <2>3, <2>5 DEF Coherent, RowAround
    <3>2. PausedTogether(u, h)'
      BY <2>5 DEF PausedTogether
    <3> QED
      BY <3>1, <3>2 DEF Coherent
  <2>6. CASE /\ k = h /\ live' = [live EXCEPT ![k] = made]
             /\ mem' = [mem EXCEPT ![k] = row[k]]
    <3>1. made \in Torrent
      BY <1>0, <2>1 DEF Flags, Torrent
    <3>2. /\ live'[h] # Absent /\ mem'[h] = row[h] /\ row'[h] # Absent
          /\ mem'[h] # Absent
      BY <1>0, <2>1, <2>6, <3>1, AbsentAssumption
    <3>3. State(h)'.paused = row'[h].paused /\ (State(h)'.paused => Still(h)')
      <4>1. live'[h].down = ~row[h].paused /\ live'[h].up = ~row[h].paused
        BY <1>0, <2>6
      <4> QED
        BY <2>1, <3>2, <4>1 DEF State, Still
    <3>4. RowAround(u, h)'
      BY <2>3, <3>2 DEF RowAround
    <3>5. PausedTogether(u, h)'
      BY <2>3, <3>2, <3>3 DEF PausedTogether, PausedLive
    <3> QED
      BY <3>4, <3>5 DEF Coherent
  <2> QED
    BY <2>2, <2>4, <2>5, <2>6
<1> QED
  BY <1>1, <1>2, <1>3

(* Rows, torrents and flags are of their types, in every state, and a restart *)
(* asks the library only for torrents whose row is there (engine.go, restore). *)
THEOREM EngineTypeCorrect == EngineSpec => [](EngineTypes /\ RestoresRows)
<1>1. EngineInit => EngineTypes /\ RestoresRows
  BY InitEngine DEF EngineInit, RestoresRows
<1>2. EngineTypes /\ RestoresRows /\ [EngineNext]_engineVars
        => (EngineTypes /\ RestoresRows)'
  BY EngineTypesStep
<1> QED
  BY <1>1, <1>2, PTL DEF EngineSpec

-----------------------------------------------------------------------------
(***************************************************************************)
(* Operations at once on one torrent.                                      *)
(***************************************************************************)
(* Adding and removing see the torrent and its row come and go in order,   *)
(* whoever does it, as long as nobody adds what somebody removes.          *)
RowsKept(h) ==
  h \notin torn =>
    /\ live[h] # Absent => row[h] # Absent
    /\ \A c \in EngineUsers :
         /\ Stage(c, h) \in Adding => row[h] # Absent
         /\ Stage(c, h) = "drop" => live[h] = Absent \/ live[h].id = op[c].id
         /\ Stage(c, h) \in {"files", "unrow", "forget"} => live[h] = Absent
    /\ \A c, d \in EngineUsers : Stage(c, h) \in Adding => Stage(d, h) \notin Removing

Alone(u, h) == \A d \in EngineUsers \ {u} : Stage(d, h) = "idle"

(* Unless two operations met, one is at work on the torrent at most, and it *)
(* finds the torrent as it would if there were no other users.              *)
OneByOne(h) ==
  h \notin met =>
    /\ \A c \in EngineUsers : Stage(c, h) # "idle" => Alone(c, h)
    /\ \A u \in EngineUsers : Alone(u, h) => Coherent(u, h)

(* What a step of u does to the torrent and its row, by where u then stands. *)
RowMoves(u, h) ==
  \/ /\ Stage(u, h) = "idle" /\ Stage(u, h)' = "idle"
     /\ row'[h] = row[h] /\ live'[h] = live[h]
  \/ /\ row'[h] = Absent <=> row[h] = Absent
     /\ live'[h] = Absent <=> live[h] = Absent
     /\ live[h] # Absent => live'[h].id = live[h].id
     /\ \/ Stage(u, h)' \notin Adding \cup Removing
        \/ Stage(u, h) = "spec" /\ Stage(u, h)' = "state"
        \/ Stage(u, h) = "files" /\ Stage(u, h)' = "unrow"
        \/ Stage(u, h) = "idle" /\ Stage(u, h)' = "drop" /\ op'[u].id = live[h].id
  \/ /\ Stage(u, h) = "idle" /\ Stage(u, h)' = "spec"
     /\ row'[h] # Absent /\ live'[h] = live[h]
  \/ /\ Stage(u, h) = "spec" /\ Stage(u, h)' = "state"
     /\ row'[h] = row[h] /\ live'[h] # Absent
  \/ /\ Stage(u, h) = "drop" /\ Stage(u, h)' = "files" /\ row'[h] = row[h]
     /\ live'[h] = IF live[h] # Absent /\ live[h].id = op[u].id THEN Absent ELSE live[h]
  \/ /\ Stage(u, h) = "unrow" /\ Stage(u, h)' = "forget"
     /\ row'[h] = Absent /\ live'[h] = live[h]

LEMMA OthersStay ==
  ASSUME EngineTypes, NEW u \in EngineUsers, Operate(u)
  PROVE  /\ up /\ up'
         /\ \A d \in EngineUsers \ {u} :
              op'[d] = op[d] /\ \A h \in Hashes : Stage(d, h)' = Stage(d, h)
<1>u. up /\ up' = up
  BY DEF Operate, CreateSession, AddSpec, AddState, FindToRemove, Drop, DeleteFiles,
     DeleteSession, Forget, Pause, Resume, AllowData, PauseState, ResumeState, SetPaused,
     SavePaused, Start, At
<1>o. \/ \E o : Start(u, o)
      \/ \E pc : Goto(u, pc)
      \/ \E o : op' = [op EXCEPT ![u] = o]
  BY DEF Operate, CreateSession, AddSpec, AddState, FindToRemove, Drop, DeleteFiles,
     DeleteSession, Forget, Pause, Resume, AllowData, PauseState, ResumeState, SetPaused,
     SavePaused, Abandon, Done
<1>1. up /\ up' /\ \E o : op' = [op EXCEPT ![u] = o]
  BY <1>u, <1>o DEF Start, Goto
<1>2. op \in [EngineUsers -> Call]
  BY DEF EngineTypes
<1>3. \A d \in EngineUsers \ {u} : op'[d] = op[d]
  BY <1>1, <1>2
<1> QED
  BY <1>1, <1>3 DEF Stage

(* An operation that starts beside another is noticed. *)
LEMMA StartIsNoticed ==
  ASSUME EngineTypes, NEW u \in EngineUsers, NEW h \in Hashes, Operate(u)
  PROVE  /\ torn \subseteq torn' /\ met \subseteq met'
         /\ Stage(u, h) = "idle" /\ Stage(u, h)' # "idle" =>
              /\ Alone(u, h) \/ h \in met'
              /\ Stage(u, h)' \in Adding /\ h \notin torn' =>
                   \A d \in EngineUsers \ {u} : Stage(d, h) \notin Removing
              /\ Stage(u, h)' \in Removing /\ h \notin torn' =>
                   \A d \in EngineUsers \ {u} : Stage(d, h) \notin Adding
<1>0. op \in [EngineUsers -> Call] /\ \A d \in EngineUsers : op[d] \in Call
  BY DEF EngineTypes
<1>1. ASSUME NEW o, Start(u, o), o # NoCall
      PROVE  /\ torn \subseteq torn' /\ met \subseteq met'
             /\ Stage(u, h)' # "idle" =>
                  /\ Alone(u, h) \/ h \in met'
                  /\ Stage(u, h)' \in Adding /\ h \notin torn' =>
                       \A d \in EngineUsers \ {u} : Stage(d, h) \notin Removing
                  /\ Stage(u, h)' \in Removing /\ h \notin torn' =>
                       \A d \in EngineUsers \ {u} : Stage(d, h) \notin Adding
  <2>1. op[u] = NoCall /\ op'[u] = o /\ Meets(o.pc, o.hash)
    BY <1>0, <1>1 DEF Start
  <2>2. torn \subseteq torn' /\ met \subseteq met'
    BY <2>1 DEF Meets
  <2>3. ASSUME Stage(u, h)' # "idle" PROVE o.hash = h /\ Stage(u, h)' = o.pc
    BY <1>1, <2>1, <2>3 DEF Stage
  <2>4. ASSUME NEW d \in EngineUsers, Stage(d, h) # "idle"
        PROVE  d \in Others(h) /\ op[d].pc = Stage(d, h)
    BY <2>4 DEF Stage, Others
  <2>5. ASSUME Stage(u, h)' # "idle" PROVE Alone(u, h) \/ h \in met'
    BY <2>1, <2>3, <2>4, <2>5 DEF Meets, Alone
  <2>6. ASSUME Stage(u, h)' \in Adding, NEW d \in EngineUsers, Stage(d, h) \in Removing
        PROVE  h \in torn'
    <3>1. o.hash = h /\ o.pc \in Adding /\ d \in Others(h) /\ op[d].pc \in Removing
      BY <2>3, <2>4, <2>6 DEF Adding, Removing
    <3> QED
      BY <2>1, <3>1 DEF Meets
  <2>7. ASSUME Stage(u, h)' \in Removing, NEW d \in EngineUsers, Stage(d, h) \in Adding
        PROVE  h \in torn'
    <3>1. o.hash = h /\ o.pc \in Removing /\ d \in Others(h) /\ op[d].pc \in Adding
      BY <2>3, <2>4, <2>7 DEF Adding, Removing
    <3> QED
      BY <2>1, <3>1 DEF Meets
  <2> QED
    BY <2>2, <2>5, <2>6, <2>7
<1>2. ASSUME NEW k \in Hashes,
             CreateSession(u, k) \/ FindToRemove(u, k) \/ Pause(u, k) \/ Resume(u, k)
      PROVE  \E o : Start(u, o) /\ o # NoCall
  <2>1. CASE CreateSession(u, k)
    <3>1. [pc |-> "spec", hash |-> k] # NoCall
      BY DEF NoCall
    <3> QED
      BY <2>1, <3>1 DEF CreateSession
  <2>2. CASE FindToRemove(u, k)
    <3>1. [pc |-> "drop", hash |-> k, id |-> live[k].id] # NoCall
      BY DEF NoCall
    <3> QED
      BY <2>2, <3>1 DEF FindToRemove
  <2>3. CASE Pause(u, k)
    <3>1. [pc |-> "pause", hash |-> k] # NoCall
      BY DEF NoCall
    <3> QED
      BY <2>3, <3>1 DEF Pause
  <2>4. CASE Resume(u, k)
    <3>1. [pc |-> "allow", hash |-> k, id |-> live[k].id, stopped |-> State(k).stopped]
            # NoCall
      BY DEF NoCall
    <3> QED
      BY <2>4, <3>1 DEF Resume
  <2> QED
    BY <1>2, <2>1, <2>2, <2>3, <2>4
<1>3. ASSUME \A k \in Hashes : ~(CreateSession(u, k) \/ FindToRemove(u, k) \/ Pause(u, k)
                                  \/ Resume(u, k))
      PROVE  /\ UNCHANGED <<torn, met>>
             /\ op[u].pc # "idle"
             /\ op'[u] = NoCall \/ op'[u].hash = op[u].hash
  <2>1. UNCHANGED <<torn, met>> /\ op[u].pc # "idle"
    BY <1>3 DEF Operate, AddSpec, AddState, Drop, DeleteFiles, DeleteSession, Forget,
       AllowData, PauseState, ResumeState, SetPaused, SavePaused, At, ghosts
  <2>2. ASSUME NEW pc, Goto(u, pc) PROVE op'[u].hash = op[u].hash
    <3>1. op[u] \in Call /\ op[u] # NoCall /\ op'[u] = [op[u] EXCEPT !.pc = pc]
      BY <1>0, <2>1, <2>2, NoCallIsIdle DEF Goto
    <3>2. CASE op[u] \in [pc : Hashed, hash : Hashes]
      BY <3>1, <3>2
    <3>3. CASE op[u] \in [pc : Removing, hash : Hashes, id : Nat]
      BY <3>1, <3>3
    <3>4. CASE op[u] \in [pc : Resuming, hash : Hashes, id : Nat, stopped : BOOLEAN]
      BY <3>1, <3>4
    <3>5. CASE op[u] \in [pc : {"save"}, paused : BOOLEAN, hash : Hashes]
      BY <3>1, <3>5
    <3> QED
      BY <3>1, <3>2, <3>3, <3>4, <3>5 DEF Call
  <2>3. \/ Done(u)
        \/ \E pc : Goto(u, pc)
        \/ \E paused : op' = [op EXCEPT ![u] = [pc |-> "save", paused |-> paused,
                                                hash |-> op[u].hash]]
    BY <1>3 DEF Operate, AddSpec, AddState, Drop, DeleteFiles, DeleteSession, Forget,
       AllowData, PauseState, ResumeState, SetPaused, SavePaused, Abandon
  <2>4. Done(u) => op'[u] = NoCall
    BY <1>0 DEF Done
  <2>5. ASSUME NEW paused, op' = [op EXCEPT ![u] = [pc |-> "save", paused |-> paused,
                                                   hash |-> op[u].hash]]
        PROVE  op'[u].hash = op[u].hash
    BY <1>0, <2>5
  <2> QED
    BY <2>1, <2>2, <2>3, <2>4, <2>5
<1>4. CASE \A k \in Hashes : ~(CreateSession(u, k) \/ FindToRemove(u, k) \/ Pause(u, k)
                                \/ Resume(u, k))
  <2>1. Stage(u, h) = "idle" => Stage(u, h)' = "idle"
    BY <1>3, <1>4 DEF Stage, NoCall
  <2> QED
    BY <1>3, <1>4, <2>1
<1> QED
  BY <1>1, <1>2, <1>4

LEMMA OperateRows ==
  ASSUME EngineTypes, NEW u \in EngineUsers, NEW h \in Hashes, Operate(u)
  PROVE  RowMoves(u, h)
<1>0. /\ row \in [Hashes -> Flags \cup {Absent}]
      /\ live \in [Hashes -> Torrent \cup {Absent}]
      /\ torrents \in Nat
      /\ op \in [EngineUsers -> Call] /\ op[u] \in Call
  BY DEF EngineTypes, EngineTypeOK
<1>t. row[h] \in Flags \cup {Absent} /\ live[h] \in Torrent \cup {Absent}
  BY <1>0
<1>1. CASE Stage(u, h) = "idle" /\ Stage(u, h)' = "idle"
  BY <1>1, OperateElsewhere DEF RowMoves
<1> DEFINE Kept == /\ row'[h] = Absent <=> row[h] = Absent
                   /\ live'[h] = Absent <=> live[h] = Absent
                   /\ live[h] # Absent => live'[h].id = live[h].id
<1>2. op'[u] = NoCall => Stage(u, h)' = "idle"
  BY DEF Stage
<1>3. Kept /\ Stage(u, h)' \notin Adding \cup Removing => RowMoves(u, h)
  BY DEF RowMoves
<1>5. ASSUME NEW down \in BOOLEAN, NEW upload \in BOOLEAN, live[h] # Absent,
             \/ live' = live
             \/ live' = [live EXCEPT ![h].down = down, ![h].up = upload]
      PROVE  live'[h] # Absent /\ live'[h].id = live[h].id
  <2>1. live[h] \in Torrent
    BY <1>t, <1>5
  <2>2. CASE live' = [live EXCEPT ![h].down = down, ![h].up = upload]
    <3>1. live'[h] = [live[h] EXCEPT !.down = down, !.up = upload]
      BY <1>0, <2>1, <2>2 DEF Torrent
    <3>2. live'[h] \in Torrent /\ live'[h].id = live[h].id
      BY <2>1, <3>1 DEF Torrent
    <3> QED
      BY <3>2, AbsentAssumption
  <2> QED
    BY <1>5, <2>2
<1> HIDE DEF Kept
<1>6. ASSUME NEW k \in Hashes, CreateSession(u, k) PROVE RowMoves(u, h)
  <2>1. /\ op[u] = NoCall /\ op'[u] = [pc |-> "spec", hash |-> k] /\ live' = live
        /\ row' = [row EXCEPT ![k] = IF @ = Absent THEN Fresh ELSE @]
    BY <1>0, <1>6 DEF CreateSession, Start
  <2>2. Stage(u, h) = "idle" /\ (Stage(u, h)' # "idle" => k = h)
    BY <2>1 DEF Stage
  <2>3. CASE k = h
    <3>1. op'[u] # NoCall
      BY <2>1 DEF NoCall
    <3>2. Stage(u, h)' = "spec"
      BY <2>1, <2>3, <3>1 DEF Stage
    <3>3. row'[h] # Absent
      BY <1>0, <2>1, <2>3, FlagsAre
    <3> QED
      BY <2>1, <2>2, <3>2, <3>3 DEF RowMoves
  <2> QED
    BY <1>1, <2>2, <2>3
<1>7. CASE AddSpec(u)
  <2> DEFINE q == op[u].hash
             made == [id |-> torrents, info |-> FALSE, down |-> TRUE, up |-> TRUE,
                      stop |-> FALSE]
  <2>1. op[u] # NoCall /\ op[u].pc = "spec"
    BY <1>7 DEF AddSpec, At, NoCall
  <2>2. Goto(u, "state") => op'[u] # NoCall /\ op'[u].pc = "state" /\ op'[u].hash = q
    BY <2>1, GotoIs DEF Hashed
  <2>3. Done(u) => op'[u] = NoCall
    BY <1>0 DEF Done
  <2>4. /\ row' = row
        /\ \/ /\ live[q] # Absent /\ Goto(u, "state")
              /\ live' = [live EXCEPT ![q].down = TRUE, ![q].up = TRUE]
           \/ live' = [live EXCEPT ![q] = made] /\ Goto(u, "state")
           \/ live' = live /\ Done(u)
    BY <1>7 DEF AddSpec
  <2>5. CASE q # h
    BY <1>1, <1>2, <2>2, <2>3, <2>4, <2>5 DEF Stage
  <2>6. CASE q = h /\ live' = live /\ Done(u)
    BY <1>2, <1>3, <2>3, <2>4, <2>6 DEF Adding, Removing, Kept
  <2>7. CASE q = h /\ Goto(u, "state")
    <3>1. Stage(u, h) = "spec" /\ Stage(u, h)' = "state"
      BY <2>1, <2>2, <2>7 DEF Stage
    <3>2. live' = [live EXCEPT ![h] = made] => live'[h] # Absent
      <4>1. made \in Torrent
        BY <1>0 DEF Torrent
      <4> QED
        BY <1>0, <4>1, AbsentAssumption
    <3>3. live'[h] # Absent
      <4>1. CASE live[h] # Absent /\ live' = [live EXCEPT ![h].down = TRUE, ![h].up = TRUE]
        BY <1>5, <4>1
      <4>2. CASE Done(u)
        BY <2>2, <2>3, <2>7, <4>2
      <4> QED
        BY <2>4, <2>7, <3>2, <4>1, <4>2
    <3> QED
      BY <2>4, <3>1, <3>3 DEF RowMoves
  <2> QED
    BY <2>4, <2>5, <2>6, <2>7
<1>8. ASSUME NEW k \in Hashes, FindToRemove(u, k) PROVE RowMoves(u, h)
  <2>1. /\ op[u] = NoCall /\ op'[u] = [pc |-> "drop", hash |-> k, id |-> live[k].id]
        /\ UNCHANGED <<row, live>>
    BY <1>0, <1>8 DEF FindToRemove, Start
  <2>2. Stage(u, h) = "idle" /\ (Stage(u, h)' # "idle" => k = h)
    BY <2>1 DEF Stage
  <2>3. CASE k = h
    <3>1. op'[u] # NoCall
      BY <2>1 DEF NoCall
    <3>2. Stage(u, h)' = "drop" /\ op'[u].id = live[h].id
      BY <2>1, <2>3, <3>1 DEF Stage
    <3> QED
      BY <2>1, <2>2, <3>2 DEF RowMoves
  <2> QED
    BY <1>1, <2>2, <2>3
<1>9. CASE Drop(u)
  <2>1. op[u] # NoCall /\ op[u].pc = "drop"
    BY <1>9 DEF Drop, At, NoCall
  <2> DEFINE q == op[u].hash
  <2>2. op'[u] # NoCall /\ op'[u].pc = "files" /\ op'[u].hash = q
    BY <1>9, <2>1, GotoIs DEF Drop, Removing
  <2>3. row' = row /\ live' = IF IsLive(q, op[u].id) THEN [live EXCEPT ![q] = Absent] ELSE live
    BY <1>9 DEF Drop
  <2>4. CASE q = h
    <3>1. Stage(u, h) = "drop" /\ Stage(u, h)' = "files"
      BY <2>1, <2>2, <2>4 DEF Stage
    <3>2. live'[h] = IF live[h] # Absent /\ live[h].id = op[u].id THEN Absent ELSE live[h]
      BY <1>0, <2>3, <2>4 DEF IsLive
    <3> QED
      BY <2>3, <3>1, <3>2 DEF RowMoves
  <2> QED
    BY <1>1, <2>2, <2>4 DEF Stage
<1>10. CASE DeleteFiles(u)
  <2>1. op[u] # NoCall /\ op[u].pc = "files" /\ UNCHANGED <<row, live>>
    BY <1>10 DEF DeleteFiles, Abandon, At, NoCall
  <2>2. Goto(u, "unrow") => op'[u] # NoCall /\ op'[u].pc = "unrow" /\ op'[u].hash = op[u].hash
    BY <2>1, GotoIs DEF Removing
  <2>3. Done(u) => op'[u] = NoCall
    BY <1>0 DEF Done
  <2>4. Goto(u, "unrow") \/ Done(u)
    BY <1>10 DEF DeleteFiles, Abandon
  <2>5. \/ Stage(u, h)' = "idle"
        \/ Stage(u, h) = "files" /\ Stage(u, h)' = "unrow"
    BY <1>2, <2>1, <2>2, <2>3, <2>4 DEF Stage
  <2> QED
    BY <2>1, <2>5 DEF RowMoves, Adding, Removing
<1>11. CASE DeleteSession(u)
  <2>1. op[u] # NoCall /\ op[u].pc = "unrow" /\ live' = live
    BY <1>11 DEF DeleteSession, At, NoCall
  <2> DEFINE q == op[u].hash
  <2>2. Goto(u, "forget") => op'[u] # NoCall /\ op'[u].pc = "forget" /\ op'[u].hash = q
    BY <2>1, GotoIs DEF Removing
  <2>3. Done(u) => op'[u] = NoCall
    BY <1>0 DEF Done
  <2>4. \/ row' = [row EXCEPT ![q] = Absent] /\ Goto(u, "forget")
        \/ row' = row /\ Done(u)
    BY <1>11 DEF DeleteSession, Abandon
  <2>5. CASE Done(u) /\ row' = row
    BY <1>2, <1>3, <2>1, <2>3, <2>5 DEF Kept, Adding, Removing
  <2>6. CASE row' = [row EXCEPT ![q] = Absent] /\ Goto(u, "forget")
    <3>1. CASE q = h
      BY <1>0, <2>1, <2>2, <2>6, <3>1 DEF RowMoves, Stage
    <3> QED
      BY <1>1, <2>2, <2>6, <3>1 DEF Stage
  <2> QED
    BY <2>4, <2>5, <2>6
<1>12. CASE AddState(u) \/ Forget(u)
  <2>1. UNCHANGED <<row, live>> /\ op'[u] = NoCall
    BY <1>0, <1>12 DEF AddState, Forget, Done
  <2> QED
    BY <1>2, <1>3, <2>1 DEF Kept, Adding, Removing
<1>13. ASSUME NEW k \in Hashes, Pause(u, k) \/ Resume(u, k) PROVE RowMoves(u, h)
  <2>1. /\ op[u] = NoCall /\ live[k] # Absent /\ row' = row
        /\ op'[u].hash = k /\ op'[u].pc \in {"pause", "allow"}
        /\ \/ live' = live
           \/ live' = [live EXCEPT ![k].down = FALSE, ![k].up = FALSE]
    <3>1. CASE Pause(u, k)
      <4>1. op' = [op EXCEPT ![u] = [pc |-> "pause", hash |-> k]]
        BY <3>1 DEF Pause, Start
      <4>2. op'[u].hash = k /\ op'[u].pc = "pause"
        BY <1>0, <4>1
      <4> QED
        BY <3>1, <4>2 DEF Pause, Start, Flow
    <3>2. CASE Resume(u, k)
      <4>1. op' = [op EXCEPT ![u] = [pc |-> "allow", hash |-> k, id |-> live[k].id,
                                     stopped |-> State(k).stopped]]
        BY <3>2 DEF Resume, Start
      <4>2. op'[u].hash = k /\ op'[u].pc = "allow"
        BY <1>0, <4>1
      <4> QED
        BY <3>2, <4>2 DEF Resume, Start
    <3> QED
      BY <1>13, <3>1, <3>2
  <2>2. Stage(u, h) = "idle" /\ (Stage(u, h)' # "idle" => k = h)
    BY <2>1 DEF Stage
  <2>3. CASE k = h
    <3>1. Stage(u, h)' \notin Adding \cup Removing
      BY <2>1 DEF Stage, Adding, Removing
    <3> QED
      BY <1>3, <1>5, <2>1, <2>3, <3>1 DEF Kept
  <2> QED
    BY <1>1, <2>2, <2>3
<1>14. CASE AllowData(u)
  <2>1. op[u] # NoCall /\ op[u].pc = "allow" /\ op[u].hash \in Hashes
    BY <1>0, <1>14, CallIs DEF AllowData, At, NoCall
  <2> DEFINE q == op[u].hash
             upload == live[q].up \/ ~op[u].stopped
  <2>2. op'[u] # NoCall /\ op'[u].pc = "resume" /\ op'[u].hash = q
    BY <1>14, <2>1, GotoIs DEF AllowData, Resuming
  <2>3. /\ row' = row
        /\ \/ live' = live
           \/ live[q] # Absent /\ live' = [live EXCEPT ![q].down = TRUE, ![q].up = upload]
    BY <1>14 DEF AllowData, Flow
  <2>4. CASE q = h
    <3>1. Stage(u, h)' \notin Adding \cup Removing
      BY <2>2 DEF Stage, Adding, Removing
    <3>2. upload \in BOOLEAN
      OBVIOUS
    <3> HIDE DEF upload
    <3> QED
      BY <1>3, <1>5, <2>3, <2>4, <3>1, <3>2 DEF Kept
  <2> QED
    BY <1>1, <2>2, <2>4 DEF Stage
<1>15. CASE PauseState(u) \/ ResumeState(u)
  <2>1. /\ UNCHANGED <<row, live>>
        /\ op'[u].pc = "save"
    BY <1>0, <1>15 DEF PauseState, ResumeState, SetPaused
  <2>2. Stage(u, h)' \notin Adding \cup Removing
    BY <2>1 DEF Stage, Adding, Removing
  <2> QED
    BY <1>3, <2>1, <2>2 DEF Kept
<1>16. CASE SavePaused(u)
  <2>1. op[u] # NoCall /\ op[u].pc = "save" /\ op[u].hash \in Hashes
    BY <1>0, <1>16, CallIs DEF SavePaused, At, NoCall
  <2> DEFINE q == op[u].hash
  <2>2. /\ live' = live /\ op'[u] = NoCall
        /\ \/ /\ row[q] # Absent
              /\ row' = [row EXCEPT ![q] = [row[q] EXCEPT !.paused = op[u].paused]]
           \/ row' = row
    BY <1>0, <1>16 DEF SavePaused, Write, Done
  <2>3. row'[h] = Absent <=> row[h] = Absent
    <3>1. CASE q = h /\ row[h] # Absent
      <4>1. op[u].paused \in BOOLEAN
        BY <1>0, <2>1, CallIs
      <4>2. [row[h] EXCEPT !.paused = op[u].paused] \in Flags
        BY <1>t, <3>1, <4>1 DEF Flags
      <4> QED
        BY <1>0, <2>2, <3>1, <4>2, AbsentAssumption
    <3> QED
      BY <1>0, <2>2, <3>1
  <2> QED
    BY <1>2, <1>3, <2>2, <2>3 DEF Kept, Adding, Removing
<1> QED
  BY <1>6, <1>7, <1>8, <1>9, <1>10, <1>11, <1>12, <1>13, <1>14, <1>15, <1>16 DEF Operate

LEMMA OperateKeepsRows ==
  ASSUME EngineTypes, NEW u \in EngineUsers, NEW h \in Hashes, RowsKept(h), Operate(u)
  PROVE  RowsKept(h)'
<1> SUFFICES ASSUME h \notin torn'
             PROVE  /\ live'[h] # Absent => row'[h] # Absent
                    /\ \A c \in EngineUsers :
                         /\ Stage(c, h)' \in Adding => row'[h] # Absent
                         /\ Stage(c, h)' = "drop" =>
                              live'[h] = Absent \/ live'[h].id = op'[c].id
                         /\ Stage(c, h)' \in {"files", "unrow", "forget"} =>
                              live'[h] = Absent
                    /\ \A c, d \in EngineUsers :
                         Stage(c, h)' \in Adding => Stage(d, h)' \notin Removing
  BY DEF RowsKept, Adding, Removing
<1>1. h \notin torn
  BY StartIsNoticed
<1>2. /\ live[h] # Absent => row[h] # Absent
      /\ \A c \in EngineUsers :
           /\ Stage(c, h) \in Adding => row[h] # Absent
           /\ Stage(c, h) = "drop" => live[h] = Absent \/ live[h].id = op[c].id
           /\ Stage(c, h) \in {"files", "unrow", "forget"} => live[h] = Absent
      /\ \A c, d \in EngineUsers : Stage(c, h) \in Adding => Stage(d, h) \notin Removing
  BY <1>1 DEF RowsKept
<1>3. \A d \in EngineUsers \ {u} : Stage(d, h)' = Stage(d, h) /\ op'[d] = op[d]
  BY OthersStay
<1>4. /\ Stage(u, h) = "idle" /\ Stage(u, h)' \in Adding =>
           \A d \in EngineUsers \ {u} : Stage(d, h) \notin Removing
      /\ Stage(u, h) = "idle" /\ Stage(u, h)' \in Removing =>
           \A d \in EngineUsers \ {u} : Stage(d, h) \notin Adding
  BY StartIsNoticed DEF Adding, Removing
<1>5. CASE /\ Stage(u, h) = "idle" /\ Stage(u, h)' = "idle"
           /\ row'[h] = row[h] /\ live'[h] = live[h]
  BY <1>2, <1>3, <1>5 DEF Adding, Removing
<1>6. CASE /\ row'[h] = Absent <=> row[h] = Absent
           /\ live'[h] = Absent <=> live[h] = Absent
           /\ live[h] # Absent => live'[h].id = live[h].id
           /\ \/ Stage(u, h)' \notin Adding \cup Removing
              \/ Stage(u, h) = "spec" /\ Stage(u, h)' = "state"
              \/ Stage(u, h) = "files" /\ Stage(u, h)' = "unrow"
              \/ Stage(u, h) = "idle" /\ Stage(u, h)' = "drop" /\ op'[u].id = live[h].id
  BY <1>2, <1>3, <1>4, <1>6 DEF Adding, Removing
<1>7. CASE /\ Stage(u, h) = "idle" /\ Stage(u, h)' = "spec"
           /\ row'[h] # Absent /\ live'[h] = live[h]
  BY <1>2, <1>3, <1>4, <1>7 DEF Adding, Removing
<1>8. CASE /\ Stage(u, h) = "spec" /\ Stage(u, h)' = "state"
           /\ row'[h] = row[h] /\ live'[h] # Absent
  BY <1>2, <1>3, <1>8 DEF Adding, Removing
<1>9. CASE /\ Stage(u, h) = "drop" /\ Stage(u, h)' = "files" /\ row'[h] = row[h]
           /\ live'[h] = IF live[h] # Absent /\ live[h].id = op[u].id THEN Absent ELSE live[h]
  BY <1>2, <1>3, <1>9 DEF Adding, Removing
<1>10. CASE /\ Stage(u, h) = "unrow" /\ Stage(u, h)' = "forget"
            /\ row'[h] = Absent /\ live'[h] = live[h]
  BY <1>2, <1>3, <1>10 DEF Adding, Removing
<1> QED
  BY <1>5, <1>6, <1>7, <1>8, <1>9, <1>10, OperateRows DEF RowMoves

LEMMA OperateOneByOne ==
  ASSUME EngineTypes, NEW u \in EngineUsers, NEW h \in Hashes, OneByOne(h), Operate(u)
  PROVE  OneByOne(h)'
<1> SUFFICES ASSUME h \notin met'
             PROVE  /\ \A c \in EngineUsers : Stage(c, h)' # "idle" => Alone(c, h)'
                    /\ \A v \in EngineUsers : Alone(v, h)' => Coherent(v, h)'
  BY DEF OneByOne
<1>1. h \notin met /\ (Stage(u, h) = "idle" /\ Stage(u, h)' # "idle" => Alone(u, h))
  BY StartIsNoticed
<1>2. /\ \A c \in EngineUsers : Stage(c, h) # "idle" => Alone(c, h)
      /\ \A v \in EngineUsers : Alone(v, h) => Coherent(v, h)
  BY <1>1 DEF OneByOne
<1>3. /\ up /\ up'
      /\ \A d \in EngineUsers \ {u} : Stage(d, h)' = Stage(d, h) /\ op'[d] = op[d]
  BY OthersStay
<1>4. \A c \in EngineUsers : Stage(c, h)' # "idle" => Alone(c, h)'
  BY <1>1, <1>2, <1>3 DEF Alone
<1>5. CASE Alone(u, h)
  <2>1. Coherent(u, h)'
    BY <1>2, <1>5, OperateCoherent
  <2>2. ASSUME NEW v \in EngineUsers, v # u, Alone(v, h)' PROVE Coherent(v, h)'
    <3>1. Stage(v, h)' = "idle" /\ Stage(u, h)' = "idle"
      BY <1>3, <1>5, <2>2 DEF Alone
    <3> QED
      BY <2>1, <3>1 DEF Coherent, RowAround, PausedTogether, PausedLive, PausedGone
  <2> QED
    BY <1>4, <2>1, <2>2
<1>6. CASE ~Alone(u, h)
  <2>1. Stage(u, h) = "idle" /\ Stage(u, h)' = "idle"
    BY <1>1, <1>2, <1>6
  <2>2. /\ row'[h] = row[h] /\ live'[h] = live[h] /\ mem'[h] = mem[h]
        /\ h \in uneven' <=> h \in uneven
        /\ h \in freed' <=> h \in freed
    BY <2>1, OperateElsewhere
  <2>3. State(h)' = State(h) /\ (live[h] # Absent => (Still(h)' <=> Still(h)))
    BY <2>2 DEF State, Still
  <2>4. ASSUME NEW v \in EngineUsers, Alone(v, h)' PROVE Coherent(v, h)'
    <3>1. v # u /\ Alone(v, h)
      BY <1>3, <1>6, <2>1, <2>4 DEF Alone
    <3>2. Coherent(v, h) /\ Stage(v, h)' = Stage(v, h) /\ op'[v] = op[v]
      BY <1>2, <1>3, <3>1
    <3>3. RowAround(v, h)'
      BY <2>2, <3>2 DEF Coherent, RowAround
    <3>4. PausedTogether(v, h)'
      BY <1>3, <2>2, <2>3, <3>2 DEF Coherent, PausedTogether, PausedLive, PausedGone
    <3> QED
      BY <3>3, <3>4 DEF Coherent
  <2> QED
    BY <1>4, <2>4
<1> QED
  BY <1>5, <1>6

EngineInv == \A h \in Hashes : RowsKept(h) /\ OneByOne(h)

LEMMA InitEngineInv == EngineInit => EngineInv
<1> SUFFICES ASSUME EngineInit, NEW h \in Hashes PROVE RowsKept(h) /\ OneByOne(h)
  BY DEF EngineInv
<1>1. /\ row[h] = Absent /\ live[h] = Absent /\ mem[h] = Absent
      /\ \A c \in EngineUsers : Stage(c, h) = "idle"
  BY DEF EngineInit, Stage
<1>2. ~State(h).paused
  BY <1>1, FlagsAre DEF State
<1>3. RowsKept(h)
  BY <1>1 DEF RowsKept, Adding, Removing
<1>4. ASSUME NEW u \in EngineUsers PROVE Coherent(u, h)
  BY <1>1, <1>2 DEF Coherent, RowAround, PausedTogether, PausedGone
<1> QED
  BY <1>1, <1>3, <1>4 DEF OneByOne, Alone

LEMMA NextEngineInv ==
  ASSUME EngineTypes, RestoresRows, EngineInv, [EngineNext]_engineVars
  PROVE  EngineInv'
<1> SUFFICES ASSUME NEW h \in Hashes PROVE RowsKept(h)' /\ OneByOne(h)'
  BY DEF EngineInv
<1>0. RowsKept(h) /\ OneByOne(h)
  BY DEF EngineInv
<1>1. ASSUME NEW c \in EngineUsers, Operate(c) PROVE RowsKept(h)' /\ OneByOne(h)'
  BY <1>0, <1>1, OperateKeepsRows, OperateOneByOne
<1>2. CASE Enforce \/ \E k \in Hashes : GotInfo(k)
  <2>1. Gentle(h)
    BY <1>2, EnforceGentle
  <2>2. \A c \in EngineUsers : Stage(c, h)' = Stage(c, h) /\ op'[c] = op[c]
    BY <2>1 DEF Gentle, Stage
  <2>3. RowsKept(h)'
    BY <1>0, <2>1, <2>2 DEF RowsKept, Gentle
  <2>4. \A u \in EngineUsers : /\ Alone(u, h)' <=> Alone(u, h)
                               /\ Coherent(u, h) => Coherent(u, h)'
    BY <2>1, <2>2, GentleStep DEF Alone
  <2>5. OneByOne(h)'
    BY <1>0, <2>1, <2>2, <2>4 DEF OneByOne, Gentle
  <2> QED
    BY <2>3, <2>5
<1>3. CASE EngineCrash \/ Restored \/ \E k \in Hashes : Restore(k)
  <2>1. /\ ~up \/ EngineCrash
        /\ \A c \in EngineUsers : op'[c] = NoCall
        /\ \A c \in EngineUsers : ~up => op[c] = NoCall
    BY <1>3 DEF EngineCrash, Restored, Restore, RestoresRows
  <2>2. \A c \in EngineUsers : Stage(c, h)' = "idle" /\ Alone(c, h)'
    BY <2>1 DEF Stage, Alone
  <2>3. CASE EngineCrash
    <3>1. live'[h] = Absent /\ row' = row /\ mem'[h] = Absent /\ up' = FALSE
          /\ enforcer'.todo = {k \in Hashes : row[k] # Absent}
      BY <2>3 DEF EngineCrash, Resting
    <3>2. ~State(h)'.paused
      BY <3>1, FlagsAre DEF State
    <3>3. \A u \in EngineUsers : Coherent(u, h)'
      BY <2>2, <3>1, <3>2 DEF Coherent, RowAround, PausedTogether, PausedGone
    <3> QED
      BY <2>2, <3>1, <3>3 DEF RowsKept, OneByOne, Adding, Removing
  <2>4. CASE Restored \/ \E k \in Hashes : Restore(k)
    <3>1. /\ \A c \in EngineUsers : Stage(c, h) = "idle" /\ Alone(c, h)
          /\ row' = row /\ torn' = torn /\ met' = met
      BY <2>1, <2>4 DEF Stage, Alone, Restored, Restore, RestoresRows, ghosts
    <3>2. live'[h] = live[h] \/ row[h] # Absent
      <4>1. ASSUME NEW k \in Hashes, Restore(k) PROVE live'[h] = live[h] \/ row[h] # Absent
        <5>1. row[k] # Absent /\ (live' = live \/ \E made : live' = [live EXCEPT ![k] = made])
          BY <4>1 DEF Restore, RestoresRows
        <5>2. live \in [Hashes -> Torrent \cup {Absent}]
          BY DEF EngineTypes, EngineTypeOK
        <5> QED
          BY <5>1, <5>2
      <4> QED
        BY <2>4, <4>1 DEF Restored
    <3>3. RowsKept(h)'
      BY <1>0, <2>2, <3>1, <3>2 DEF RowsKept, Adding, Removing
    <3>4. \A u \in EngineUsers : Coherent(u, h) => Coherent(u, h)'
      BY <2>4, RestartCoherent
    <3> QED
      BY <1>0, <2>2, <3>1, <3>3, <3>4 DEF OneByOne
  <2> QED
    BY <1>3, <2>3, <2>4
<1>4. CASE UNCHANGED engineVars
  <2>1. \A u \in EngineUsers : /\ Stage(u, h)' = Stage(u, h)
                               /\ Alone(u, h)' <=> Alone(u, h)
                               /\ Coherent(u, h) => Coherent(u, h)'
    <3>1. UNCHANGED <<row, live, mem, op, enforcer, up, uneven, freed>>
      BY <1>4 DEF engineVars, ghosts
    <3>2. ASSUME NEW u \in EngineUsers
          PROVE  /\ Stage(u, h)' = Stage(u, h) /\ (Alone(u, h)' <=> Alone(u, h))
                 /\ State(h)' = State(h) /\ (Still(h)' <=> Still(h))
      BY <3>1 DEF Stage, State, Still, Alone
    <3>3. ASSUME NEW u \in EngineUsers, Coherent(u, h) PROVE Coherent(u, h)'
      BY <3>1, <3>2, <3>3
      DEF Coherent, RowAround, PausedTogether, PausedLive, PausedGone
    <3> QED
      BY <3>2, <3>3
  <2> QED
    BY <1>0, <1>4, <2>1 DEF engineVars, ghosts, RowsKept, OneByOne
<1> QED
  BY <1>1, <1>2, <1>3, <1>4 DEF EngineNext

LEMMA EngineInvariant == EngineSpec => []EngineInv
<1>1. EngineTypes /\ RestoresRows /\ EngineInv /\ [EngineNext]_engineVars => EngineInv'
  BY NextEngineInv
<1> QED
  BY <1>1, InitEngineInv, EngineTypeCorrect, PTL DEF EngineSpec

(* Every torrent the library holds has its row, whichever operations run at   *)
(* once, through failed additions, removals that end half way, crashes and    *)
(* the enforcer's steps in between ("The torrent list survives restarts",     *)
(* engine.go:2); a torrent being added while it is being removed is the only  *)
(* exception.                                                                 *)
THEOREM TorrentsHaveRows == EngineSpec => []LiveHasRow
<1>1. EngineInv => LiveHasRow
  BY DEF EngineInv, RowsKept, LiveHasRow, Settled
<1> QED
  BY <1>1, EngineInvariant, PTL

(* A torrent at which no two operations met is paused in memory exactly when  *)
(* its row says so, whatever a restart or the enforcer does, and then moves no *)
(* data unless it was added again, or a failure left the row behind           *)
(* (PauseTorrent, ResumeTorrent, restoreOne and enforceOnce of engine.go).    *)
THEOREM PauseIsKept ==
  ASSUME EngineUsers # {}
  PROVE  EngineSpec => []PauseHolds
<1>1. EngineTypes /\ EngineInv => PauseHolds
  <2> SUFFICES ASSUME EngineTypes, EngineInv,
                      NEW h \in Hashes, Settled(h), h \notin uneven \cup met
               PROVE  /\ mem[h].paused = row[h].paused
                      /\ mem[h].paused /\ h \notin freed => ~live[h].down /\ ~live[h].up
    BY DEF PauseHolds
  <2>1. PICK u \in EngineUsers : TRUE
    OBVIOUS
  <2>2. \A c \in EngineUsers : Stage(c, h) = "idle"
    BY DEF Settled, Stage
  <2>3. Coherent(u, h) /\ live[h] # Absent /\ up
    BY <2>2 DEF EngineInv, OneByOne, Alone, Settled
  <2>4. mem[h] # Absent
    BY <2>2, <2>3 DEF Coherent, RowAround
  <2>5. PausedLive(u, h) /\ State(h) = mem[h]
    BY <2>3, <2>4 DEF Coherent, PausedTogether, State
  <2> QED
    BY <2>2, <2>5 DEF PausedLive, Still
<1> QED
  BY <1>1, EngineInvariant, EngineTypeCorrect, PTL
=============================================================================
