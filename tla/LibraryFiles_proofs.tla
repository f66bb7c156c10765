------------------------ MODULE LibraryFiles_proofs ------------------------
(***************************************************************************)
(* What holds of rows and files for any number of movies, directories,     *)
(* requests and faults, and any grace period.                              *)
(***************************************************************************)
EXTENDS LibraryFiles, FiniteSetTheorems, TLAPS

RowState == [id : Nat, side : Sides, age : 0..Old \cup {Never}]
Targets == Titles \X Nat

AskState ==
  {NoAsk}
    \cup [pc : {"start"}, from : Sides, to : Sides, mv : BOOLEAN,
          targets : SUBSET Targets]
    \cup [pc : {"unlink", "unrow"}, movie : Titles, id : Nat, side : Sides]

MoveState ==
  {NoMove}
    \cup [pc : {"next"}, from : Sides, to : Sides, mv : BOOLEAN,
          targets : SUBSET Targets]
    \cup [pc : {"next", "move", "save"}, row : Targets, from : Sides,
          to : Sides, mv : BOOLEAN, targets : SUBSET Targets]

Listed == [movie : Titles, id : Nat, side : Sides, age : 0..Old \cup {Never}]
DriftState == {NoCheck} \cup [pc : {"check"}, rows : SUBSET Listed]

LibTypes ==
  /\ row \in [Titles -> RowState \cup {NoRow}]
  /\ ids \in [Titles -> Nat]
  /\ stored \subseteq Titles \X Sides
  /\ root \in Sides

ServerTypes ==
  /\ running \in BOOLEAN
  /\ ask \in [Askers -> AskState]
  /\ move \in [Askers -> MoveState]
  /\ drift \in DriftState

GhostTypes == misses \in [Titles -> Nat] /\ up \in BOOLEAN /\ due \in BOOLEAN

(* The movie of a row is not wanted, and the row is its latest.            *)
LatestRow ==
  \A m \in Titles : /\ row[m] = NoRow <=> m \in wanted
                    /\ row[m] # NoRow => row[m].id = ids[m]

(* One migration at a time (Service.status.Running).                       *)
OneMigration ==
  /\ \A c \in Askers : move[c] # NoMove => running
  /\ \A c, d \in Askers : move[c] # NoMove /\ move[d] # NoMove => c = d

Types == LibTypes /\ ServerTypes /\ GhostTypes /\ LatestRow /\ OneMigration
-----------------------------------------------------------------------------
LEMMA NoRowIsNone == NoRow \notin RowState
<1>1. RowState \subseteq [id : Nat, side : Sides, age : Nat \cup {Never}]
  BY FilesAssumption DEF RowState, Old
<1> QED
  BY <1>1, FilesAssumption

(* A migration in progress has targets, one between two steps a row too.   *)
LEMMA MoveIsGoing ==
  ASSUME ServerTypes, NEW c \in Askers
  PROVE  /\ move[c].pc \in {"off", "next", "move", "save"}
         /\ move[c].pc = "off" <=> move[c] = NoMove
         /\ move[c].pc # "off" =>
              /\ move[c].from \in Sides /\ move[c].to \in Sides
              /\ move[c].mv \in BOOLEAN /\ move[c].targets \subseteq Targets
         /\ move[c].pc \in {"move", "save"} =>
              /\ move[c] \in [pc : {"next", "move", "save"}, row : Targets,
                              from : Sides, to : Sides, mv : BOOLEAN,
                              targets : SUBSET Targets]
              /\ move[c].row[1] \in Titles /\ move[c].row[2] \in Nat
<1>1. move[c] \in MoveState
  BY DEF ServerTypes
<1>2. CASE move[c] = NoMove
  BY <1>2 DEF NoMove
<1>3. CASE move[c] \in [pc : {"next"}, from : Sides, to : Sides, mv : BOOLEAN,
                        targets : SUBSET Targets]
  BY <1>3 DEF NoMove
<1>4. CASE move[c] \in [pc : {"next", "move", "save"}, row : Targets,
                        from : Sides, to : Sides, mv : BOOLEAN,
                        targets : SUBSET Targets]
  BY <1>4 DEF NoMove, Targets
<1> QED
  BY <1>1, <1>2, <1>3, <1>4 DEF MoveState

LEMMA AskIsGoing ==
  ASSUME ServerTypes, NEW c \in Askers
  PROVE  /\ ask[c].pc = "start" =>
              ask[c] \in [pc : {"start"}, from : Sides, to : Sides,
                          mv : BOOLEAN, targets : SUBSET Targets]
         /\ ask[c].pc \in {"unlink", "unrow"} =>
              ask[c] \in [pc : {"unlink", "unrow"}, movie : Titles, id : Nat,
                          side : Sides]
  BY DEF ServerTypes, AskState, NoAsk
-----------------------------------------------------------------------------
LEMMA InitTypes == FilesInit => Types
<1> SUFFICES ASSUME FilesInit PROVE Types
  OBVIOUS
<1>1. row \in [Titles -> RowState]
  BY FilesAssumption DEF FilesInit, RowState, Old
<1>2. LibTypes
  BY <1>1, FilesAssumption DEF FilesInit, LibTypes
<1>3. ServerTypes
  BY DEF FilesInit, ServerTypes, AskState, MoveState, DriftState
<1>4. LatestRow
  BY <1>1, NoRowIsNone, FilesAssumption DEF FilesInit, LatestRow
<1>5. OneMigration
  BY DEF FilesInit, OneMigration
<1> QED
  BY <1>2, <1>3, <1>4, <1>5 DEF FilesInit, Types, GhostTypes

(* A row may change its directory.                                         *)
LEMMA RowMoves ==
  ASSUME LibTypes, LatestRow, NEW m \in Titles, NEW s \in Sides,
         row[m] # NoRow, UNCHANGED <<ids, wanted>>,
         row' = [row EXCEPT ![m].side = s]
  PROVE  /\ row' \in [Titles -> RowState \cup {NoRow}] /\ LatestRow'
         /\ row'[m].side = s /\ row'[m].id = row[m].id /\ row'[m] # NoRow
         /\ row'[m].age = row[m].age
         /\ \A n \in Titles \ {m} : row'[n] = row[n]
<1>1. row[m] \in RowState
  BY DEF LibTypes
<1>2. /\ row'[m] \in RowState /\ row'[m].id = row[m].id /\ row'[m].side = s
      /\ row'[m].age = row[m].age
  BY <1>1 DEF RowState, LibTypes
<1>3. \A n \in Titles \ {m} : row'[n] = row[n]
  BY DEF LibTypes
<1> QED
  BY <1>2, <1>3, NoRowIsNone DEF LatestRow, LibTypes

(* It may become young again.                                              *)
LEMMA RowRenewed ==
  ASSUME LibTypes, LatestRow, NEW m \in Titles, row[m] # NoRow,
         UNCHANGED <<ids, wanted>>, row' = [row EXCEPT ![m].age = 0]
  PROVE  /\ row' \in [Titles -> RowState \cup {NoRow}] /\ LatestRow'
         /\ row'[m].age = 0 /\ row'[m].side = row[m].side
         /\ row'[m].id = row[m].id /\ row'[m] # NoRow
         /\ \A n \in Titles \ {m} : row'[n] = row[n]
<1>1. row[m] \in RowState /\ 0 \in 0..Old
  BY FilesAssumption DEF LibTypes, Old
<1>2. /\ row'[m] \in RowState /\ row'[m].id = row[m].id /\ row'[m].age = 0
      /\ row'[m].side = row[m].side
  BY <1>1 DEF RowState, LibTypes
<1>3. \A n \in Titles \ {m} : row'[n] = row[n]
  BY DEF LibTypes
<1> QED
  BY <1>2, <1>3, NoRowIsNone DEF LatestRow, LibTypes

(* It may be deleted, with its movie wanted again.                         *)
LEMMA RowDeleted ==
  ASSUME LibTypes, LatestRow, NEW m \in Titles, UNCHANGED ids,
         DeleteAndRevert(m)
  PROVE  /\ row' \in [Titles -> RowState \cup {NoRow}] /\ LatestRow'
         /\ row'[m] = NoRow
         /\ \A n \in Titles \ {m} : row'[n] = row[n]
  BY DEF DeleteAndRevert, LatestRow, LibTypes

(* It may become older.                                                    *)
LEMMA RowsAge ==
  ASSUME LibTypes, LatestRow, UNCHANGED <<ids, wanted>>,
         row' = [m \in Titles |-> Aged(row[m])]
  PROVE  /\ row' \in [Titles -> RowState \cup {NoRow}] /\ LatestRow'
         /\ \A m \in Titles : row[m] = NoRow => row'[m] = NoRow
         /\ \A m \in Titles : row[m] # NoRow =>
              /\ row'[m] # NoRow /\ row'[m].side = row[m].side
              /\ row'[m].id = row[m].id
              /\ row[m].age = Never => row'[m].age = Never
              /\ row[m].age # Never =>
                   row'[m].age \in {row[m].age, row[m].age + 1}
<1>1. ASSUME NEW m \in Titles, row[m] = NoRow
      PROVE  row'[m] = NoRow
  BY <1>1 DEF Aged
<1>2. ASSUME NEW m \in Titles, row[m] # NoRow
      PROVE  /\ row'[m] \in RowState /\ row'[m].side = row[m].side
             /\ row'[m].id = row[m].id
             /\ row[m].age = Never => row'[m].age = Never
             /\ row[m].age # Never =>
                  row'[m].age \in {row[m].age, row[m].age + 1}
  <2>1. row[m] \in RowState
    BY <1>2 DEF LibTypes
  <2>2. CASE row[m].age = Never \/ row[m].age = Old
    <3>1. row'[m] = row[m]
      BY <2>2 DEF Aged
    <3> QED
      BY <2>1, <3>1
  <2>3. CASE ~(row[m].age = Never \/ row[m].age = Old)
    <3>1. row'[m] = [row[m] EXCEPT !.age = @ + 1]
      BY <1>2, <2>3 DEF Aged
    <3>2. row[m].age + 1 \in 0..Old
      BY <2>1, <2>3, FilesAssumption DEF RowState, Old
    <3>3. row'[m] \in RowState /\ row'[m].side = row[m].side
      BY <2>1, <3>1, <3>2 DEF RowState
    <3>4. row'[m].id = row[m].id /\ row'[m].age = row[m].age + 1
      BY <2>1, <3>1 DEF RowState
    <3> QED
      BY <2>3, <3>3, <3>4
  <2> QED
    BY <2>2, <2>3
<1> QED
  BY <1>1, <1>2, NoRowIsNone DEF LatestRow, LibTypes
-----------------------------------------------------------------------------
(* Where a migration ends, none is left.                                   *)
LEMMA FinishEnds ==
  ASSUME ServerTypes, OneMigration, NEW c \in Askers, move[c].pc # "off",
         Finish(c)
  PROVE  /\ move' \in [Askers -> MoveState] /\ running' \in BOOLEAN
         /\ OneMigration'
         /\ \A d \in Askers : move'[d] = NoMove
<1>1. move[c] # NoMove
  BY DEF NoMove
<1>2. move' = [move EXCEPT ![c] = NoMove] /\ running' = FALSE
  BY DEF Finish
<1>3. move \in [Askers -> MoveState] /\ NoMove \in MoveState
  BY DEF ServerTypes, MoveState
<1>4. move' \in [Askers -> MoveState]
  BY <1>2, <1>3
<1>5. \A d \in Askers : move'[d] = NoMove
  BY <1>1, <1>2, <1>3 DEF OneMigration
<1> QED
  BY <1>2, <1>4, <1>5 DEF OneMigration

(* One that goes on stays the only one.                                    *)
LEMMA MoveGoesOn ==
  ASSUME ServerTypes, OneMigration, NEW c \in Askers, move[c].pc # "off",
         NEW r \in MoveState, r.pc # "off",
         move' = [move EXCEPT ![c] = r], UNCHANGED running
  PROVE  /\ move' \in [Askers -> MoveState] /\ OneMigration'
         /\ move'[c] = r
         /\ \A d \in Askers \ {c} : move'[d] = NoMove
<1>1. move[c] # NoMove
  BY DEF NoMove
<1>2. move \in [Askers -> MoveState]
  BY DEF ServerTypes
<1>3. move' \in [Askers -> MoveState] /\ move'[c] = r
  BY <1>2
<1>4. \A d \in Askers \ {c} : move'[d] = NoMove
  BY <1>1, <1>2 DEF OneMigration
<1>5. running'
  BY <1>1 DEF OneMigration
<1> QED
  BY <1>3, <1>4, <1>5 DEF OneMigration

(* A target is passed over, or taken.                                      *)
LEMMA VisitMoves ==
  ASSUME Types, NEW c \in Askers, Visit(c)
  PROVE  \E r \in MoveState :
           /\ move' = [move EXCEPT ![c] = r]
           /\ r.pc \in {"next", "move", "save"}
           /\ r.pc \in {"move", "save"} =>
                OnDisk(c, r.row[1]) /\ r.to = move[c].to
           /\ r.pc = "save" => ~move[c].mv
<1>1. move[c].pc = "next" /\ ServerTypes
  BY DEF Visit, Types
<1>2. PICK t \in move[c].targets :
        \/ /\ ~OnDisk(c, t[1])
           /\ move' = [move EXCEPT ![c].targets = @ \ {t}]
        \/ /\ OnDisk(c, t[1])
           /\ move' = [move EXCEPT ![c] =
                [pc |-> IF @.mv THEN "move" ELSE "save", row |-> t,
                 from |-> @.from, to |-> @.to, mv |-> @.mv,
                 targets |-> @.targets \ {t}]]
  BY DEF Visit
<1>3. /\ move[c].from \in Sides /\ move[c].to \in Sides
      /\ move[c].mv \in BOOLEAN /\ move[c].targets \subseteq Targets
      /\ move[c] \in MoveState
  BY <1>1, MoveIsGoing DEF ServerTypes
<1>4. CASE ~OnDisk(c, t[1])
  <2> DEFINE r == [move[c] EXCEPT !.targets = @ \ {t}]
  <2>1. move' = [move EXCEPT ![c] = r]
    BY <1>2, <1>4
  <2>2. r \in MoveState /\ r.pc = "next"
    BY <1>1, <1>3 DEF MoveState, NoMove
  <2> QED
    BY <2>1, <2>2
<1>5. CASE OnDisk(c, t[1])
  <2> DEFINE r == [pc |-> IF move[c].mv THEN "move" ELSE "save", row |-> t,
                   from |-> move[c].from, to |-> move[c].to,
                   mv |-> move[c].mv, targets |-> move[c].targets \ {t}]
  <2>1. move' = [move EXCEPT ![c] = r]
    BY <1>2, <1>5
  <2>2. r \in MoveState
    BY <1>3 DEF MoveState
  <2>3. /\ r.pc \in {"next", "move", "save"}
        /\ r.row[1] = t[1] /\ r.to = move[c].to
        /\ r.pc = "save" => ~move[c].mv
    OBVIOUS
  <2> HIDE DEF r
  <2> QED
    BY <1>5, <2>1, <2>2, <2>3
<1> QED
  BY <1>4, <1>5

(* From one step of a target to the next.                                  *)
LEMMA StepMoves ==
  ASSUME Types, NEW c \in Askers, move[c].pc \in {"move", "save"},
         NEW pc \in {"next", "save"}, move' = [move EXCEPT ![c].pc = pc],
         UNCHANGED running
  PROVE  /\ move' \in [Askers -> MoveState] /\ OneMigration'
         /\ move'[c] = [move[c] EXCEPT !.pc = pc]
         /\ move'[c].pc = pc /\ move'[c].row = move[c].row
         /\ move'[c].to = move[c].to
         /\ \A d \in Askers \ {c} : move'[d] = NoMove
<1> DEFINE r == [move[c] EXCEPT !.pc = pc]
<1>1. /\ move[c] \in [pc : {"next", "move", "save"}, row : Targets,
                      from : Sides, to : Sides, mv : BOOLEAN,
                      targets : SUBSET Targets]
  BY MoveIsGoing DEF Types
<1>2. r \in [pc : {"next", "move", "save"}, row : Targets, from : Sides,
             to : Sides, mv : BOOLEAN, targets : SUBSET Targets]
  BY <1>1
<1>3. r \in MoveState /\ r.pc = pc /\ r.row = move[c].row /\ r.to = move[c].to
  BY <1>1, <1>2 DEF MoveState
<1>4. move' = [move EXCEPT ![c] = r] /\ move[c].pc # "off" /\ r.pc # "off"
  BY <1>3
<1> HIDE DEF r
<1>5. ServerTypes /\ OneMigration
  BY DEF Types
<1>6. /\ move' \in [Askers -> MoveState] /\ OneMigration' /\ move'[c] = r
      /\ \A d \in Askers \ {c} : move'[d] = NoMove
  BY <1>3, <1>4, <1>5, MoveGoesOn
<1> QED
  BY <1>3, <1>6 DEF r
-----------------------------------------------------------------------------
(* The requests keep the types.                                            *)
LEMMA RequestTypes ==
  ASSUME Types, NEW c \in Askers, Request(c)
  PROVE  Types'
<1> USE DEF Types
<1>1. CASE Collect(c)
  <2>1. PICK from, to \in Sides, mv \in BOOLEAN :
          ask' = [ask EXCEPT ![c] =
            [pc |-> "start", from |-> from, to |-> to, mv |-> mv,
             targets |-> {<<m, row[m].id>> : m \in
                {n \in Titles : row[n] # NoRow /\ row[n].side = from}}]]
    BY <1>1 DEF Collect
  <2> DEFINE T == {<<m, row[m].id>> : m \in
                    {n \in Titles : row[n] # NoRow /\ row[n].side = from}}
  <2>2. T \in SUBSET Targets
    BY DEF LibTypes, RowState, Targets
  <2> HIDE DEF T
  <2>3. [pc |-> "start", from |-> from, to |-> to, mv |-> mv, targets |-> T]
          \in AskState
    BY <2>2 DEF AskState
  <2>4. ask' \in [Askers -> AskState]
    BY <2>1, <2>3 DEF ServerTypes, T
  <2> QED
    BY <1>1, <2>4
       DEF Collect, shelfVars, ghosts, LibTypes, ServerTypes, GhostTypes,
           LatestRow, OneMigration
<1>2. CASE Begin(c)
  <2>1. ask[c] \in [pc : {"start"}, from : Sides, to : Sides, mv : BOOLEAN,
                    targets : SUBSET Targets]
    BY <1>2, AskIsGoing DEF Begin
  <2>2. ask' \in [Askers -> AskState]
    BY <1>2 DEF Begin, ServerTypes, AskState
  <2>3. running' \in BOOLEAN /\ move' \in [Askers -> MoveState] /\ OneMigration'
    <3>1. CASE running
      BY <1>2, <3>1 DEF Begin, ServerTypes, OneMigration
    <3>2. CASE ~running
      <4> DEFINE r == [pc |-> "next", from |-> ask[c].from, to |-> ask[c].to,
                       mv |-> ask[c].mv, targets |-> ask[c].targets]
      <4>1. r \in MoveState
        BY <2>1 DEF MoveState
      <4>2. running' = TRUE /\ move' = [move EXCEPT ![c] = r]
        BY <1>2, <3>2 DEF Begin
      <4> HIDE DEF r
      <4>3. move' \in [Askers -> MoveState]
        BY <4>1, <4>2 DEF ServerTypes
      <4>4. \A d \in Askers \ {c} : move'[d] = NoMove
        BY <3>2, <4>2 DEF ServerTypes, OneMigration
      <4> QED
        BY <4>2, <4>3, <4>4 DEF OneMigration
    <3> QED
      BY <3>1, <3>2
  <2> QED
    BY <1>2, <2>2, <2>3
       DEF Begin, shelfVars, ghosts, LibTypes, ServerTypes, GhostTypes, LatestRow
<1>3. CASE FindFile(c)
  <2>1. PICK m \in Titles :
          /\ row[m] # NoRow
          /\ ask' = [ask EXCEPT ![c] = [pc |-> "unlink", movie |-> m,
                                        id |-> row[m].id, side |-> row[m].side]]
    BY <1>3 DEF FindFile
  <2>2. [pc |-> "unlink", movie |-> m, id |-> row[m].id, side |-> row[m].side]
          \in AskState
    BY <2>1 DEF LibTypes, RowState, AskState
  <2>3. ask' \in [Askers -> AskState]
    BY <2>1, <2>2 DEF ServerTypes
  <2> QED
    BY <1>3, <2>3
       DEF FindFile, shelfVars, ghosts, LibTypes, ServerTypes, GhostTypes,
           LatestRow, OneMigration
<1>4. CASE Unlink(c)
  <2>1. ask[c] \in [pc : {"unlink", "unrow"}, movie : Titles, id : Nat,
                    side : Sides]
    BY <1>4, AskIsGoing DEF Unlink
  <2>2. [ask[c] EXCEPT !.pc = "unrow"] \in AskState
    BY <2>1 DEF AskState
  <2>3. ask' \in [Askers -> AskState]
    BY <1>4, <2>2 DEF Unlink, ServerTypes
  <2>4. stored' \subseteq Titles \X Sides
    BY <1>4 DEF Unlink, LibTypes
  <2> QED
    BY <1>4, <2>3, <2>4
       DEF Unlink, LibTypes, ServerTypes, GhostTypes, LatestRow, OneMigration
<1>5. CASE Unrow(c)
  <2>1. ask[c] \in [pc : {"unlink", "unrow"}, movie : Titles, id : Nat,
                    side : Sides]
    BY <1>5, AskIsGoing DEF Unrow
  <2>2. ask' \in [Askers -> AskState]
    BY <1>5 DEF Unrow, ServerTypes, AskState
  <2>3. row' \in [Titles -> RowState \cup {NoRow}] /\ LatestRow'
    <3>1. CASE DeleteAndRevert(ask[c].movie)
      BY <1>5, <2>1, <3>1, RowDeleted DEF Unrow
    <3>2. CASE UNCHANGED <<row, wanted>>
      BY <1>5, <3>2 DEF Unrow, LibTypes, LatestRow
    <3> QED
      BY <1>5, <3>1, <3>2 DEF Unrow
  <2> QED
    BY <1>5, <2>2, <2>3
       DEF Unrow, ghosts, LibTypes, ServerTypes, GhostTypes, OneMigration
<1> QED
  BY <1>1, <1>2, <1>3, <1>4, <1>5 DEF Request

(* So does a migration.                                                    *)
LEMMA MigrateTypes ==
  ASSUME Types, NEW c \in Askers, Migrate(c)
  PROVE  Types'
<1> USE DEF Types
<1>0. move[c].pc # "off"
  BY DEF Migrate, Visit, MoveFile, Save, PersistRoot
<1>1. CASE Visit(c)
  <2>1. PICK r \in MoveState : /\ move' = [move EXCEPT ![c] = r]
                               /\ r.pc \in {"next", "move", "save"}
    BY <1>1, VisitMoves
  <2>2. move' \in [Askers -> MoveState] /\ OneMigration'
    BY <1>0, <1>1, <2>1, MoveGoesOn DEF Visit
  <2> QED
    BY <1>1, <2>2
       DEF Visit, shelfVars, ghosts, LibTypes, ServerTypes, GhostTypes, LatestRow
<1>2. CASE MoveFile(c)
  <2>1. move' \in [Askers -> MoveState] /\ running' \in BOOLEAN /\ OneMigration'
    <3>1. CASE Finish(c)
      BY <1>0, <3>1, FinishEnds
    <3>2. CASE move' = [move EXCEPT ![c].pc = "save"] /\ UNCHANGED running
      BY <1>2, <3>2, StepMoves DEF MoveFile, ServerTypes
    <3> QED
      BY <1>2, <3>1, <3>2 DEF MoveFile
  <2>2. move[c].row[1] \in Titles /\ move[c].to \in Sides
    BY <1>2, MoveIsGoing DEF MoveFile
  <2>3. stored' \subseteq Titles \X Sides
    BY <1>2, <2>2 DEF MoveFile, LibTypes
  <2> QED
    BY <1>2, <2>1, <2>3
       DEF MoveFile, ghosts, LibTypes, ServerTypes, GhostTypes, LatestRow
<1>3. CASE Save(c)
  <2>1. move[c].row[1] \in Titles /\ move[c].to \in Sides
    BY <1>3, MoveIsGoing DEF Save
  <2>2. CASE /\ HasRow(move[c].row[1], move[c].row[2])
             /\ row' = [row EXCEPT ![move[c].row[1]].side = move[c].to]
             /\ move' = [move EXCEPT ![c].pc = "next"]
             /\ UNCHANGED running
    <3>1. move' \in [Askers -> MoveState] /\ OneMigration'
      BY <1>3, <2>2, StepMoves DEF Save
    <3>2. row' \in [Titles -> RowState \cup {NoRow}] /\ LatestRow'
      BY <1>3, <2>1, <2>2, RowMoves DEF Save, HasRow
    <3> QED
      BY <1>3, <2>2, <3>1, <3>2 DEF Save, LibTypes, ServerTypes, GhostTypes
  <2>3. CASE Finish(c) /\ UNCHANGED row
    BY <1>0, <1>3, <2>3, FinishEnds
       DEF Save, LibTypes, ServerTypes, GhostTypes, LatestRow
  <2> QED
    BY <1>3, <2>2, <2>3 DEF Save
<1>4. CASE PersistRoot(c)
  <2>1. move' \in [Askers -> MoveState] /\ running' \in BOOLEAN /\ OneMigration'
    BY <1>0, <1>4, FinishEnds DEF PersistRoot
  <2>2. root' \in Sides
    BY <1>0, <1>4, MoveIsGoing DEF PersistRoot, LibTypes
  <2> QED
    BY <1>4, <2>1, <2>2
       DEF PersistRoot, ghosts, LibTypes, ServerTypes, GhostTypes, LatestRow
<1> QED
  BY <1>1, <1>2, <1>3, <1>4 DEF Migrate
-----------------------------------------------------------------------------
(* The drift check works off rows it has read.                             *)
LEMMA ListedRows ==
  ASSUME ServerTypes, drift.pc = "check"
  PROVE  drift.rows \subseteq Listed
  BY DEF ServerTypes, DriftState, NoCheck

(* A check leaves the row, makes it young, or deletes it; others it leaves.*)
LEMMA CheckRows ==
  ASSUME Types, NEW r \in Listed, Seen(r) \/ Missing(r) \/ CheckFails(r),
         UNCHANGED ids
  PROVE  /\ row' \in [Titles -> RowState \cup {NoRow}] /\ LatestRow'
         /\ \A n \in Titles \ {r.movie} : row'[n] = row[n]
         /\ \/ row'[r.movie] = row[r.movie]
            \/ row'[r.movie] = NoRow
            \/ /\ row[r.movie] # NoRow /\ row'[r.movie] # NoRow
               /\ row'[r.movie].side = row[r.movie].side
               /\ row'[r.movie].id = row[r.movie].id
<1> DEFINE m == r.movie
<1>0. m \in Titles /\ LibTypes /\ LatestRow
  BY DEF Listed, Types
<1>1. CASE UNCHANGED <<row, wanted>>
  BY <1>0, <1>1 DEF LibTypes, LatestRow
<1>2. CASE Bump(r) /\ UNCHANGED wanted
  <2>1. CASE HasRow(m, r.id)
    <3>1. row[m] # NoRow /\ row' = [row EXCEPT ![m].age = 0]
      BY <1>2, <2>1 DEF Bump, HasRow
    <3> HIDE DEF m
    <3>2. /\ row' \in [Titles -> RowState \cup {NoRow}] /\ LatestRow'
          /\ row'[m].side = row[m].side /\ row'[m].id = row[m].id
          /\ row'[m] # NoRow /\ \A n \in Titles \ {m} : row'[n] = row[n]
      BY <1>0, <1>2, <3>1, RowRenewed
    <3> QED
      BY <3>1, <3>2 DEF m
  <2>2. CASE ~HasRow(m, r.id)
    BY <1>1, <1>2, <2>2 DEF Bump
  <2> QED
    BY <2>1, <2>2
<1>3. CASE DeleteAndRevert(m)
  <2> HIDE DEF m
  <2>1. /\ row' \in [Titles -> RowState \cup {NoRow}] /\ LatestRow'
        /\ row'[m] = NoRow /\ \A n \in Titles \ {m} : row'[n] = row[n]
    BY <1>0, <1>3, RowDeleted
  <2> QED
    BY <2>1 DEF m
<1>4. \/ UNCHANGED <<row, wanted>>
      \/ Bump(r) /\ UNCHANGED wanted
      \/ DeleteAndRevert(m)
  BY DEF Seen, Missing, CheckFails
<1> HIDE DEF m
<1> QED
  BY <1>1, <1>2, <1>3, <1>4

LEMMA DriftTypes ==
  ASSUME Types, DriftCheck
  PROVE  Types'
<1> USE DEF Types
<1>1. CASE ScheduledRun \/ RunNow
  <2> DEFINE T == {[movie |-> m, id |-> row[m].id, side |-> row[m].side,
                    age |-> row[m].age] :
                      m \in {n \in Titles : row[n] # NoRow}}
  <2>1. List
    BY <1>1 DEF ScheduledRun, RunNow
  <2>2. T \in SUBSET Listed
    BY DEF LibTypes, RowState, Listed
  <2>3. drift' = Checking(T)
    BY <2>1 DEF List
  <2>4. due' \in BOOLEAN
    BY <1>1 DEF ScheduledRun, RunNow, GhostTypes
  <2> HIDE DEF T
  <2>5. drift' \in DriftState
    BY <2>2, <2>3 DEF Checking, DriftState
  <2> QED
    BY <2>1, <2>4, <2>5
       DEF List, shelfVars, ghosts, LibTypes, ServerTypes, GhostTypes, LatestRow,
           OneMigration
<1>2. CASE Check
  <2>1. PICK r \in drift.rows : /\ Seen(r) \/ Missing(r) \/ CheckFails(r)
                                /\ Checked(r) /\ Counted(r)
    BY <1>2 DEF Check
  <2>2. r \in Listed /\ drift.rows \subseteq Listed
    BY <1>2, <2>1, ListedRows DEF Check
  <2>3. row' \in [Titles -> RowState \cup {NoRow}] /\ LatestRow'
    BY <1>2, <2>1, <2>2, CheckRows DEF Check
  <2>4. drift' \in DriftState
    BY <2>1, <2>2 DEF Checked, Checking, DriftState
  <2>5. misses' \in [Titles -> Nat]
    BY <2>1, <2>2, FilesAssumption DEF Counted, GhostTypes, Listed
  <2> QED
    BY <1>2, <2>3, <2>4, <2>5
       DEF Check, LibTypes, ServerTypes, GhostTypes, OneMigration
<1> QED
  BY <1>1, <1>2 DEF DriftCheck

(* The surroundings keep them too.                                         *)
LEMMA ImportRow ==
  ASSUME Types, NEW m \in Titles, Reimport(m)
  PROVE  /\ row' \in [Titles -> RowState \cup {NoRow}] /\ LatestRow'
         /\ ids' \in [Titles -> Nat] /\ ids'[m] = ids[m] + 1
         /\ row'[m] = [id |-> ids[m] + 1, side |-> root, age |-> 0]
         /\ row'[m] # NoRow
         /\ \A n \in Titles \ {m} : row'[n] = row[n] /\ ids'[n] = ids[n]
<1>1. LibTypes /\ LatestRow
  BY DEF Types
<1>2. [id |-> ids[m] + 1, side |-> root, age |-> 0] \in RowState
  BY <1>1, FilesAssumption DEF LibTypes, RowState, Old
<1>3. /\ row'[m] = [id |-> ids[m] + 1, side |-> root, age |-> 0]
      /\ \A n \in Titles \ {m} : row'[n] = row[n]
      /\ row' \in [Titles -> RowState \cup {NoRow}]
  BY <1>1, <1>2 DEF Reimport, LibTypes
<1>4. /\ ids' \in [Titles -> Nat] /\ ids'[m] = ids[m] + 1
      /\ \A n \in Titles \ {m} : ids'[n] = ids[n]
  BY <1>1 DEF Reimport, LibTypes
<1>5. wanted' = wanted \ {m}
  BY DEF Reimport
<1>6. row'[m] # NoRow /\ row'[m].id = ids'[m]
  BY <1>2, <1>3, <1>4, NoRowIsNone
<1> QED
  BY <1>1, <1>3, <1>4, <1>5, <1>6 DEF LatestRow

LEMMA NextTypes == Types /\ [FilesNext]_filesVars => Types'
<1> SUFFICES ASSUME Types, [FilesNext]_filesVars PROVE Types'
  OBVIOUS
<1> USE DEF Types
<1>1. ASSUME NEW c \in Askers, Request(c)
      PROVE  Types'
  BY <1>1, RequestTypes
<1>2. ASSUME NEW c \in Askers, Migrate(c)
      PROVE  Types'
  BY <1>2, MigrateTypes
<1>3. CASE DriftCheck
  BY <1>3, DriftTypes
<1>4. ASSUME NEW m \in Titles, Reimport(m)
      PROVE  Types'
  <2>1. misses' \in [Titles -> Nat]
    BY <1>4 DEF Reimport, GhostTypes
  <2>2. stored' \subseteq Titles \X Sides
    BY <1>4 DEF Reimport, LibTypes
  <2> QED
    BY <1>4, <2>1, <2>2, ImportRow
       DEF Reimport, LibTypes, ServerTypes, GhostTypes, OneMigration
<1>5. ASSUME NEW m \in Titles, NEW s \in Sides, Vanish(m, s) \/ Appear(m, s)
      PROVE  Types'
  BY <1>5
     DEF Vanish, Appear, serverVars, ghosts, LibTypes, ServerTypes, GhostTypes,
         LatestRow, OneMigration
<1>6. CASE Tick
  <2>1. row' \in [Titles -> RowState \cup {NoRow}] /\ LatestRow'
    BY <1>6, RowsAge DEF Tick
  <2> QED
    BY <1>6, <2>1
       DEF Tick, serverVars, LibTypes, ServerTypes, GhostTypes, OneMigration
<1>7. CASE Die
  BY <1>7
     DEF Die, shelfVars, LibTypes, ServerTypes, GhostTypes, LatestRow,
         OneMigration, AskState, MoveState, DriftState
<1>8. CASE Boot
  BY <1>8
     DEF Boot, shelfVars, serverVars, ghosts, LibTypes, ServerTypes, GhostTypes,
         LatestRow, OneMigration
<1>9. CASE UNCHANGED filesVars
  BY <1>9
     DEF filesVars, LibTypes, ServerTypes, GhostTypes, LatestRow, OneMigration
<1> QED
  BY <1>1, <1>2, <1>3, <1>4, <1>5, <1>6, <1>7, <1>8, <1>9 DEF FilesNext
-----------------------------------------------------------------------------
(* What a migration collected names rows that exist or have existed.       *)
KnownIds(targets) == \A t \in targets : t[2] <= ids[t[1]]

TargetsAreKnown ==
  \A c \in Askers :
    /\ ask[c].pc = "start" => KnownIds(ask[c].targets)
    /\ move[c].pc # "off" => KnownIds(move[c].targets)
    /\ move[c].pc \in {"move", "save"} =>
         move[c].row[2] <= ids[move[c].row[1]]

(* A file is at its new path when its row is about to be rewritten.        *)
SaveHasFile ==
  \A c \in Askers :
    /\ move[c].pc = "save"
    /\ HasRow(move[c].row[1], move[c].row[2])
    => \/ <<move[c].row[1], move[c].to>> \in stored
       \/ move[c].row[1] \in gone

FileInv == Types /\ TargetsAreKnown /\ SaveHasFile /\ RowHasFile

(* Rows keep their ids and new ones have greater ones.                     *)
LEMMA IdsGrow ==
  ASSUME Types, [FilesNext]_filesVars
  PROVE  \A m \in Titles : ids[m] <= ids'[m]
<1>1. CASE UNCHANGED ids
  BY <1>1 DEF Types, LibTypes
<1>2. ASSUME NEW m \in Titles, Reimport(m)
      PROVE  \A n \in Titles : ids[n] <= ids'[n]
  <2>1. ids'[m] = ids[m] + 1 /\ ids[m] \in Nat
    BY <1>2, ImportRow DEF Types, LibTypes
  <2>2. \A n \in Titles \ {m} : ids'[n] = ids[n] /\ ids[n] \in Nat
    BY <1>2, ImportRow DEF Types, LibTypes
  <2> QED
    BY <2>1, <2>2
<1>3. UNCHANGED ids \/ \E m \in Titles : Reimport(m)
  BY DEF FilesNext, Request, Migrate, DriftCheck, Collect, Begin, FindFile, Unlink,
         Unrow, Visit, MoveFile, Save, PersistRoot, ScheduledRun, RunNow, List,
         Check, Vanish, Appear, Tick, Die, Boot, shelfVars, filesVars
<1> QED
  BY <1>1, <1>2, <1>3

LEMMA InitFile == FilesInit => FileInv
<1> SUFFICES ASSUME FilesInit PROVE FileInv
  OBVIOUS
<1>1. TargetsAreKnown /\ SaveHasFile
  BY DEF FilesInit, TargetsAreKnown, SaveHasFile, NoAsk, NoMove
<1>2. RowHasFile
  BY DEF FilesInit, RowHasFile
<1> QED
  BY <1>1, <1>2, InitTypes DEF FileInv

(* Only a collection makes new targets, of the rows there are.             *)
LEMMA KnownAsked ==
  ASSUME Types, TargetsAreKnown, [FilesNext]_filesVars, NEW d \in Askers,
         ask'[d].pc = "start"
  PROVE  KnownIds(ask'[d].targets)
<1>0. ask \in [Askers -> AskState]
  BY DEF Types, ServerTypes
<1>1. CASE ask'[d] = ask[d]
  BY <1>1 DEF TargetsAreKnown
<1>2. ASSUME NEW c \in Askers, Collect(c)
      PROVE  KnownIds(ask'[d].targets)
  <2>1. CASE c = d
    <3>1. PICK from \in Sides :
            ask'[c].targets = {<<m, row[m].id>> : m \in
                {n \in Titles : row[n] # NoRow /\ row[n].side = from}}
      BY <1>0, <1>2 DEF Collect
    <3>2. \A m \in Titles : row[m] # NoRow => row[m].id <= ids[m]
      BY DEF Types, LatestRow, LibTypes, RowState
    <3> QED
      BY <2>1, <3>1, <3>2 DEF KnownIds
  <2>2. CASE c # d
    BY <1>0, <1>1, <1>2, <2>2 DEF Collect
  <2> QED
    BY <2>1, <2>2
<1>3. ASSUME NEW c \in Askers, Begin(c) \/ FindFile(c) \/ Unrow(c)
      PROVE  ask'[d] = ask[d]
  BY <1>0, <1>3 DEF Begin, FindFile, Unrow, NoAsk
<1>4. ASSUME NEW c \in Askers, Unlink(c)
      PROVE  ask'[d] = ask[d]
  <2>1. ask[c] \in [pc : {"unlink", "unrow"}, movie : Titles, id : Nat,
                    side : Sides]
    BY <1>4, AskIsGoing DEF Unlink, Types
  <2>2. [ask[c] EXCEPT !.pc = "unrow"].pc = "unrow"
    BY <2>1
  <2>3. ask' = [ask EXCEPT ![c] = [ask[c] EXCEPT !.pc = "unrow"]]
    BY <1>4 DEF Unlink
  <2> QED
    BY <1>0, <2>2, <2>3
<1>5. CASE Die
  BY <1>5 DEF Die, NoAsk
<1>6. \/ UNCHANGED ask \/ Die
      \/ \E c \in Askers : \/ Collect(c) \/ Begin(c) \/ FindFile(c)
                            \/ Unlink(c) \/ Unrow(c)
  BY DEF FilesNext, Request, Migrate, DriftCheck, Visit, MoveFile, Save,
         PersistRoot, ScheduledRun, RunNow, List, Check, Reimport, Vanish,
         Appear, Tick, Boot, serverVars, filesVars
<1> QED
  BY <1>1, <1>2, <1>3, <1>4, <1>5, <1>6

(* A migration begins with what was collected and only drops targets.      *)
LEMMA KnownMoved ==
  ASSUME Types, TargetsAreKnown, [FilesNext]_filesVars, NEW d \in Askers,
         move'[d].pc # "off"
  PROVE  /\ KnownIds(move'[d].targets)
         /\ move'[d].pc \in {"move", "save"} =>
              move'[d].row[2] <= ids[move'[d].row[1]]
<1> DEFINE Goal == /\ KnownIds(move'[d].targets)
                   /\ move'[d].pc \in {"move", "save"} =>
                        move'[d].row[2] <= ids[move'[d].row[1]]
<1>0. move \in [Askers -> MoveState]
  BY DEF Types, ServerTypes
<1>1. CASE move'[d] = move[d]
  BY <1>1 DEF TargetsAreKnown
<1>2. ASSUME NEW c \in Askers, Begin(c)
      PROVE  Goal
  <2>1. CASE move' = move
    BY <1>1, <2>1
  <2>2. CASE move' # move
    <3>1. move' = [move EXCEPT ![c] =
               [pc |-> "next", from |-> ask[c].from, to |-> ask[c].to,
                mv |-> ask[c].mv, targets |-> ask[c].targets]]
      BY <1>2, <2>2 DEF Begin
    <3>2. KnownIds(ask[c].targets)
      BY <1>2 DEF Begin, TargetsAreKnown
    <3>3. CASE c = d
      BY <1>0, <3>1, <3>2, <3>3
    <3>4. CASE c # d
      BY <1>0, <1>1, <3>1, <3>4
    <3> QED
      BY <3>3, <3>4
  <2> QED
    BY <2>1, <2>2
<1>3. ASSUME NEW c \in Askers, Visit(c)
      PROVE  Goal
  <2>1. move[c].pc = "next" /\ KnownIds(move[c].targets)
    BY <1>3 DEF Visit, TargetsAreKnown
  <2>2. PICK t \in move[c].targets :
          \/ move' = [move EXCEPT ![c].targets = @ \ {t}]
          \/ move' = [move EXCEPT ![c] =
               [pc |-> IF @.mv THEN "move" ELSE "save", row |-> t,
                from |-> @.from, to |-> @.to, mv |-> @.mv,
                targets |-> @.targets \ {t}]]
    BY <1>3 DEF Visit
  <2>3. CASE move' = [move EXCEPT ![c].targets = @ \ {t}]
    <3>1. move[c] \in MoveState
      BY <1>0
    <3>2. [move[c] EXCEPT !.targets = @ \ {t}].pc = "next"
      BY <2>1, <3>1 DEF MoveState, NoMove
    <3>3. [move[c] EXCEPT !.targets = @ \ {t}].targets = move[c].targets \ {t}
      BY <2>1, <3>1 DEF MoveState, NoMove
    <3>4. c = d => move'[d].pc = "next" /\ move'[d].targets = move[c].targets \ {t}
      BY <1>0, <2>3, <3>2, <3>3
    <3>5. c # d => move'[d] = move[d]
      BY <1>0, <2>3
    <3> QED
      BY <1>1, <2>1, <3>4, <3>5 DEF KnownIds
  <2>4. CASE move' = [move EXCEPT ![c] =
               [pc |-> IF @.mv THEN "move" ELSE "save", row |-> t,
                from |-> @.from, to |-> @.to, mv |-> @.mv,
                targets |-> @.targets \ {t}]]
    <3>1. c = d => move'[d].row = t /\ move'[d].targets = move[c].targets \ {t}
      BY <1>0, <2>4
    <3>2. c # d => move'[d] = move[d]
      BY <1>0, <2>4
    <3> QED
      BY <1>1, <2>1, <3>1, <3>2 DEF KnownIds
  <2> QED
    BY <2>2, <2>3, <2>4
<1>4. ASSUME NEW c \in Askers, MoveFile(c) \/ Save(c) \/ PersistRoot(c)
      PROVE  Goal
  <2>1. CASE Finish(c)
    BY <1>0, <1>1, <2>1 DEF Finish, NoMove
  <2>2. CASE /\ move[c].pc \in {"move", "save"} /\ UNCHANGED running
             /\ \E pc \in {"next", "save"} : move' = [move EXCEPT ![c].pc = pc]
    <3>1. PICK pc \in {"next", "save"} : move' = [move EXCEPT ![c].pc = pc]
      BY <2>2
    <3>2. /\ move'[c].row = move[c].row
          /\ \A e \in Askers \ {c} : move'[e] = NoMove
      BY <2>2, <3>1, StepMoves
    <3>3. move'[c] = [move[c] EXCEPT !.pc = pc]
      BY <2>2, <3>1, StepMoves
    <3>4. move[c] \in [pc : {"next", "move", "save"}, row : Targets,
                       from : Sides, to : Sides, mv : BOOLEAN,
                       targets : SUBSET Targets]
      BY <2>2, MoveIsGoing DEF Types
    <3>5. move'[c].targets = move[c].targets
      BY <3>3, <3>4
    <3>6. c = d
      BY <3>2 DEF NoMove
    <3> QED
      BY <2>2, <3>2, <3>5, <3>6 DEF TargetsAreKnown
  <2>3. Finish(c) \/ (/\ move[c].pc \in {"move", "save"} /\ UNCHANGED running
                      /\ \E pc \in {"next", "save"} :
                           move' = [move EXCEPT ![c].pc = pc])
    BY <1>4 DEF MoveFile, Save, PersistRoot
  <2> QED
    BY <2>1, <2>2, <2>3
<1>5. CASE Die
  BY <1>5 DEF Die, NoMove
<1>6. \/ UNCHANGED move \/ Die
      \/ \E c \in Askers : \/ Begin(c) \/ Visit(c) \/ MoveFile(c)
                            \/ Save(c) \/ PersistRoot(c)
  BY DEF FilesNext, Request, Migrate, DriftCheck, Collect, FindFile, Unlink, Unrow,
         ScheduledRun, RunNow, List, Check, Reimport, Vanish, Appear, Tick,
         Boot, serverVars, filesVars
<1> QED
  BY <1>1, <1>2, <1>3, <1>4, <1>5, <1>6

LEMMA KnownNext ==
  Types /\ TargetsAreKnown /\ [FilesNext]_filesVars => TargetsAreKnown'
<1> SUFFICES ASSUME Types, TargetsAreKnown, [FilesNext]_filesVars, NEW c \in Askers
             PROVE  /\ ask'[c].pc = "start" =>
                         \A t \in ask'[c].targets : t[2] <= ids'[t[1]]
                    /\ move'[c].pc # "off" =>
                         \A t \in move'[c].targets : t[2] <= ids'[t[1]]
                    /\ move'[c].pc \in {"move", "save"} =>
                         move'[c].row[2] <= ids'[move'[c].row[1]]
  BY DEF TargetsAreKnown, KnownIds
<1>1. Types' /\ \A m \in Titles : ids[m] <= ids'[m]
  BY NextTypes, IdsGrow
<1>2. ids \in [Titles -> Nat] /\ ids' \in [Titles -> Nat]
  BY <1>1 DEF Types, LibTypes
<1>3. ASSUME NEW T \in SUBSET Targets, KnownIds(T)
      PROVE  \A t \in T : t[2] <= ids'[t[1]]
  BY <1>1, <1>2, <1>3 DEF KnownIds, Targets
<1>4. ASSUME ask'[c].pc = "start"
      PROVE  \A t \in ask'[c].targets : t[2] <= ids'[t[1]]
  <2>1. ask'[c].targets \in SUBSET Targets
    BY <1>1, <1>4 DEF Types, ServerTypes, AskState, NoAsk
  <2> QED
    BY <1>3, <1>4, <2>1, KnownAsked
<1>5. ASSUME move'[c].pc # "off"
      PROVE  \A t \in move'[c].targets : t[2] <= ids'[t[1]]
  <2>1. move'[c].targets \in SUBSET Targets
    BY <1>1, <1>5 DEF Types, ServerTypes, MoveState, NoMove
  <2> QED
    BY <1>3, <1>5, <2>1, KnownMoved
<1>6. ASSUME move'[c].pc \in {"move", "save"}
      PROVE  move'[c].row[2] <= ids'[move'[c].row[1]]
  <2>1. move'[c].row \in Targets
    BY <1>1, <1>6 DEF Types, ServerTypes, MoveState, NoMove
  <2>2. move'[c].row[2] <= ids[move'[c].row[1]]
    BY <1>6, KnownMoved
  <2> QED
    BY <1>1, <1>2, <2>1, <2>2 DEF Targets
<1> QED
  BY <1>4, <1>5, <1>6

-----------------------------------------------------------------------------
(* Steps that touch neither migrations nor rows, and take away only files  *)
(* they say are gone, keep both promises.                                  *)
LEMMA FilesStay ==
  ASSUME FileInv, UNCHANGED <<row, move>>, gone \subseteq gone',
         \A m \in Titles, s \in Sides :
           <<m, s>> \in stored /\ <<m, s>> \notin stored' => m \in gone'
  PROVE  SaveHasFile' /\ RowHasFile'
<1> USE DEF FileInv, Types
<1>1. SaveHasFile'
  <2> SUFFICES ASSUME NEW c \in Askers, move[c].pc = "save",
                      HasRow(move[c].row[1], move[c].row[2])
               PROVE  \/ <<move[c].row[1], move[c].to>> \in stored'
                      \/ move[c].row[1] \in gone'
    BY DEF SaveHasFile, HasRow
  <2>1. move[c].row[1] \in Titles /\ move[c].to \in Sides
    BY MoveIsGoing
  <2> QED
    BY <2>1 DEF SaveHasFile
<1>2. RowHasFile'
  <2> SUFFICES ASSUME NEW m \in Titles, row[m] # NoRow, <<m, row[m].side>> \notin stored'
               PROVE  \/ m \in gone'
                      \/ \E c \in Askers : move[c].pc = "save" /\ move[c].row[1] = m
    BY DEF RowHasFile
  <2>1. row[m].side \in Sides
    BY DEF LibTypes, RowState
  <2> QED
    BY <2>1 DEF RowHasFile
<1> QED
  BY <1>1, <1>2

(* So do steps that leave files and migrations alone and every row where   *)
(* it is, or delete it.                                                    *)
LEMMA RowsStay ==
  ASSUME FileInv, UNCHANGED <<stored, move>>, gone \subseteq gone',
         \A m \in Titles : \/ row'[m] = NoRow
                           \/ /\ row[m] # NoRow
                              /\ row'[m].side = row[m].side
                              /\ row'[m].id = row[m].id
  PROVE  SaveHasFile' /\ RowHasFile'
<1> USE DEF FileInv, Types
<1>1. SaveHasFile'
  <2> SUFFICES ASSUME NEW c \in Askers, move[c].pc = "save",
                      HasRow(move[c].row[1], move[c].row[2])'
               PROVE  \/ <<move[c].row[1], move[c].to>> \in stored
                      \/ move[c].row[1] \in gone'
    BY DEF SaveHasFile, HasRow
  <2>1. move[c].row[1] \in Titles
    BY MoveIsGoing
  <2>2. HasRow(move[c].row[1], move[c].row[2])
    BY <2>1 DEF HasRow
  <2> QED
    BY <2>2 DEF SaveHasFile
<1>2. RowHasFile'
  BY DEF RowHasFile
<1> QED
  BY <1>1, <1>2

(* Steps that only change a migration that neither was nor is between a    *)
(* move and its save.                                                      *)
LEMMA NothingSaved ==
  ASSUME FileInv, UNCHANGED <<row, gone>>, stored \subseteq stored',
         \A c \in Askers : move[c].pc # "save",
         \A c \in Askers : move'[c].pc # "save"
  PROVE  SaveHasFile' /\ RowHasFile'
  BY DEF FileInv, SaveHasFile, RowHasFile

LEMMA RequestFiles ==
  ASSUME FileInv, NEW c \in Askers, Request(c)
  PROVE  SaveHasFile' /\ RowHasFile'
<1> USE DEF FileInv, Types
<1>1. CASE Collect(c) \/ FindFile(c)
  BY <1>1, FilesStay DEF Collect, FindFile, shelfVars, ghosts
<1>2. CASE Begin(c)
  <2>1. CASE move' = move
    BY <1>2, <2>1, FilesStay DEF Begin, shelfVars, ghosts
  <2>2. CASE move' # move
    <3>1. ~running /\ move' = [move EXCEPT ![c] =
               [pc |-> "next", from |-> ask[c].from, to |-> ask[c].to,
                mv |-> ask[c].mv, targets |-> ask[c].targets]]
      BY <1>2, <2>2 DEF Begin
    <3>2. \A d \in Askers : move[d].pc # "save"
      BY <3>1 DEF OneMigration, NoMove
    <3>3. \A d \in Askers : move'[d].pc # "save"
      BY <3>1, <3>2 DEF ServerTypes
    <3> QED
      BY <1>2, <3>2, <3>3, NothingSaved DEF Begin, shelfVars, ghosts
  <2> QED
    BY <2>1, <2>2
<1>3. CASE Unlink(c)
  <2>1. \A m \in Titles, s \in Sides :
          <<m, s>> \in stored /\ <<m, s>> \notin stored' => m \in gone'
    BY <1>3 DEF Unlink
  <2>2. gone \subseteq gone' /\ UNCHANGED <<row, move>>
    BY <1>3 DEF Unlink
  <2> QED
    BY <2>1, <2>2, FilesStay
<1>4. CASE Unrow(c)
  <2>1. ask[c].movie \in Titles
    BY <1>4, AskIsGoing DEF Unrow
  <2>2. \A m \in Titles : row'[m] = NoRow \/ row'[m] = row[m]
    BY <1>4, <2>1 DEF Unrow, DeleteAndRevert, LibTypes
  <2>3. UNCHANGED <<stored, move, gone>>
    BY <1>4 DEF Unrow, ghosts
  <2> QED
    BY <2>2, <2>3, RowsStay
<1> QED
  BY <1>1, <1>2, <1>3, <1>4 DEF Request

LEMMA MigrateFiles ==
  ASSUME FileInv, NEW c \in Askers, Migrate(c)
  PROVE  SaveHasFile' /\ RowHasFile'
<1> USE DEF FileInv, Types
<1>0. move[c].pc # "off" /\ \A d \in Askers \ {c} : move[d] = NoMove
  <2>1. move[c].pc # "off"
    BY DEF Migrate, Visit, MoveFile, Save, PersistRoot
  <2> QED
    BY <2>1 DEF OneMigration, NoMove
<1>1. CASE Visit(c)
  <2>1. PICK r \in MoveState :
           /\ move' = [move EXCEPT ![c] = r]
           /\ r.pc \in {"next", "move", "save"}
           /\ r.pc \in {"move", "save"} =>
                OnDisk(c, r.row[1]) /\ r.to = move[c].to
           /\ r.pc = "save" => ~move[c].mv
    BY <1>1, VisitMoves
  <2>2. /\ move'[c] = r /\ \A d \in Askers \ {c} : move'[d] = NoMove
    BY <1>0, <2>1 DEF ServerTypes
  <2>3. /\ \A d \in Askers : move[d].pc # "save"
        /\ UNCHANGED <<row, stored, gone>>
    BY <1>0, <1>1 DEF Visit, NoMove, shelfVars, ghosts
  <2>4. r.pc = "save" => <<r.row[1], r.to>> \in stored
    BY <2>1 DEF OnDisk
  <2>5. SaveHasFile'
    <3> SUFFICES ASSUME NEW d \in Askers, move'[d].pc = "save"
                 PROVE  <<move'[d].row[1], move'[d].to>> \in stored'
      BY DEF SaveHasFile
    <3>1. d = c
      BY <2>2 DEF NoMove
    <3> QED
      BY <2>2, <2>3, <2>4, <3>1
  <2>6. RowHasFile'
    BY <2>3 DEF RowHasFile
  <2> QED
    BY <2>5, <2>6
<1>2. CASE MoveFile(c)
  <2> DEFINE m == move[c].row[1]
  <2>0. m \in Titles /\ \A d \in Askers : move[d].pc # "save"
    BY <1>0, <1>2, MoveIsGoing DEF MoveFile, NoMove
  <2>1. CASE /\ stored' = (stored \ {<<m, move[c].from>>}) \cup {<<m, move[c].to>>}
             /\ move' = [move EXCEPT ![c].pc = "save"]
             /\ UNCHANGED running
    <3>1. /\ move'[c].pc = "save" /\ move'[c].row = move[c].row
          /\ move'[c].to = move[c].to
          /\ \A d \in Askers \ {c} : move'[d] = NoMove
      BY <1>2, <2>1, StepMoves DEF MoveFile
    <3>2. <<m, move[c].to>> \in stored' /\ UNCHANGED <<row, gone>>
      BY <1>2, <2>1 DEF MoveFile, ghosts
    <3>3. SaveHasFile'
      <4> SUFFICES ASSUME NEW d \in Askers, move'[d].pc = "save"
                   PROVE  <<move'[d].row[1], move'[d].to>> \in stored'
        BY DEF SaveHasFile
      <4>1. d = c
        BY <3>1 DEF NoMove
      <4> QED
        BY <3>1, <3>2, <4>1
    <3>4. RowHasFile'
      <4> SUFFICES ASSUME NEW n \in Titles, row[n] # NoRow,
                          <<n, row[n].side>> \notin stored', n # m
                   PROVE  n \in gone
        BY <3>1, <3>2 DEF RowHasFile
      <4>1. <<n, row[n].side>> \notin stored
        BY <2>1
      <4> QED
        BY <2>0, <4>1 DEF RowHasFile
    <3> QED
      BY <3>3, <3>4
  <2>2. CASE Finish(c) /\ stored \subseteq stored'
    <3>1. \A d \in Askers : move'[d].pc # "save"
      BY <1>0, <2>2, FinishEnds DEF NoMove
    <3> QED
      BY <1>2, <2>0, <2>2, <3>1, NothingSaved DEF MoveFile, ghosts
  <2> QED
    BY <1>2, <2>1, <2>2 DEF MoveFile
<1>3. CASE Save(c)
  <2> DEFINE m == move[c].row[1]
  <2>0. m \in Titles /\ move[c].to \in Sides /\ UNCHANGED stored
    BY <1>3, MoveIsGoing DEF Save
  <2>1. CASE /\ HasRow(m, move[c].row[2])
             /\ row' = [row EXCEPT ![m].side = move[c].to]
             /\ move' = [move EXCEPT ![c].pc = "next"]
             /\ UNCHANGED <<running, gone>>
    <3>1. \A d \in Askers : move'[d].pc # "save"
      <4>1. move[c].pc \in {"move", "save"} /\ "next" \in {"next", "save"}
        BY <1>3 DEF Save
      <4>2. move' = [move EXCEPT ![c].pc = "next"] /\ UNCHANGED running
        BY <2>1
      <4> HIDE DEF m
      <4>3. /\ move'[c].pc = "next"
            /\ \A d \in Askers \ {c} : move'[d] = NoMove
        BY <4>1, <4>2, StepMoves
      <4> QED
        BY <4>3 DEF NoMove
    <3>2. <<m, move[c].to>> \in stored \/ m \in gone
      BY <1>3, <2>1 DEF Save, SaveHasFile
    <3>3. /\ row'[m].side = move[c].to
          /\ \A n \in Titles \ {m} : row'[n] = row[n]
      <4> HIDE DEF m
      <4>1. row[m] # NoRow /\ UNCHANGED <<ids, wanted>>
        BY <1>3, <2>1 DEF Save, HasRow
      <4> QED
        BY <2>0, <2>1, <4>1, RowMoves
    <3>4. RowHasFile'
      <4> SUFFICES ASSUME NEW n \in Titles, row'[n] # NoRow,
                          <<n, row'[n].side>> \notin stored, n # m
                   PROVE  n \in gone
        BY <2>0, <2>1, <3>2, <3>3 DEF RowHasFile
      <4>1. row'[n] = row[n]
        BY <3>3
      <4>2. \A d \in Askers : move[d].pc = "save" => d = c
        BY <1>0 DEF NoMove
      <4> QED
        BY <4>1, <4>2 DEF RowHasFile
    <3> QED
      BY <3>1, <3>4 DEF SaveHasFile
  <2>2. CASE Finish(c) /\ gone' = gone \cup {m} /\ UNCHANGED row
    <3>1. \A d \in Askers : move'[d].pc # "save"
      BY <1>0, <2>2, FinishEnds DEF NoMove
    <3>2. \A d \in Askers : move[d].pc = "save" => d = c
      BY <1>0 DEF NoMove
    <3>3. RowHasFile'
      BY <2>0, <2>2, <3>2 DEF RowHasFile
    <3> QED
      BY <3>1, <3>3 DEF SaveHasFile
  <2> QED
    BY <1>3, <2>1, <2>2 DEF Save
<1>4. CASE PersistRoot(c)
  <2>1. \A d \in Askers : move'[d].pc # "save"
    BY <1>0, <1>4, FinishEnds DEF PersistRoot, NoMove
  <2>2. \A d \in Askers : move[d].pc # "save"
    BY <1>0, <1>4 DEF PersistRoot, NoMove
  <2> QED
    BY <1>4, <2>1, <2>2, NothingSaved DEF PersistRoot, ghosts
<1> QED
  BY <1>1, <1>2, <1>3, <1>4 DEF Migrate

LEMMA DriftFiles ==
  ASSUME FileInv, DriftCheck
  PROVE  SaveHasFile' /\ RowHasFile'
<1> USE DEF FileInv, Types
<1>1. CASE ScheduledRun \/ RunNow
  BY <1>1, FilesStay DEF ScheduledRun, RunNow, List, shelfVars, ghosts
<1>2. CASE Check
  <2>1. PICK r \in drift.rows : Seen(r) \/ Missing(r) \/ CheckFails(r)
    BY <1>2 DEF Check
  <2>2. r \in Listed /\ UNCHANGED <<ids, stored, move, gone>>
    BY <1>2, <2>1, ListedRows DEF Check
  <2>3. /\ \A n \in Titles \ {r.movie} : row'[n] = row[n]
        /\ \/ row'[r.movie] = row[r.movie]
           \/ row'[r.movie] = NoRow
           \/ /\ row[r.movie] # NoRow /\ row'[r.movie] # NoRow
              /\ row'[r.movie].side = row[r.movie].side
              /\ row'[r.movie].id = row[r.movie].id
    BY <2>1, <2>2, CheckRows
  <2>4. \A m \in Titles : \/ row'[m] = NoRow
                          \/ /\ row[m] # NoRow
                             /\ row'[m].side = row[m].side
                             /\ row'[m].id = row[m].id
    BY <2>3
  <2> QED
    BY <2>2, <2>4, RowsStay
<1> QED
  BY <1>1, <1>2 DEF DriftCheck

(* The row of an import is newer than any a migration knows of.            *)
LEMMA ImportFiles ==
  ASSUME FileInv, NEW m \in Titles, Reimport(m)
  PROVE  SaveHasFile' /\ RowHasFile'
<1> USE DEF FileInv, Types
<1>1. /\ row'[m] = [id |-> ids[m] + 1, side |-> root, age |-> 0]
      /\ row'[m].id = ids[m] + 1 /\ ids[m] \in Nat
      /\ \A n \in Titles \ {m} : row'[n] = row[n]
  BY ImportRow DEF LibTypes
<1>2. /\ UNCHANGED move /\ stored' = stored \cup {<<m, root>>}
      /\ gone' = gone \ {m}
  BY DEF Reimport
<1>3. SaveHasFile'
  <2> SUFFICES ASSUME NEW c \in Askers, move[c].pc = "save",
                      HasRow(move[c].row[1], move[c].row[2])'
               PROVE  \/ <<move[c].row[1], move[c].to>> \in stored'
                      \/ move[c].row[1] \in gone'
    BY <1>2 DEF SaveHasFile, HasRow
  <2>1. /\ move[c].row[1] \in Titles /\ move[c].row[2] \in Nat
        /\ move[c].row[2] <= ids[move[c].row[1]]
    BY MoveIsGoing DEF TargetsAreKnown
  <2>2. row'[move[c].row[1]].id = move[c].row[2]
    BY <1>2 DEF HasRow
  <2>3. move[c].row[1] # m
    BY <1>1, <2>1, <2>2
  <2>4. HasRow(move[c].row[1], move[c].row[2])
    BY <1>1, <1>2, <2>1, <2>3 DEF HasRow
  <2> QED
    BY <1>2, <2>3, <2>4 DEF SaveHasFile
<1>4. RowHasFile'
  <2> SUFFICES ASSUME NEW n \in Titles, row'[n] # NoRow,
                      <<n, row'[n].side>> \notin stored'
               PROVE  \/ n \in gone'
                      \/ \E c \in Askers : move[c].pc = "save" /\ move[c].row[1] = n
    BY <1>2 DEF RowHasFile
  <2>1. n # m
    BY <1>1, <1>2
  <2>2. row'[n] = row[n]
    BY <1>1, <2>1
  <2> QED
    BY <1>2, <2>1, <2>2 DEF RowHasFile
<1> QED
  BY <1>3, <1>4

(* A crash between a move and its save leaves the file at its new path.    *)
LEMMA CrashFiles ==
  ASSUME FileInv, Die
  PROVE  SaveHasFile' /\ RowHasFile'
<1>1. SaveHasFile'
  BY DEF Die, SaveHasFile, NoMove
<1>2. UNCHANGED <<row, stored>>
  BY DEF Die, shelfVars
<1>3. \A c \in Askers : move[c].pc = "save" => move[c].row[1] \in gone'
  BY DEF Die
<1>4. gone \subseteq gone'
  BY DEF Die
<1>5. RowHasFile'
  BY <1>2, <1>3, <1>4 DEF FileInv, RowHasFile
<1> QED
  BY <1>1, <1>5

LEMMA NextFile == FileInv /\ [FilesNext]_filesVars => FileInv'
<1> SUFFICES ASSUME FileInv, [FilesNext]_filesVars
             PROVE  SaveHasFile' /\ RowHasFile'
  BY NextTypes, KnownNext DEF FileInv
<1>1. ASSUME NEW c \in Askers, Request(c) \/ Migrate(c)
      PROVE  SaveHasFile' /\ RowHasFile'
  BY <1>1, RequestFiles, MigrateFiles
<1>2. CASE DriftCheck
  BY <1>2, DriftFiles
<1>3. ASSUME NEW m \in Titles, Reimport(m)
      PROVE  SaveHasFile' /\ RowHasFile'
  BY <1>3, ImportFiles
<1>4. ASSUME NEW m \in Titles, NEW s \in Sides, Vanish(m, s) \/ Appear(m, s)
      PROVE  SaveHasFile' /\ RowHasFile'
  <2>1. /\ UNCHANGED <<row, move>> /\ gone \subseteq gone'
        /\ \A n \in Titles, t \in Sides :
             <<n, t>> \in stored /\ <<n, t>> \notin stored' => n \in gone'
    BY <1>4 DEF Vanish, Appear, serverVars, ghosts
  <2> QED
    BY <2>1, FilesStay
<1>5. CASE Tick
  <2>1. UNCHANGED <<stored, move, gone>>
    BY <1>5 DEF Tick, serverVars
  <2>2. \A m \in Titles : \/ row'[m] = NoRow
                          \/ /\ row[m] # NoRow
                             /\ row'[m].side = row[m].side
                             /\ row'[m].id = row[m].id
    BY <1>5, RowsAge DEF Tick, FileInv, Types
  <2> QED
    BY <2>1, <2>2, RowsStay
<1>6. CASE Die
  BY <1>6, CrashFiles
<1>7. CASE Boot \/ UNCHANGED filesVars
  BY <1>7, FilesStay DEF Boot, filesVars, shelfVars, serverVars, ghosts
<1> QED
  BY <1>1, <1>2, <1>3, <1>4, <1>5, <1>6, <1>7 DEF FilesNext
-----------------------------------------------------------------------------
LEMMA TypesAreOK == Types => FilesTypeOK
<1> SUFFICES ASSUME Types PROVE FilesTypeOK
  OBVIOUS
<1> USE DEF Types
<1>1. \A m \in Titles :
        \/ row[m] = NoRow /\ m \in wanted
        \/ /\ row[m] # NoRow
           /\ row[m].id = ids[m] /\ row[m].side \in Sides
           /\ row[m].age \in 0..Old \cup {Never} /\ m \notin wanted
  BY DEF LibTypes, LatestRow, RowState
<1>2. Cardinality({c \in Askers : move[c] # NoMove}) <= 1
  <2> DEFINE S == {c \in Askers : move[c] # NoMove}
  <2>1. CASE S = {}
    BY <2>1, FS_EmptySet
  <2>2. CASE S # {}
    <3>1. PICK c \in S : TRUE
      BY <2>2
    <3>2. S = {c}
      BY <3>1 DEF OneMigration
    <3> QED
      BY <3>2, FS_Singleton
  <2> QED
    BY <2>1, <2>2
<1> QED
  BY <1>1, <1>2 DEF FilesTypeOK, LibTypes

(* A movie is wanted exactly when it has no row, its row is the latest it  *)
(* has had, and one migration runs at a time (Service.Start).              *)
THEOREM TypeCorrect == FilesSpec => []FilesTypeOK
<1>1. FilesInit => Types
  BY InitTypes
<1>2. Types /\ [FilesNext]_filesVars => Types'
  BY NextTypes
<1>3. Types => FilesTypeOK
  BY TypesAreOK
<1> QED
  BY <1>1, <1>2, <1>3, PTL DEF FilesSpec

(* Whatever requests were collected before a migration ran, and whatever   *)
(* was deleted, imported or checked meanwhile, a row is never re-pointed   *)
(* at a path with nothing behind it (pathmigrate.go:499).                  *)
THEOREM RowsHaveFiles == FilesSpec => []RowHasFile
<1>1. FilesInit => FileInv
  BY InitFile
<1>2. FileInv /\ [FilesNext]_filesVars => FileInv'
  BY NextFile
<1>3. FileInv => RowHasFile
  BY DEF FileInv
<1> QED
  BY <1>1, <1>2, <1>3, PTL DEF FilesSpec
-----------------------------------------------------------------------------
(* A check of this row is due, or in progress.                             *)
Listing(m) ==
  drift.pc = "check" /\ \E r \in drift.rows : r.movie = m /\ HasRow(m, r.id)
Pending(m) == ~up \/ due \/ Listing(m)

(* A run of the check has read each row once, and no interval passes while *)
(* it lasts.                                                               *)
RowsAsRead ==
  drift.pc = "check" =>
    /\ up
    /\ \A r, s \in drift.rows : r.movie = s.movie => r = s
    /\ \A r \in drift.rows :
         /\ r.id <= ids[r.movie]
         /\ HasRow(r.movie, r.id) => r.age = row[r.movie].age

(* Every interval a row has aged by is one in which a check missed its     *)
(* file, the last perhaps excepted.                                        *)
AgesAreMisses ==
  \A m \in Titles \ blind :
    row[m] # NoRow /\ row[m].age # Never =>
      \/ misses[m] >= Grace
      \/ row[m].age <= misses[m]
      \/ Pending(m) /\ row[m].age <= misses[m] + 1

GraceInv == Types /\ RowsAsRead /\ AgesAreMisses

LEMMA InitGrace == FilesInit => GraceInv
<1> SUFFICES ASSUME FilesInit PROVE GraceInv
  OBVIOUS
<1>1. RowsAsRead
  BY DEF FilesInit, RowsAsRead, NoCheck
<1>2. AgesAreMisses
  <2>1. \A m \in Titles : misses[m] = 0 /\ row[m].age \in {0, Never}
    BY DEF FilesInit
  <2> QED
    BY <2>1 DEF AgesAreMisses
<1> QED
  BY <1>1, <1>2, InitTypes DEF GraceInv

(* Steps that leave the check alone, and every row its id and its age, or  *)
(* delete it.                                                              *)
LEMMA AgesStay ==
  ASSUME GraceInv, UNCHANGED <<ids, drift, up, due, misses, blind>>,
         \A m \in Titles : \/ row'[m] = NoRow
                           \/ /\ row[m] # NoRow /\ row'[m].id = row[m].id
                              /\ row'[m].age = row[m].age
  PROVE  RowsAsRead' /\ AgesAreMisses'
<1> USE DEF GraceInv
<1>1. \A m \in Titles, id \in Nat :
        HasRow(m, id)' => HasRow(m, id) /\ row'[m].age = row[m].age
  BY DEF HasRow
<1>2. \A m \in Titles, id \in Nat :
        HasRow(m, id) /\ row'[m] # NoRow => HasRow(m, id)'
  BY DEF HasRow
<1>3. drift.pc = "check" =>
        \A r \in drift.rows : r.movie \in Titles /\ r.id \in Nat
  BY ListedRows DEF Listed, Types
<1>4. RowsAsRead'
  BY <1>1, <1>3 DEF RowsAsRead
<1>5. AgesAreMisses'
  <2> SUFFICES ASSUME NEW m \in Titles \ blind, row'[m] # NoRow,
                      row'[m].age # Never
               PROVE  \/ misses[m] >= Grace
                      \/ row'[m].age <= misses[m]
                      \/ Pending(m)' /\ row'[m].age <= misses[m] + 1
    BY DEF AgesAreMisses
  <2>1. row[m] # NoRow /\ row'[m].age = row[m].age
    OBVIOUS
  <2>2. Pending(m) => Pending(m)'
    BY <1>2, <1>3 DEF Pending, Listing
  <2> QED
    BY <2>1, <2>2 DEF AgesAreMisses
<1> QED
  BY <1>4, <1>5

LEMMA RequestGrace ==
  ASSUME GraceInv, NEW c \in Askers, Request(c)
  PROVE  RowsAsRead' /\ AgesAreMisses'
<1>1. \A m \in Titles : row'[m] = NoRow \/ row'[m] = row[m]
  <2>1. CASE Unrow(c)
    <3>1. ask[c].movie \in Titles
      BY <2>1, AskIsGoing DEF Unrow, GraceInv, Types
    <3> QED
      BY <2>1, <3>1 DEF Unrow, DeleteAndRevert, GraceInv, Types, LibTypes
  <2>2. CASE UNCHANGED row
    BY <2>2
  <2> QED
    BY <2>1, <2>2 DEF Request, Collect, Begin, FindFile, Unlink, shelfVars
<1>2. UNCHANGED <<ids, drift, up, due, misses, blind>>
  BY DEF Request, Collect, Begin, FindFile, Unlink, Unrow, shelfVars, ghosts
<1> QED
  BY <1>1, <1>2, AgesStay

LEMMA MigrateGrace ==
  ASSUME GraceInv, NEW c \in Askers, Migrate(c)
  PROVE  RowsAsRead' /\ AgesAreMisses'
<1> DEFINE m == move[c].row[1]
<1>1. CASE Save(c) /\ row' # row
  <2>1. /\ HasRow(m, move[c].row[2])
        /\ row' = [row EXCEPT ![m].side = move[c].to]
        /\ UNCHANGED <<ids, wanted>>
    BY <1>1 DEF Save
  <2>2. m \in Titles /\ move[c].to \in Sides /\ LibTypes /\ LatestRow
    BY <1>1, MoveIsGoing DEF Save, GraceInv, Types
  <2> HIDE DEF m
  <2>3. /\ row'[m].id = row[m].id /\ row'[m].age = row[m].age
        /\ \A n \in Titles \ {m} : row'[n] = row[n]
        /\ row[m] # NoRow
    BY <2>1, <2>2, RowMoves DEF HasRow
  <2>4. \A n \in Titles : \/ row'[n] = NoRow
                          \/ /\ row[n] # NoRow /\ row'[n].id = row[n].id
                             /\ row'[n].age = row[n].age
    BY <2>2, <2>3
  <2>5. UNCHANGED <<ids, drift, up, due, misses, blind>>
    BY <1>1 DEF Save
  <2> QED
    BY <2>4, <2>5, AgesStay
<1>2. CASE UNCHANGED row
  <2>1. UNCHANGED <<ids, drift, up, due, misses, blind>>
    BY DEF Migrate, Visit, MoveFile, Save, PersistRoot, shelfVars, ghosts
  <2> QED
    BY <1>2, <2>1, AgesStay
<1> QED
  BY <1>1, <1>2 DEF Migrate, Visit, MoveFile, Save, PersistRoot, shelfVars

(* The rows are read: every one of them is pending.                        *)
LEMMA ListGrace ==
  ASSUME GraceInv, List
  PROVE  RowsAsRead' /\ AgesAreMisses'
<1> DEFINE Entry(m) == [movie |-> m, id |-> row[m].id, side |-> row[m].side,
                        age |-> row[m].age]
           T == {Entry(m) : m \in {n \in Titles : row[n] # NoRow}}
<1>1. drift' = Checking(T) /\ UNCHANGED <<row, ids, misses, blind, up>> /\ up
  BY DEF List, shelfVars, ghosts
<1>2. \A r \in T : /\ r = Entry(r.movie) /\ r.age = row[r.movie].age
                  /\ r.id <= ids[r.movie]
  BY DEF GraceInv, Types, LibTypes, LatestRow
<1>3. \A m \in Titles : row[m] # NoRow =>
        Entry(m) \in T /\ Entry(m).movie = m /\ HasRow(m, Entry(m).id)
  BY DEF HasRow
<1> HIDE DEF Entry, T
<1>4. drift'.pc = "check" => drift'.rows = T
  BY <1>1 DEF Checking, NoCheck
<1>5. RowsAsRead'
  BY <1>1, <1>2, <1>4 DEF RowsAsRead, HasRow
<1>6. \A m \in Titles : row[m] # NoRow => Pending(m)'
  <2> SUFFICES ASSUME NEW m \in Titles, row[m] # NoRow PROVE Listing(m)'
    BY DEF Pending
  <2>1. drift'.pc = "check" /\ drift'.rows = T
    BY <1>1, <1>3 DEF Checking
  <2> QED
    BY <1>1, <1>3, <2>1 DEF Listing, HasRow
<1>7. \A m \in Titles \ blind : row[m] # NoRow /\ row[m].age # Never =>
        \/ misses[m] >= Grace
        \/ row[m].age <= misses[m]
        \/ row[m].age <= misses[m] + 1
  BY DEF GraceInv, AgesAreMisses
<1>8. AgesAreMisses'
  BY <1>1, <1>6, <1>7 DEF AgesAreMisses
<1> QED
  BY <1>5, <1>8

(* What a check does to the row it has read, if the movie still has it.    *)
LEMMA CheckedRow ==
  ASSUME GraceInv, NEW r \in Listed, Seen(r) \/ Missing(r) \/ CheckFails(r),
         Counted(r), HasRow(r.movie, r.id), r.age = row[r.movie].age,
         UNCHANGED <<ids, stored>>
  PROVE  \/ row'[r.movie] = NoRow
         \/ r.movie \in blind'
         \/ row'[r.movie].age = 0
         \/ /\ row'[r.movie] = row[r.movie]
            /\ r.movie \in blind <=> r.movie \in blind'
            /\ \/ misses'[r.movie] >= Grace
               \/ misses'[r.movie] = misses[r.movie] + 1
<1> DEFINE m == r.movie
<1>0. /\ m \in Titles /\ row \in [Titles -> RowState \cup {NoRow}]
      /\ misses \in [Titles -> Nat] /\ LibTypes /\ LatestRow
  BY DEF Listed, GraceInv, Types, LibTypes, GhostTypes
<1>1. CASE Bump(r) /\ UNCHANGED wanted
  <2>1. row' = [row EXCEPT ![m].age = 0] /\ row[m] # NoRow
    BY <1>1 DEF Bump, HasRow
  <2> HIDE DEF m
  <2>2. row'[m].age = 0
    BY <1>0, <1>1, <2>1, RowRenewed
  <2> QED
    BY <2>2 DEF m
<1>2. CASE CheckFails(r)
  BY <1>2 DEF CheckFails
<1>3. CASE DeleteAndRevert(m)
  BY <1>0, <1>3 DEF DeleteAndRevert
<1>4. CASE UNCHANGED <<row, blind>> /\ <<m, r.side>> \notin stored
  <2>1. misses'[m] = IF misses[m] < Grace THEN misses[m] + 1 ELSE misses[m]
    BY <1>0, <1>4 DEF Counted
  <2> HIDE DEF m
  <2>2. misses'[m] >= Grace \/ misses'[m] = misses[m] + 1
    BY <1>0, <2>1, FilesAssumption
  <2> QED
    BY <1>4, <2>2 DEF m
<1> QED
  BY <1>1, <1>2, <1>3, <1>4 DEF Seen, Missing

(* Other movies are left alone.                                            *)
LEMMA CheckedOthers ==
  ASSUME GraceInv, NEW r \in Listed, Seen(r) \/ Missing(r) \/ CheckFails(r),
         Counted(r), UNCHANGED <<ids, stored>>
  PROVE  /\ \A n \in Titles \ {r.movie} :
              /\ row'[n] = row[n] /\ misses'[n] = misses[n]
              /\ n \in blind <=> n \in blind'
         /\ ~HasRow(r.movie, r.id) =>
              /\ row' = row /\ misses'[r.movie] = misses[r.movie]
              /\ blind \subseteq blind'
<1>1. r.movie \in Titles /\ misses \in [Titles -> Nat]
  BY DEF Listed, GraceInv, Types, GhostTypes
<1>2. \A n \in Titles \ {r.movie} : row'[n] = row[n]
  BY CheckRows DEF GraceInv
<1>3. \A n \in Titles \ {r.movie} : misses'[n] = misses[n]
  BY <1>1 DEF Counted
<1>4. \A n \in Titles \ {r.movie} : n \in blind <=> n \in blind'
  BY DEF Seen, Missing, CheckFails, Bump
<1>5. ASSUME ~HasRow(r.movie, r.id)
      PROVE  row' = row /\ blind \subseteq blind'
  BY <1>5 DEF Seen, Missing, CheckFails, Bump
<1>6. ~HasRow(r.movie, r.id) => misses'[r.movie] = misses[r.movie]
  BY <1>1 DEF Counted
<1> QED
  BY <1>2, <1>3, <1>4, <1>5, <1>6

LEMMA CheckGrace ==
  ASSUME GraceInv, Check
  PROVE  RowsAsRead' /\ AgesAreMisses'
<1> USE DEF GraceInv
<1>1. PICK r \in drift.rows : /\ Seen(r) \/ Missing(r) \/ CheckFails(r)
                              /\ Checked(r) /\ Counted(r)
  BY DEF Check
<1>2. /\ drift.pc = "check" /\ up
      /\ UNCHANGED <<ids, stored, up, due>>
  BY DEF Check
<1>3. r \in Listed /\ drift.rows \subseteq Listed
  BY <1>1, <1>2, ListedRows DEF Types
<1>4. /\ \A n \in Titles \ {r.movie} :
           /\ row'[n] = row[n] /\ misses'[n] = misses[n]
           /\ n \in blind <=> n \in blind'
      /\ ~HasRow(r.movie, r.id) =>
           /\ row' = row /\ misses'[r.movie] = misses[r.movie]
           /\ blind \subseteq blind'
  BY <1>1, <1>2, <1>3, CheckedOthers
<1>5. /\ \A s, t \in drift.rows : s.movie = t.movie => s = t
      /\ \A s \in drift.rows :
           /\ s.id <= ids[s.movie]
           /\ HasRow(s.movie, s.id) => s.age = row[s.movie].age
  BY <1>2 DEF RowsAsRead
<1>6. drift'.pc = "check" => drift'.rows = drift.rows \ {r}
  BY <1>1 DEF Checked, Checking, NoCheck
<1>7. drift.rows \ {r} # {} => drift'.pc = "check"
  BY <1>1 DEF Checked, Checking
<1>8. \A s \in drift.rows \ {r} : s.movie \in Titles \ {r.movie}
  BY <1>1, <1>3, <1>5 DEF Listed
<1>9. RowsAsRead'
  BY <1>2, <1>4, <1>5, <1>6, <1>8 DEF RowsAsRead, HasRow
<1>10. \A n \in Titles \ {r.movie} : Pending(n) => Pending(n)'
  BY <1>1, <1>2, <1>4, <1>6, <1>7 DEF Pending, Listing, HasRow
<1>11. AgesAreMisses'
  <2> SUFFICES ASSUME NEW n \in Titles, n \notin blind', row'[n] # NoRow,
                      row'[n].age # Never
               PROVE  \/ misses'[n] >= Grace
                      \/ row'[n].age <= misses'[n]
                      \/ Pending(n)' /\ row'[n].age <= misses'[n] + 1
    BY DEF AgesAreMisses
  <2>0. row' \in [Titles -> RowState \cup {NoRow}] /\ misses' \in [Titles -> Nat]
    BY NextTypes DEF FilesNext, DriftCheck, Types, LibTypes, GhostTypes
  <2>1. CASE n # r.movie
    BY <1>4, <1>10, <2>1 DEF AgesAreMisses
  <2>2. CASE n = r.movie /\ ~HasRow(r.movie, r.id)
    <3>1. /\ row'[n] = row[n] /\ misses'[n] = misses[n] /\ n \notin blind
      BY <1>4, <2>2
    <3>2. ~Listing(n)
      BY <1>1, <1>5, <2>2 DEF Listing
    <3>3. Pending(n) => Pending(n)'
      BY <1>2, <3>2 DEF Pending
    <3> QED
      BY <3>1, <3>3 DEF AgesAreMisses
  <2>3. CASE n = r.movie /\ HasRow(r.movie, r.id)
    <3>1. \/ row'[n].age = 0
          \/ /\ row'[n] = row[n] /\ n \notin blind
             /\ misses'[n] >= Grace \/ misses'[n] = misses[n] + 1
      BY <1>1, <1>2, <1>3, <1>5, <2>3, CheckedRow
    <3>2. misses'[n] \in Nat
      BY <2>0
    <3>3. CASE row'[n].age = 0
      BY <3>2, <3>3
    <3>4. CASE misses'[n] >= Grace
      BY <3>4
    <3>5. CASE /\ row'[n] = row[n] /\ n \notin blind
               /\ misses'[n] = misses[n] + 1
      <4>1. \/ misses[n] >= Grace
            \/ row[n].age <= misses[n]
            \/ row[n].age <= misses[n] + 1
        BY <3>5 DEF AgesAreMisses
      <4>2. /\ misses[n] \in Nat /\ row[n].age \in Nat /\ Grace \in Nat
        <5>1. row'[n] \in RowState
          BY <2>0
        <5>2. row'[n].age \in Nat
          BY <5>1, FilesAssumption DEF RowState, Old
        <5> QED
          BY <3>5, <5>2, FilesAssumption DEF Types, GhostTypes
      <4> QED
        BY <3>5, <4>1, <4>2
    <3> QED
      BY <3>1, <3>3, <3>4, <3>5
  <2> QED
    BY <2>1, <2>2, <2>3
<1> QED
  BY <1>9, <1>11

(* The row of an import is newer than any the check has read.              *)
LEMMA ImportGrace ==
  ASSUME GraceInv, NEW m \in Titles, Reimport(m)
  PROVE  RowsAsRead' /\ AgesAreMisses'
<1> USE DEF GraceInv
<1>1. /\ row'[m].id = ids[m] + 1 /\ row'[m].age = 0 /\ ids[m] \in Nat
      /\ ids'[m] = ids[m] + 1
      /\ \A n \in Titles \ {m} : row'[n] = row[n] /\ ids'[n] = ids[n]
  <2>1. row'[m] = [id |-> ids[m] + 1, side |-> root, age |-> 0]
    BY ImportRow
  <2> QED
    BY <2>1, ImportRow DEF Types, LibTypes
<1>2. UNCHANGED <<drift, up, due>>
  BY DEF Reimport
<1>3. /\ misses'[m] = 0
      /\ \A n \in Titles \ {m} :
           misses'[n] = misses[n] /\ (n \in blind <=> n \in blind')
  BY DEF Reimport, Types, GhostTypes
<1>4. drift.pc = "check" =>
        \A r \in drift.rows : /\ r.movie \in Titles /\ r.id \in Nat
                              /\ r.id <= ids[r.movie]
  BY ListedRows DEF Listed, Types, RowsAsRead
<1>5. drift.pc = "check" =>
        \A r \in drift.rows : /\ r.id <= ids'[r.movie]
                              /\ HasRow(r.movie, r.id)' =>
                                   r.movie # m /\ HasRow(r.movie, r.id)
  BY <1>1, <1>4 DEF HasRow
<1>6. RowsAsRead'
  BY <1>1, <1>2, <1>4, <1>5 DEF RowsAsRead
<1>7. \A n \in Titles \ {m} : Pending(n) => Pending(n)'
  BY <1>1, <1>2 DEF Pending, Listing, HasRow
<1>8. AgesAreMisses'
  BY <1>1, <1>3, <1>7 DEF AgesAreMisses
<1> QED
  BY <1>6, <1>8

(* An interval passes: no check was due, and now one is.                   *)
LEMMA TickGrace ==
  ASSUME GraceInv, Tick
  PROVE  RowsAsRead' /\ AgesAreMisses'
<1> USE DEF GraceInv
<1>1. /\ UNCHANGED <<ids, drift, up, misses>> /\ due'
      /\ \A m \in Titles : row[m] = NoRow => row'[m] = NoRow
      /\ \A m \in Titles : row[m] # NoRow =>
           /\ row[m].age = Never => row'[m].age = Never
           /\ row[m].age # Never => row'[m].age \in {row[m].age, row[m].age + 1}
  BY RowsAge DEF Tick, serverVars, Types
<1>2. drift = NoCheck
  BY DEF Tick, RowsAsRead, Types, ServerTypes, DriftState
<1>3. RowsAsRead'
  BY <1>1, <1>2 DEF RowsAsRead, NoCheck
<1>4. AgesAreMisses'
  <2> SUFFICES ASSUME NEW m \in Titles \ blind', row'[m] # NoRow,
                      row'[m].age # Never
               PROVE  \/ misses[m] >= Grace
                      \/ Pending(m)' /\ row'[m].age <= misses[m] + 1
    BY <1>1 DEF AgesAreMisses
  <2>1. Pending(m)'
    BY <1>1 DEF Pending
  <2>2. m \notin blind /\ up /\ ~due
    BY DEF Tick
  <2>3. ~Pending(m)
    BY <1>2, <2>2 DEF Pending, Listing, NoCheck
  <2>4. /\ row[m] # NoRow /\ row[m].age # Never
        /\ row'[m].age \in {row[m].age, row[m].age + 1}
    BY <1>1
  <2>5. row[m].age \in Nat /\ misses[m] \in Nat /\ Grace \in Nat
    BY <2>4, FilesAssumption
       DEF Types, LibTypes, GhostTypes, RowState, Old
  <2>6. misses[m] >= Grace \/ row[m].age <= misses[m]
    BY <2>2, <2>3, <2>4 DEF AgesAreMisses
  <2>7. misses[m] >= Grace \/ row'[m].age <= misses[m] + 1
    BY <2>4, <2>5, <2>6
  <2> QED
    BY <2>1, <2>7
<1> QED
  BY <1>3, <1>4

LEMMA CrashGrace ==
  ASSUME GraceInv, Die \/ Boot
  PROVE  RowsAsRead' /\ AgesAreMisses'
<1> USE DEF GraceInv
<1>1. UNCHANGED <<row, ids, misses, blind>> /\ drift' \in {drift, NoCheck}
  BY DEF Die, Boot, shelfVars, serverVars, ghosts
<1>2. \A m \in Titles : Pending(m)'
  BY DEF Die, Boot, Pending
<1>3. RowsAsRead'
  BY DEF Die, Boot, RowsAsRead, NoCheck, serverVars
<1>4. AgesAreMisses'
  BY <1>1, <1>2 DEF AgesAreMisses
<1> QED
  BY <1>3, <1>4

LEMMA NextGrace == GraceInv /\ [FilesNext]_filesVars => GraceInv'
<1> SUFFICES ASSUME GraceInv, [FilesNext]_filesVars
             PROVE  RowsAsRead' /\ AgesAreMisses'
  BY NextTypes DEF GraceInv
<1>1. ASSUME NEW c \in Askers, Request(c) \/ Migrate(c)
      PROVE  RowsAsRead' /\ AgesAreMisses'
  BY <1>1, RequestGrace, MigrateGrace
<1>2. CASE DriftCheck
  BY <1>2, ListGrace, CheckGrace DEF DriftCheck, ScheduledRun, RunNow
<1>3. ASSUME NEW m \in Titles, Reimport(m)
      PROVE  RowsAsRead' /\ AgesAreMisses'
  BY <1>3, ImportGrace
<1>4. ASSUME NEW m \in Titles, NEW s \in Sides, Vanish(m, s) \/ Appear(m, s)
      PROVE  RowsAsRead' /\ AgesAreMisses'
  BY <1>4, AgesStay DEF Vanish, Appear, serverVars, ghosts
<1>5. CASE Tick
  BY <1>5, TickGrace
<1>6. CASE Die \/ Boot
  BY <1>6, CrashGrace
<1>7. CASE UNCHANGED filesVars
  BY <1>7, AgesStay DEF filesVars
<1> QED
  BY <1>1, <1>2, <1>3, <1>4, <1>5, <1>6, <1>7 DEF FilesNext

(* A check reaps a row only when its own miss completes the grace period.  *)
LEMMA ReapedInGrace ==
  ASSUME GraceInv, [FilesNext]_filesVars, NEW m \in Titles, Reaped(m), m \notin blind
  PROVE  misses'[m] >= Grace
<1> USE DEF GraceInv
<1>1. Check
  BY DEF Reaped, FilesNext, Request, Migrate, DriftCheck, Collect, Begin, FindFile,
         Unlink, Unrow, Visit, MoveFile, Save, PersistRoot, ScheduledRun,
         RunNow, List, Reimport, Vanish, Appear, Tick, Die, Boot, shelfVars,
         serverVars, filesVars
<1>2. PICK r \in drift.rows : /\ Seen(r) \/ Missing(r) \/ CheckFails(r)
                              /\ Checked(r) /\ Counted(r)
  BY <1>1 DEF Check
<1>3. drift.pc = "check" /\ UNCHANGED <<ids, stored>>
  BY <1>1 DEF Check
<1>4. r \in Listed
  BY <1>2, <1>3, ListedRows DEF Types
<1>5. m = r.movie /\ HasRow(r.movie, r.id)
  BY <1>2, <1>3, <1>4, CheckedOthers DEF Reaped
<1>6. r.age = row[m].age
  BY <1>2, <1>3, <1>5 DEF RowsAsRead
<1>7. m \in Titles /\ misses[m] \in Nat /\ row[m] \in RowState
  BY <1>4, <1>5 DEF Listed, Types, LibTypes, GhostTypes, HasRow
<1>8. ~Bump(r)
  <2> SUFFICES ASSUME Bump(r) PROVE FALSE
    OBVIOUS
  <2>1. row' = [row EXCEPT ![m].age = 0]
    BY <1>5 DEF Bump
  <2>2. row'[m] \in RowState
    BY <1>7, <2>1, FilesAssumption DEF Types, LibTypes, RowState, Old
  <2> QED
    BY <2>2, NoRowIsNone DEF Reaped
<1>9. row' # row
  BY DEF Reaped
<1>10. <<m, r.side>> \notin stored /\ Past(r)
  BY <1>2, <1>5, <1>8, <1>9 DEF Seen, Missing, CheckFails
<1>11. row[m].age \in Nat /\ row[m].age >= Grace /\ row[m].age # Never
  BY <1>6, <1>7, <1>10, FilesAssumption DEF Past, RowState, Old
<1>12. misses[m] >= Grace \/ row[m].age <= misses[m] + 1
  BY <1>7, <1>11 DEF AgesAreMisses, Reaped
<1>13. misses'[m] = IF misses[m] < Grace THEN misses[m] + 1 ELSE misses[m]
  BY <1>2, <1>5, <1>7, <1>10 DEF Counted, Types, GhostTypes
<1> QED
  BY <1>7, <1>11, <1>12, <1>13, FilesAssumption

(* As long as the checks take place and succeed, a row is reaped only once *)
(* its file was absent from as many of them in a row as the grace period   *)
(* has intervals (config.go:213), whatever migrations, deletions and       *)
(* restarts come between (drift.go, handleMissing).                        *)
THEOREM GraceIsKept == FilesSpec => GraceWhenChecked
<1>1. FilesInit => GraceInv
  BY InitGrace
<1>2. GraceInv /\ [FilesNext]_filesVars => GraceInv'
  BY NextGrace
<1>3. GraceInv /\ [FilesNext]_filesVars
        => [\A m \in Titles :
              Reaped(m) /\ m \notin blind => misses'[m] >= Grace]_filesVars
  BY ReapedInGrace
<1> QED
  BY <1>1, <1>2, <1>3, PTL DEF FilesSpec, GraceWhenChecked
=============================================================================
