------------------------------ MODULE MCLibrary ------------------------------
(***************************************************************************)
(* Two sets of actors that write into the library, for TLC: the importer   *)
(* with its rivals, and the migration, drift check and deletions of files. *)
(* In the model they share no state; a behaviour is one of the two, and    *)
(* the variables of the other stay as they are.                            *)
(***************************************************************************)
EXTENDS MCImportWorker, LibraryFiles

VARIABLE part

LibraryInit ==
  /\ part \in {"imports", "files"}
  /\ Init /\ FilesInit
  /\ part = "imports" => \A m \in Titles : row[m].age = 0

LibraryNext ==
  \/ /\ part = "imports" /\ Next
     /\ UNCHANGED <<part, filesVars>>
  \/ /\ part = "files" /\ FilesNext
     /\ UNCHANGED <<part, vars>>

LibrarySpec == LibraryInit /\ [][LibraryNext]_<<part, vars, filesVars>>
=============================================================================
