----------------------------- MODULE MCBulkImport -----------------------------
(* Instances of BulkImport for TLC. *)
EXTENDS BulkImport, TLC

CONSTANTS m1, m2, f1, f2, f3, o1, p1, p2, p3

\* A known movie and another file of it, and two files of a new one.
NewMovieOf == f1 :> m1 @@ f2 :> m2 @@ f3 :> m2

\* The file of the known movie lies in the scanned directory, beside another.
TwinMovieOf == f1 :> m1 @@ f2 :> m1 @@ f3 :> m2

\* One directory of two files, and a file alone in another.
TwoDirs == f1 :> "d1" @@ f2 :> "d1" @@ f3 :> "d2"

OldElsewhere == m1 :> o1
OldScanned == m1 :> f1
Placed == f1 :> p1 @@ f2 :> p2 @@ f3 :> p3
=============================================================================
