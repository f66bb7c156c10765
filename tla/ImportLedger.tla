---------------------------- MODULE ImportLedger ----------------------------
(***************************************************************************)
(* What the importer promises about a download record, with no queue, no   *)
(* goroutine and no file: a record is imported at most once, a settled     *)
(* record never becomes importing again, a media-file row is written only  *)
(* by the step that completes its record, and a row is taken away only for *)
(* a record of the same movie that was flagged to replace it.              *)
(***************************************************************************)
CONSTANTS Records, MovieOf, Replacing, Imported

VARIABLES
  status,   \* download_record.status; "deleted" once the row is gone
  rows      \* the records whose import left a media_file row

ledger == <<status, rows>>

Init ==
  /\ status = [r \in Records |-> IF r \in Imported THEN "completed"
                                                   ELSE "downloading"]
  /\ rows \in SUBSET Imported

Detect(r) ==
  /\ status[r] = "downloading"
  /\ status' = [status EXCEPT ![r] = "importing"]
  /\ UNCHANGED rows

Complete(r) ==
  /\ status[r] = "importing"
  /\ status' = [status EXCEPT ![r] = "completed"]
  /\ rows' = rows \cup {r}

Fail(r) ==
  /\ status[r] = "importing"
  /\ status' = [status EXCEPT ![r] = "failed"]
  /\ UNCHANGED rows

Cancel(r) ==
  /\ status[r] # "deleted"
  /\ status' = [status EXCEPT ![r] = "deleted"]
  /\ UNCHANGED rows

Replace(f) ==
  /\ f \in rows
  /\ \E r \in Replacing : r # f /\ MovieOf[r] = MovieOf[f]
  /\ rows' = rows \ {f}
  /\ UNCHANGED status

Next ==
  \E r \in Records :
    Detect(r) \/ Complete(r) \/ Fail(r) \/ Cancel(r) \/ Replace(r)

Spec == Init /\ [][Next]_ledger
=============================================================================
