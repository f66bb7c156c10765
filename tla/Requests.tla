------------------------------- MODULE Requests -------------------------------
(***************************************************************************)
(* Media requests (internal/request/service.go, internal/db/request.go):   *)
(* users ask for a title, reviewers approve, which adds the title to the   *)
(* library, deny or reopen, and the importer makes an approved request     *)
(* available.  Nothing but the unique key of the library's titles is       *)
(* protected: every operation reads first and writes by id afterwards.     *)
(*                                                                         *)
(* Movies and shows are the same here: a title of the library.             *)
(***************************************************************************)
EXTENDS Naturals, FiniteSets

CONSTANTS
  Titles,
  Rows,      \* ids of request rows
  Clients,
  MaxAdds    \* bound of the model: how often a title is added

VARIABLES
  status,    \* row -> request.status; "free": not yet inserted
  title,     \* row -> the title asked for
  library,   \* titles in the library
  imported,  \* titles whose import has not yet been told to the requests
  client,    \* client -> the operation in progress
  adds,      \* ghost: title -> how often it was added
  deleted    \* ghost: titles that were deleted from the library

requestsVars == <<status, title, library, imported, client, adds, deleted>>
libraryVars == <<library, imported, adds, deleted>>

Statuses == {"pending", "approved", "denied", "available"}
Active == {"pending", "approved", "available"}
NoOperation == [pc |-> "idle"]

RequestsInit ==
  /\ status = [r \in Rows |-> "free"]
  /\ title \in [Rows -> Titles]
  /\ library = {} /\ imported = {}
  /\ client = [c \in Clients |-> NoOperation]
  /\ adds = [t \in Titles |-> 0]
  /\ deleted = {}

Reply(c) == client' = [client EXCEPT ![c] = NoOperation]

-----------------------------------------------------------------------------
(* Create: an active request, then the library, then the insert. *)

FindActive(c, t) ==
  /\ client[c] = NoOperation
  /\ \A r \in Rows : status[r] \in Active => title[r] # t
  /\ client' = [client EXCEPT ![c] = [pc |-> "lookup", title |-> t]]
  /\ UNCHANGED <<status, title, libraryVars>>

\* GetByTMDBID, FindTVShowByTVDBID; an error counts as not in the library.
FindInLibrary(c) ==
  /\ client[c].pc = "lookup"
  /\ \/ client' = [client EXCEPT ![c].pc = "insert"]
     \/ client[c].title \in library /\ Reply(c)
  /\ UNCHANGED <<status, title, libraryVars>>

CreateRequest(c, r) ==
  /\ client[c].pc = "insert"
  /\ status[r] = "free" /\ title[r] = client[c].title
  /\ status' = [status EXCEPT ![r] = "pending"]
  /\ Reply(c)
  /\ UNCHANGED <<title, libraryVars>>

-----------------------------------------------------------------------------
(* Approve: the request is found in any status, its title added, and the   *)
(* request approved by id.                                                 *)

GetRequest(c, r) ==
  /\ client[c] = NoOperation
  /\ status[r] # "free"
  /\ client' = [client EXCEPT ![c] = [pc |-> "add", row |-> r]]
  /\ UNCHANGED <<status, title, libraryVars>>

\* movies.Add, shows.Add: an error when the title is there.
Add(t) ==
  /\ t \notin library /\ adds[t] < MaxAdds
  /\ library' = library \cup {t}
  /\ adds' = [adds EXCEPT ![t] = @ + 1]
  /\ UNCHANGED <<imported, deleted>>

\* Mutant: the request goes on although its title could not be added.
AddTitleUnchecked(c) ==
  /\ client[c].pc = "add"
  /\ Add(title[client[c].row]) \/ UNCHANGED libraryVars
  /\ client' = [client EXCEPT ![c].pc = "approve"]
  /\ UNCHANGED <<status, title>>

\* A title that is there, the provider or the database end the approval.
AddTitle(c) ==
  /\ client[c].pc = "add"
  /\ \/ /\ Add(title[client[c].row])
        /\ client' = [client EXCEPT ![c].pc = "approve"]
     \/ /\ Reply(c)
        /\ UNCHANGED libraryVars
  /\ UNCHANGED <<status, title>>

\* ApproveRequest, or its error.
ApproveRequest(c) ==
  /\ client[c].pc = "approve"
  /\ \/ status' = [status EXCEPT ![client[c].row] = "approved"]
     \/ UNCHANGED status
  /\ Reply(c)
  /\ UNCHANGED <<title, libraryVars>>

-----------------------------------------------------------------------------
(* One statement each. *)

Deny(r) ==
  /\ status[r] # "free"
  /\ status' = [status EXCEPT ![r] = "denied"]
  /\ UNCHANGED <<title, libraryVars, client>>

Reopen(r) ==
  /\ status[r] # "free"
  /\ status' = [status EXCEPT ![r] = "pending"]
  /\ UNCHANGED <<title, libraryVars, client>>

\* Mutant: every open request for the title, not the approved ones.
ApprovedOrOpen(t) == {r \in Rows : status[r] \in Active /\ title[r] = t}

Approved(t) == {r \in Rows : status[r] = "approved" /\ title[r] = t}

\* MarkRequestsAvailable; its error is only logged.
MarkAvailable(t) ==
  /\ t \in imported
  /\ imported' = imported \ {t}
  /\ \/ status' = [r \in Rows |-> IF r \in Approved(t) THEN "available"
                                                       ELSE status[r]]
     \/ UNCHANGED status
  /\ UNCHANGED <<title, library, client, adds, deleted>>

\* External: an import succeeds, a user adds or deletes a title.
Imported(t) ==
  /\ t \in library
  /\ imported' = imported \cup {t}
  /\ UNCHANGED <<status, title, library, client, adds, deleted>>

AddByHand(t) == Add(t) /\ UNCHANGED <<status, title, client>>

DeleteTitle(t) ==
  /\ t \in library
  /\ library' = library \ {t}
  /\ deleted' = deleted \cup {t}
  /\ UNCHANGED <<status, title, imported, client, adds>>

\* The process dies in the middle of the operations.
Restart ==
  /\ client' = [c \in Clients |-> NoOperation]
  /\ imported' = {}
  /\ UNCHANGED <<status, title, library, adds, deleted>>

RequestsNext ==
  \/ \E c \in Clients :
       \/ FindInLibrary(c) \/ AddTitle(c) \/ ApproveRequest(c)
       \/ \E t \in Titles : FindActive(c, t)
       \/ \E r \in Rows : CreateRequest(c, r) \/ GetRequest(c, r)
  \/ \E r \in Rows : Deny(r) \/ Reopen(r)
  \/ \E t \in Titles :
       MarkAvailable(t) \/ Imported(t) \/ AddByHand(t) \/ DeleteTitle(t)
  \/ Restart

RequestsSpec == RequestsInit /\ [][RequestsNext]_requestsVars

-----------------------------------------------------------------------------
RequestsTypeOK ==
  /\ status \in [Rows -> Statuses \cup {"free"}]
  /\ library \cup imported \cup deleted \subseteq Titles
  /\ adds \in [Titles -> 0..MaxAdds]
  /\ \A c \in Clients : client[c].pc = "approve" =>
       title[client[c].row] \in library \cup deleted

\* Two requests for one title, which nothing prevents, do not both get
\* approved: an approval stands for the one addition of the title it made
\* (Approve), through denials, reopenings and second attempts.
Answered(t) == {r \in Rows : title[r] = t /\ status[r] \in {"approved", "available"}}

ApprovedOnce == \A t \in Titles : Cardinality(Answered(t)) <= adds[t]

\* What was approved is in the library, unless it was deleted from there: a
\* failure between the addition and the approval errs on the side of a title
\* nobody is told of.
ApprovedIsInLibrary ==
  \A t \in Titles : Answered(t) # {} => t \in library \cup deleted
=============================================================================
