------------------------------ MODULE MCServices ------------------------------
(***************************************************************************)
(* Four services that share no state with one another, side by side: the   *)
(* limiter of credential attempts, the account lockout, the requests and   *)
(* the torrent engine.  A behaviour is one of the four; the variables of   *)
(* the others stay as they are.                                            *)
(***************************************************************************)
EXTENDS RateLimiter, Lockout, Requests, TorrentEngine, TLC

CONSTANTS
  k1, k2,           \* addresses
  c1, c2,           \* callers of the four services
  t0, q1, q2, q3,   \* a title and request rows
  h0                \* a torrent

VARIABLE service

ServicesInit ==
  /\ service \in {"limiter", "lockout", "requests", "engine"}
  /\ Init /\ LockoutInit /\ RequestsInit /\ EngineInit
  /\ service # "limiter" => \A c \in Callers : key[c] = k1

ServicesNext ==
  \/ /\ service = "limiter" /\ Next
     /\ UNCHANGED <<service, lockoutVars, requestsVars, engineVars>>
  \/ /\ service = "lockout" /\ LockoutNext
     /\ UNCHANGED <<service, vars, requestsVars, engineVars>>
  \/ /\ service = "requests" /\ RequestsNext
     /\ UNCHANGED <<service, vars, lockoutVars, engineVars>>
  \/ /\ service = "engine" /\ EngineNext
     /\ UNCHANGED <<service, vars, lockoutVars, requestsVars>>

ServicesSpec ==
  ServicesInit
    /\ [][ServicesNext]_<<service, vars, lockoutVars, requestsVars, engineVars>>

\* Callers are interchangeable, and so are keys (safety runs only).
CallerKeySymmetry == Permutations(Callers) \cup Permutations(Keys)
=============================================================================
