---------------------------- MODULE SlidingWindow ----------------------------
(***************************************************************************)
(* What the login limiter promises, with no table, no generations and no   *)
(* lock: every key has the list of the attempts charged to it, an attempt  *)
(* is charged only when all but the last Limit - 1 of them are at least    *)
(* Window old, and a refund takes back the last one.  Nothing else ever    *)
(* shortens a list.                                                        *)
(***************************************************************************)
EXTENDS Integers, Sequences

CONSTANTS Keys, Limit, Window, Skew

VARIABLES
  clock,   \* the time since the limiter was built
  log      \* key -> the times of the attempts charged and not refunded

budget == <<clock, log>>

Init ==
  /\ clock = 0
  /\ log = [k \in Keys |-> << >>]

Tick ==
  /\ clock' = clock + 1
  /\ UNCHANGED log

\* The charge carries the time its caller read, at most Skew ago.
Charge(k) ==
  /\ \A i \in 1..Len(log[k]) :
       i + Limit <= Len(log[k]) + 1 => log[k][i] + Window <= clock
  /\ \E t \in 0..clock :
       /\ clock <= t + Skew
       /\ log' = [log EXCEPT ![k] = Append(log[k], t)]
  /\ UNCHANGED clock

Return(k) ==
  /\ Len(log[k]) > 0
  /\ log' = [log EXCEPT ![k] = SubSeq(log[k], 1, Len(log[k]) - 1)]
  /\ UNCHANGED clock

Next == Tick \/ \E k \in Keys : Charge(k) \/ Return(k)

Spec == Init /\ [][Next]_budget
=============================================================================
