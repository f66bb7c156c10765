----------------------------- MODULE RateLimiter -----------------------------
(***************************************************************************)
(* The limiter of credential attempts (auth/ratelimit.go): a sliding       *)
(* window per key, held in two generations of a table that is capped.      *)
(*                                                                         *)
(* Allow reads the clock BEFORE it takes the mutex, so a call may decide   *)
(* with a time that is up to Skew old, and calls may be decided in another *)
(* order than they read the clock.  Everything under the mutex is one      *)
(* step.  A caller that was let in either refunds its attempt or leaves.   *)
(* A zero limit, which refuses before it looks at the clock, is left out.  *)
(***************************************************************************)
EXTENDS Integers, Sequences, FiniteSets

CONSTANTS
  Keys,      \* what bucketKey folds addresses into
  Callers,   \* request goroutines
  Limit,     \* attempts per key in any window
  Window,    \* its length
  MaxKeys,   \* keys tracked at once
  Skew,      \* how long a call may wait for the mutex
  None,      \* no entry in a generation
  MaxTime    \* bound of the model on the clock

ASSUME LimitAssumption == Limit \in 1..255
ASSUME WindowAssumption == Window \in Nat \ {0}
ASSUME MaxKeysAssumption == MaxKeys \in Nat \ {0}
ASSUME SkewAssumption == Skew \in Nat
ASSUME KeysAssumption == IsFiniteSet(Keys)
ASSUME MaxTimeAssumption == MaxTime \in Nat
ASSUME NoneAssumption == None \notin Seq(Nat)

VARIABLES
  clock,      \* time.Since(l.start)
  cur, prev,  \* key -> attempts inside the window, oldest first, or None
  rotateAt,   \* when cur becomes prev
  pc, key, at,  \* caller -> where it stands, its key, the time it read
  wait,       \* caller -> the wait of its last refusal, 0 after a grant
  log         \* ghost: key -> attempts recorded and not refunded

table == <<cur, prev, rotateAt>>
call == <<pc, key, at, wait>>
vars == <<clock, cur, prev, rotateAt, pc, key, at, wait, log>>

Empty == [k \in Keys |-> None]

Init ==
  /\ clock = 0
  /\ cur = Empty
  /\ prev = Empty
  /\ rotateAt = Window
  /\ pc = [c \in Callers |-> "idle"]
  /\ key \in [Callers -> Keys]
  /\ at = [c \in Callers |-> 0]
  /\ wait = [c \in Callers |-> 0]
  /\ log = [k \in Keys |-> << >>]

-----------------------------------------------------------------------------
(* The table, under the mutex. *)

\* Mutant: rotation empties both generations.
RotatedAll(now) ==
  CASE now < rotateAt ->
         [cur |-> cur, prev |-> prev, rotateAt |-> rotateAt]
    [] OTHER ->
         [cur |-> Empty, prev |-> Empty, rotateAt |-> now + Window]

\* rotateLocked: the generations a call at time now works on.
Rotated(now) ==
  CASE now < rotateAt ->
         [cur |-> cur, prev |-> prev, rotateAt |-> rotateAt]
    [] now >= rotateAt + Window ->
         [cur |-> Empty, prev |-> Empty, rotateAt |-> now + Window]
    [] OTHER ->
         [cur |-> Empty, prev |-> cur, rotateAt |-> now + Window]

Entry(gen, k) == IF gen.cur[k] # None THEN gen.cur[k] ELSE gen.prev[k]

\* Mutant: nothing ages.
IsAgedNever(w, cutoff, aged) == aged = 0

\* Mutant: the cutoff is one too late.
IsAgedEarly(w, cutoff, aged) ==
  /\ \A i \in 1..aged : w[i] <= cutoff + 1
  /\ aged < Len(w) => w[aged + 1] > cutoff + 1

\* Mutant: an attempt at the cutoff still counts.
IsAgedLate(w, cutoff, aged) ==
  /\ \A i \in 1..aged : w[i] < cutoff
  /\ aged < Len(w) => w[aged + 1] >= cutoff

\* insideWindow: aged is the number of leading attempts at or before cutoff.
IsAged(w, cutoff, aged) ==
  /\ \A i \in 1..aged : w[i] <= cutoff
  /\ aged < Len(w) => w[aged + 1] > cutoff

TableSize(gen) ==
  Cardinality({k \in Keys : gen.cur[k] # None})
    + Cardinality({k \in Keys : gen.prev[k] # None})

\* Mutant: a revived key stays in prev as well.
StoreBoth(gen, k, w) ==
  /\ cur' = [gen.cur EXCEPT ![k] = w]
  /\ prev' = gen.prev
  /\ rotateAt' = gen.rotateAt

\* The entry of k moves into cur, out of prev when it was found there.
Store(gen, k, w) ==
  /\ cur' = [gen.cur EXCEPT ![k] = w]
  /\ prev' = IF gen.cur[k] # None THEN gen.prev
                                  ELSE [gen.prev EXCEPT ![k] = None]
  /\ rotateAt' = gen.rotateAt

-----------------------------------------------------------------------------
(* Allow. *)

\* now := time.Since(l.start), before l.mu.Lock().
ReadClock(c, k) ==
  /\ pc[c] = "idle"
  /\ pc' = [pc EXCEPT ![c] = "reading"]
  /\ key' = [key EXCEPT ![c] = k]
  /\ at' = [at EXCEPT ![c] = clock]
  /\ wait' = [wait EXCEPT ![c] = 0]
  /\ UNCHANGED <<clock, table, log>>

Refuse(c, gen, w) ==
  /\ Len(w) >= Limit
  /\ Store(gen, key[c], w)
  /\ pc' = [pc EXCEPT ![c] = "idle"]
  /\ wait' = [wait EXCEPT ![c] = Window - (at[c] - w[1])]
  /\ UNCHANGED log

\* Past the cap a new key is let in and not recorded; rotation remains.
LetInUntracked(c, gen, w) ==
  /\ Len(w) < Limit
  /\ Entry(gen, key[c]) = None
  /\ TableSize(gen) >= MaxKeys
  /\ cur' = gen.cur
  /\ prev' = gen.prev
  /\ rotateAt' = gen.rotateAt
  /\ pc' = [pc EXCEPT ![c] = "granted"]
  /\ UNCHANGED <<wait, log>>

\* Mutant: the comparison with the limit is off by one.
RecordOneMore(c, gen, w) ==
  /\ Len(w) <= Limit
  /\ Entry(gen, key[c]) # None \/ TableSize(gen) < MaxKeys
  /\ Store(gen, key[c], Append(w, at[c]))
  /\ pc' = [pc EXCEPT ![c] = "granted"]
  /\ log' = [log EXCEPT ![key[c]] = Append(log[key[c]], at[c])]
  /\ UNCHANGED wait

Record(c, gen, w) ==
  /\ Len(w) < Limit
  /\ Entry(gen, key[c]) # None \/ TableSize(gen) < MaxKeys
  /\ Store(gen, key[c], Append(w, at[c]))
  /\ pc' = [pc EXCEPT ![c] = "granted"]
  /\ log' = [log EXCEPT ![key[c]] = Append(log[key[c]], at[c])]
  /\ UNCHANGED wait

Held(gen, k) == IF Entry(gen, k) = None THEN << >> ELSE Entry(gen, k)

Allow(c) ==
  /\ pc[c] = "reading"
  /\ LET gen == Rotated(at[c])
         w == Held(gen, key[c])
     IN  \E aged \in 0..Len(w) :
           /\ IsAged(w, at[c] - Window, aged)
           /\ LET young == SubSeq(w, aged + 1, Len(w)) IN
                \/ Refuse(c, gen, young)
                \/ LetInUntracked(c, gen, young)
                \/ Record(c, gen, young)
  /\ UNCHANGED <<clock, key, at>>

-----------------------------------------------------------------------------
(* After the credentials were checked. *)

DropLast(w) == SubSeq(w, 1, Len(w) - 1)

HasAttempt(gen, k) == gen[k] # None /\ gen[k] # << >>

\* Refund: the newest attempt of the first generation that holds one.
Refund(c) ==
  LET k == key[c] IN
  /\ pc[c] = "granted"
  /\ pc' = [pc EXCEPT ![c] = "idle"]
  /\ \/ /\ HasAttempt(cur, k)
        /\ cur' = [cur EXCEPT ![k] = DropLast(cur[k])]
        /\ log' = [log EXCEPT ![k] = DropLast(log[k])]
        /\ UNCHANGED prev
     \/ /\ ~HasAttempt(cur, k) /\ HasAttempt(prev, k)
        /\ prev' = [prev EXCEPT ![k] = DropLast(prev[k])]
        /\ log' = [log EXCEPT ![k] = DropLast(log[k])]
        /\ UNCHANGED cur
     \/ /\ ~HasAttempt(cur, k) /\ ~HasAttempt(prev, k)
        /\ UNCHANGED <<cur, prev, log>>
  /\ UNCHANGED <<clock, rotateAt, key, at, wait>>

\* Wrong credentials: the attempt stays charged.
Leave(c) ==
  /\ pc[c] = "granted"
  /\ pc' = [pc EXCEPT ![c] = "idle"]
  /\ UNCHANGED <<clock, table, key, at, wait, log>>

\* Time passes; no call waits for the mutex longer than Skew.
Tick ==
  /\ clock < MaxTime
  /\ \A c \in Callers : pc[c] = "reading" => clock < at[c] + Skew
  /\ clock' = clock + 1
  /\ UNCHANGED <<table, call, log>>

Next ==
  \/ Tick
  \/ \E c \in Callers :
       \/ \E k \in Keys : ReadClock(c, k)
       \/ Allow(c)
       \/ Refund(c)
       \/ Leave(c)

Spec == Init /\ [][Next]_vars

-----------------------------------------------------------------------------
Table == [cur |-> cur, prev |-> prev, rotateAt |-> rotateAt]

Holds(k) == Held(Table, k)

TypeOK ==
  /\ clock \in Nat
  /\ cur \in [Keys -> Seq(Nat) \cup {None}]
  /\ prev \in [Keys -> Seq(Nat) \cup {None}]
  /\ rotateAt \in Nat
  /\ pc \in [Callers -> {"idle", "reading", "granted"}]
  /\ key \in [Callers -> Keys]
  /\ at \in [Callers -> Nat]
  /\ wait \in [Callers -> Nat]
  /\ log \in [Keys -> Seq(Nat)]

\* "No window of that length anywhere on the timeline ever contains more than
\* limit grants" (ratelimit.go:78): two charged attempts that are Limit or more
\* apart in the list of a key are a window apart, less the time a call may
\* wait for the mutex.  Rotation, the move between generations, expiry and
\* refunds must all leave enough attempts in place.
WindowBound ==
  \A k \in Keys : \A i, j \in 1..Len(log[k]) :
    i + Limit <= j => log[k][i] + Window <= log[k][j] + Skew

\* "Attempts are only ever dropped by ageing out, never to reclaim space"
\* (ratelimit.go:84): whatever the table forgot about a key is a window old,
\* and the rest is exactly the end of the key's list.
ForgetsOnlyAged ==
  \A k \in Keys :
    LET dropped == Len(log[k]) - Len(Holds(k)) IN
    /\ dropped >= 0
    /\ \A i \in 1..dropped : log[k][i] + Window <= clock
    /\ \A i \in 1..Len(Holds(k)) : Holds(k)[i] = log[k][dropped + i]

\* "A key appears in at most one of them" (ratelimit.go:111) and "memory is
\* bounded" (ratelimit.go:93): a key that is revived from prev while new keys
\* arrive must not be counted, or kept, twice.
TableBounded ==
  /\ \A k \in Keys : cur[k] = None \/ prev[k] = None
  /\ TableSize(Table) <= MaxKeys

\* "A caller that has made no attempts is never refused" and the wait is
\* "strictly positive whenever the attempt is refused" (ratelimit.go:86, 13):
\* a refusal is backed by Limit attempts of the caller's own key that are
\* still charged and young, and its wait ends within a window.
RefusalJustified ==
  [][\A c \in Callers :
       pc[c] = "reading" /\ pc'[c] = "idle" =>
         LET mine == log[key[c]] IN
         /\ Cardinality({i \in 1..Len(mine) :
                           at[c] < mine[i] + Window + Skew}) >= Limit
         /\ wait'[c] \in 1..(Window + Skew)]_vars

\* The limiter implements the sliding window with no table at all.
Budget == INSTANCE SlidingWindow
            WITH Keys <- Keys, Limit <- Limit, Window <- Window,
                 Skew <- Skew, clock <- clock, log <- log

BudgetSpec == Budget!Spec
=============================================================================
