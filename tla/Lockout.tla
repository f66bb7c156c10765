------------------------------- MODULE Lockout -------------------------------
(***************************************************************************)
(* The lockout of one account (auth/lockout.go, auth.Login in              *)
(* auth/service.go, auth/unlock.go): three columns of the user row, read   *)
(* before the password is compared and written after it.                   *)
(*                                                                         *)
(* The database has one connection, so a transaction is one step.  Between *)
(* the read of the row and the end of the comparison a login holds what it *)
(* read and the time it read; at most CompareTime passes.                  *)
(***************************************************************************)
EXTENDS Integers, Sequences, FiniteSets

CONSTANTS
  Logins,           \* request goroutines
  Threshold,        \* LockoutPolicy.Threshold, .Window, .Duration
  LockoutWindow,
  LockoutDuration,
  CountMod,         \* 256: the counter is a uint8
  CompareTime,      \* how long a comparison may take
  MaxNow,           \* bounds of the model: clock and failures
  MaxFails,
  Never             \* a nil time

VARIABLES
  now,    \* time.Now()
  user,   \* the columns of the row: LockoutState
  login,  \* request -> where it stands, the row and the time it read
  fails   \* ghost: times of the failures counted since the last clear

lockoutVars == <<now, user, login, fails>>

Clear == [count |-> 0, last |-> Never, until |-> Never]
NoLogin == [pc |-> "idle", seen |-> Clear, at |-> 0]

LockoutInit ==
  /\ now = 0
  /\ user = Clear
  /\ login = [c \in Logins |-> NoLogin]
  /\ fails = << >>

IsLocked(s, t) == s.until # Never /\ t < s.until

\* Mutant: the threshold is exceeded before the account is locked.
OnFailedAttemptLate(s, t) ==
  LET old == s.last # Never /\ t - s.last > LockoutWindow
      count == ((IF old THEN 0 ELSE s.count) + 1) % CountMod
  IN  [count |-> count, last |-> t,
       until |-> IF count > Threshold THEN t + LockoutDuration ELSE s.until]

OnFailedAttempt(s, t) ==
  LET old == s.last # Never /\ t - s.last > LockoutWindow
      count == ((IF old THEN 0 ELSE s.count) + 1) % CountMod
  IN  [count |-> count, last |-> t,
       until |-> IF count >= Threshold THEN t + LockoutDuration ELSE s.until]

\* The request is answered, one way or the other.
Answer(c) == login' = [login EXCEPT ![c] = NoLogin]

\* FindUserByEmail.
Find(c) ==
  /\ login[c].pc = "idle"
  /\ login' = [login EXCEPT ![c] = [pc |-> "found", seen |-> user, at |-> 0]]
  /\ UNCHANGED <<now, user, fails>>

\* now := time.Now(); a locked account is refused before the comparison.
Check(c) ==
  /\ login[c].pc = "found"
  /\ IF IsLocked(login[c].seen, now)
     THEN Answer(c)
     ELSE login' = [login EXCEPT ![c] = [pc |-> "compare", seen |-> @.seen,
                                         at |-> now]]
  /\ UNCHANGED <<now, user, fails>>

\* Mutant: the failure is counted from the row read before the comparison.
MismatchStale(c) ==
  /\ login[c].pc = "compare"
  /\ Len(fails) < MaxFails
  /\ user' = OnFailedAttempt(login[c].seen, login[c].at)
  /\ fails' = Append(fails, login[c].at)
  /\ Answer(c)
  /\ UNCHANGED now

\* applyFailedAttempt: re-read, count, commit.
Mismatch(c) ==
  /\ login[c].pc = "compare"
  /\ Len(fails) < MaxFails
  /\ user' = OnFailedAttempt(user, login[c].at)
  /\ fails' = Append(fails, login[c].at)
  /\ Answer(c)
  /\ UNCHANGED now

\* The transaction fails: the attempt is refused but not counted.
MismatchLost(c) ==
  /\ login[c].pc = "compare"
  /\ Answer(c)
  /\ UNCHANGED <<now, user, fails>>

\* The password matches: lockout state is cleared when the row read had any;
\* a failed clear is only logged.
Match(c) ==
  /\ login[c].pc = "compare"
  /\ Answer(c)
  /\ \/ /\ login[c].seen # Clear
        /\ user' = Clear
        /\ fails' = << >>
     \/ UNCHANGED <<user, fails>>
  /\ UNCHANGED now

\* unlockByID, and a login through the identity provider.
Unlock ==
  /\ user' = Clear
  /\ fails' = << >>
  /\ UNCHANGED <<now, login>>

TimePasses ==
  /\ now < MaxNow
  /\ \A c \in Logins :
       login[c].pc = "compare" => now < login[c].at + CompareTime
  /\ now' = now + 1
  /\ UNCHANGED <<user, login, fails>>

LockoutNext ==
  \/ TimePasses
  \/ Unlock
  \/ \E c \in Logins :
       Find(c) \/ Check(c) \/ Mismatch(c) \/ MismatchLost(c) \/ Match(c)

LockoutSpec == LockoutInit /\ [][LockoutNext]_lockoutVars

-----------------------------------------------------------------------------
\* The failures a list of them ends with, none later than LockoutWindow
\* after the one before.
Streak(f) ==
  Cardinality({i \in 1..Len(f) :
                 \A j \in i..(Len(f) - 1) : f[j + 1] - f[j] <= LockoutWindow})

\* "Incremented inside a transaction so concurrent attempts can't race the
\* increment" (service.go:470): the counter is the length of the last run of
\* failures, whatever other logins read or cleared meanwhile.
CountExact ==
  /\ user.count = Streak(fails) % CountMod
  /\ user.last = IF fails = << >> THEN Never ELSE fails[Len(fails)]

\* The lockout ends a guessing run (lockout.go:32): once a failure has brought
\* the counter to the threshold, the only failures still counted before the
\* lock expires are those of logins already under way.
Locks(i) == Streak(SubSeq(fails, 1, i)) % CountMod >= Threshold

GuessBound ==
  \A i \in 1..Len(fails) :
    Locks(i) =>
      Cardinality({j \in (i + 1)..Len(fails) :
                     fails[j] + CompareTime < fails[i] + LockoutDuration})
        < Cardinality(Logins)
=============================================================================
