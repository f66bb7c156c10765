---------------------------- MODULE Services_proofs ----------------------------
(***************************************************************************)
(* What holds of the lockout of an account for any number of logins, any   *)
(* threshold, window and duration, and any time a comparison may take; and *)
(* of requests for any number of titles, rows, users and reviewers, and    *)
(* any number of additions.                                                *)
(***************************************************************************)
EXTENDS Lockout, Requests, FiniteSetTheorems, SequenceTheorems, TLAPS

-----------------------------------------------------------------------------
(***************************************************************************)
(* The lockout.                                                            *)
(***************************************************************************)
(* A uint8 counter, whole times, and a nil time that is none of them.      *)
LockoutParameters ==
  /\ CountMod = 256
  /\ Threshold \in Int /\ LockoutWindow \in Int /\ LockoutDuration \in Int
  /\ CompareTime \in Nat
  /\ Never \notin Int

Times == Int \cup {Never}
AccountState == [count : Nat, last : Times, until : Times]

LoginTypes ==
  /\ now \in Nat
  /\ user \in AccountState
  /\ login \in [Logins -> [pc : {"idle", "found", "compare"}, seen : AccountState,
                           at : Int]]
  /\ fails \in Seq(Int)
-----------------------------------------------------------------------------
LEMMA InitLoginTypes == LockoutInit => LoginTypes
  BY DEF LockoutInit, LoginTypes, Clear, NoLogin, AccountState, Times

LEMMA FailedState ==
  ASSUME LockoutParameters, NEW s \in AccountState, NEW t \in Int
  PROVE  OnFailedAttempt(s, t) \in AccountState
<1>1. \A n \in Nat : (n + 1) % CountMod \in Nat
  BY DEF LockoutParameters
<1> QED
  BY <1>1 DEF OnFailedAttempt, AccountState, Times, LockoutParameters

LEMMA NextLoginTypes ==
  LockoutParameters /\ LoginTypes /\ [LockoutNext]_lockoutVars => LoginTypes'
<1> SUFFICES ASSUME LockoutParameters, LoginTypes, [LockoutNext]_lockoutVars PROVE LoginTypes'
  OBVIOUS
<1>0. Clear \in AccountState /\ NoLogin \in [pc : {"idle", "found", "compare"},
                                    seen : AccountState, at : Int]
  BY DEF Clear, NoLogin, AccountState, Times
<1>1. CASE TimePasses \/ Unlock \/ UNCHANGED lockoutVars
  <2>1. << >> \in Seq(Int)
    OBVIOUS
  <2>2. CASE TimePasses
    BY <2>2 DEF TimePasses, LoginTypes
  <2>3. CASE Unlock
    BY <1>0, <2>1, <2>3 DEF Unlock, LoginTypes
  <2> QED
    BY <1>1, <2>2, <2>3 DEF lockoutVars, LoginTypes
<1>2. ASSUME NEW c \in Logins, Find(c) \/ Check(c)
      PROVE  LoginTypes'
  <2>1. login' \in [Logins -> [pc : {"idle", "found", "compare"}, seen : AccountState,
                               at : Int]]
    <3>1. CASE Find(c)
      <4>1. [pc |-> "found", seen |-> user, at |-> 0]
              \in [pc : {"idle", "found", "compare"}, seen : AccountState, at : Int]
        BY DEF LoginTypes
      <4> QED
        BY <3>1, <4>1 DEF Find, LoginTypes
    <3>2. CASE login' = [login EXCEPT ![c] = [pc |-> "compare", seen |-> @.seen,
                                              at |-> now]]
      <4>1. [pc |-> "compare", seen |-> login[c].seen, at |-> now]
              \in [pc : {"idle", "found", "compare"}, seen : AccountState, at : Int]
        BY DEF LoginTypes
      <4> QED
        BY <3>2, <4>1 DEF LoginTypes
    <3>3. CASE Answer(c)
      BY <1>0, <3>3 DEF Answer, LoginTypes
    <3> QED
      BY <1>2, <3>1, <3>2, <3>3 DEF Check
  <2> QED
    BY <1>2, <2>1 DEF Find, Check, LoginTypes
<1>3. ASSUME NEW c \in Logins, Mismatch(c)
      PROVE  LoginTypes'
  <2>1. login[c].at \in Int
    BY DEF LoginTypes
  <2>2. user' \in AccountState
    BY <1>3, <2>1, FailedState DEF Mismatch, LoginTypes
  <2>3. fails' \in Seq(Int)
    BY <1>3, <2>1 DEF Mismatch, LoginTypes
  <2> QED
    BY <1>0, <1>3, <2>2, <2>3 DEF Mismatch, Answer, LoginTypes
<1>4. ASSUME NEW c \in Logins, MismatchLost(c) \/ Match(c)
      PROVE  LoginTypes'
  <2>1. login' \in [Logins -> [pc : {"idle", "found", "compare"}, seen : AccountState,
                               at : Int]]
    BY <1>0, <1>4 DEF MismatchLost, Match, Answer, LoginTypes
  <2>2. user' \in AccountState /\ fails' \in Seq(Int)
    <3>1. << >> \in Seq(Int)
      OBVIOUS
    <3> QED
      BY <1>0, <1>4, <3>1 DEF MismatchLost, Match, LoginTypes
  <2> QED
    BY <1>4, <2>1, <2>2 DEF MismatchLost, Match, LoginTypes
<1> QED
  BY <1>1, <1>2, <1>3, <1>4 DEF LockoutNext
-----------------------------------------------------------------------------
(* A failure extends the run it belongs to, or begins one.                 *)
LEMMA StreakOfNone == Streak(<< >>) = 0
<1>1. {i \in 1..Len(<< >>) :
         \A j \in i..(Len(<< >>) - 1) : << >>[j + 1] - << >>[j] <= LockoutWindow} = {}
  OBVIOUS
<1> QED
  BY <1>1, FS_EmptySet DEF Streak

LEMMA StreakGrows ==
  ASSUME NEW f \in Seq(Int), NEW t \in Int, LockoutWindow \in Int
  PROVE  /\ Streak(f) \in Nat
         /\ Streak(Append(f, t)) =
              IF f # << >> /\ t - f[Len(f)] > LockoutWindow THEN 1 ELSE Streak(f) + 1
<1> DEFINE g == Append(f, t)
           n == Len(f)
           Run(h) == {i \in 1..Len(h) :
                        \A j \in i..(Len(h) - 1) : h[j + 1] - h[j] <= LockoutWindow}
<1>0. n \in Nat /\ Len(g) = n + 1 /\ g[n + 1] = t /\ \A i \in 1..n : g[i] = f[i]
  BY AppendProperties
<1>1. Run(f) \subseteq 1..n /\ IsFiniteSet(Run(f)) /\ Cardinality(Run(f)) \in Nat
  <2>1. Run(f) \subseteq 1..n /\ IsFiniteSet(1..n)
    BY <1>0, FS_Interval
  <2> HIDE DEF Run
  <2> QED
    BY <2>1, FS_Subset, FS_CardinalityType
<1>2. n + 1 \in Run(g)
  BY <1>0
<1>3. CASE f # << >> /\ t - f[n] > LockoutWindow
  <2>1. n \in 1..n /\ g[n] = f[n]
    BY <1>0, <1>3
  <2>2. ASSUME NEW i \in Run(g), i # n + 1
        PROVE  FALSE
    <3>1. i \in 1..n /\ n \in i..n
      BY <1>0, <2>2
    <3>2. g[n + 1] - g[n] <= LockoutWindow
      BY <1>0, <2>2, <3>1
    <3> QED
      BY <1>0, <1>3, <2>1, <3>2
  <2>3. Run(g) = {n + 1}
    BY <1>2, <2>2
  <2>4. Cardinality(Run(g)) = 1
    BY <2>3, FS_Singleton
  <2> QED
    BY <1>1, <1>3, <2>4 DEF Streak
<1>4. CASE ~(f # << >> /\ t - f[n] > LockoutWindow)
  <2>1. ASSUME NEW i \in 1..n
        PROVE  i \in Run(g) <=> i \in Run(f)
    <3>1. n \in 1..n /\ f[n] \in Int /\ g[n] = f[n] /\ f # << >>
      BY <1>0, <2>1
    <3>2. g[n + 1] - g[n] <= LockoutWindow
      BY <1>0, <1>4, <3>1
    <3>3. \A j \in i..(n - 1) : g[j + 1] - g[j] = f[j + 1] - f[j]
      BY <1>0, <2>1
    <3>4. i \in Run(g) <=> \A j \in i..n : g[j + 1] - g[j] <= LockoutWindow
      <4> HIDE DEF g
      <4>1. i \in 1..Len(g) /\ Len(g) - 1 = n
        BY <1>0, <2>1
      <4> QED
        BY <4>1
    <3>5. i \in Run(f) <=> \A j \in i..(n - 1) : f[j + 1] - f[j] <= LockoutWindow
      BY <1>0, <2>1
    <3>6. i..n = (i..(n - 1)) \cup {n}
      BY <1>0, <2>1
    <3> HIDE DEF Run, g
    <3> QED
      BY <3>2, <3>3, <3>4, <3>5, <3>6
  <2>2. Run(g) \subseteq 1..(n + 1)
    BY <1>0
  <2>3. Run(g) = Run(f) \cup {n + 1} /\ n + 1 \notin Run(f)
    <3> HIDE DEF Run, g
    <3> QED
      BY <1>0, <1>1, <1>2, <2>1, <2>2
  <2>4. Cardinality(Run(g)) = Cardinality(Run(f)) + 1
    BY <1>1, <2>3, FS_AddElement
  <2> QED
    BY <1>1, <1>4, <2>4 DEF Streak
<1> QED
  BY <1>3, <1>4
-----------------------------------------------------------------------------
LEMMA InitExact == LockoutParameters /\ LockoutInit => CountExact
  BY StreakOfNone DEF LockoutParameters, LockoutInit, CountExact, Clear

(* A failure is counted from the row as it is.                             *)
LEMMA NextExact ==
  LockoutParameters /\ LoginTypes /\ CountExact /\ [LockoutNext]_lockoutVars => CountExact'
<1> SUFFICES ASSUME LockoutParameters, LoginTypes, CountExact, [LockoutNext]_lockoutVars
             PROVE  CountExact'
  OBVIOUS
<1>1. CASE UNCHANGED <<user, fails>>
  BY <1>1 DEF CountExact, Streak
<1>2. CASE user' = Clear /\ fails' = << >>
  <2>1. Streak(fails)' = 0
    BY <1>2, StreakOfNone DEF Streak
  <2> QED
    BY <1>2, <2>1 DEF CountExact, Clear, LockoutParameters
<1>3. ASSUME NEW c \in Logins, Mismatch(c)
      PROVE  CountExact'
  <2> DEFINE t == login[c].at
  <2>1. /\ t \in Int /\ fails \in Seq(Int) /\ LockoutWindow \in Int
        /\ fails' = Append(fails, t) /\ user' = OnFailedAttempt(user, t)
    BY <1>3 DEF Mismatch, LoginTypes, LockoutParameters
  <2> HIDE DEF t
  <2>2. /\ Streak(fails) \in Nat
        /\ Streak(fails') =
             IF fails # << >> /\ t - fails[Len(fails)] > LockoutWindow
             THEN 1 ELSE Streak(fails) + 1
    BY <2>1, StreakGrows
  <2>3. /\ user.last # Never <=> fails # << >>
        /\ fails # << >> => user.last = fails[Len(fails)]
    BY <2>1 DEF CountExact, LockoutParameters
  <2>4. user'.count = ((IF user.last # Never /\ t - user.last > LockoutWindow
                        THEN 0 ELSE user.count) + 1) % CountMod
    BY <2>1 DEF OnFailedAttempt
  <2>5. user.count = Streak(fails) % CountMod
    BY DEF CountExact
  <2>6. user'.count = Streak(fails') % CountMod
    BY <2>2, <2>3, <2>4, <2>5 DEF LockoutParameters
  <2>7. fails'[Len(fails')] = t /\ fails' # << >> /\ user'.last = t
    BY <2>1 DEF OnFailedAttempt
  <2> QED
    BY <2>6, <2>7 DEF CountExact, Streak
<1> QED
  BY <1>1, <1>2, <1>3 DEF LockoutNext, TimePasses, Unlock, Find, Check, MismatchLost, Match,
     lockoutVars

(* The counter is the length of the current run of failures, whatever      *)
(* logins in parallel read before (Service.applyFailedAttempt).            *)
THEOREM CounterExact == ASSUME LockoutParameters PROVE LockoutSpec => []CountExact
<1>1. LockoutInit => LoginTypes /\ CountExact
  BY InitLoginTypes, InitExact
<1>2. LoginTypes /\ CountExact /\ [LockoutNext]_lockoutVars => LoginTypes' /\ CountExact'
  BY NextLoginTypes, NextExact
<1> QED
  BY <1>1, <1>2, PTL DEF LockoutSpec
-----------------------------------------------------------------------------
(* The lock of a failure that reached the threshold, read from a row.      *)
Shut(s, i) == s.until # Never /\ s.until + CompareTime >= fails[i] + LockoutDuration

(* Failures counted under that lock, and logins that may still add one:    *)
(* they read the row, or the time, before it.                              *)
Young(i) ==
  {j \in (i + 1)..Len(fails) : fails[j] + CompareTime < fails[i] + LockoutDuration}
Loose(i) ==
  {c \in Logins :
     \/ login[c].pc = "found" /\ ~Shut(login[c].seen, i)
     \/ login[c].pc = "compare" /\ login[c].at + CompareTime < fails[i] + LockoutDuration}

(* Times read lie behind the clock, within CompareTime while in use.       *)
TimesAreRead ==
  /\ \A c \in Logins : login[c].pc = "compare" =>
       login[c].at <= now /\ now <= login[c].at + CompareTime
  /\ \A i \in 1..Len(fails) : fails[i] <= now

LocksAreKept == \A i \in 1..Len(fails) : Locks(i) => Shut(user, i)

FewAreLoose ==
  \A i \in 1..Len(fails) : Locks(i) =>
    Cardinality(Young(i)) + Cardinality(Loose(i)) < Cardinality(Logins)

GuessInv == TimesAreRead /\ LocksAreKept /\ FewAreLoose
-----------------------------------------------------------------------------
LEMMA CountsAreFinite ==
  ASSUME LoginTypes, IsFiniteSet(Logins), NEW i \in 1..Len(fails)
  PROVE  /\ IsFiniteSet(Young(i)) /\ Cardinality(Young(i)) \in Nat
         /\ IsFiniteSet(Loose(i)) /\ Cardinality(Loose(i)) \in Nat
         /\ Cardinality(Logins) \in Nat
<1>1. Young(i) \subseteq (i + 1)..Len(fails) /\ Loose(i) \subseteq Logins
  BY DEF Young, Loose
<1>2. IsFiniteSet((i + 1)..Len(fails))
  BY FS_Interval DEF LoginTypes
<1> QED
  BY <1>1, <1>2, FS_Subset, FS_CardinalityType

LEMMA InitGuess == LockoutInit => GuessInv
<1> SUFFICES ASSUME LockoutInit PROVE GuessInv
  OBVIOUS
<1>1. Len(fails) = 0 /\ \A c \in Logins : login[c].pc = "idle"
  BY DEF LockoutInit, NoLogin
<1> QED
  BY <1>1 DEF GuessInv, TimesAreRead, LocksAreKept, FewAreLoose

(* The clock advances, and logins read it.                                 *)
LEMMA NextTimes ==
  LockoutParameters /\ LoginTypes /\ TimesAreRead /\ [LockoutNext]_lockoutVars => TimesAreRead'
<1> SUFFICES ASSUME LockoutParameters, LoginTypes, TimesAreRead, [LockoutNext]_lockoutVars
             PROVE  TimesAreRead'
  OBVIOUS
<1> USE DEF TimesAreRead
<1>0. /\ now \in Nat /\ CompareTime \in Nat /\ fails \in Seq(Int)
      /\ \A c \in Logins : login[c].at \in Int
  BY DEF LoginTypes, LockoutParameters
<1>1. CASE TimePasses
  BY <1>0, <1>1 DEF TimePasses
<1>2. CASE Unlock
  BY <1>2 DEF Unlock
<1>3. ASSUME NEW c \in Logins, Find(c) \/ Check(c)
      PROVE  TimesAreRead'
  <2>1. \A d \in Logins \ {c} : login'[d] = login[d]
    BY <1>3 DEF Find, Check, Answer, LoginTypes
  <2>2. login'[c].pc = "compare" => login'[c].at = now
    <3>1. CASE Find(c)
      BY <3>1 DEF Find, LoginTypes
    <3>2. CASE Check(c)
      BY <3>2 DEF Check, Answer, NoLogin, LoginTypes
    <3> QED
      BY <1>3, <3>1, <3>2
  <2>3. UNCHANGED <<now, fails>>
    BY <1>3 DEF Find, Check
  <2> QED
    BY <1>0, <2>1, <2>2, <2>3
<1>4. ASSUME NEW c \in Logins, Mismatch(c) \/ MismatchLost(c) \/ Match(c)
      PROVE  TimesAreRead'
  <2>1. /\ login'[c].pc = "idle" /\ \A d \in Logins \ {c} : login'[d] = login[d]
        /\ now' = now /\ login[c].pc = "compare"
    BY <1>4 DEF Mismatch, MismatchLost, Match, Answer, NoLogin, LoginTypes
  <2>2. \A i \in 1..Len(fails') : fails'[i] <= now
    <3>1. CASE fails' \in {fails, << >>}
      BY <3>1
    <3>2. CASE fails' = Append(fails, login[c].at)
      BY <1>0, <2>1, <3>2
    <3> QED
      BY <1>4, <3>1, <3>2 DEF Mismatch, MismatchLost, Match
  <2> QED
    BY <2>1, <2>2
<1>5. CASE UNCHANGED lockoutVars
  BY <1>5 DEF lockoutVars
<1> QED
  BY <1>1, <1>2, <1>3, <1>4, <1>5 DEF LockoutNext

(* Steps that count no failure let no login slip in under a lock.          *)
LEMMA LooseStay ==
  ASSUME LockoutParameters, LoginTypes, IsFiniteSet(Logins), LocksAreKept, FewAreLoose,
         UNCHANGED <<user, fails>>,
         \A i \in 1..Len(fails) : Locks(i) => Loose(i)' \subseteq Loose(i)
  PROVE  LocksAreKept' /\ FewAreLoose'
<1>1. LocksAreKept'
  BY DEF LocksAreKept, Locks, Shut
<1>2. FewAreLoose'
  <2> SUFFICES ASSUME NEW i \in 1..Len(fails), Locks(i)
               PROVE  Cardinality(Young(i)') + Cardinality(Loose(i)')
                        < Cardinality(Logins)
    BY DEF FewAreLoose, Locks
  <2>1. Young(i)' = Young(i)
    BY DEF Young
  <2>2. /\ Cardinality(Young(i)) \in Nat /\ Cardinality(Loose(i)) \in Nat
        /\ IsFiniteSet(Loose(i)) /\ Cardinality(Logins) \in Nat
    BY CountsAreFinite
  <2>3. /\ Cardinality(Loose(i)') <= Cardinality(Loose(i))
        /\ Cardinality(Loose(i)') \in Nat
    BY <2>2, FS_Subset, FS_CardinalityType
  <2>4. Cardinality(Young(i)) + Cardinality(Loose(i)) < Cardinality(Logins)
    BY DEF FewAreLoose
  <2> QED
    BY <2>1, <2>2, <2>3, <2>4
<1> QED
  BY <1>1, <1>2

(* A login that reads the row after a failure locked it is not loose, and  *)
(* passes the check only after the lock.                                   *)
LEMMA FindLoose ==
  ASSUME LoginTypes, NEW c \in Logins, Find(c), NEW i \in 1..Len(fails), Shut(user, i)
  PROVE  Loose(i)' \subseteq Loose(i)
<1>1. login'[c] = [pc |-> "found", seen |-> user, at |-> 0]
  BY DEF Find, LoginTypes
<1>2. login'[c].pc = "found" /\ login'[c].seen = user
  BY <1>1
<1>3. \A d \in Logins \ {c} : login'[d] = login[d]
  BY DEF Find, LoginTypes
<1>4. UNCHANGED fails
  BY DEF Find
<1> QED
  BY <1>2, <1>3, <1>4 DEF Loose, Shut

LEMMA CheckLoose ==
  ASSUME LockoutParameters, LoginTypes, NEW c \in Logins, Check(c), NEW i \in 1..Len(fails)
  PROVE  Loose(i)' \subseteq Loose(i)
<1>1. \A d \in Logins \ {c} : login'[d] = login[d]
  BY DEF Check, Answer, LoginTypes
<1>2. UNCHANGED fails /\ login[c].pc = "found"
  BY DEF Check
<1>3. CASE login'[c] = NoLogin
  BY <1>1, <1>2, <1>3 DEF Loose, Shut, NoLogin
<1>4. CASE /\ ~IsLocked(login[c].seen, now)
           /\ login'[c] = [pc |-> "compare", seen |-> login[c].seen, at |-> now]
  <2>1. login'[c].pc = "compare" /\ login'[c].at = now
    BY <1>4
  <2>2. /\ now \in Nat /\ login[c].seen.until \in Int \cup {Never}
        /\ fails[i] \in Int /\ CompareTime \in Nat /\ LockoutDuration \in Int
    BY DEF LoginTypes, AccountState, Times, LockoutParameters
  <2>3. now + CompareTime < fails[i] + LockoutDuration => ~Shut(login[c].seen, i)
    BY <1>4, <2>2 DEF IsLocked, Shut
  <2> QED
    BY <1>1, <1>2, <2>1, <2>3 DEF Loose, Shut
<1> QED
  BY <1>3, <1>4 DEF Check, Answer, LoginTypes

LEMMA AnswerLoose ==
  ASSUME LoginTypes, NEW c \in Logins, Answer(c), UNCHANGED fails,
         NEW i \in 1..Len(fails)
  PROVE  Loose(i)' \subseteq Loose(i)
<1>1. login'[c].pc = "idle" /\ \A d \in Logins \ {c} : login'[d] = login[d]
  BY DEF Answer, LoginTypes, NoLogin
<1> QED
  BY <1>1 DEF Loose, Shut
-----------------------------------------------------------------------------
(* A counted failure: what was known of earlier ones stays so.             *)
LEMMA PrefixStays ==
  ASSUME NEW f \in Seq(Int), NEW t \in Int
  PROVE  /\ \A i \in 1..Len(f) : SubSeq(Append(f, t), 1, i) = SubSeq(f, 1, i)
         /\ SubSeq(Append(f, t), 1, Len(f) + 1) = Append(f, t)
<1>1. /\ Append(f, t) = f \o <<t>> /\ <<t>> \in Seq(Int)
      /\ Append(f, t) \in Seq(Int) /\ Len(Append(f, t)) = Len(f) + 1
  BY AppendProperties, AppendIsConcat
<1>2. ASSUME NEW i \in 1..Len(f)
      PROVE  SubSeq(Append(f, t), 1, i) = SubSeq(f, 1, i)
  <2>1. 1 \in 1..Len(f)
    OBVIOUS
  <2> QED
    BY <1>1, <2>1, SubSeqOfConcat1
<1>3. SubSeq(Append(f, t), 1, Len(Append(f, t))) = Append(f, t)
  BY <1>1, SubSeqFull
<1> QED
  BY <1>1, <1>2, <1>3

LEMMA MismatchFacts ==
  ASSUME LockoutParameters, LoginTypes, CountExact, NEW c \in Logins, Mismatch(c)
  PROVE  /\ login[c].pc = "compare" /\ login[c].at \in Int
         /\ Len(fails) \in Nat /\ Len(fails') = Len(fails) + 1
         /\ \A i \in 1..Len(fails) : fails'[i] = fails[i] /\ fails[i] \in Int
         /\ fails'[Len(fails) + 1] = login[c].at
         /\ \A i \in 1..Len(fails) : Locks(i)' <=> Locks(i)
         /\ \A i \in {Len(fails) + 1} :
              Locks(i)' <=> user'.count >= Threshold
         /\ user'.until = IF user'.count >= Threshold
                          THEN login[c].at + LockoutDuration ELSE user.until
         /\ login'[c].pc = "idle"
         /\ \A d \in Logins \ {c} : login'[d] = login[d]
<1> DEFINE t == login[c].at
<1>1. /\ login[c].pc = "compare" /\ t \in Int /\ fails \in Seq(Int)
      /\ fails' = Append(fails, t) /\ user' = OnFailedAttempt(user, t)
  BY DEF Mismatch, LoginTypes
<1>2. /\ login'[c].pc = "idle"
      /\ \A d \in Logins \ {c} : login'[d] = login[d]
  BY DEF Mismatch, Answer, LoginTypes, NoLogin
<1>3. user'.until = IF user'.count >= Threshold THEN t + LockoutDuration ELSE user.until
  BY <1>1 DEF OnFailedAttempt
<1> HIDE DEF t
<1>4. /\ Len(fails) \in Nat /\ Len(fails') = Len(fails) + 1
      /\ \A i \in 1..Len(fails) : fails'[i] = fails[i] /\ fails[i] \in Int
      /\ fails'[Len(fails) + 1] = t
  BY <1>1
<1>5. /\ \A i \in 1..Len(fails) : SubSeq(fails', 1, i) = SubSeq(fails, 1, i)
      /\ SubSeq(fails', 1, Len(fails) + 1) = fails'
  BY <1>1, PrefixStays
<1>6. \A i \in 1..Len(fails) : Locks(i)' <=> Locks(i)
  BY <1>5 DEF Locks, Streak
<1>7. CountExact'
  BY NextExact DEF LockoutNext
<1>8. \A i \in {Len(fails) + 1} : Locks(i)' <=> user'.count >= Threshold
  BY <1>5, <1>7 DEF Locks, Streak, CountExact
<1> QED
  BY <1>1, <1>2, <1>3, <1>4, <1>6, <1>8 DEF t

(* The lock it may renew ends no earlier than those before, less the time of a    *)
(* comparison.                                                             *)
LEMMA MismatchLocks ==
  ASSUME LockoutParameters, LoginTypes, CountExact, TimesAreRead, LocksAreKept,
         NEW c \in Logins, Mismatch(c)
  PROVE  LocksAreKept'
<1> SUFFICES ASSUME NEW i \in 1..Len(fails'), Locks(i)'
             PROVE  Shut(user, i)'
  BY DEF LocksAreKept
<1> DEFINE t == login[c].at
<1>1. /\ t \in Int /\ CompareTime \in Nat /\ LockoutDuration \in Int
      /\ now \in Nat /\ Never \notin Int
  BY DEF LoginTypes, LockoutParameters
<1>2. t <= now /\ now <= t + CompareTime
  BY MismatchFacts DEF TimesAreRead
<1>3. i \in 1..Len(fails) \/ i = Len(fails) + 1
  BY MismatchFacts
<1>4. CASE user'.count >= Threshold
  <2>1. user'.until = t + LockoutDuration
    BY <1>4, MismatchFacts
  <2>2. fails'[i] \in Int /\ fails'[i] <= t + CompareTime
    <3>1. CASE i \in 1..Len(fails)
      <4>1. fails'[i] = fails[i] /\ fails[i] \in Int /\ fails[i] <= now
        BY <3>1, MismatchFacts DEF TimesAreRead
      <4> HIDE DEF t
      <4> QED
        BY <1>1, <1>2, <4>1
    <3>2. CASE i = Len(fails) + 1
      <4>1. fails'[i] = t
        BY <3>2, MismatchFacts
      <4> HIDE DEF t
      <4> QED
        BY <1>1, <4>1
    <3> QED
      BY <1>3, <3>1, <3>2
  <2> HIDE DEF t
  <2>3. user'.until # Never /\ user'.until + CompareTime >= fails'[i] + LockoutDuration
    BY <1>1, <2>1, <2>2
  <2> QED
    BY <2>3 DEF Shut
<1>5. CASE ~(user'.count >= Threshold)
  <2>1. i \in 1..Len(fails) /\ Locks(i) /\ user'.until = user.until
        /\ fails'[i] = fails[i]
    BY <1>3, <1>5, MismatchFacts
  <2>2. Shut(user, i)
    BY <2>1 DEF LocksAreKept
  <2> QED
    BY <2>1, <2>2 DEF Shut
<1> QED
  BY <1>4, <1>5

(* A young failure was a loose login, which is now at rest.                *)
LEMMA MismatchFew ==
  ASSUME LockoutParameters, LoginTypes, IsFiniteSet(Logins), CountExact, FewAreLoose,
         NEW c \in Logins, Mismatch(c)
  PROVE  FewAreLoose'
<1> DEFINE n == Len(fails)
<1>0. LoginTypes' /\ n \in Nat /\ Len(fails') = n + 1
  BY NextLoginTypes, MismatchFacts DEF LockoutNext
<1> SUFFICES ASSUME NEW i \in 1..Len(fails'), Locks(i)'
             PROVE  Cardinality(Young(i)') + Cardinality(Loose(i)')
                      < Cardinality(Logins)
  BY DEF FewAreLoose
<1>1. i \in 1..n \/ i = n + 1
  BY <1>0
<1>2. Cardinality(Logins) \in Nat
  BY FS_CardinalityType
<1>3. CASE i = n + 1
  <2>1. Young(i)' = {}
    BY <1>0, <1>3 DEF Young
  <2>2. Loose(i)' \subseteq Logins \ {c}
    BY MismatchFacts DEF Loose
  <2>3. IsFiniteSet(Logins \ {c}) /\ Cardinality(Logins \ {c}) = Cardinality(Logins) - 1
    BY FS_RemoveElement
  <2>4. /\ Cardinality(Loose(i)') <= Cardinality(Logins) - 1
        /\ Cardinality(Loose(i)') \in Nat
    BY <2>2, <2>3, FS_Subset, FS_CardinalityType
  <2>5. Cardinality(Young(i)') = 0
    BY <2>1, FS_EmptySet
  <2> QED
    BY <1>2, <2>4, <2>5
<1>4. CASE i \in 1..n
  <2>1. /\ IsFiniteSet(Young(i)) /\ Cardinality(Young(i)) \in Nat
        /\ IsFiniteSet(Loose(i)) /\ Cardinality(Loose(i)) \in Nat
    BY <1>4, CountsAreFinite
  <2>2. Cardinality(Young(i)) + Cardinality(Loose(i)) < Cardinality(Logins)
    BY <1>4, MismatchFacts DEF FewAreLoose
  <2>3. Loose(i)' \subseteq Loose(i) \ {c}
    <3>1. fails'[i] = fails[i]
      BY <1>4, MismatchFacts
    <3> QED
      BY <3>1, MismatchFacts DEF Loose, Shut
  <2>4. Young(i)' \subseteq Young(i) \cup {n + 1}
    <3>1. \A j \in 1..n : fails'[j] = fails[j]
      BY MismatchFacts
    <3> QED
      BY <1>0, <1>4, <3>1 DEF Young
  <2>5. CASE c \in Loose(i)
    <3>1. IsFiniteSet(Loose(i) \ {c}) /\ Cardinality(Loose(i) \ {c}) = Cardinality(Loose(i)) - 1
      BY <2>1, <2>5, FS_RemoveElement
    <3>2. /\ Cardinality(Loose(i)') <= Cardinality(Loose(i)) - 1
          /\ Cardinality(Loose(i)') \in Nat
      BY <2>3, <3>1, FS_Subset, FS_CardinalityType
    <3>3. /\ IsFiniteSet(Young(i) \cup {n + 1})
          /\ Cardinality(Young(i) \cup {n + 1})
               \in {Cardinality(Young(i)), Cardinality(Young(i)) + 1}
      BY <2>1, FS_AddElement
    <3>4. /\ Cardinality(Young(i)') <= Cardinality(Young(i) \cup {n + 1})
          /\ Cardinality(Young(i)') \in Nat
      BY <2>4, <3>3, FS_Subset, FS_CardinalityType
    <3> QED
      BY <1>2, <2>1, <2>2, <3>2, <3>3, <3>4
  <2>6. CASE c \notin Loose(i)
    <3>1. ~(login[c].at + CompareTime < fails[i] + LockoutDuration)
      BY <2>6, MismatchFacts DEF Loose
    <3>2. fails'[i] = fails[i] /\ fails'[n + 1] = login[c].at
      BY <1>4, MismatchFacts
    <3>3. n + 1 \notin Young(i)'
      BY <3>1, <3>2 DEF Young
    <3>4. Young(i)' \subseteq Young(i)
      BY <2>4, <3>3
    <3>5. /\ Cardinality(Young(i)') <= Cardinality(Young(i))
          /\ Cardinality(Young(i)') \in Nat
      BY <2>1, <3>4, FS_Subset, FS_CardinalityType
    <3>6. /\ Cardinality(Loose(i)') <= Cardinality(Loose(i))
          /\ Cardinality(Loose(i)') \in Nat
      BY <2>1, <2>3, FS_Subset, FS_CardinalityType
    <3> QED
      BY <1>2, <2>1, <2>2, <3>5, <3>6
  <2> QED
    BY <2>5, <2>6
<1> QED
  BY <1>1, <1>3, <1>4

LEMMA NextGuess ==
  LockoutParameters /\ IsFiniteSet(Logins) /\ LoginTypes /\ CountExact /\ GuessInv
    /\ [LockoutNext]_lockoutVars => GuessInv'
<1> SUFFICES ASSUME LockoutParameters, IsFiniteSet(Logins), LoginTypes, CountExact,
                    GuessInv, [LockoutNext]_lockoutVars
             PROVE  LocksAreKept' /\ FewAreLoose'
  BY NextTimes DEF GuessInv
<1> USE DEF GuessInv
<1>1. CASE TimePasses \/ UNCHANGED lockoutVars
  <2>1. UNCHANGED <<user, login, fails>>
    BY <1>1 DEF TimePasses, lockoutVars
  <2>2. \A i \in 1..Len(fails) : Loose(i)' = Loose(i)
    BY <2>1 DEF Loose, Shut
  <2> QED
    BY <2>1, <2>2, LooseStay
<1>2. CASE user' = Clear /\ fails' = << >>
  BY <1>2 DEF LocksAreKept, FewAreLoose
<1>3. ASSUME NEW c \in Logins, Find(c)
      PROVE  LocksAreKept' /\ FewAreLoose'
  <2>1. \A i \in 1..Len(fails) : Locks(i) => Loose(i)' \subseteq Loose(i)
    BY <1>3, FindLoose DEF LocksAreKept
  <2>2. UNCHANGED <<user, fails>>
    BY <1>3 DEF Find
  <2> QED
    BY <2>1, <2>2, LooseStay
<1>4. ASSUME NEW c \in Logins, Check(c)
      PROVE  LocksAreKept' /\ FewAreLoose'
  <2>1. \A i \in 1..Len(fails) : Loose(i)' \subseteq Loose(i)
    BY <1>4, CheckLoose
  <2>2. UNCHANGED <<user, fails>>
    BY <1>4 DEF Check
  <2> QED
    BY <2>1, <2>2, LooseStay
<1>5. ASSUME NEW c \in Logins, Mismatch(c)
      PROVE  LocksAreKept' /\ FewAreLoose'
  BY <1>5, MismatchLocks, MismatchFew
<1>6. ASSUME NEW c \in Logins, Answer(c), UNCHANGED <<user, fails>>
      PROVE  LocksAreKept' /\ FewAreLoose'
  <2>1. \A i \in 1..Len(fails) : Loose(i)' \subseteq Loose(i)
    BY <1>6, AnswerLoose
  <2> QED
    BY <1>6, <2>1, LooseStay
<1> QED
  BY <1>1, <1>2, <1>3, <1>4, <1>5, <1>6 DEF LockoutNext, Unlock, MismatchLost, Match

(* Once failures have locked the account, fewer than the logins there are  *)
(* can fail again before the lock ends: those already under way            *)
(* (OnFailedAttempt, Service.Login).                                       *)
THEOREM GuessesAreBounded ==
  ASSUME LockoutParameters, IsFiniteSet(Logins) PROVE LockoutSpec => []GuessBound
<1> DEFINE Inv == LoginTypes /\ CountExact /\ GuessInv
<1>1. LockoutInit => Inv
  BY InitLoginTypes, InitExact, InitGuess
<1>2. Inv /\ [LockoutNext]_lockoutVars => Inv'
  BY NextLoginTypes, NextExact, NextGuess
<1>3. Inv => GuessBound
  <2> SUFFICES ASSUME Inv, NEW i \in 1..Len(fails), Locks(i)
               PROVE  Cardinality(Young(i)) < Cardinality(Logins)
    BY DEF GuessBound, Young
  <2>1. Cardinality(Young(i)) + Cardinality(Loose(i)) < Cardinality(Logins)
    BY DEF GuessInv, FewAreLoose
  <2>2. /\ Cardinality(Young(i)) \in Nat /\ Cardinality(Loose(i)) \in Nat
        /\ Cardinality(Logins) \in Nat
    BY CountsAreFinite
  <2> QED
    BY <2>1, <2>2
<1> HIDE DEF Inv
<1> QED
  BY <1>1, <1>2, <1>3, PTL DEF LockoutSpec
-----------------------------------------------------------------------------
(***************************************************************************)
(* The requests.                                                           *)
(***************************************************************************)
Operation ==
  {NoOperation} \cup [pc : {"lookup", "insert"}, title : Titles]
         \cup [pc : {"add", "approve"}, row : Rows]

RequestTypes ==
  /\ status \in [Rows -> Statuses \cup {"free"}]
  /\ title \in [Rows -> Titles]
  /\ library \subseteq Titles /\ imported \subseteq Titles
  /\ deleted \subseteq Titles
  /\ client \in [Clients -> Operation]
  /\ adds \in [Titles -> Nat]

(* A reviewer between AddTitle and ApproveRequest answers for an addition. *)
Approving(t) ==
  {c \in Clients : client[c].pc = "approve" /\ title[client[c].row] = t}

AddedForApproval == \A t \in Titles : Approving(t) # {} => t \in library \cup deleted

(* Additions are never fewer than the answers given for them.              *)
Budget(t) == Cardinality(Answered(t)) + Cardinality(Approving(t)) <= adds[t]
Budgets == \A t \in Titles : Budget(t)

Finite == IsFiniteSet(Rows) /\ IsFiniteSet(Clients)
RequestsInv == RequestTypes /\ AddedForApproval /\ ApprovedIsInLibrary
-----------------------------------------------------------------------------
LEMMA OperationIs ==
  ASSUME RequestTypes, NEW c \in Clients
  PROVE  /\ client[c].pc \in {"idle", "lookup", "insert", "add", "approve"}
         /\ client[c].pc \in {"lookup", "insert"} =>
              client[c] \in [pc : {"lookup", "insert"}, title : Titles]
         /\ client[c].pc \in {"add", "approve"} =>
              /\ client[c] \in [pc : {"add", "approve"}, row : Rows]
              /\ title[client[c].row] \in Titles
  BY DEF RequestTypes, Operation, NoOperation

LEMMA InitRequestsInv == RequestsInit => RequestsInv
  BY DEF RequestsInit, RequestsInv, RequestTypes, Operation, Statuses, AddedForApproval,
     Approving, ApprovedIsInLibrary, Answered, NoOperation

LEMMA NextRequestTypes == RequestTypes /\ [RequestsNext]_requestsVars => RequestTypes'
<1> SUFFICES ASSUME RequestTypes, [RequestsNext]_requestsVars PROVE RequestTypes'
  OBVIOUS
<1>1. ASSUME NEW c \in Clients, NEW t \in Titles, FindActive(c, t)
      PROVE  RequestTypes'
  BY <1>1 DEF FindActive, RequestTypes, Operation, libraryVars
<1>2. ASSUME NEW c \in Clients, FindInLibrary(c)
      PROVE  RequestTypes'
  <2>1. client[c] \in [pc : {"lookup", "insert"}, title : Titles]
    BY <1>2, OperationIs DEF FindInLibrary
  <2>2. [client[c] EXCEPT !.pc = "insert"] \in Operation /\ NoOperation \in Operation
    BY <2>1 DEF Operation
  <2>3. client' \in [Clients -> Operation]
    BY <1>2, <2>2 DEF FindInLibrary, Reply, RequestTypes
  <2> QED
    BY <1>2, <2>3 DEF FindInLibrary, RequestTypes, libraryVars
<1>3. ASSUME NEW c \in Clients, NEW r \in Rows, CreateRequest(c, r) \/ GetRequest(c, r)
      PROVE  RequestTypes'
  BY <1>3 DEF CreateRequest, GetRequest, Reply, RequestTypes, Operation, Statuses, libraryVars
<1>4. ASSUME NEW c \in Clients, AddTitle(c)
      PROVE  RequestTypes'
  <2>1. client[c] \in [pc : {"add", "approve"}, row : Rows]
    BY <1>4, OperationIs DEF AddTitle
  <2>2. [client[c] EXCEPT !.pc = "approve"] \in Operation /\ NoOperation \in Operation
    BY <2>1 DEF Operation
  <2>3. client' \in [Clients -> Operation]
    BY <1>4, <2>2 DEF AddTitle, Reply, RequestTypes
  <2>4. title[client[c].row] \in Titles
    BY <2>1 DEF RequestTypes
  <2> QED
    BY <1>4, <2>3, <2>4 DEF AddTitle, Add, RequestTypes, libraryVars
<1>5. ASSUME NEW c \in Clients, ApproveRequest(c)
      PROVE  RequestTypes'
  <2>1. client[c].row \in Rows
    BY <1>5, OperationIs DEF ApproveRequest
  <2> QED
    BY <1>5, <2>1 DEF ApproveRequest, Reply, RequestTypes, Operation, Statuses, libraryVars
<1>6. ASSUME NEW r \in Rows, Deny(r) \/ Reopen(r)
      PROVE  RequestTypes'
  BY <1>6 DEF Deny, Reopen, RequestTypes, Statuses, libraryVars
<1>7. ASSUME NEW t \in Titles, MarkAvailable(t)
      PROVE  RequestTypes'
  <2>1. status' \in [Rows -> Statuses \cup {"free"}]
    BY <1>7 DEF MarkAvailable, RequestTypes, Statuses
  <2> QED
    BY <1>7, <2>1 DEF MarkAvailable, RequestTypes
<1>8. ASSUME NEW t \in Titles, Imported(t) \/ AddByHand(t) \/ DeleteTitle(t)
      PROVE  RequestTypes'
  BY <1>8 DEF Imported, AddByHand, Add, DeleteTitle, RequestTypes
<1>9. CASE Restart
  BY <1>9 DEF Restart, RequestTypes, Operation
<1>10. CASE UNCHANGED requestsVars
  BY <1>10 DEF requestsVars, RequestTypes
<1> QED
  BY <1>1, <1>2, <1>3, <1>4, <1>5, <1>6, <1>7, <1>8, <1>9, <1>10 DEF RequestsNext
-----------------------------------------------------------------------------
(* Who answers for a title changes in few ways.                            *)
Answers(t) == Answered(t)' \subseteq Answered(t)
Approvals(t) == Approving(t)' \subseteq Approving(t)

(* An approval moves its request to the answered ones.                     *)
LEMMA ApproveAnswers ==
  ASSUME RequestTypes, NEW c \in Clients, ApproveRequest(c), NEW t \in Titles
  PROVE  /\ t # title[client[c].row] => Answers(t) /\ Approvals(t)
         /\ t = title[client[c].row] =>
              /\ Answered(t)' \subseteq Answered(t) \cup {client[c].row}
              /\ c \in Approving(t) /\ Approving(t)' \subseteq Approving(t) \ {c}
<1>1. client[c].row \in Rows /\ client[c].pc = "approve"
  BY OperationIs DEF ApproveRequest
<1>2. \A d \in Clients \ {c} : client'[d] = client[d]
  BY DEF ApproveRequest, Reply, RequestTypes
<1>3. client'[c].pc = "idle"
  BY DEF ApproveRequest, Reply, RequestTypes, NoOperation
<1>4. \A r \in Rows \ {client[c].row} : status'[r] = status[r]
  BY DEF ApproveRequest, RequestTypes
<1>5. title' = title
  BY DEF ApproveRequest
<1> QED
  BY <1>1, <1>2, <1>3, <1>4, <1>5 DEF Answers, Approvals, Answered, Approving

(* An addition for an approval makes its client answer for the title.      *)
LEMMA AddApproves ==
  ASSUME RequestTypes, NEW c \in Clients, AddTitle(c), NEW t \in Titles
  PROVE  /\ Answers(t)
         /\ \/ Approvals(t) /\ adds'[t] >= adds[t]
            \/ /\ Approving(t)' \subseteq Approving(t) \cup {c}
               /\ adds'[t] = adds[t] + 1
               /\ t \in library'
<1>1. client[c].row \in Rows /\ title[client[c].row] \in Titles
  BY OperationIs DEF AddTitle
<1>2. \A d \in Clients \ {c} : client'[d] = client[d]
  BY DEF AddTitle, Reply, RequestTypes
<1>3. UNCHANGED <<title, status>>
  BY DEF AddTitle
<1>4. Answers(t)
  BY <1>3 DEF Answers, Answered
<1>5. CASE Reply(c) /\ UNCHANGED libraryVars
  <2>1. client'[c].pc = "idle"
    BY <1>5 DEF Reply, RequestTypes, NoOperation
  <2> QED
    BY <1>2, <1>3, <1>4, <1>5, <2>1 DEF Approvals, Approving, libraryVars, RequestTypes
<1>6. CASE /\ Add(title[client[c].row])
           /\ client' = [client EXCEPT ![c].pc = "approve"]
  <2>1. client'[c] = [client[c] EXCEPT !.pc = "approve"]
    BY <1>6 DEF RequestTypes
  <2>2. client'[c].row = client[c].row
    BY <2>1
  <2>3. CASE t = title[client[c].row]
    BY <1>1, <1>2, <1>3, <1>4, <1>6, <2>3 DEF Add, Approving, RequestTypes
  <2>4. CASE t # title[client[c].row]
    <3>1. Approvals(t)
      BY <1>2, <1>3, <2>2, <2>4 DEF Approvals, Approving
    <3>2. adds'[t] = adds[t] /\ adds[t] \in Nat
      BY <1>6, <2>4 DEF Add, RequestTypes
    <3> QED
      BY <1>4, <3>1, <3>2
  <2> QED
    BY <2>3, <2>4
<1> QED
  BY <1>5, <1>6 DEF AddTitle

(* No other step makes anyone answer for a title.                          *)
LEMMA OthersAnswer ==
  ASSUME RequestTypes, [RequestsNext]_requestsVars,
         \A c \in Clients : ~AddTitle(c) /\ ~ApproveRequest(c),
         NEW t \in Titles
  PROVE  Answers(t) /\ Approvals(t) /\ adds'[t] >= adds[t]
<1>0. adds[t] \in Nat
  BY DEF RequestTypes
<1>1. ASSUME NEW c \in Clients, NEW u \in Titles, FindActive(c, u)
      PROVE  Answers(t) /\ Approvals(t) /\ adds'[t] >= adds[t]
  BY <1>0, <1>1
     DEF FindActive, libraryVars, Answers, Approvals, Answered, Approving, RequestTypes
<1>2. ASSUME NEW c \in Clients, FindInLibrary(c)
      PROVE  Answers(t) /\ Approvals(t) /\ adds'[t] >= adds[t]
  <2>1. /\ client'[c].pc \in {"idle", "insert"}
        /\ \A d \in Clients \ {c} : client'[d] = client[d]
    <3>1. \/ client' = [client EXCEPT ![c].pc = "insert"]
          \/ client' = [client EXCEPT ![c] = NoOperation]
      BY <1>2 DEF FindInLibrary, Reply
    <3>2. client[c] \in [pc : {"lookup", "insert"}, title : Titles]
      BY <1>2, OperationIs DEF FindInLibrary
    <3> QED
      BY <3>1, <3>2 DEF RequestTypes, NoOperation
  <2> QED
    BY <1>0, <1>2, <2>1
       DEF FindInLibrary, libraryVars, Answers, Approvals, Answered, Approving
<1>3. ASSUME NEW c \in Clients, NEW r \in Rows, CreateRequest(c, r) \/ GetRequest(c, r)
      PROVE  Answers(t) /\ Approvals(t) /\ adds'[t] >= adds[t]
  <2>1. /\ client'[c].pc \in {"idle", "add"}
        /\ \A d \in Clients \ {c} : client'[d] = client[d]
    BY <1>3 DEF CreateRequest, GetRequest, Reply, RequestTypes, NoOperation
  <2>2. Answers(t) /\ UNCHANGED <<title, adds>>
    BY <1>3 DEF CreateRequest, GetRequest, libraryVars, Answers, Answered, RequestTypes
  <2> QED
    BY <1>0, <2>1, <2>2 DEF Approvals, Approving
<1>4. ASSUME NEW r \in Rows, Deny(r) \/ Reopen(r)
      PROVE  Answers(t) /\ Approvals(t) /\ adds'[t] >= adds[t]
  BY <1>0, <1>4
     DEF Deny, Reopen, libraryVars, Answers, Approvals, Answered, Approving, RequestTypes
<1>5. ASSUME NEW u \in Titles, MarkAvailable(u)
      PROVE  Answers(t) /\ Approvals(t) /\ adds'[t] >= adds[t]
  <2>1. Answers(t)
    BY <1>5 DEF MarkAvailable, Approved, Answers, Answered, RequestTypes
  <2> QED
    BY <1>0, <1>5, <2>1 DEF MarkAvailable, Approvals, Approving
<1>6. ASSUME NEW u \in Titles, Imported(u) \/ AddByHand(u) \/ DeleteTitle(u)
      PROVE  Answers(t) /\ Approvals(t) /\ adds'[t] >= adds[t]
  <2>1. UNCHANGED <<status, title, client>>
    BY <1>6 DEF Imported, AddByHand, DeleteTitle
  <2>2. adds'[t] \in {adds[t], adds[t] + 1}
    BY <1>6 DEF Imported, AddByHand, Add, DeleteTitle, RequestTypes
  <2> QED
    BY <1>0, <2>1, <2>2 DEF Answers, Approvals, Answered, Approving
<1>7. CASE Restart
  BY <1>0, <1>7 DEF Restart, Answers, Approvals, Answered, Approving, NoOperation
<1>8. CASE UNCHANGED requestsVars
  BY <1>0, <1>8 DEF requestsVars, Answers, Approvals, Answered, Approving
<1> QED
  BY <1>1, <1>2, <1>3, <1>4, <1>5, <1>6, <1>7, <1>8 DEF RequestsNext
-----------------------------------------------------------------------------
LEMMA CountsShrink ==
  ASSUME Finite, NEW t \in Titles
  PROVE  /\ IsFiniteSet(Answered(t)) /\ IsFiniteSet(Approving(t))
         /\ Cardinality(Answered(t)) \in Nat /\ Cardinality(Approving(t)) \in Nat
         /\ IsFiniteSet(Answered(t)') /\ IsFiniteSet(Approving(t)')
         /\ Cardinality(Answered(t)') \in Nat /\ Cardinality(Approving(t)') \in Nat
         /\ Answers(t) => Cardinality(Answered(t)') <= Cardinality(Answered(t))
         /\ Approvals(t) => Cardinality(Approving(t)') <= Cardinality(Approving(t))
<1>1. /\ Answered(t) \subseteq Rows /\ Approving(t) \subseteq Clients
      /\ Answered(t)' \subseteq Rows /\ Approving(t)' \subseteq Clients
  BY DEF Answered, Approving
<1>2. /\ IsFiniteSet(Answered(t)) /\ IsFiniteSet(Approving(t))
      /\ IsFiniteSet(Answered(t)') /\ IsFiniteSet(Approving(t)')
  BY <1>1, FS_Subset DEF Finite
<1> QED
  BY <1>2, FS_CardinalityType, FS_Subset DEF Answers, Approvals

(* An approval uses up the addition it answers for.                        *)
LEMMA NextBudget ==
  ASSUME Finite, RequestTypes, [RequestsNext]_requestsVars, NEW t \in Titles, Budget(t)
  PROVE  Budget(t)'
<1> DEFINE A == Cardinality(Answered(t))
           P == Cardinality(Approving(t))
<1>0. /\ adds[t] \in Nat /\ adds'[t] \in Nat
      /\ A \in Nat /\ P \in Nat /\ A' \in Nat /\ P' \in Nat
      /\ A + P <= adds[t]
  BY CountsShrink, NextRequestTypes DEF RequestTypes, Budget
<1>1. CASE Answers(t) /\ Approvals(t) /\ adds'[t] >= adds[t]
  <2>1. A' <= A /\ P' <= P
    BY <1>1, CountsShrink
  <2> HIDE DEF A, P
  <2>2. A' + P' <= adds'[t]
    BY <1>0, <1>1, <2>1
  <2> QED
    BY <2>2 DEF A, P, Budget
<1>2. ASSUME NEW c \in Clients, AddTitle(c)
      PROVE  Budget(t)'
  <2>1. CASE /\ Answers(t) /\ Approving(t)' \subseteq Approving(t) \cup {c}
             /\ adds'[t] = adds[t] + 1
    <3>1. A' <= A
      BY <2>1, CountsShrink
    <3>2. P' <= P + 1
      <4>1. IsFiniteSet(Approving(t))
        BY CountsShrink
      <4>2. /\ IsFiniteSet(Approving(t) \cup {c})
            /\ Cardinality(Approving(t) \cup {c}) \in {P, P + 1}
        BY <4>1, FS_AddElement
      <4>3. P' <= Cardinality(Approving(t) \cup {c})
        BY <2>1, <4>2, FS_Subset
      <4> HIDE DEF P
      <4> QED
        BY <1>0, <4>2, <4>3
    <3> HIDE DEF A, P
    <3>3. A' + P' <= adds'[t]
      BY <1>0, <2>1, <3>1, <3>2
    <3> QED
      BY <3>3 DEF A, P, Budget
  <2> QED
    BY <1>1, <1>2, <2>1, AddApproves
<1>3. ASSUME NEW c \in Clients, ApproveRequest(c)
      PROVE  Budget(t)'
  <2>0. adds'[t] = adds[t]
    BY <1>3 DEF ApproveRequest, libraryVars
  <2>1. CASE t = title[client[c].row]
    <3>0. /\ Answered(t)' \subseteq Answered(t) \cup {client[c].row}
          /\ c \in Approving(t) /\ Approving(t)' \subseteq Approving(t) \ {c}
      BY <1>3, <2>1, ApproveAnswers
    <3>1. A' <= A + 1
      <4>1. IsFiniteSet(Answered(t))
        BY CountsShrink
      <4>2. /\ IsFiniteSet(Answered(t) \cup {client[c].row})
            /\ Cardinality(Answered(t) \cup {client[c].row}) \in {A, A + 1}
        BY <4>1, FS_AddElement
      <4>3. A' <= Cardinality(Answered(t) \cup {client[c].row})
        BY <3>0, <4>2, FS_Subset
      <4> HIDE DEF A
      <4> QED
        BY <1>0, <4>2, <4>3
    <3>2. P' <= P - 1
      <4>1. IsFiniteSet(Approving(t))
        BY CountsShrink
      <4>2. /\ IsFiniteSet(Approving(t) \ {c})
            /\ Cardinality(Approving(t) \ {c}) = P - 1
        BY <3>0, <4>1, FS_RemoveElement
      <4> QED
        BY <3>0, <4>2, FS_Subset
    <3> HIDE DEF A, P
    <3>3. A' + P' <= adds'[t]
      BY <1>0, <2>0, <3>1, <3>2
    <3> QED
      BY <3>3 DEF A, P, Budget
  <2>2. CASE t # title[client[c].row]
    <3>1. Answers(t) /\ Approvals(t)
      BY <1>3, <2>2, ApproveAnswers
    <3> QED
      BY <1>0, <1>1, <2>0, <3>1
  <2> QED
    BY <2>1, <2>2
<1>4. CASE \A c \in Clients : ~AddTitle(c) /\ ~ApproveRequest(c)
  BY <1>1, <1>4, OthersAnswer
<1> QED
  BY <1>2, <1>3, <1>4

(* A title that was added stays in the library or among the deleted.       *)
LEMMA AddedStays ==
  ASSUME RequestTypes, [RequestsNext]_requestsVars
  PROVE  library \cup deleted \subseteq library' \cup deleted'
  BY DEF RequestsNext, FindActive, FindInLibrary, CreateRequest, GetRequest, AddTitle,
         ApproveRequest, Deny, Reopen, MarkAvailable, Imported, AddByHand, Add,
         DeleteTitle, Restart, libraryVars, requestsVars

LEMMA NextRequestsInv == RequestsInv /\ [RequestsNext]_requestsVars => RequestsInv'
<1> SUFFICES ASSUME RequestsInv, [RequestsNext]_requestsVars, NEW t \in Titles
             PROVE  Answered(t)' # {} \/ Approving(t)' # {}
                      => t \in library' \cup deleted'
  BY NextRequestTypes DEF RequestsInv, AddedForApproval, ApprovedIsInLibrary
<1> USE DEF RequestsInv
<1>1. /\ Answered(t) # {} \/ Approving(t) # {} => t \in library \cup deleted
      /\ library \cup deleted \subseteq library' \cup deleted'
  BY AddedStays DEF AddedForApproval, ApprovedIsInLibrary
<1>2. CASE Answers(t) /\ Approvals(t)
  BY <1>1, <1>2 DEF Answers, Approvals
<1>3. ASSUME NEW c \in Clients, AddTitle(c)
      PROVE  Answered(t)' # {} \/ Approving(t)' # {}
               => t \in library' \cup deleted'
  BY <1>1, <1>2, <1>3, AddApproves DEF Answers
<1>4. ASSUME NEW c \in Clients, ApproveRequest(c)
      PROVE  Answered(t)' # {} \/ Approving(t)' # {}
               => t \in library' \cup deleted'
  BY <1>1, <1>2, <1>4, ApproveAnswers
<1>5. CASE \A c \in Clients : ~AddTitle(c) /\ ~ApproveRequest(c)
  BY <1>2, <1>5, OthersAnswer
<1> QED
  BY <1>3, <1>4, <1>5
-----------------------------------------------------------------------------
(* What was approved is in the library or was deleted from there, for any  *)
(* interleaving of reviewers, imports and crashes (Service.Approve).       *)
THEOREM ApprovedInLibrary == RequestsSpec => []ApprovedIsInLibrary
<1>1. RequestsInv => ApprovedIsInLibrary
  BY DEF RequestsInv
<1> QED
  BY <1>1, InitRequestsInv, NextRequestsInv, PTL DEF RequestsSpec

(* However many requests for a title reviewers approve, deny and reopen,   *)
(* the approved ones are never more than its additions (Service.Approve).  *)
THEOREM OneApprovalPerAddition ==
  ASSUME IsFiniteSet(Rows), IsFiniteSet(Clients) PROVE RequestsSpec => []ApprovedOnce
<1>1. RequestsInit => RequestsInv /\ Budgets
  <2> SUFFICES ASSUME RequestsInit, NEW t \in Titles PROVE Budget(t)
    BY InitRequestsInv DEF Budgets
  <2>1. Answered(t) = {} /\ Approving(t) = {} /\ adds[t] = 0
    BY DEF RequestsInit, Answered, Approving, NoOperation
  <2> QED
    BY <2>1, FS_EmptySet DEF Budget
<1>2. RequestsInv /\ Budgets /\ [RequestsNext]_requestsVars => RequestsInv' /\ Budgets'
  <2> SUFFICES ASSUME RequestsInv, Budgets, [RequestsNext]_requestsVars, NEW t \in Titles
               PROVE  Budget(t)'
    BY NextRequestsInv DEF Budgets
  <2> QED
    BY NextBudget DEF Budgets, RequestsInv, Finite
<1>3. RequestsInv /\ Budgets => ApprovedOnce
  <2> SUFFICES ASSUME RequestsInv, Budgets, NEW t \in Titles
               PROVE  Cardinality(Answered(t)) <= adds[t]
    BY DEF ApprovedOnce
  <2>1. /\ Cardinality(Answered(t)) \in Nat /\ Cardinality(Approving(t)) \in Nat
        /\ adds[t] \in Nat
    BY CountsShrink DEF Finite, RequestsInv, RequestTypes
  <2>2. Cardinality(Answered(t)) + Cardinality(Approving(t)) <= adds[t]
    BY DEF Budgets, Budget
  <2> QED
    BY <2>1, <2>2
<1> QED
  BY <1>1, <1>2, <1>3, PTL DEF RequestsSpec
=============================================================================
