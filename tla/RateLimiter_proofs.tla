-------------------------- MODULE RateLimiter_proofs --------------------------
(***************************************************************************)
(* The limiter's table loses nothing that still counts: proofs, for every  *)
(* limit, window, cap, skew and number of callers.                         *)
(***************************************************************************)
EXTENDS RateLimiter, FiniteSetTheorems, SequenceTheorems, TLAPS

USE LimitAssumption, WindowAssumption, SkewAssumption

-----------------------------------------------------------------------------
(* Lists of attempts: w is what the table holds of the list l. *)

Suffix(w, l) ==
  /\ Len(w) <= Len(l)
  /\ \A i \in 1..Len(w) : w[i] = l[Len(l) - Len(w) + i]

AgedBefore(w, l, t) ==
  \A i \in 1..(Len(l) - Len(w)) : l[i] + Window <= t

Keeps(w, l, t) == Suffix(w, l) /\ AgedBefore(w, l, t)

\* A list without its last element.
LEMMA DropLastFacts ==
  ASSUME NEW s \in Seq(Nat), s # << >>
  PROVE  /\ DropLast(s) \in Seq(Nat)
         /\ Len(s) \in Nat /\ Len(s) > 0
         /\ Len(DropLast(s)) = Len(s) - 1
         /\ \A i \in 1..(Len(s) - 1) : DropLast(s)[i] = s[i]
<1>1. Len(s) \in Nat /\ Len(s) > 0
  BY EmptySeq, LenProperties
<1>2. \A i \in 1..(Len(s) - 1) : s[i] \in Nat
  <2> SUFFICES ASSUME NEW i \in 1..(Len(s) - 1) PROVE s[i] \in Nat
    OBVIOUS
  <2>1. i \in 1..Len(s)
    BY <1>1
  <2> QED
    BY <2>1, ElementOfSeq
<1>3. /\ SubSeq(s, 1, Len(s) - 1) \in Seq(Nat)
      /\ Len(SubSeq(s, 1, Len(s) - 1))
           = IF 1 <= Len(s) - 1 THEN (Len(s) - 1) - 1 + 1 ELSE 0
      /\ \A i \in 1..((Len(s) - 1) - 1 + 1) :
           SubSeq(s, 1, Len(s) - 1)[i] = s[1 + i - 1]
  BY <1>1, <1>2, SubSeqProperties
<1> DEFINE d == SubSeq(s, 1, Len(s) - 1)
<1> HIDE DEF d
<1>4. Len(d) = Len(s) - 1
  <2>1. Len(d) = IF 1 <= Len(s) - 1 THEN (Len(s) - 1) - 1 + 1 ELSE 0
    BY <1>3 DEF d
  <2>2. \A n \in Nat : n > 0 => (IF 1 <= n - 1 THEN (n - 1) - 1 + 1 ELSE 0) = n - 1
    OBVIOUS
  <2> QED
    BY <1>1, <2>1, <2>2
<1>5. \A i \in 1..(Len(s) - 1) : d[i] = s[i]
  <2> SUFFICES ASSUME NEW i \in 1..(Len(s) - 1) PROVE d[i] = s[i]
    OBVIOUS
  <2>1. i \in 1..((Len(s) - 1) - 1 + 1) /\ 1 + i - 1 = i
    BY <1>1
  <2> QED
    BY <1>3, <2>1 DEF d
<1> QED
  BY <1>1, <1>3, <1>4, <1>5 DEF DropLast, d

\* Expiring the front of an entry leaves a suffix, and drops what is aged.
LEMMA KeepsYoung ==
  ASSUME NEW w \in Seq(Nat), NEW l \in Seq(Nat), NEW t \in Nat,
         NEW now \in Nat, now <= t, NEW aged \in 0..Len(w),
         IsAged(w, now - Window, aged), Keeps(w, l, t),
         NEW young \in Seq(Nat), Len(young) = Len(w) - aged,
         \A i \in 1..Len(young) : young[i] = w[i + aged]
  PROVE  Keeps(young, l, t)
<1>0. Len(w) \in Nat /\ Len(l) \in Nat /\ Len(w) <= Len(l) /\ aged \in Nat
  BY LenProperties DEF Keeps, Suffix
<1>1. /\ young \in Seq(Nat)
      /\ Len(young) = Len(w) - aged
      /\ \A i \in 1..Len(young) : young[i] = w[i + aged]
  OBVIOUS
<1>2. Suffix(young, l)
  <2>1. /\ Len(w) <= Len(l)
        /\ \A i \in 1..Len(w) : w[i] = l[Len(l) - Len(w) + i]
    BY DEF Keeps, Suffix
  <2>2. \A i \in 1..Len(young) :
          i + aged \in 1..Len(w) /\ Len(l) - Len(w) + (i + aged)
                                     = Len(l) - Len(young) + i
    BY <1>1
  <2>3. \A i \in 1..Len(young) : young[i] = l[Len(l) - Len(young) + i]
    BY <1>1, <2>1, <2>2
  <2> QED
    BY <1>1, <2>1, <2>3 DEF Suffix
<1>3. AgedBefore(young, l, t)
  <2> SUFFICES ASSUME NEW i \in 1..(Len(l) - Len(young))
               PROVE  l[i] + Window <= t
    BY DEF AgedBefore
  <2>1. CASE i <= Len(l) - Len(w)
    BY <2>1 DEF Keeps, AgedBefore
  <2>2. CASE i > Len(l) - Len(w)
    <3> DEFINE j == i - (Len(l) - Len(w))
    <3>0. i \in Int /\ i <= Len(l) - Len(w) + aged
      BY <1>0, <1>1
    <3>a. \A n, m, a \in Nat : \A x \in Int :
            a <= n /\ x > m - n /\ x <= m - n + a =>
              LET y == x - (m - n) IN y \in 1..a /\ y \in 1..n /\ x = m - n + y
      OBVIOUS
    <3>b. aged <= Len(w)
      OBVIOUS
    <3>1. j \in 1..aged /\ j \in 1..Len(w) /\ i = Len(l) - Len(w) + j
      BY <1>0, <2>2, <3>0, <3>a, <3>b
    <3> HIDE DEF j
    <3>2. w[j] = l[i]
      BY <3>1 DEF Keeps, Suffix
    <3>3. w[j] <= now - Window
      BY <3>1 DEF IsAged
    <3>4. w[j] \in Nat
      BY <3>1, ElementOfSeq
    <3> QED
      BY <3>2, <3>3, <3>4
  <2> QED
    BY <1>1, <2>1, <2>2
<1> QED
  BY <1>1, <1>2, <1>3 DEF Keeps

\* Recording an attempt appends it to both lists.
LEMMA KeepsAppend ==
  ASSUME NEW w \in Seq(Nat), NEW l \in Seq(Nat), NEW t \in Nat,
         NEW now \in Nat, Keeps(w, l, t)
  PROVE  Keeps(Append(w, now), Append(l, now), t)
<1>1. /\ Len(Append(w, now)) = Len(w) + 1
      /\ Len(Append(l, now)) = Len(l) + 1
      /\ \A i \in 1..Len(w) : Append(w, now)[i] = w[i]
      /\ \A i \in 1..Len(l) : Append(l, now)[i] = l[i]
      /\ Append(w, now)[Len(w) + 1] = now
      /\ Append(l, now)[Len(l) + 1] = now
  OBVIOUS
<1> DEFINE wn == Append(w, now)
           ln == Append(l, now)
<1>0. /\ Len(w) \in Nat /\ Len(l) \in Nat /\ Len(w) <= Len(l)
      /\ \A i \in 1..Len(w) : w[i] = l[Len(l) - Len(w) + i]
  BY LenProperties DEF Keeps, Suffix
<1>a. /\ Len(wn) = Len(w) + 1 /\ Len(ln) = Len(l) + 1
      /\ Len(ln) - Len(wn) = Len(l) - Len(w)
  BY <1>0, <1>1
<1> HIDE DEF wn, ln
<1>2. Suffix(wn, ln)
  <2> SUFFICES ASSUME NEW i \in 1..Len(wn)
               PROVE  wn[i] = ln[Len(ln) - Len(wn) + i]
    <3>1. Len(wn) <= Len(ln)
      BY <1>0, <1>a
    <3> QED
      BY <3>1 DEF Suffix
  <2>1. CASE i = Len(w) + 1
    BY <1>0, <1>1, <1>a, <2>1 DEF wn, ln
  <2>2. CASE i \in 1..Len(w)
    <3>1. Len(l) - Len(w) + i \in 1..Len(l)
      BY <1>0, <2>2
    <3>2. wn[i] = w[i] /\ ln[Len(l) - Len(w) + i] = l[Len(l) - Len(w) + i]
      BY <1>1, <2>2, <3>1 DEF wn, ln
    <3> QED
      BY <1>0, <1>a, <2>2, <3>2
  <2> QED
    BY <1>0, <1>a, <2>1, <2>2
<1>3. AgedBefore(wn, ln, t)
  <2> SUFFICES ASSUME NEW i \in 1..(Len(l) - Len(w))
               PROVE  ln[i] + Window <= t
    BY <1>a DEF AgedBefore
  <2>1. i \in 1..Len(l)
    BY <1>0
  <2>2. ln[i] = l[i]
    BY <1>1, <2>1 DEF ln
  <2> QED
    BY <2>2 DEF Keeps, AgedBefore
<1> QED
  BY <1>2, <1>3 DEF Keeps, wn, ln

\* A refund takes the last attempt from both lists.
LEMMA KeepsDropLast ==
  ASSUME NEW w \in Seq(Nat), NEW l \in Seq(Nat), NEW t \in Nat,
         w # << >>, Keeps(w, l, t)
  PROVE  /\ DropLast(w) \in Seq(Nat)
         /\ DropLast(l) \in Seq(Nat)
         /\ Len(l) > 0
         /\ Len(DropLast(w)) = Len(w) - 1
         /\ Len(DropLast(l)) = Len(l) - 1
         /\ \A i \in 1..(Len(w) - 1) : DropLast(w)[i] = w[i]
         /\ \A i \in 1..(Len(l) - 1) : DropLast(l)[i] = l[i]
         /\ Keeps(DropLast(w), DropLast(l), t)
<1>1. /\ Len(w) \in Nat /\ Len(l) \in Nat /\ Len(w) <= Len(l)
      /\ \A i \in 1..Len(w) : w[i] = l[Len(l) - Len(w) + i]
  BY LenProperties DEF Keeps, Suffix
<1>2. /\ DropLast(w) \in Seq(Nat) /\ Len(w) > 0
      /\ Len(DropLast(w)) = Len(w) - 1
      /\ \A i \in 1..(Len(w) - 1) : DropLast(w)[i] = w[i]
  BY DropLastFacts
<1>3. Len(l) > 0 /\ l # << >>
  BY <1>1, <1>2, EmptySeq
<1>4. /\ DropLast(l) \in Seq(Nat)
      /\ Len(DropLast(l)) = Len(l) - 1
      /\ \A i \in 1..(Len(l) - 1) : DropLast(l)[i] = l[i]
  BY <1>3, DropLastFacts
<1>5. Suffix(DropLast(w), DropLast(l))
  <2> SUFFICES ASSUME NEW i \in 1..(Len(w) - 1)
               PROVE  DropLast(w)[i] = DropLast(l)[Len(l) - Len(w) + i]
    BY <1>1, <1>2, <1>4 DEF Suffix
  <2>1. i \in 1..Len(w) /\ Len(l) - Len(w) + i \in 1..(Len(l) - 1)
    BY <1>1
  <2> QED
    BY <1>1, <1>2, <1>4, <2>1
<1>6. AgedBefore(DropLast(w), DropLast(l), t)
  <2> SUFFICES ASSUME NEW i \in 1..(Len(l) - Len(w))
               PROVE  DropLast(l)[i] + Window <= t
    BY <1>1, <1>2, <1>4 DEF AgedBefore
  <2>1. i \in 1..(Len(l) - 1)
    BY <1>1, <1>2
  <2> QED
    BY <1>4, <2>1 DEF Keeps, AgedBefore
<1> QED
  BY <1>1, <1>2, <1>3, <1>4, <1>5, <1>6 DEF Keeps

\* When every held attempt is a window old, the whole entry may go.
LEMMA KeepsNothing ==
  ASSUME NEW w \in Seq(Nat), NEW l \in Seq(Nat), NEW t \in Nat,
         Keeps(w, l, t), \A i \in 1..Len(w) : w[i] + Window <= t
  PROVE  Keeps(<< >>, l, t)
<1>1. /\ Len(w) \in Nat /\ Len(l) \in Nat /\ Len(w) <= Len(l)
      /\ \A i \in 1..Len(w) : w[i] = l[Len(l) - Len(w) + i]
      /\ \A i \in 1..(Len(l) - Len(w)) : l[i] + Window <= t
  BY LenProperties DEF Keeps, Suffix, AgedBefore
<1>2. ASSUME NEW i \in 1..Len(l)
      PROVE  l[i] + Window <= t
  <2>1. CASE i <= Len(l) - Len(w)
    BY <1>1, <2>1
  <2>2. CASE i > Len(l) - Len(w)
    <3> DEFINE j == i - (Len(l) - Len(w))
    <3>1. j \in 1..Len(w) /\ Len(l) - Len(w) + j = i
      BY <1>1, <2>2
    <3> HIDE DEF j
    <3> QED
      BY <1>1, <3>1
  <2> QED
    BY <1>1, <2>1, <2>2
<1>3. Len(<< >>) = 0
  OBVIOUS
<1> QED
  BY <1>1, <1>2, <1>3 DEF Keeps, Suffix, AgedBefore

-----------------------------------------------------------------------------
(* The inductive invariant. *)

Entries == Seq(Nat) \cup {None}

\* A pair of generations that has lost nothing that still counts: every
\* attempt in cur is younger than the next rotation, every one in prev a
\* window younger, so that the generation a rotation drops is aged.
Sound(gen, l, t) ==
  /\ gen.cur \in [Keys -> Entries]
  /\ gen.prev \in [Keys -> Entries]
  /\ gen.rotateAt \in Nat
  /\ \A k \in Keys : gen.cur[k] = None \/ gen.prev[k] = None
  /\ \A k \in Keys : gen.cur[k] # None =>
       \A i \in 1..Len(gen.cur[k]) : gen.cur[k][i] < gen.rotateAt
  /\ \A k \in Keys : gen.prev[k] # None =>
       \A i \in 1..Len(gen.prev[k]) : gen.prev[k][i] + Window < gen.rotateAt
  /\ \A k \in Keys : Keeps(Held(gen, k), l[k], t)

Calls ==
  \A c \in Callers :
    pc[c] = "reading" => at[c] <= clock /\ clock <= at[c] + Skew

\* Attempts were read in the past, and out of order by at most Skew.
LogOrder ==
  \A k \in Keys :
    /\ \A i \in 1..Len(log[k]) : log[k][i] <= clock
    /\ \A i, j \in 1..Len(log[k]) : i < j => log[k][i] <= log[k][j] + Skew

IInv == TypeOK /\ Sound(Table, log, clock) /\ Calls /\ LogOrder /\ WindowBound

LEMMA HeldType ==
  ASSUME NEW gen, gen.cur \in [Keys -> Entries],
         gen.prev \in [Keys -> Entries], NEW k \in Keys
  PROVE  Held(gen, k) \in Seq(Nat)
<1>1. << >> \in Seq(Nat)
  OBVIOUS
<1>2. gen.cur[k] \in Seq(Nat) \cup {None} /\ gen.prev[k] \in Seq(Nat) \cup {None}
  BY DEF Entries
<1> QED
  BY <1>1, <1>2, Zenon DEF Held, Entry

\* Rotating at a time that has been reached keeps a sound pair sound.
LEMMA RotationSound ==
  ASSUME TypeOK, Sound(Table, log, clock), NEW now \in Nat, now <= clock
  PROVE  Sound(Rotated(now), log, clock) /\ now < Rotated(now).rotateAt
<1>1. /\ clock \in Nat /\ rotateAt \in Nat /\ log \in [Keys -> Seq(Nat)]
      /\ cur \in [Keys -> Entries] /\ prev \in [Keys -> Entries]
  BY DEF TypeOK, Entries
<1>2. /\ \A k \in Keys : cur[k] = None \/ prev[k] = None
      /\ \A k \in Keys : cur[k] # None =>
           \A i \in 1..Len(cur[k]) : cur[k][i] < rotateAt
      /\ \A k \in Keys : prev[k] # None =>
           \A i \in 1..Len(prev[k]) : prev[k][i] + Window < rotateAt
      /\ \A k \in Keys : Keeps(Held(Table, k), log[k], clock)
  BY DEF Sound, Table
<1>3. Empty \in [Keys -> Entries] /\ \A k \in Keys : Empty[k] = None
  BY DEF Empty, Entries
<1>4. CASE now < rotateAt
  <2>1. Rotated(now) = Table
    BY <1>1, <1>4 DEF Rotated, Table
  <2> QED
    BY <1>4, <2>1 DEF Table
<1>5. CASE now >= rotateAt + Window
  <2> DEFINE gen == [cur |-> Empty, prev |-> Empty, rotateAt |-> now + Window]
  <2>1. Rotated(now) = gen
    <3>1. ~(now < rotateAt)
      BY <1>1, <1>5
    <3> QED
      BY <1>5, <3>1 DEF Rotated
  <2>2. ASSUME NEW k \in Keys
        PROVE  Keeps(Held(gen, k), log[k], clock)
    <3>1. Held(gen, k) = << >>
      BY <1>3 DEF Held, Entry
    <3>2. Held(Table, k) \in Seq(Nat)
      BY <1>1, HeldType DEF Table
    <3>3. \A i \in 1..Len(Held(Table, k)) :
            Held(Table, k)[i] + Window <= clock
      <4>1. CASE cur[k] # None
        <5>1. Held(Table, k) = cur[k] /\ cur[k] \in Seq(Nat)
          BY <1>1, <4>1 DEF Held, Entry, Table, Entries
        <5>2. ASSUME NEW i \in 1..Len(cur[k])
              PROVE  cur[k][i] + Window <= clock
          <6>1. cur[k][i] < rotateAt /\ cur[k][i] \in Nat
            BY <1>2, <4>1, <5>1, ElementOfSeq
          <6> QED
            BY <1>1, <1>5, <6>1
        <5> QED
          BY <5>1, <5>2
      <4>2. CASE cur[k] = None /\ prev[k] # None
        <5>1. Held(Table, k) = prev[k] /\ prev[k] \in Seq(Nat)
          BY <1>1, <4>2 DEF Held, Entry, Table, Entries
        <5>2. ASSUME NEW i \in 1..Len(prev[k])
              PROVE  prev[k][i] + Window <= clock
          <6>1. prev[k][i] + Window < rotateAt /\ prev[k][i] \in Nat
            BY <1>2, <4>2, <5>1, ElementOfSeq
          <6> QED
            BY <1>1, <1>5, <6>1
        <5> QED
          BY <5>1, <5>2
      <4>3. CASE cur[k] = None /\ prev[k] = None
        <5>1. Held(Table, k) = << >>
          BY <4>3 DEF Held, Entry, Table
        <5> QED
          BY <5>1
      <4> QED
        BY <4>1, <4>2, <4>3
    <3> QED
      BY <1>1, <1>2, <3>1, <3>2, <3>3, KeepsNothing
  <2>3. now + Window \in Nat /\ now < now + Window
    BY <1>1
  <2>4. Sound(gen, log, clock)
    BY <1>3, <2>2, <2>3 DEF Sound
  <2> QED
    BY <2>1, <2>3, <2>4
<1>6. CASE now >= rotateAt /\ ~(now >= rotateAt + Window)
  <2> DEFINE gen == [cur |-> Empty, prev |-> cur, rotateAt |-> now + Window]
  <2>1. Rotated(now) = gen
    <3>1. ~(now < rotateAt)
      BY <1>1, <1>6
    <3> QED
      BY <1>6, <3>1 DEF Rotated
  <2>2. ASSUME NEW k \in Keys
        PROVE  Keeps(Held(gen, k), log[k], clock)
    <3>1. Held(Table, k) \in Seq(Nat)
      BY <1>1, HeldType DEF Table
    <3>2. CASE cur[k] # None
      <4>1. Held(gen, k) = Held(Table, k)
        BY <1>3, <3>2 DEF Held, Entry, Table
      <4> QED
        BY <1>2, <4>1
    <3>3. CASE cur[k] = None
      <4>1. Held(gen, k) = << >>
        BY <1>3, <3>3 DEF Held, Entry
      <4>2. \A i \in 1..Len(Held(Table, k)) :
              Held(Table, k)[i] + Window <= clock
        <5>1. CASE prev[k] # None
          <6>1. Held(Table, k) = prev[k] /\ prev[k] \in Seq(Nat)
            BY <1>1, <3>3, <5>1 DEF Held, Entry, Table, Entries
          <6>2. ASSUME NEW i \in 1..Len(prev[k])
                PROVE  prev[k][i] + Window <= clock
            <7>1. prev[k][i] + Window < rotateAt /\ prev[k][i] \in Nat
              BY <1>2, <5>1, <6>1, ElementOfSeq
            <7> QED
              BY <1>1, <1>6, <7>1
          <6> QED
            BY <6>1, <6>2
        <5>2. CASE prev[k] = None
          <6>1. Held(Table, k) = << >>
            BY <3>3, <5>2 DEF Held, Entry, Table
          <6> QED
            BY <6>1
        <5> QED
          BY <5>1, <5>2
      <4> QED
        BY <1>1, <1>2, <3>1, <4>1, <4>2, KeepsNothing
    <3> QED
      BY <3>2, <3>3
  <2>3. now + Window \in Nat /\ now < now + Window
    BY <1>1
  <2>4. ASSUME NEW k \in Keys, cur[k] # None, NEW i \in 1..Len(cur[k])
        PROVE  cur[k][i] + Window < now + Window
    <3>1. cur[k] \in Seq(Nat) /\ cur[k][i] < rotateAt
      BY <1>1, <1>2, <2>4 DEF Entries
    <3>2. cur[k][i] \in Nat
      BY <3>1, ElementOfSeq
    <3> QED
      BY <1>1, <1>6, <3>1, <3>2
  <2>5. Sound(gen, log, clock)
    BY <1>1, <1>3, <2>2, <2>3, <2>4 DEF Sound
  <2> QED
    BY <2>1, <2>3, <2>5
<1> QED
  BY <1>1, <1>4, <1>5, <1>6

\* Storing an entry under k keeps a sound pair sound.
LEMMA StoreSound ==
  ASSUME NEW gen, NEW l \in [Keys -> Seq(Nat)], NEW t \in Nat,
         Sound(gen, l, t), NEW k \in Keys,
         NEW w \in Seq(Nat), NEW v \in Seq(Nat), Keeps(w, v, t),
         \A i \in 1..Len(w) : w[i] < gen.rotateAt,
         NEW c, c = [gen.cur EXCEPT ![k] = w],
         NEW p, p = IF gen.cur[k] # None THEN gen.prev
                                         ELSE [gen.prev EXCEPT ![k] = None],
         NEW r, r = gen.rotateAt
  PROVE  Sound([cur |-> c, prev |-> p, rotateAt |-> r],
               [l EXCEPT ![k] = v], t)
<1> DEFINE new == [cur |-> c, prev |-> p, rotateAt |-> r]
<1>1. /\ gen.cur \in [Keys -> Entries] /\ gen.prev \in [Keys -> Entries]
      /\ gen.rotateAt \in Nat
      /\ \A x \in Keys : gen.cur[x] = None \/ gen.prev[x] = None
  BY DEF Sound
<1>2. w # None /\ w \in Entries /\ None \in Entries
  BY NoneAssumption DEF Entries
<1>3. c \in [Keys -> Entries] /\ p \in [Keys -> Entries]
  BY <1>1, <1>2
<1>4. c[k] = w /\ p[k] = None
  BY <1>1
<1>5. \A x \in Keys \ {k} : c[x] = gen.cur[x] /\ p[x] = gen.prev[x]
  BY <1>1
<1>6. \A x \in Keys : Keeps(Held(new, x), [l EXCEPT ![k] = v][x], t)
  <2> SUFFICES ASSUME NEW x \in Keys
               PROVE  Keeps(Held(new, x), [l EXCEPT ![k] = v][x], t)
    OBVIOUS
  <2>1. CASE x = k
    BY <1>2, <1>4, <2>1 DEF Held, Entry
  <2>2. CASE x # k
    <3>1. Held(new, x) = Held(gen, x)
      BY <1>5, <2>2 DEF Held, Entry
    <3>2. Keeps(Held(gen, x), l[x], t)
      BY DEF Sound
    <3> QED
      BY <2>2, <3>1, <3>2
  <2> QED
    BY <2>1, <2>2
<1>7. \A x \in Keys : c[x] # None => \A i \in 1..Len(c[x]) : c[x][i] < r
  BY <1>4, <1>5 DEF Sound
<1>8. \A x \in Keys : p[x] # None =>
        \A i \in 1..Len(p[x]) : p[x][i] + Window < r
  BY <1>4, <1>5 DEF Sound
<1>9. \A x \in Keys : c[x] = None \/ p[x] = None
  BY <1>1, <1>4, <1>5
<1> HIDE DEF new
<1>10. new.cur = c /\ new.prev = p /\ new.rotateAt = r
  BY DEF new
<1>11. Sound(new, [l EXCEPT ![k] = v], t)
  BY <1>1, <1>3, <1>6, <1>7, <1>8, <1>9, <1>10 DEF Sound
<1> QED
  BY <1>11 DEF new

LEMMA InitIInv == Init => IInv
<1> SUFFICES ASSUME Init PROVE IInv
  OBVIOUS
<1>1. TypeOK
  BY DEF Init, TypeOK, Empty
<1>2. \A k \in Keys : Held(Table, k) = << >> /\ log[k] = << >>
  BY DEF Init, Empty, Held, Entry, Table
<1>3. \A k \in Keys : Keeps(Held(Table, k), log[k], clock)
  BY <1>2 DEF Keeps, Suffix, AgedBefore
<1>4. Sound(Table, log, clock)
  BY <1>3, WindowAssumption DEF Init, Sound, Table, Empty, Entries
<1>5. Calls /\ LogOrder /\ WindowBound
  BY <1>2 DEF Init, Calls, LogOrder, WindowBound
<1> QED
  BY <1>1, <1>4, <1>5 DEF IInv

-----------------------------------------------------------------------------
(* Steps. *)

\* What a decided call knows: the entry it works on is sound and unexpired.
LEMMA AllowFacts ==
  ASSUME IInv, NEW c \in Callers, pc[c] = "reading",
         NEW aged \in 0..Len(Held(Rotated(at[c]), key[c])),
         IsAged(Held(Rotated(at[c]), key[c]), at[c] - Window, aged)
  PROVE  LET gen == Rotated(at[c])
             w == Held(gen, key[c])
             young == SubSeq(w, aged + 1, Len(w))
         IN  /\ at[c] \in Nat /\ at[c] <= clock /\ clock <= at[c] + Skew
             /\ key[c] \in Keys
             /\ Sound(gen, log, clock)
             /\ at[c] < gen.rotateAt
             /\ young \in Seq(Nat)
             /\ Keeps(young, log[key[c]], clock)
             /\ \A i \in 1..Len(young) : young[i] < gen.rotateAt
             /\ Len(young) > 0 => at[c] < young[1] + Window
<1> DEFINE gen == Rotated(at[c])
           w == Held(gen, key[c])
           young == SubSeq(w, aged + 1, Len(w))
<1>1. /\ at[c] \in Nat /\ at[c] <= clock /\ clock <= at[c] + Skew
      /\ key[c] \in Keys /\ log[key[c]] \in Seq(Nat) /\ clock \in Nat
  BY DEF IInv, TypeOK, Calls
<1>2. Sound(gen, log, clock) /\ at[c] < gen.rotateAt
  BY <1>1, RotationSound DEF IInv
<1>3. w \in Seq(Nat)
  BY <1>1, <1>2, HeldType DEF Sound
<1>4. Keeps(w, log[key[c]], clock)
  BY <1>1, <1>2 DEF Sound
<1>5. \A i \in 1..Len(w) : w[i] < gen.rotateAt
  <2> HIDE DEF gen
  <2>1. gen.rotateAt \in Nat
    BY <1>2 DEF Sound
  <2>2. CASE gen.cur[key[c]] # None
    BY <1>1, <1>2, <2>2 DEF Sound, Held, Entry
  <2>3. CASE gen.cur[key[c]] = None /\ gen.prev[key[c]] # None
    <3>1. w = gen.prev[key[c]]
      BY <2>3 DEF Held, Entry
    <3>2. ASSUME NEW i \in 1..Len(w) PROVE w[i] < gen.rotateAt
      <4>1. w[i] + Window < gen.rotateAt
        BY <1>1, <1>2, <2>3, <3>1 DEF Sound
      <4>2. w[i] \in Nat
        BY <1>3, ElementOfSeq
      <4> QED
        BY <2>1, <4>1, <4>2
    <3> QED
      BY <3>2
  <2>4. CASE gen.cur[key[c]] = None /\ gen.prev[key[c]] = None
    BY <2>4 DEF Held, Entry
  <2> QED
    BY <2>2, <2>3, <2>4
<1> HIDE DEF gen, w
<1>6. /\ young \in Seq(Nat) /\ Len(young) = Len(w) - aged
      /\ \A i \in 1..Len(young) : young[i] = w[i + aged]
      /\ Keeps(young, log[key[c]], clock)
  <2>1. aged \in 0..Len(w) /\ IsAged(w, at[c] - Window, aged)
    BY DEF w, gen
  <2> DEFINE l == log[key[c]]
             now == at[c]
  <2>2. /\ l \in Seq(Nat) /\ now \in Nat /\ now <= clock /\ clock \in Nat
        /\ Keeps(w, l, clock) /\ IsAged(w, now - Window, aged)
    BY <1>1, <1>4, <2>1
  <2> HIDE DEF l, now
  <2>3. /\ young \in Seq(Nat) /\ Len(young) = Len(w) - aged
        /\ \A i \in 1..Len(young) : young[i] = w[i + aged]
    BY <1>3, <2>1
  <2> HIDE DEF young
  <2>4. Keeps(young, l, clock)
    BY <1>3, <2>1, <2>2, <2>3, KeepsYoung
  <2> QED
    BY <2>3, <2>4 DEF l
<1> HIDE DEF young
<1>7. Len(w) \in Nat /\ aged \in 0..Len(w) /\ IsAged(w, at[c] - Window, aged)
  BY <1>3, LenProperties DEF w, gen
<1>8. \A i \in 1..Len(young) : i + aged \in 1..Len(w)
  BY <1>6, <1>7
<1>9. \A i \in 1..Len(young) : young[i] < gen.rotateAt
  BY <1>5, <1>6, <1>8
<1>10. Len(young) > 0 => at[c] < young[1] + Window
  <2> SUFFICES ASSUME Len(young) > 0 PROVE at[c] < young[1] + Window
    OBVIOUS
  <2>1. aged < Len(w) /\ 1 \in 1..Len(young) /\ 1 + aged = aged + 1
    BY <1>6, <1>7
  <2>2. young[1] = w[aged + 1]
    BY <1>6, <2>1
  <2>3. w[aged + 1] > at[c] - Window
    BY <1>7, <2>1 DEF IsAged
  <2>4. young[1] \in Nat
    BY <1>6, <2>1, ElementOfSeq
  <2> QED
    BY <1>1, <2>2, <2>3, <2>4
<1> QED
  BY <1>1, <1>2, <1>6, <1>9, <1>10 DEF young, w, gen

\* Time passes: what was aged stays aged.
LEMMA SoundLater ==
  ASSUME NEW gen, NEW l \in [Keys -> Seq(Nat)], NEW t \in Nat, NEW u \in Nat,
         t <= u, Sound(gen, l, t)
  PROVE  Sound(gen, l, u)
<1>1. ASSUME NEW k \in Keys PROVE Keeps(Held(gen, k), l[k], u)
  <2>1. Keeps(Held(gen, k), l[k], t)
    BY DEF Sound
  <2> DEFINE w == Held(gen, k)
  <2> HIDE DEF w
  <2>2. /\ l[k] \in Seq(Nat)
        /\ \A i \in 1..(Len(l[k]) - Len(w)) : l[k][i] + Window <= t
        /\ w \in Seq(Nat) /\ Len(w) <= Len(l[k])
    BY <2>1, HeldType DEF Keeps, AgedBefore, Suffix, Sound, w
  <2>3. ASSUME NEW i \in 1..(Len(l[k]) - Len(w)) PROVE l[k][i] + Window <= u
    <3>1. Len(w) \in Nat /\ Len(l[k]) \in Nat
      BY <2>2, LenProperties
    <3>2. i \in 1..Len(l[k])
      BY <2>2, <3>1
    <3>3. l[k][i] \in Nat
      BY <2>2, <3>2, ElementOfSeq
    <3> QED
      BY <2>2, <2>3, <3>3
  <2> QED
    BY <2>1, <2>3 DEF Keeps, AgedBefore, w
<1> QED
  BY <1>1 DEF Sound

LEMMA TickStep == IInv /\ Tick => IInv'
<1> SUFFICES ASSUME IInv, Tick PROVE IInv'
  OBVIOUS
<1> USE DEF IInv
<1>1. /\ clock \in Nat /\ clock' = clock + 1 /\ log \in [Keys -> Seq(Nat)]
      /\ UNCHANGED <<cur, prev, rotateAt, pc, key, at, wait, log>>
  BY DEF Tick, TypeOK, table, call
<1>2. TypeOK'
  BY <1>1 DEF TypeOK
<1>3. Sound(Table, log, clock')
  BY <1>1, SoundLater
<1>4. Sound(Table, log, clock)'
  BY <1>1, <1>3 DEF Table
<1>5. Calls'
  <2> SUFFICES ASSUME NEW c \in Callers, pc[c] = "reading"
               PROVE  at[c] <= clock' /\ clock' <= at[c] + Skew
    BY <1>1 DEF Calls
  <2>1. /\ at[c] \in Nat /\ at[c] <= clock /\ clock < at[c] + Skew
    BY DEF Calls, Tick, TypeOK
  <2> QED
    BY <1>1, <2>1
<1>6. LogOrder'
  <2> SUFFICES ASSUME NEW k \in Keys, NEW i \in 1..Len(log[k])
               PROVE  log[k][i] <= clock'
    BY <1>1 DEF LogOrder
  <2>1. log[k][i] \in Nat /\ log[k][i] <= clock
    BY <1>1, ElementOfSeq DEF LogOrder
  <2> QED
    BY <1>1, <2>1
<1>7. WindowBound'
  BY <1>1 DEF WindowBound
<1> QED
  BY <1>2, <1>4, <1>5, <1>6, <1>7

LEMMA ReadClockStep ==
  ASSUME IInv, NEW c \in Callers, NEW k \in Keys, ReadClock(c, k)
  PROVE  IInv'
<1> USE DEF IInv
<1>1. /\ UNCHANGED <<clock, cur, prev, rotateAt, log>>
      /\ pc' = [pc EXCEPT ![c] = "reading"]
      /\ key' = [key EXCEPT ![c] = k]
      /\ at' = [at EXCEPT ![c] = clock]
      /\ wait' = [wait EXCEPT ![c] = 0]
  BY DEF ReadClock, table
<1>2. TypeOK'
  BY <1>1 DEF TypeOK
<1>3. Sound(Table, log, clock)'
  BY <1>1 DEF Table
<1>4. Calls'
  <2> SUFFICES ASSUME NEW d \in Callers, pc'[d] = "reading"
               PROVE  at'[d] <= clock /\ clock <= at'[d] + Skew
    BY <1>1 DEF Calls
  <2>1. CASE d = c
    <3>1. at'[d] = clock /\ clock \in Nat
      BY <1>1, <2>1 DEF TypeOK
    <3> QED
      BY <3>1
  <2>2. CASE d # c
    BY <1>1, <2>2 DEF Calls, TypeOK
  <2> QED
    BY <2>1, <2>2
<1>5. LogOrder' /\ WindowBound'
  BY <1>1 DEF LogOrder, WindowBound
<1> QED
  BY <1>2, <1>3, <1>4, <1>5

LEMMA LeaveStep ==
  ASSUME IInv, NEW c \in Callers, Leave(c)
  PROVE  IInv'
<1> USE DEF IInv
<1>1. /\ UNCHANGED <<clock, cur, prev, rotateAt, key, at, wait, log>>
      /\ pc' = [pc EXCEPT ![c] = "idle"]
  BY DEF Leave, table
<1>2. TypeOK'
  BY <1>1 DEF TypeOK
<1>3. Sound(Table, log, clock)'
  BY <1>1 DEF Table
<1>4. Calls'
  BY <1>1 DEF Calls, TypeOK
<1>5. LogOrder' /\ WindowBound'
  BY <1>1 DEF LogOrder, WindowBound
<1> QED
  BY <1>2, <1>3, <1>4, <1>5

LEMMA RefuseStep ==
  ASSUME IInv, NEW c \in Callers, pc[c] = "reading",
         NEW aged \in 0..Len(Held(Rotated(at[c]), key[c])),
         IsAged(Held(Rotated(at[c]), key[c]), at[c] - Window, aged),
         Refuse(c, Rotated(at[c]),
                SubSeq(Held(Rotated(at[c]), key[c]), aged + 1,
                       Len(Held(Rotated(at[c]), key[c])))),
         UNCHANGED <<clock, key, at>>
  PROVE  IInv'
<1> DEFINE gen == Rotated(at[c])
           k == key[c]
           w == SubSeq(Held(gen, k), aged + 1, Len(Held(gen, k)))
<1>1. /\ at[c] \in Nat /\ k \in Keys /\ Sound(gen, log, clock)
      /\ w \in Seq(Nat) /\ Keeps(w, log[k], clock)
      /\ \A i \in 1..Len(w) : w[i] < gen.rotateAt
      /\ Len(w) > 0 => at[c] < w[1] + Window
  BY AllowFacts
<1>2. Refuse(c, gen, w)
  OBVIOUS
<1> HIDE DEF gen, w
<1>3. /\ cur' = [gen.cur EXCEPT ![k] = w]
      /\ prev' = IF gen.cur[k] # None THEN gen.prev
                                      ELSE [gen.prev EXCEPT ![k] = None]
      /\ rotateAt' = gen.rotateAt
      /\ pc' = [pc EXCEPT ![c] = "idle"]
      /\ wait' = [wait EXCEPT ![c] = Window - (at[c] - w[1])]
      /\ Len(w) >= Limit
      /\ UNCHANGED <<clock, key, at, log>>
  BY <1>2 DEF Refuse, Store
<1>4. log \in [Keys -> Seq(Nat)] /\ clock \in Nat /\ log[k] \in Seq(Nat)
  BY <1>1 DEF IInv, TypeOK
<1>5. [log EXCEPT ![k] = log[k]] = log
  BY <1>4
<1>6. Sound(Table', log, clock)
  <2> DEFINE l == log[k]
  <2>1. l \in Seq(Nat) /\ Keeps(w, l, clock) /\ [log EXCEPT ![k] = l] = log
    BY <1>1, <1>4, <1>5
  <2> HIDE DEF l, k
  <2>2. Sound(Table', [log EXCEPT ![k] = l], clock)
    BY <1>1, <1>3, <1>4, <2>1, StoreSound DEF Table
  <2> QED
    BY <2>1, <2>2
<1>7. Sound(Table, log, clock)'
  BY <1>3, <1>6 DEF Table
<1>8. TypeOK'
  <2>1. cur' \in [Keys -> Entries] /\ prev' \in [Keys -> Entries]
        /\ rotateAt' \in Nat
    BY <1>6 DEF Sound, Table
  <2>2. Window - (at[c] - w[1]) \in Nat
    <3>a. \A n \in Nat : n >= Limit => n > 0 /\ 1 \in 1..n
      OBVIOUS
    <3>1. Len(w) > 0 /\ 1 \in 1..Len(w)
      BY <1>3, <1>1, <3>a, LenProperties
    <3>2. w[1] \in Nat /\ at[c] < w[1] + Window
      BY <1>1, <3>1, ElementOfSeq
    <3> QED
      BY <1>1, <3>2
  <2>3. /\ clock' \in Nat /\ key' \in [Callers -> Keys]
        /\ at' \in [Callers -> Nat] /\ log' \in [Keys -> Seq(Nat)]
        /\ pc' \in [Callers -> {"idle", "reading", "granted"}]
        /\ wait' \in [Callers -> Nat]
    BY <1>3, <2>2 DEF IInv, TypeOK
  <2> QED
    BY <2>1, <2>3 DEF TypeOK, Entries
<1>9. Calls'
  BY <1>3 DEF IInv, TypeOK, Calls
<1>10. LogOrder' /\ WindowBound'
  BY <1>3 DEF IInv, LogOrder, WindowBound
<1> QED
  BY <1>7, <1>8, <1>9, <1>10 DEF IInv

LEMMA LetInUntrackedStep ==
  ASSUME IInv, NEW c \in Callers, pc[c] = "reading", NEW w,
         LetInUntracked(c, Rotated(at[c]), w),
         UNCHANGED <<clock, key, at>>
  PROVE  IInv'
<1>1. /\ at[c] \in Nat /\ at[c] <= clock
  BY DEF IInv, TypeOK, Calls
<1>2. Sound(Rotated(at[c]), log, clock)
  BY <1>1, RotationSound DEF IInv
<1>3. Table' = [cur |-> Rotated(at[c]).cur, prev |-> Rotated(at[c]).prev,
                rotateAt |-> Rotated(at[c]).rotateAt]
  BY DEF LetInUntracked, Table
<1>4. UNCHANGED <<clock, key, at, wait, log>>
      /\ pc' = [pc EXCEPT ![c] = "granted"]
  BY DEF LetInUntracked
<1>5. Sound(Table, log, clock)'
  <2> DEFINE gen == Rotated(at[c])
  <2> HIDE DEF gen
  <2>1. \A k \in Keys : Held(Table', k) = Held(gen, k)
    BY <1>3 DEF Held, Entry, gen
  <2>2. Table'.cur = gen.cur /\ Table'.prev = gen.prev
        /\ Table'.rotateAt = gen.rotateAt
    BY <1>3 DEF gen
  <2>3. Sound(gen, log, clock)
    BY <1>2 DEF gen
  <2>4. Sound(Table', log, clock)
    BY <2>1, <2>2, <2>3 DEF Sound
  <2> QED
    BY <1>4, <2>4
<1>6. TypeOK'
  <2>1. cur' \in [Keys -> Entries] /\ prev' \in [Keys -> Entries]
        /\ rotateAt' \in Nat
    BY <1>5 DEF Sound, Table
  <2> QED
    BY <1>4, <2>1 DEF IInv, TypeOK, Entries
<1>7. Calls'
  BY <1>4 DEF IInv, TypeOK, Calls
<1>8. LogOrder' /\ WindowBound'
  BY <1>4 DEF IInv, LogOrder, WindowBound
<1> QED
  BY <1>5, <1>6, <1>7, <1>8 DEF IInv

LEMMA RecordStep ==
  ASSUME IInv, NEW c \in Callers, pc[c] = "reading",
         NEW aged \in 0..Len(Held(Rotated(at[c]), key[c])),
         IsAged(Held(Rotated(at[c]), key[c]), at[c] - Window, aged),
         Record(c, Rotated(at[c]),
                SubSeq(Held(Rotated(at[c]), key[c]), aged + 1,
                       Len(Held(Rotated(at[c]), key[c])))),
         UNCHANGED <<clock, key, at>>
  PROVE  IInv'
<1> DEFINE gen == Rotated(at[c])
           k == key[c]
           w == SubSeq(Held(gen, k), aged + 1, Len(Held(gen, k)))
           l == log[k]
           now == at[c]
<1>1. /\ now \in Nat /\ k \in Keys /\ Sound(gen, log, clock)
      /\ now <= clock /\ clock <= now + Skew /\ now < gen.rotateAt
      /\ w \in Seq(Nat) /\ Keeps(w, l, clock)
      /\ \A i \in 1..Len(w) : w[i] < gen.rotateAt
  BY AllowFacts
<1>2. Record(c, gen, w)
  OBVIOUS
<1> HIDE DEF gen, w
<1>3. /\ cur' = [gen.cur EXCEPT ![k] = Append(w, now)]
      /\ prev' = IF gen.cur[k] # None THEN gen.prev
                                      ELSE [gen.prev EXCEPT ![k] = None]
      /\ rotateAt' = gen.rotateAt
      /\ pc' = [pc EXCEPT ![c] = "granted"]
      /\ log' = [log EXCEPT ![k] = Append(l, now)]
      /\ Len(w) < Limit
      /\ UNCHANGED <<clock, key, at, wait>>
  BY <1>2 DEF Record, Store
<1>4. log \in [Keys -> Seq(Nat)] /\ clock \in Nat /\ l \in Seq(Nat)
  BY <1>1 DEF IInv, TypeOK
<1> HIDE DEF k, l, now
<1>5. /\ Append(w, now) \in Seq(Nat) /\ Append(l, now) \in Seq(Nat)
      /\ Keeps(Append(w, now), Append(l, now), clock)
  BY <1>1, <1>4, KeepsAppend, AppendProperties
<1>6. \A i \in 1..Len(Append(w, now)) : Append(w, now)[i] < gen.rotateAt
  <2>1. /\ Len(Append(w, now)) = Len(w) + 1 /\ Len(w) \in Nat
        /\ \A i \in 1..Len(w) : Append(w, now)[i] = w[i]
        /\ Append(w, now)[Len(w) + 1] = now
    BY <1>1, AppendProperties, LenProperties
  <2>2. ASSUME NEW i \in 1..Len(Append(w, now))
        PROVE  Append(w, now)[i] < gen.rotateAt
    <3>1. i \in 1..Len(w) \/ i = Len(w) + 1
      BY <2>1
    <3> QED
      BY <1>1, <2>1, <3>1
  <2> QED
    BY <2>2
<1>7. Sound(Table', log', clock)
  BY <1>1, <1>3, <1>4, <1>5, <1>6, StoreSound DEF Table
<1>8. Sound(Table, log, clock)'
  BY <1>3, <1>7 DEF Table
<1>9. TypeOK'
  <2>1. cur' \in [Keys -> Entries] /\ prev' \in [Keys -> Entries]
        /\ rotateAt' \in Nat
    BY <1>7 DEF Sound, Table
  <2>2. log' \in [Keys -> Seq(Nat)]
    BY <1>3, <1>4, <1>5
  <2> QED
    BY <1>3, <2>1, <2>2 DEF IInv, TypeOK, Entries
<1>10. Calls'
  BY <1>3 DEF IInv, TypeOK, Calls
<1>11. /\ Len(Append(l, now)) = Len(l) + 1 /\ Len(l) \in Nat
       /\ \A i \in 1..Len(l) : Append(l, now)[i] = l[i]
       /\ Append(l, now)[Len(l) + 1] = now
  BY <1>1, <1>4, AppendProperties, LenProperties
<1>12. /\ \A x \in Keys : x # k => log'[x] = log[x]
       /\ log'[k] = Append(l, now)
  BY <1>1, <1>3, <1>4
<1>13. /\ \A i \in 1..Len(l) : l[i] \in Nat /\ l[i] <= clock
       /\ \A i, j \in 1..Len(l) : i < j => l[i] <= l[j] + Skew
  BY <1>1, <1>4, ElementOfSeq DEF IInv, LogOrder, l
<1>14. LogOrder'
  <2>1. ASSUME NEW x \in Keys, x # k
        PROVE  /\ \A i \in 1..Len(log'[x]) : log'[x][i] <= clock'
               /\ \A i, j \in 1..Len(log'[x]) :
                    i < j => log'[x][i] <= log'[x][j] + Skew
    BY <1>3, <1>12, <2>1 DEF IInv, LogOrder
  <2>2. ASSUME NEW i \in 1..(Len(l) + 1)
        PROVE  Append(l, now)[i] <= clock
    <3>1. i \in 1..Len(l) \/ i = Len(l) + 1
      BY <1>11
    <3> QED
      BY <1>1, <1>11, <1>13, <3>1
  <2>3. ASSUME NEW i \in 1..(Len(l) + 1), NEW j \in 1..(Len(l) + 1), i < j
        PROVE  Append(l, now)[i] <= Append(l, now)[j] + Skew
    <3>1. i \in 1..Len(l) /\ (j \in 1..Len(l) \/ j = Len(l) + 1)
      BY <1>11, <2>3
    <3>2. CASE j \in 1..Len(l)
      BY <1>11, <1>13, <2>3, <3>1, <3>2
    <3>3. CASE j = Len(l) + 1
      BY <1>1, <1>4, <1>11, <1>13, <3>1, <3>3
    <3> QED
      BY <3>1, <3>2, <3>3
  <2>4. ASSUME NEW x \in Keys
        PROVE  /\ \A i \in 1..Len(log'[x]) : log'[x][i] <= clock'
               /\ \A i, j \in 1..Len(log'[x]) :
                    i < j => log'[x][i] <= log'[x][j] + Skew
    <3>1. CASE x = k
      <4> DEFINE m == Append(l, now)
      <4>1. log'[x] = m /\ clock' = clock
        BY <1>3, <1>12, <3>1
      <4>2. /\ \A i \in 1..Len(m) : m[i] <= clock
            /\ \A i, j \in 1..Len(m) : i < j => m[i] <= m[j] + Skew
        BY <1>11, <2>2, <2>3
      <4> HIDE DEF m
      <4> QED
        BY <4>1, <4>2
    <3> QED
      BY <2>1, <3>1
  <2> QED
    BY <2>4 DEF LogOrder
<1>15. WindowBound'
  <2>1. ASSUME NEW x \in Keys, x # k,
               NEW i \in 1..Len(log'[x]), NEW j \in 1..Len(log'[x]),
               i + Limit <= j
        PROVE  log'[x][i] + Window <= log'[x][j] + Skew
    BY <1>12, <2>1 DEF IInv, WindowBound
  <2>2. ASSUME NEW i \in 1..(Len(l) + 1), NEW j \in 1..(Len(l) + 1),
               i + Limit <= j
        PROVE  Append(l, now)[i] + Window <= Append(l, now)[j] + Skew
    <3>a. \A n \in Nat : \A x, y \in 1..(n + 1) :
            x + Limit <= y => x \in 1..n /\ (y \in 1..n \/ y = n + 1)
      OBVIOUS
    <3>1. i \in 1..Len(l) /\ (j \in 1..Len(l) \/ j = Len(l) + 1)
      BY <1>11, <2>2, <3>a
    <3>2. CASE j \in 1..Len(l)
      <4>1. l[i] + Window <= l[j] + Skew
        BY <1>1, <2>2, <3>1, <3>2 DEF IInv, WindowBound, l
      <4> QED
        BY <1>11, <3>1, <3>2, <4>1
    <3>3. CASE j = Len(l) + 1
      <4>1. Len(w) \in Nat /\ Len(w) <= Len(l)
        BY <1>1, LenProperties DEF Keeps, Suffix
      <4>2. i \in 1..(Len(l) - Len(w))
        BY <1>3, <1>11, <2>2, <3>1, <3>3, <4>1
      <4>3. l[i] + Window <= clock
        BY <1>1, <4>2 DEF Keeps, AgedBefore
      <4>4. Append(l, now)[i] = l[i] /\ Append(l, now)[j] = now
            /\ l[i] \in Nat
        BY <1>11, <1>13, <3>1, <3>3
      <4>5. \A a, b, d \in Nat :
              a + Window <= b /\ b <= d + Skew => a + Window <= d + Skew
        OBVIOUS
      <4> QED
        BY <1>1, <1>4, <4>3, <4>4, <4>5
    <3> QED
      BY <3>1, <3>2, <3>3
  <2> QED
    BY <1>11, <1>12, <2>1, <2>2 DEF WindowBound
<1> QED
  BY <1>8, <1>9, <1>10, <1>14, <1>15 DEF IInv

\* A list that lost its last element keeps its order and its spacing.
LEMMA DropLastOrder ==
  ASSUME IInv, NEW k \in Keys, log[k] # << >>,
         log' = [log EXCEPT ![k] = DropLast(log[k])], clock' = clock
  PROVE  LogOrder' /\ WindowBound'
<1> DEFINE l == log[k]
           m == DropLast(l)
<1>1. log \in [Keys -> Seq(Nat)]
  BY DEF IInv, TypeOK
<1>2. /\ Len(l) \in Nat /\ Len(m) = Len(l) - 1
      /\ \A i \in 1..(Len(l) - 1) : m[i] = l[i]
  BY <1>1, DropLastFacts
<1>3. \A i \in 1..Len(m) : i \in 1..Len(l) /\ m[i] = l[i]
  BY <1>2
<1>4. log'[k] = m /\ \A x \in Keys : x # k => log'[x] = log[x]
  BY <1>1
<1>5. /\ \A i \in 1..Len(l) : l[i] <= clock
      /\ \A i, j \in 1..Len(l) : i < j => l[i] <= l[j] + Skew
      /\ \A i, j \in 1..Len(l) : i + Limit <= j => l[i] + Window <= l[j] + Skew
  BY DEF IInv, LogOrder, WindowBound
<1> HIDE DEF l, m
<1>6. /\ \A i \in 1..Len(m) : m[i] <= clock
      /\ \A i, j \in 1..Len(m) : i < j => m[i] <= m[j] + Skew
      /\ \A i, j \in 1..Len(m) : i + Limit <= j => m[i] + Window <= m[j] + Skew
  BY <1>3, <1>5
<1>7. LogOrder'
  <2> SUFFICES ASSUME NEW x \in Keys
               PROVE  /\ \A i \in 1..Len(log'[x]) : log'[x][i] <= clock'
                      /\ \A i, j \in 1..Len(log'[x]) :
                           i < j => log'[x][i] <= log'[x][j] + Skew
    BY DEF LogOrder
  <2>1. CASE x = k
    BY <1>4, <1>6, <2>1
  <2>2. CASE x # k
    BY <1>4, <2>2 DEF IInv, LogOrder
  <2> QED
    BY <2>1, <2>2
<1>8. WindowBound'
  <2> SUFFICES ASSUME NEW x \in Keys
               PROVE  \A i, j \in 1..Len(log'[x]) : i + Limit <= j =>
                        log'[x][i] + Window <= log'[x][j] + Skew
    BY DEF WindowBound
  <2>1. CASE x = k
    BY <1>4, <1>6, <2>1
  <2>2. CASE x # k
    BY <1>4, <2>2 DEF IInv, WindowBound
  <2> QED
    BY <2>1, <2>2
<1> QED
  BY <1>7, <1>8

LEMMA RefundStep ==
  ASSUME IInv, NEW c \in Callers, Refund(c)
  PROVE  IInv'
<1> DEFINE k == key[c]
           l == log[k]
<1>1. /\ k \in Keys /\ clock \in Nat /\ log \in [Keys -> Seq(Nat)]
      /\ l \in Seq(Nat)
      /\ cur \in [Keys -> Entries] /\ prev \in [Keys -> Entries]
      /\ rotateAt \in Nat /\ Sound(Table, log, clock)
      /\ UNCHANGED <<clock, rotateAt, key, at, wait>>
      /\ pc' = [pc EXCEPT ![c] = "idle"]
  BY DEF IInv, TypeOK, Entries, Refund
<1>2. /\ Keeps(Held(Table, k), l, clock)
      /\ cur[k] = None \/ prev[k] = None
  BY <1>1 DEF Sound, Table
<1>3. Calls'
  BY <1>1 DEF IInv, TypeOK, Calls
<1> HIDE DEF k
<1>4. CASE /\ HasAttempt(cur, k)
           /\ cur' = [cur EXCEPT ![k] = DropLast(cur[k])]
           /\ log' = [log EXCEPT ![k] = DropLast(l)]
           /\ UNCHANGED prev
  <2> DEFINE w == cur[k]
  <2>1. w \in Seq(Nat) /\ w # << >> /\ w # None /\ Held(Table, k) = w
    BY <1>1, <1>4 DEF HasAttempt, Entries, Held, Entry, Table
  <2>2. /\ DropLast(w) \in Seq(Nat) /\ DropLast(l) \in Seq(Nat)
        /\ Len(l) > 0
        /\ Len(DropLast(w)) = Len(w) - 1
        /\ \A i \in 1..(Len(w) - 1) : DropLast(w)[i] = w[i]
        /\ Keeps(DropLast(w), DropLast(l), clock)
    BY <1>1, <1>2, <2>1, KeepsDropLast
  <2>3. \A i \in 1..Len(DropLast(w)) : DropLast(w)[i] < rotateAt
    <3>1. \A i \in 1..Len(w) : w[i] < rotateAt
      BY <1>1, <2>1 DEF Sound, Table
    <3>2. Len(w) \in Nat
      BY <2>1, LenProperties
    <3>3. \A n \in Nat : \A i \in 1..(n - 1) : i \in 1..n
      OBVIOUS
    <3> HIDE DEF w
    <3>4. \A i \in 1..(Len(w) - 1) : i \in 1..Len(w) /\ DropLast(w)[i] = w[i]
      BY <2>2, <3>2, <3>3
    <3> QED
      BY <2>2, <3>1, <3>4
  <2>4. Sound(Table', log', clock)
    <3> DEFINE gen == Table
    <3>1. /\ gen.cur = cur /\ gen.prev = prev /\ gen.rotateAt = rotateAt
      BY DEF Table
    <3>2. /\ cur' = [gen.cur EXCEPT ![k] = DropLast(w)]
          /\ prev' = IF gen.cur[k] # None THEN gen.prev
                                          ELSE [gen.prev EXCEPT ![k] = None]
          /\ rotateAt' = gen.rotateAt
          /\ Sound(gen, log, clock)
          /\ \A i \in 1..Len(DropLast(w)) : DropLast(w)[i] < gen.rotateAt
      BY <1>1, <1>4, <2>1, <2>3, <3>1
    <3> HIDE DEF gen, w, l
    <3>3. Sound([cur |-> cur', prev |-> prev', rotateAt |-> rotateAt'],
                [log EXCEPT ![k] = DropLast(l)], clock)
      BY <1>1, <2>2, <3>2, StoreSound
    <3> QED
      BY <1>4, <3>3 DEF Table
  <2>5. TypeOK'
    <3>1. cur' \in [Keys -> Entries] /\ prev' \in [Keys -> Entries]
      BY <2>4 DEF Sound, Table
    <3>2. log' \in [Keys -> Seq(Nat)]
      BY <1>1, <1>4, <2>2
    <3> QED
      BY <1>1, <3>1, <3>2 DEF IInv, TypeOK, Entries
  <2>6. l # << >>
    BY <2>2
  <2>7. LogOrder' /\ WindowBound'
    BY <1>1, <1>4, <2>6, DropLastOrder
  <2> QED
    BY <1>1, <1>3, <2>4, <2>5, <2>7 DEF IInv, Table
<1>5. CASE /\ ~HasAttempt(cur, k) /\ HasAttempt(prev, k)
           /\ prev' = [prev EXCEPT ![k] = DropLast(prev[k])]
           /\ log' = [log EXCEPT ![k] = DropLast(l)]
           /\ UNCHANGED cur
  <2> DEFINE w == prev[k]
  <2>1. /\ w \in Seq(Nat) /\ w # << >> /\ w # None /\ cur[k] = None
        /\ Held(Table, k) = w
    BY <1>1, <1>2, <1>5 DEF HasAttempt, Entries, Held, Entry, Table
  <2>2. /\ DropLast(w) \in Seq(Nat) /\ DropLast(l) \in Seq(Nat)
        /\ Len(l) > 0
        /\ Len(DropLast(w)) = Len(w) - 1
        /\ \A i \in 1..(Len(w) - 1) : DropLast(w)[i] = w[i]
        /\ Keeps(DropLast(w), DropLast(l), clock)
    BY <1>1, <1>2, <2>1, KeepsDropLast
  <2>3. \A i \in 1..Len(DropLast(w)) : DropLast(w)[i] + Window < rotateAt
    <3>1. \A i \in 1..Len(w) : w[i] + Window < rotateAt
      BY <1>1, <2>1 DEF Sound, Table
    <3>2. Len(w) \in Nat
      BY <2>1, LenProperties
    <3>3. \A n \in Nat : \A i \in 1..(n - 1) : i \in 1..n
      OBVIOUS
    <3> HIDE DEF w
    <3>4. \A i \in 1..(Len(w) - 1) : i \in 1..Len(w) /\ DropLast(w)[i] = w[i]
      BY <2>2, <3>2, <3>3
    <3> QED
      BY <2>2, <3>1, <3>4
  <2>4. /\ prev' \in [Keys -> Entries] /\ log' \in [Keys -> Seq(Nat)]
        /\ prev'[k] = DropLast(w) /\ log'[k] = DropLast(l)
        /\ \A x \in Keys : x # k => prev'[x] = prev[x] /\ log'[x] = log[x]
    BY <1>1, <1>5, <2>2 DEF Entries
  <2>5. Table'.cur = cur /\ Table'.prev = prev' /\ Table'.rotateAt = rotateAt
    BY <1>1, <1>5 DEF Table
  <2>6. \A x \in Keys : Keeps(Held(Table', x), log'[x], clock)
    <3> SUFFICES ASSUME NEW x \in Keys
                 PROVE  Keeps(Held(Table', x), log'[x], clock)
      OBVIOUS
    <3>1. CASE x = k
      <4>1. DropLast(w) # None
        BY <2>2, NoneAssumption
      <4>2. Held(Table', x) = DropLast(w)
        BY <2>1, <2>4, <2>5, <3>1, <4>1 DEF Held, Entry
      <4> QED
        BY <2>2, <2>4, <3>1, <4>2
    <3>2. CASE x # k
      <4>1. Held(Table', x) = Held(Table, x)
        BY <2>4, <2>5, <3>2 DEF Held, Entry, Table
      <4>2. Keeps(Held(Table, x), log[x], clock)
        BY <1>1 DEF Sound
      <4> QED
        BY <2>4, <3>2, <4>1, <4>2
    <3> QED
      BY <3>1, <3>2
  <2>7. Sound(Table', log', clock)
    <3>1. /\ \A x \in Keys : cur[x] = None \/ prev[x] = None
          /\ \A x \in Keys : cur[x] # None =>
               \A i \in 1..Len(cur[x]) : cur[x][i] < rotateAt
          /\ \A x \in Keys : prev[x] # None =>
               \A i \in 1..Len(prev[x]) : prev[x][i] + Window < rotateAt
      BY <1>1 DEF Sound, Table
    <3>2. \A x \in Keys : cur[x] = None \/ prev'[x] = None
      BY <2>1, <2>4, <3>1
    <3>3. \A x \in Keys : prev'[x] # None =>
            \A i \in 1..Len(prev'[x]) : prev'[x][i] + Window < rotateAt
      BY <2>3, <2>4, <3>1
    <3> HIDE DEF w, l
    <3> QED
      BY <1>1, <2>4, <2>5, <2>6, <3>1, <3>2, <3>3 DEF Sound
  <2>8. TypeOK'
    BY <1>1, <1>5, <2>4 DEF IInv, TypeOK, Entries
  <2>9. l # << >>
    BY <2>2
  <2>10. LogOrder' /\ WindowBound'
    BY <1>1, <1>5, <2>9, DropLastOrder
  <2> QED
    BY <1>1, <1>3, <2>7, <2>8, <2>10 DEF IInv, Table
<1>6. CASE UNCHANGED <<cur, prev, log>>
  <2>1. TypeOK'
    BY <1>1, <1>6 DEF IInv, TypeOK
  <2>2. Sound(Table, log, clock)'
    BY <1>1, <1>6 DEF Table
  <2>3. LogOrder' /\ WindowBound'
    BY <1>1, <1>6 DEF IInv, LogOrder, WindowBound
  <2> QED
    BY <1>3, <2>1, <2>2, <2>3 DEF IInv
<1> QED
  BY <1>4, <1>5, <1>6 DEF Refund, k

LEMMA NextStep == IInv /\ [Next]_vars => IInv'
<1> SUFFICES ASSUME IInv, [Next]_vars PROVE IInv'
  OBVIOUS
<1>1. CASE Tick
  BY <1>1, TickStep
<1>2. ASSUME NEW c \in Callers, NEW k \in Keys, ReadClock(c, k) PROVE IInv'
  BY <1>2, ReadClockStep
<1>3. ASSUME NEW c \in Callers, Allow(c) PROVE IInv'
  <2> DEFINE gen == Rotated(at[c])
             w == Held(gen, key[c])
  <2>1. PICK aged \in 0..Len(w) :
          /\ IsAged(w, at[c] - Window, aged)
          /\ \/ Refuse(c, gen, SubSeq(w, aged + 1, Len(w)))
             \/ LetInUntracked(c, gen, SubSeq(w, aged + 1, Len(w)))
             \/ Record(c, gen, SubSeq(w, aged + 1, Len(w)))
    BY <1>3 DEF Allow
  <2>2. pc[c] = "reading" /\ UNCHANGED <<clock, key, at>>
    BY <1>3 DEF Allow
  <2>3. CASE Refuse(c, gen, SubSeq(w, aged + 1, Len(w)))
    BY <2>1, <2>2, <2>3, RefuseStep
  <2>4. CASE LetInUntracked(c, gen, SubSeq(w, aged + 1, Len(w)))
    BY <2>2, <2>4, LetInUntrackedStep
  <2>5. CASE Record(c, gen, SubSeq(w, aged + 1, Len(w)))
    BY <2>1, <2>2, <2>5, RecordStep
  <2> QED
    BY <2>1, <2>3, <2>4, <2>5
<1>4. ASSUME NEW c \in Callers, Refund(c) PROVE IInv'
  BY <1>4, RefundStep
<1>5. ASSUME NEW c \in Callers, Leave(c) PROVE IInv'
  BY <1>5, LeaveStep
<1>6. CASE UNCHANGED vars
  <2>1. UNCHANGED <<clock, cur, prev, rotateAt, pc, key, at, wait, log>>
    BY <1>6 DEF vars
  <2> QED
    BY <2>1 DEF IInv, TypeOK, Sound, Table, Held, Entry, Calls, LogOrder,
                WindowBound
<1> QED
  BY <1>1, <1>2, <1>3, <1>4, <1>5, <1>6 DEF Next

\* The invariant is inductive, and holds of every reachable state.
THEOREM Inductive == Spec => []IInv
<1> QED
  BY InitIInv, NextStep, PTL DEF Spec

-----------------------------------------------------------------------------
(* What follows. *)

\* The limiter's variables keep their types; in particular the wait of a
\* refusal is never negative.
THEOREM TypeCorrect == Spec => []TypeOK
<1>1. IInv => TypeOK
  BY DEF IInv
<1> QED
  BY <1>1, Inductive, PTL

\* No window ever holds more than Limit charged attempts, less the time a
\* call may wait for the mutex: for every limit, window and cap.
THEOREM WindowTheorem == Spec => []WindowBound
<1>1. IInv => WindowBound
  BY DEF IInv
<1> QED
  BY <1>1, Inductive, PTL

\* Rotation, revival and expiry forget only what is a window old.
THEOREM ForgetsTheorem == Spec => []ForgetsOnlyAged
<1>1. IInv => ForgetsOnlyAged
  <2> SUFFICES ASSUME IInv, NEW k \in Keys
               PROVE  LET dropped == Len(log[k]) - Len(Holds(k)) IN
                        /\ dropped >= 0
                        /\ \A i \in 1..dropped : log[k][i] + Window <= clock
                        /\ \A i \in 1..Len(Holds(k)) :
                             Holds(k)[i] = log[k][dropped + i]
    BY DEF ForgetsOnlyAged
  <2>1. Keeps(Holds(k), log[k], clock)
    BY DEF IInv, Sound, Holds
  <2>2. log[k] \in Seq(Nat) /\ Holds(k) \in Seq(Nat)
    BY HeldType DEF IInv, TypeOK, Sound, Holds
  <2>3. Len(log[k]) \in Nat /\ Len(Holds(k)) \in Nat
    BY <2>2, LenProperties
  <2> QED
    BY <2>1, <2>3 DEF Keeps, Suffix, AgedBefore
<1> QED
  BY <1>1, Inductive, PTL

\* The limiter implements the sliding window without a table.
THEOREM Refinement == Spec => BudgetSpec
<1>1. Init => Budget!Init
  BY DEF Init, Budget!Init
<1>2. IInv /\ [Next]_vars => [Budget!Next]_(Budget!budget)
  <2> SUFFICES ASSUME IInv, [Next]_vars
               PROVE  Budget!Next \/ UNCHANGED <<clock, log>>
    BY DEF Budget!budget
  <2>1. CASE Tick
    BY <2>1 DEF Tick, Budget!Next, Budget!Tick
  <2>2. ASSUME NEW c \in Callers, NEW k \in Keys, ReadClock(c, k)
        PROVE  UNCHANGED <<clock, log>>
    BY <2>2 DEF ReadClock
  <2>3. ASSUME NEW c \in Callers, Allow(c)
        PROVE  Budget!Next \/ UNCHANGED <<clock, log>>
    <3> DEFINE gen == Rotated(at[c])
               v == Held(gen, key[c])
               k == key[c]
               now == at[c]
    <3>1. PICK aged \in 0..Len(v) :
            /\ IsAged(v, now - Window, aged)
            /\ \/ Refuse(c, gen, SubSeq(v, aged + 1, Len(v)))
               \/ LetInUntracked(c, gen, SubSeq(v, aged + 1, Len(v)))
               \/ Record(c, gen, SubSeq(v, aged + 1, Len(v)))
      BY <2>3 DEF Allow
    <3> DEFINE w == SubSeq(v, aged + 1, Len(v))
    <3>2. pc[c] = "reading" /\ UNCHANGED clock
      BY <2>3 DEF Allow
    <3>3. /\ now \in Nat /\ now <= clock /\ clock <= now + Skew
          /\ k \in Keys /\ w \in Seq(Nat) /\ Keeps(w, log[k], clock)
      BY <3>1, <3>2, AllowFacts
    <3> HIDE DEF gen, v, w
    <3>4. CASE Refuse(c, gen, w) \/ LetInUntracked(c, gen, w)
      BY <3>2, <3>4 DEF Refuse, LetInUntracked
    <3>5. CASE Record(c, gen, w)
      <4>1. Len(w) < Limit /\ log' = [log EXCEPT ![k] = Append(log[k], now)]
        BY <3>5 DEF Record
      <4>2. /\ log[k] \in Seq(Nat) /\ clock \in Nat
            /\ Len(log[k]) \in Nat /\ Len(w) \in Nat
        BY <3>3, LenProperties DEF IInv, TypeOK
      <4>3. ASSUME NEW i \in 1..Len(log[k]), i + Limit <= Len(log[k]) + 1
            PROVE  log[k][i] + Window <= clock
        <5>1. \A n, m \in Nat : \A x \in 1..n :
                m < Limit /\ x + Limit <= n + 1 => x \in 1..(n - m)
          OBVIOUS
        <5>2. i \in 1..(Len(log[k]) - Len(w))
          BY <4>1, <4>2, <4>3, <5>1
        <5> QED
          BY <3>3, <5>2 DEF Keeps, AgedBefore
      <4>4. now \in 0..clock /\ clock <= now + Skew
        BY <3>3, <4>2
      <4> HIDE DEF k, now
      <4>5. Budget!Charge(k)
        BY <3>2, <4>1, <4>3, <4>4 DEF Budget!Charge
      <4> QED
        BY <3>3, <4>5 DEF Budget!Next
    <3> QED
      BY <3>1, <3>4, <3>5 DEF w, v, gen
  <2>4. ASSUME NEW c \in Callers, Refund(c)
        PROVE  Budget!Next \/ UNCHANGED <<clock, log>>
    <3> DEFINE k == key[c]
    <3>1. /\ k \in Keys /\ log[k] \in Seq(Nat)
          /\ cur \in [Keys -> Entries] /\ prev \in [Keys -> Entries]
          /\ Keeps(Held(Table, k), log[k], clock)
          /\ cur[k] = None \/ prev[k] = None
          /\ UNCHANGED clock
      BY <2>4 DEF IInv, TypeOK, Entries, Sound, Table, Refund
    <3>2. CASE UNCHANGED log
      BY <3>1, <3>2
    <3>3. CASE /\ HasAttempt(cur, k) \/ HasAttempt(prev, k)
               /\ log' = [log EXCEPT ![k] = DropLast(log[k])]
      <4>1. Held(Table, k) \in Seq(Nat) /\ Held(Table, k) # << >>
        BY <3>1, <3>3 DEF HasAttempt, Entries, Held, Entry, Table
      <4>2. Len(log[k]) > 0
        BY <3>1, <4>1, EmptySeq, LenProperties DEF Keeps, Suffix
      <4>3. Budget!Return(k)
        BY <3>1, <3>3, <4>2 DEF Budget!Return, DropLast
      <4> QED
        BY <3>1, <4>3 DEF Budget!Next
    <3> QED
      BY <2>4, <3>2, <3>3 DEF Refund
  <2>5. ASSUME NEW c \in Callers, Leave(c) PROVE UNCHANGED <<clock, log>>
    BY <2>5 DEF Leave
  <2>6. CASE UNCHANGED vars
    BY <2>6 DEF vars
  <2> QED
    BY <2>1, <2>2, <2>3, <2>4, <2>5, <2>6 DEF Next
<1> QED
  BY <1>1, <1>2, Inductive, PTL DEF Spec, BudgetSpec, Budget!Spec

-----------------------------------------------------------------------------
(* The size of the table. *)

Used(gen) == {k \in Keys : gen[k] # None}

\* Storing an entry grows the table only by a key that was not tracked.
LEMMA StoreSize ==
  ASSUME NEW cu \in [Keys -> Entries], NEW pr \in [Keys -> Entries],
         \A x \in Keys : cu[x] = None \/ pr[x] = None,
         NEW k \in Keys, NEW w \in Seq(Nat),
         NEW c, c = [cu EXCEPT ![k] = w],
         NEW p, p = IF cu[k] # None THEN pr ELSE [pr EXCEPT ![k] = None],
         Cardinality(Used(cu)) + Cardinality(Used(pr)) <= MaxKeys,
         \/ cu[k] # None \/ pr[k] # None
         \/ Cardinality(Used(cu)) + Cardinality(Used(pr)) < MaxKeys
  PROVE  Cardinality(Used(c)) + Cardinality(Used(p)) <= MaxKeys
<1> USE MaxKeysAssumption
<1>1. /\ IsFiniteSet(Used(cu)) /\ IsFiniteSet(Used(pr))
      /\ Cardinality(Used(cu)) \in Nat /\ Cardinality(Used(pr)) \in Nat
  <2>1. Used(cu) \in SUBSET Keys /\ Used(pr) \in SUBSET Keys
    BY DEF Used
  <2>2. IsFiniteSet(Used(cu)) /\ IsFiniteSet(Used(pr))
    BY <2>1, KeysAssumption, FS_Subset
  <2> QED
    BY <2>2, FS_CardinalityType
<1>2. w # None
  BY NoneAssumption
<1>3. CASE cu[k] # None
  <2>1. Used(c) = Used(cu) /\ p = pr
    BY <1>2, <1>3 DEF Used
  <2> QED
    BY <2>1
<1>4. CASE cu[k] = None
  <2>1. Used(c) = Used(cu) \cup {k} /\ k \notin Used(cu)
    BY <1>2, <1>4 DEF Used
  <2>2. Used(p) = Used(pr) \ {k}
    BY <1>4 DEF Used
  <2>3. Cardinality(Used(c)) = Cardinality(Used(cu)) + 1
    BY <1>1, <2>1, FS_AddElement
  <2>4. CASE pr[k] # None
    <3>1. k \in Used(pr)
      BY <2>4 DEF Used
    <3>2. Cardinality(Used(p)) = Cardinality(Used(pr)) - 1
      BY <1>1, <2>2, <3>1, FS_RemoveElement
    <3>3. \A a, b \in Nat : a + b <= MaxKeys => (a + 1) + (b - 1) <= MaxKeys
      OBVIOUS
    <3> QED
      BY <1>1, <2>3, <3>2, <3>3
  <2>5. CASE pr[k] = None
    <3>1. Used(p) = Used(pr)
      BY <2>2, <2>5 DEF Used
    <3>2. Cardinality(Used(cu)) + Cardinality(Used(pr)) < MaxKeys
      BY <1>4, <2>5
    <3>3. \A a, b \in Nat : a + b < MaxKeys => (a + 1) + b <= MaxKeys
      OBVIOUS
    <3> QED
      BY <1>1, <2>3, <3>1, <3>2, <3>3
  <2> QED
    BY <2>4, <2>5
<1> QED
  BY <1>3, <1>4

Size(gen) == Cardinality(Used(gen.cur)) + Cardinality(Used(gen.prev))

\* Rotation never grows the table.
LEMMA RotationSize ==
  ASSUME TypeOK, Size(Table) <= MaxKeys, NEW now \in Nat
  PROVE  Size(Rotated(now)) <= MaxKeys
<1>1. Used(Empty) = {} /\ Cardinality({}) = 0
  BY FS_EmptySet DEF Used, Empty
<1>2. Cardinality(Used(cur)) \in Nat /\ Cardinality(Used(prev)) \in Nat
  <2>1. Used(cur) \in SUBSET Keys /\ Used(prev) \in SUBSET Keys
    BY DEF Used
  <2> QED
    BY <2>1, KeysAssumption, FS_Subset, FS_CardinalityType
<1>3. Cardinality(Used(cur)) + Cardinality(Used(prev)) <= MaxKeys
  BY DEF Size, Table
<1>4. rotateAt \in Nat
  BY DEF TypeOK
<1>5. CASE now < rotateAt
  <2>1. Rotated(now) = Table
    BY <1>4, <1>5 DEF Rotated, Table
  <2> QED
    BY <2>1
<1>6. CASE now >= rotateAt + Window
  <2>1. Rotated(now).cur = Empty /\ Rotated(now).prev = Empty
    <3>1. ~(now < rotateAt)
      BY <1>4, <1>6
    <3> QED
      BY <1>6, <3>1 DEF Rotated
  <2>2. 0 + 0 <= MaxKeys
    BY MaxKeysAssumption
  <2> QED
    BY <1>1, <2>1, <2>2 DEF Size
<1>7. CASE now >= rotateAt /\ ~(now >= rotateAt + Window)
  <2>1. Rotated(now).cur = Empty /\ Rotated(now).prev = cur
    <3>1. ~(now < rotateAt)
      BY <1>4, <1>7
    <3> QED
      BY <1>7, <3>1 DEF Rotated
  <2>2. \A a, b \in Nat : a + b <= MaxKeys => 0 + a <= MaxKeys
    BY MaxKeysAssumption
  <2> QED
    BY <1>1, <1>2, <1>3, <2>1, <2>2 DEF Size
<1> QED
  BY <1>4, <1>5, <1>6, <1>7

LEMMA SizeStep ==
  IInv /\ Size(Table) <= MaxKeys /\ [Next]_vars => (Size(Table) <= MaxKeys)'
<1> SUFFICES ASSUME IInv, Size(Table) <= MaxKeys, [Next]_vars
             PROVE  Size(Table') <= MaxKeys
  BY DEF Size, Table, Used
<1> DEFINE Same == Used(cur') = Used(cur) /\ Used(prev') = Used(prev)
<1>0. Same => Size(Table') <= MaxKeys
  BY DEF Size, Table
<1>1. cur \in [Keys -> Entries] /\ prev \in [Keys -> Entries]
  BY DEF IInv, TypeOK, Entries
<1>2. CASE UNCHANGED <<cur, prev>>
  BY <1>0, <1>2
<1>3. ASSUME NEW c \in Callers, Allow(c) PROVE Size(Table') <= MaxKeys
  <2> DEFINE gen == Rotated(at[c])
             v == Held(gen, key[c])
             k == key[c]
  <2>1. PICK aged \in 0..Len(v) :
          /\ IsAged(v, at[c] - Window, aged)
          /\ \/ Refuse(c, gen, SubSeq(v, aged + 1, Len(v)))
             \/ LetInUntracked(c, gen, SubSeq(v, aged + 1, Len(v)))
             \/ Record(c, gen, SubSeq(v, aged + 1, Len(v)))
    BY <1>3 DEF Allow
  <2> DEFINE w == SubSeq(v, aged + 1, Len(v))
  <2>2. pc[c] = "reading"
    BY <1>3 DEF Allow
  <2>3. /\ at[c] \in Nat /\ k \in Keys /\ w \in Seq(Nat)
        /\ gen.cur \in [Keys -> Entries] /\ gen.prev \in [Keys -> Entries]
        /\ \A x \in Keys : gen.cur[x] = None \/ gen.prev[x] = None
    BY <2>1, <2>2, AllowFacts DEF Sound
  <2>4. Size(gen) <= MaxKeys
    BY <2>3, RotationSize DEF IInv
  <2> HIDE DEF gen
  <2>5. Table'.cur = cur' /\ Table'.prev = prev'
    BY DEF Table
  <2>6. CASE Refuse(c, gen, w)
    <3>1. gen.cur[k] # None \/ gen.prev[k] # None
      <4>1. SUFFICES ASSUME gen.cur[k] = None, gen.prev[k] = None PROVE FALSE
        OBVIOUS
      <4>2. v = << >>
        BY <4>1 DEF Held, Entry
      <4>3. Len(v) = 0 /\ aged = 0 /\ Len(w) = 0
        BY <4>2
      <4>4. Len(w) >= Limit
        BY <2>6 DEF Refuse
      <4> QED
        BY <4>3, <4>4
    <3> HIDE DEF w, v, k
    <3>2. /\ cur' = [gen.cur EXCEPT ![k] = w]
          /\ prev' = IF gen.cur[k] # None THEN gen.prev
                                          ELSE [gen.prev EXCEPT ![k] = None]
      BY <2>6 DEF Refuse, Store, k
    <3> DEFINE cu == gen.cur
               pr == gen.prev
    <3>a. /\ cu \in [Keys -> Entries] /\ pr \in [Keys -> Entries] /\ k \in Keys
          /\ \A x \in Keys : cu[x] = None \/ pr[x] = None
          /\ Cardinality(Used(cu)) + Cardinality(Used(pr)) <= MaxKeys
          /\ cur' = [cu EXCEPT ![k] = w]
          /\ prev' = IF cu[k] # None THEN pr ELSE [pr EXCEPT ![k] = None]
          /\ \/ cu[k] # None \/ pr[k] # None
             \/ Cardinality(Used(cu)) + Cardinality(Used(pr)) < MaxKeys
      BY <2>3, <2>4, <3>1, <3>2 DEF Size
    <3> HIDE DEF cu, pr
    <3>b. Cardinality(Used(cur')) + Cardinality(Used(prev')) <= MaxKeys
      BY <2>3, <3>a, StoreSize
    <3> QED
      BY <2>5, <3>b DEF Size
  <2>7. CASE LetInUntracked(c, gen, w)
    BY <2>4, <2>5, <2>7 DEF LetInUntracked, Size
  <2>8. CASE Record(c, gen, w)
    <3>1. \/ gen.cur[k] # None \/ gen.prev[k] # None
          \/ Cardinality(Used(gen.cur)) + Cardinality(Used(gen.prev)) < MaxKeys
      BY <2>8 DEF Record, Entry, TableSize, Used
    <3> DEFINE u == Append(w, at[c])
    <3>2. u \in Seq(Nat)
      BY <2>3, AppendProperties
    <3>3. /\ cur' = [gen.cur EXCEPT ![k] = u]
          /\ prev' = IF gen.cur[k] # None THEN gen.prev
                                          ELSE [gen.prev EXCEPT ![k] = None]
      BY <2>8 DEF Record, Store
    <3> HIDE DEF w, v, k, u
    <3> DEFINE cu == gen.cur
               pr == gen.prev
    <3>a. /\ cu \in [Keys -> Entries] /\ pr \in [Keys -> Entries] /\ k \in Keys
          /\ \A x \in Keys : cu[x] = None \/ pr[x] = None
          /\ Cardinality(Used(cu)) + Cardinality(Used(pr)) <= MaxKeys
          /\ cur' = [cu EXCEPT ![k] = u]
          /\ prev' = IF cu[k] # None THEN pr ELSE [pr EXCEPT ![k] = None]
          /\ \/ cu[k] # None \/ pr[k] # None
             \/ Cardinality(Used(cu)) + Cardinality(Used(pr)) < MaxKeys
      BY <2>3, <2>4, <3>1, <3>3 DEF Size
    <3> HIDE DEF cu, pr
    <3>b. Cardinality(Used(cur')) + Cardinality(Used(prev')) <= MaxKeys
      BY <3>2, <3>a, StoreSize
    <3> QED
      BY <2>5, <3>b DEF Size
  <2> QED
    BY <2>1, <2>6, <2>7, <2>8 DEF gen, w
<1>4. ASSUME NEW c \in Callers, Refund(c) PROVE Size(Table') <= MaxKeys
  <2> DEFINE k == key[c]
  <2>1. k \in Keys
    BY DEF IInv, TypeOK
  <2>2. ASSUME NEW g \in [Keys -> Entries], HasAttempt(g, k),
               NEW h, h = [g EXCEPT ![k] = DropLast(g[k])]
        PROVE  Used(h) = Used(g)
    <3>1. g[k] \in Seq(Nat) /\ g[k] # << >> /\ g[k] # None
      BY <2>1, <2>2 DEF HasAttempt, Entries
    <3>2. DropLast(g[k]) # None
      BY <3>1, DropLastFacts, NoneAssumption
    <3> QED
      BY <2>1, <2>2, <3>1, <3>2 DEF Used
  <2>3. CASE /\ HasAttempt(cur, k)
             /\ cur' = [cur EXCEPT ![k] = DropLast(cur[k])]
             /\ UNCHANGED prev
    BY <1>0, <1>1, <2>2, <2>3
  <2>4. CASE /\ HasAttempt(prev, k)
             /\ prev' = [prev EXCEPT ![k] = DropLast(prev[k])]
             /\ UNCHANGED cur
    BY <1>0, <1>1, <2>2, <2>4
  <2> HIDE DEF Same
  <2> QED
    BY <1>2, <1>4, <2>3, <2>4 DEF Refund
<1> QED
  BY <1>2, <1>3, <1>4 DEF Next, vars, Tick, ReadClock, Leave, table

\* A key is kept once, and never more keys than the cap.
THEOREM BoundedTheorem == Spec => []TableBounded
<1>1. Init => Size(Table) <= MaxKeys
  <2> SUFFICES ASSUME Init PROVE Size(Table) <= MaxKeys
    OBVIOUS
  <2>1. Used(cur) = {} /\ Used(prev) = {}
    BY DEF Init, Empty, Used
  <2>2. Cardinality({}) = 0 /\ 0 + 0 <= MaxKeys
    BY FS_EmptySet, MaxKeysAssumption
  <2> QED
    BY <2>1, <2>2 DEF Size, Table
<1>2. IInv /\ Size(Table) <= MaxKeys => TableBounded
  BY DEF IInv, Sound, Table, TableBounded, Size, TableSize, Used
<1> QED
  BY <1>1, <1>2, SizeStep, Inductive, PTL DEF Spec

-----------------------------------------------------------------------------
\* A refusal is backed by Limit young attempts of the caller's own key, and
\* tells it to wait between one tick and a window (and the mutex).
THEOREM RefusalTheorem == Spec => RefusalJustified
<1> DEFINE Fine(c) ==
      pc[c] = "reading" /\ pc'[c] = "idle" =>
        LET mine == log[key[c]] IN
        /\ Cardinality({i \in 1..Len(mine) :
                          at[c] < mine[i] + Window + Skew}) >= Limit
        /\ wait'[c] \in 1..(Window + Skew)
<1>1. IInv /\ [Next]_vars => [\A c \in Callers : Fine(c)]_vars
  <2> SUFFICES ASSUME IInv, Next, NEW c \in Callers,
                      pc[c] = "reading", pc'[c] = "idle"
               PROVE  Fine(c)
    OBVIOUS
  <2>1. Allow(c)
    <3>1. pc \in [Callers -> {"idle", "reading", "granted"}]
      BY DEF IInv, TypeOK
    <3>2. CASE Tick
      BY <3>2 DEF Tick, call
    <3>3. ASSUME NEW d \in Callers, NEW k \in Keys, ReadClock(d, k) PROVE FALSE
      BY <3>1, <3>3 DEF ReadClock
    <3>4. ASSUME NEW d \in Callers, Allow(d) PROVE d = c
      BY <3>1, <3>4 DEF Allow, Refuse, LetInUntracked, Record
    <3>5. ASSUME NEW d \in Callers, Refund(d) \/ Leave(d) PROVE FALSE
      BY <3>1, <3>5 DEF Refund, Leave
    <3> QED
      BY <3>2, <3>3, <3>4, <3>5 DEF Next
  <2> DEFINE gen == Rotated(at[c])
             v == Held(gen, key[c])
             l == log[key[c]]
             now == at[c]
  <2>2. PICK aged \in 0..Len(v) :
          /\ IsAged(v, now - Window, aged)
          /\ \/ Refuse(c, gen, SubSeq(v, aged + 1, Len(v)))
             \/ LetInUntracked(c, gen, SubSeq(v, aged + 1, Len(v)))
             \/ Record(c, gen, SubSeq(v, aged + 1, Len(v)))
    BY <2>1 DEF Allow
  <2> DEFINE w == SubSeq(v, aged + 1, Len(v))
  <2>3. /\ now \in Nat /\ now <= clock /\ clock <= now + Skew
        /\ key[c] \in Keys /\ w \in Seq(Nat) /\ Keeps(w, l, clock)
        /\ Len(w) > 0 => now < w[1] + Window
    BY <2>2, AllowFacts
  <2>4. Refuse(c, gen, w)
    BY <2>2 DEF LetInUntracked, Record, IInv, TypeOK
  <2> HIDE DEF gen, v, w
  <2>5. /\ Len(w) >= Limit /\ wait'[c] = Window - (now - w[1])
    BY <2>4 DEF Refuse, IInv, TypeOK
  <2>6. /\ l \in Seq(Nat) /\ clock \in Nat /\ Len(w) \in Nat /\ Len(l) \in Nat
        /\ Len(w) <= Len(l)
        /\ \A i \in 1..Len(w) : w[i] = l[Len(l) - Len(w) + i]
    BY <2>3, LenProperties DEF IInv, TypeOK, Keeps, Suffix
  <2> DEFINE f == Len(l) - Len(w) + 1
  <2>7. /\ 1 \in 1..Len(w) /\ f \in 1..Len(l)
        /\ Len(l) - f + 1 >= Limit
    <3>1. \A n \in Nat : n >= Limit => n >= 1
      OBVIOUS
    <3>2. \A n, m \in Nat : n >= 1 /\ n <= m =>
            1 \in 1..n /\ m - n + 1 \in 1..m /\ m - (m - n + 1) + 1 = n
      OBVIOUS
    <3> QED
      BY <2>5, <2>6, <3>1, <3>2
  <2>8. /\ w[1] = l[f] /\ l[f] \in Nat /\ l[f] <= clock
        /\ now < l[f] + Window
        /\ wait'[c] = Window - (now - l[f])
    <3>1. w[1] = l[f]
      BY <2>6, <2>7
    <3>2. l[f] \in Nat /\ l[f] <= clock
      BY <2>3, <2>6, <2>7, ElementOfSeq DEF IInv, LogOrder
    <3>3. Len(w) > 0
      BY <2>6, <2>7
    <3> QED
      BY <2>3, <2>5, <3>1, <3>2, <3>3
  <2> HIDE DEF f, l, now
  <2>9. wait'[c] \in 1..(Window + Skew)
    <3>1. \A a, b \in Nat : b < a + Window /\ a <= b + Skew =>
            Window - (b - a) \in 1..(Window + Skew)
      OBVIOUS
    <3>2. l[f] <= now + Skew
      BY <2>3, <2>6, <2>8
    <3> QED
      BY <2>3, <2>8, <3>1, <3>2
  <2>10. ASSUME NEW j \in f..Len(l)
         PROVE  j \in 1..Len(l) /\ now < l[j] + Window + Skew
    <3>1. j \in 1..Len(l)
      BY <2>6, <2>7
    <3>2. l[j] \in Nat
      BY <2>6, <3>1, ElementOfSeq
    <3>3. l[f] <= l[j] + Skew
      <4>1. CASE j = f
        BY <2>8, <4>1
      <4>2. CASE j # f
        <5>1. f < j
          BY <2>6, <2>7, <4>2
        <5> QED
          BY <2>3, <2>7, <3>1, <5>1 DEF IInv, LogOrder, l
      <4> QED
        BY <4>1, <4>2
    <3>4. \A a, b, d \in Nat : d < a + Window /\ a <= b + Skew =>
            d < b + Window + Skew
      OBVIOUS
    <3> QED
      BY <2>3, <2>8, <3>1, <3>2, <3>3, <3>4
  <2> DEFINE young == {i \in 1..Len(l) : now < l[i] + Window + Skew}
  <2>11. Cardinality(young) >= Limit
    <3>1. f..Len(l) \in SUBSET young
      BY <2>10
    <3>2. IsFiniteSet(young)
      <4>1. IsFiniteSet(1..Len(l))
        BY <2>6, FS_Interval
      <4> QED
        BY <4>1, FS_Subset
    <3>3. Cardinality(f..Len(l)) = Len(l) - f + 1
      <4>1. f \in Int /\ Len(l) \in Int /\ ~(f > Len(l))
        BY <2>6, <2>7
      <4> QED
        BY <4>1, FS_Interval
    <3>4. Cardinality(f..Len(l)) <= Cardinality(young)
      BY <3>1, <3>2, FS_Subset
    <3>5. Cardinality(young) \in Nat
      BY <3>2, FS_CardinalityType
    <3>6. \A a, b \in Int : a >= Limit /\ a <= b => b >= Limit
      OBVIOUS
    <3>7. Len(l) - f + 1 \in Int
      BY <2>6, <2>7
    <3> HIDE DEF young
    <3> QED
      BY <2>7, <3>3, <3>4, <3>5, <3>6, <3>7
  <2> QED
    BY <2>9, <2>11 DEF l, now
<1> QED
  BY <1>1, Inductive, PTL DEF Spec, RefusalJustified
=============================================================================
