----------------------------- MODULE ListingProof -----------------------------
(***************************************************************************)
(* A walk over the pages of a listing, for any number of names, any page   *)
(* sizes and any changes to the store meanwhile: a file that stays is      *)
(* listed once, and the names come in order.                               *)
(***************************************************************************)
EXTENDS Listing, SequenceTheorems, FiniteSetTheorems, WellFoundedInduction, TLAPS

-----------------------------------------------------------------------------
(* Facts about sequences of names.                                         *)

(* A set of natural numbers has a least member.                            *)
LEMMA Least == ASSUME NEW T \in SUBSET Nat, T # {} PROVE \E n \in T : \A m \in T : n <= m
<1> DEFINE R == {p \in Nat \X Nat : p[1] < p[2]}
<1>1. R = OpToRel(<, Nat)
  BY DEF OpToRel
<1>2. IsWellFoundedOn(R, Nat)
  BY <1>1, NatLessThanWellFounded
<1> HIDE DEF R
<1>3. PICK n \in T : \A m \in T : <<m, n>> \notin R
  BY <1>2, WFMin
<1>4. ASSUME NEW m \in T PROVE n <= m
  <2>1. <<m, n>> \in Nat \X Nat /\ <<m, n>>[1] = m /\ <<m, n>>[2] = n
    OBVIOUS
  <2>2. ~(m < n)
    BY <1>3, <2>1 DEF R
  <2> QED BY <2>2
<1> QED BY <1>4

(* Names that come in order.                                               *)
Ordered(s) == \A i, j \in DOMAIN s : i < j => s[i] <= s[j]

(* The names before the first one after n are up to n, the others are not. *)
LEMMA FirstAfterIs ==
    ASSUME NEW s \in Seq(Nat), NEW n \in Nat
    PROVE  /\ FirstAfter(s, n) \in 1..(Len(s) + 1)
           /\ \A i \in 1..(FirstAfter(s, n) - 1) : s[i] <= n
           /\ Ordered(s) => \A i \in FirstAfter(s, n)..Len(s) : s[i] > n
<1> DEFINE P(p) == (\A i \in 1..(p - 1) : s[i] <= n) /\ (p <= Len(s) => s[p] > n)
           T == {p \in 1..(Len(s) + 1) : p <= Len(s) => s[p] > n}
<1>1. Len(s) \in Nat /\ \A i \in 1..Len(s) : s[i] \in Nat
  BY LenProperties
<1>2. T \in SUBSET Nat /\ Len(s) + 1 \in T
  BY <1>1
<1>3. PICK p \in T : \A m \in T : p <= m
  BY <1>2, Least
<1>4. p \in 1..(Len(s) + 1) /\ P(p)
  <2>1. p \in 1..(Len(s) + 1) /\ (p <= Len(s) => s[p] > n)
    BY <1>3
  <2>2. ASSUME NEW i \in 1..(p - 1) PROVE s[i] <= n
    <3>1. i \in 1..(Len(s) + 1) /\ i <= Len(s) /\ ~(p <= i)
      BY <1>1, <2>1
    <3>2. i \notin T
      BY <1>3, <3>1
    <3> QED BY <1>1, <3>1, <3>2
  <2> QED BY <2>1, <2>2
<1>5. FirstAfter(s, n) = CHOOSE q \in 1..(Len(s) + 1) : P(q)
  BY DEF FirstAfter
<1> HIDE DEF P
<1>6. FirstAfter(s, n) \in 1..(Len(s) + 1) /\ P(FirstAfter(s, n))
  BY <1>4, <1>5
<1>7. ASSUME Ordered(s), NEW i \in FirstAfter(s, n)..Len(s) PROVE s[i] > n
  <2> DEFINE q == FirstAfter(s, n)
  <2>1. q \in 1..Len(s) /\ i \in 1..Len(s) /\ (q = i \/ q < i)
    BY <1>1, <1>6
  <2>2. s[q] > n
    BY <1>6, <2>1 DEF P
  <2>3. s[q] <= s[i]
    BY <1>1, <1>7, <2>1 DEF Ordered
  <2>4. s[q] \in Nat /\ s[i] \in Nat
    BY <1>1, <2>1
  <2> QED BY ONLY <2>2, <2>3, <2>4, n \in Nat
<1> QED BY <1>6, <1>7 DEF P

(* What is kept in order, and once where it stays.                         *)
Tidy(s, kept) ==
    \A i, j \in DOMAIN s : i < j => s[i] <= s[j] /\ (s[i] = s[j] => s[i] \notin kept)
Holds(s, n) == \E i \in DOMAIN s : s[i] = n

(* InsertAt of the community modules, element by element.                  *)
LEMMA InsertIs ==
    ASSUME NEW s \in Seq(Nat), NEW n \in Nat, NEW p \in 1..(Len(s) + 1)
    PROVE  /\ InsertAt(s, p, n) \in Seq(Nat)
           /\ Len(InsertAt(s, p, n)) = Len(s) + 1
           /\ \A i \in 1..(Len(s) + 1) : InsertAt(s, p, n)[i] =
                IF i < p THEN s[i] ELSE IF i = p THEN n ELSE s[i - 1]
<1> DEFINE u == SubSeq(s, 1, p - 1)
           w == SubSeq(s, p, Len(s))
<1>1. Len(s) \in Nat /\ p \in Nat /\ \A i \in 1..Len(s) : s[i] \in Nat
  BY LenProperties
<1>2. u \in Seq(Nat) /\ Len(u) = p - 1 /\ \A i \in 1..(p - 1) : u[i] = s[i]
  <2>1. 1 \in Int /\ p - 1 \in Int /\ \A i \in 1..(p - 1) : s[i] \in Nat
    BY <1>1
  <2>2. /\ u \in Seq(Nat) /\ Len(u) = IF 1 <= p - 1 THEN p - 1 - 1 + 1 ELSE 0
        /\ \A i \in 1..(p - 1 - 1 + 1) : u[i] = s[1 + i - 1]
    BY <2>1, SubSeqProperties
  <2> HIDE DEF u
  <2> QED BY <1>1, <2>2
<1>3. w \in Seq(Nat) /\ Len(w) = Len(s) - p + 1 /\ \A i \in 1..(Len(s) - p + 1) : w[i] = s[p + i - 1]
  <2>1. p \in Int /\ Len(s) \in Int /\ \A i \in p..Len(s) : s[i] \in Nat
    BY <1>1
  <2>2. /\ w \in Seq(Nat) /\ Len(w) = IF p <= Len(s) THEN Len(s) - p + 1 ELSE 0
        /\ \A i \in 1..(Len(s) - p + 1) : w[i] = s[p + i - 1]
    BY <2>1, SubSeqProperties
  <2> HIDE DEF w
  <2> QED BY <1>1, <2>2
<1>4. <<n>> \in Seq(Nat) /\ Len(<<n>>) = 1 /\ <<n>>[1] = n
  OBVIOUS
<1> HIDE DEF u, w
<1>5. /\ u \o <<n>> \in Seq(Nat) /\ Len(u \o <<n>>) = p
      /\ \A i \in 1..p : (u \o <<n>>)[i] = IF i < p THEN s[i] ELSE n
  <2>1. /\ u \o <<n>> \in Seq(Nat) /\ Len(u \o <<n>>) = Len(u) + Len(<<n>>)
        /\ \A i \in 1..(Len(u) + Len(<<n>>)) :
             (u \o <<n>>)[i] = IF i <= Len(u) THEN u[i] ELSE <<n>>[i - Len(u)]
    BY <1>2, <1>4, ConcatProperties
  <2>2. ASSUME NEW i \in 1..p PROVE (u \o <<n>>)[i] = IF i < p THEN s[i] ELSE n
    <3>1. i \in 1..(Len(u) + Len(<<n>>)) /\ (i <= Len(u) <=> i < p) /\ (~(i < p) => i - Len(u) = 1)
      BY <1>1, <1>2, <1>4
    <3> QED BY <1>2, <1>4, <2>1, <3>1
  <2>3. Len(u) + Len(<<n>>) = p
    BY <1>1, <1>2, <1>4
  <2> QED BY <2>1, <2>2, <2>3
<1> DEFINE v == u \o <<n>>
<1>0. v \in Seq(Nat) /\ Len(v) = p /\ \A i \in 1..p : v[i] = IF i < p THEN s[i] ELSE n
  BY <1>5
<1> HIDE DEF v
<1>6. /\ v \o w \in Seq(Nat) /\ Len(v \o w) = Len(s) + 1
      /\ \A i \in 1..(Len(s) + 1) :
           (v \o w)[i] = IF i <= p THEN v[i] ELSE w[i - p]
  <2>1. /\ v \o w \in Seq(Nat) /\ Len(v \o w) = Len(v) + Len(w)
        /\ \A i \in 1..(Len(v) + Len(w)) : (v \o w)[i] =
             IF i <= Len(v) THEN v[i] ELSE w[i - Len(v)]
    BY <1>3, <1>0, ConcatProperties
  <2>2. Len(v) = p /\ Len(v) + Len(w) = Len(s) + 1
    BY <1>1, <1>3, <1>0
  <2> QED BY <2>1, <2>2
<1>7. InsertAt(s, p, n) = v \o w
  BY DEF InsertAt, u, v, w
<1>8. ASSUME NEW i \in 1..(Len(s) + 1)
      PROVE  (v \o w)[i] = IF i < p THEN s[i] ELSE IF i = p THEN n ELSE s[i - 1]
  <2>1. CASE i <= p
    BY <1>1, <1>0, <1>6, <2>1
  <2>2. CASE ~(i <= p)
    <3>1. i - p \in 1..(Len(s) - p + 1) /\ p + (i - p) - 1 = i - 1 /\ i # p /\ ~(i < p)
      BY <1>1, <2>2
    <3> QED BY <1>3, <1>6, <2>2, <3>1
  <2> QED BY <2>1, <2>2
<1> QED BY <1>6, <1>7, <1>8

(* FS list's collected.sort_by, one entry at a time.                       *)
LEMMA Inserted ==
    ASSUME NEW s \in Seq(Nat), NEW n \in Nat, NEW kept, Tidy(s, kept),
           n \in kept => ~Holds(s, n)
    PROVE  /\ InsertSorted(s, n) \in Seq(Nat) /\ Tidy(InsertSorted(s, n), kept)
           /\ \A m : Holds(InsertSorted(s, n), m) <=> m = n \/ Holds(s, m)
<1> DEFINE p == FirstAfter(s, n)
           t == InsertSorted(s, n)
<1>1. /\ Len(s) \in Nat /\ DOMAIN s = 1..Len(s) /\ \A i \in 1..Len(s) : s[i] \in Nat
  BY LenProperties
<1>2. Ordered(s)
  BY DEF Tidy, Ordered
<1>3. /\ p \in 1..(Len(s) + 1) /\ \A i \in 1..(p - 1) : s[i] <= n
      /\ \A i \in p..Len(s) : s[i] > n
  BY <1>2, FirstAfterIs
<1> HIDE DEF p
<1>4. /\ t \in Seq(Nat) /\ Len(t) = Len(s) + 1 /\ DOMAIN t = 1..(Len(s) + 1)
      /\ \A i \in 1..(Len(s) + 1) : t[i] = IF i < p THEN s[i] ELSE IF i = p THEN n ELSE s[i - 1]
  <2>1. t = InsertAt(s, p, n)
    BY DEF p, InsertSorted
  <2>2. /\ t \in Seq(Nat) /\ Len(t) = Len(s) + 1
        /\ \A i \in 1..(Len(s) + 1) : t[i] = IF i < p THEN s[i] ELSE IF i = p THEN n ELSE s[i - 1]
    BY <1>3, <2>1, InsertIs
  <2> QED BY <2>2, LenProperties
<1> HIDE DEF t
<1>5. ASSUME NEW i \in DOMAIN t, NEW j \in DOMAIN t, i < j
      PROVE  t[i] <= t[j] /\ (t[i] = t[j] => t[i] \notin kept)
  <2>0. i \in 1..(Len(s) + 1) /\ j \in 1..(Len(s) + 1) /\ p \in Nat
    BY <1>3, <1>4
  <2>1. CASE j < p
    <3>1. i \in DOMAIN s /\ j \in DOMAIN s /\ t[i] = s[i] /\ t[j] = s[j]
      BY <1>1, <1>3, <1>4, <1>5, <2>0, <2>1
    <3> QED BY <1>5, <3>1 DEF Tidy
  <2>2. CASE i > p
    <3>1. i - 1 \in DOMAIN s /\ j - 1 \in DOMAIN s /\ i - 1 < j - 1 /\ ~(i < p) /\ i # p /\ ~(j < p) /\ j # p
      <4> DEFINE l == Len(s)
      <4>1. l \in Nat /\ i \in 1..(l + 1) /\ j \in 1..(l + 1) /\ p \in Nat /\ 1 <= p
        BY <1>1, <1>3, <2>0
      <4> HIDE DEF l
      <4>2. i - 1 \in 1..l /\ j - 1 \in 1..l /\ i - 1 < j - 1
        BY <1>5, <2>2, <4>1
      <4>3. ~(i < p) /\ i # p /\ ~(j < p) /\ j # p
        BY <1>5, <2>2, <4>1
      <4> QED BY <1>1, <4>2, <4>3 DEF l
    <3>2. t[i] = s[i - 1] /\ t[j] = s[j - 1]
      BY <1>4, <2>0, <3>1
    <3> QED BY <3>1, <3>2 DEF Tidy
  <2>3. CASE j = p
    <3>1. i \in 1..(p - 1) /\ i \in DOMAIN s /\ t[i] = s[i] /\ t[j] = n
      <4> DEFINE l == Len(s)
      <4>1. l \in Nat /\ i \in 1..(l + 1) /\ j \in 1..(l + 1) /\ p \in 1..(l + 1)
        BY <1>1, <1>3, <2>0
      <4> HIDE DEF l
      <4>2. i \in 1..(p - 1) /\ i \in 1..l /\ i < p /\ ~(j < p)
        BY <1>5, <2>3, <4>1
      <4> QED BY <1>1, <1>4, <2>0, <2>3, <4>2 DEF l
    <3> QED BY <1>3, <3>1 DEF Holds
  <2>4. CASE i = p
    <3>1. j - 1 \in p..Len(s) /\ t[i] = n /\ t[j] = s[j - 1] /\ s[j - 1] \in Nat
      <4> DEFINE l == Len(s)
      <4>1. l \in Nat /\ i \in 1..(l + 1) /\ j \in 1..(l + 1) /\ p \in 1..(l + 1)
        BY <1>1, <1>3, <2>0
      <4> HIDE DEF l
      <4>2. j - 1 \in p..l /\ j - 1 \in 1..l /\ ~(i < p) /\ ~(j < p) /\ j # p
        BY <1>5, <2>4, <4>1
      <4> QED BY <1>1, <1>4, <2>0, <2>4, <4>2 DEF l
    <3> QED BY <1>3, <3>1
  <2>5. CASE i < p /\ p < j
    <3>1. /\ i \in 1..(p - 1) /\ j - 1 \in p..Len(s) /\ t[i] = s[i] /\ t[j] = s[j - 1]
          /\ s[j - 1] \in Nat /\ s[i] \in Nat
      <4> DEFINE l == Len(s)
      <4>1. l \in Nat /\ i \in 1..(l + 1) /\ j \in 1..(l + 1) /\ p \in 1..(l + 1)
        BY <1>1, <1>3, <2>0
      <4> HIDE DEF l
      <4>2. /\ i \in 1..(p - 1) /\ i \in 1..l /\ j - 1 \in p..l /\ j - 1 \in 1..l
            /\ ~(j < p) /\ j # p
        BY <2>5, <4>1
      <4> QED BY <1>1, <1>4, <2>0, <2>5, <4>2 DEF l
    <3>2. s[i] <= n /\ s[j - 1] > n
      BY <1>3, <3>1
    <3> QED BY <3>1, <3>2
  <2> QED BY <1>5, <2>0, <2>1, <2>2, <2>3, <2>4, <2>5
<1>6. ASSUME NEW m PROVE Holds(t, m) <=> m = n \/ Holds(s, m)
  <2>1. ASSUME NEW i \in DOMAIN t, t[i] = m PROVE m = n \/ Holds(s, m)
    <3>1. i = p \/ (i < p /\ i \in DOMAIN s) \/ (~(i < p) /\ i # p /\ i - 1 \in DOMAIN s)
      <4> DEFINE l == Len(s)
      <4>1. l \in Nat /\ i \in 1..(l + 1) /\ p \in 1..(l + 1)
        BY <1>1, <1>3, <1>4
      <4> HIDE DEF l
      <4>2. i = p \/ (i < p /\ i \in 1..l) \/ (~(i < p) /\ i # p /\ i - 1 \in 1..l)
        BY <4>1
      <4> QED BY <1>1, <4>2 DEF l
    <3> QED BY <1>4, <2>1, <3>1 DEF Holds
  <2>2. Holds(t, n)
    <3>1. p \in DOMAIN t /\ ~(p < p)
      BY <1>3, <1>4
    <3>2. t[p] = n
      BY <1>3, <1>4, <3>1
    <3> QED BY <3>1, <3>2 DEF Holds
  <2>3. ASSUME NEW i \in DOMAIN s, s[i] = m PROVE Holds(t, m)
    <3>1. CASE i < p
      <4>1. i \in DOMAIN t /\ t[i] = s[i]
        BY <1>1, <1>4, <3>1
      <4> QED BY <2>3, <4>1 DEF Holds
    <3>2. CASE ~(i < p)
      <4>1. i + 1 \in DOMAIN t /\ ~(i + 1 < p) /\ i + 1 # p /\ i + 1 - 1 = i
        <5> DEFINE l == Len(s)
        <5>1. l \in Nat /\ i \in 1..l /\ p \in 1..(l + 1)
          BY <1>1, <1>3
        <5> HIDE DEF l
        <5>2. i + 1 \in 1..(l + 1) /\ ~(i + 1 < p) /\ i + 1 # p /\ i + 1 - 1 = i
          BY <3>2, <5>1
        <5> QED BY <1>4, <5>2 DEF l
      <4> QED BY <1>4, <2>3, <4>1 DEF Holds
    <3> QED BY <3>1, <3>2
  <2> QED BY <2>1, <2>2, <2>3 DEF Holds
<1>7. Tidy(t, kept)
  BY <1>5 DEF Tidy
<1> QED BY <1>4, <1>6, <1>7 DEF t

(* Sequences of numbers, and of names.                                     *)
LEMMA SeqIs ==
    ASSUME NEW s \in Seq(Nat)
    PROVE  /\ Len(s) \in Nat /\ DOMAIN s = 1..Len(s) /\ \A i \in 1..Len(s) : s[i] \in Nat
           /\ \A S : (\A i \in 1..Len(s) : s[i] \in S) => s \in Seq(S)
<1>1. Len(s) \in Nat /\ DOMAIN s = 1..Len(s) /\ \A i \in 1..Len(s) : s[i] \in Nat
  BY LenProperties
<1>2. ASSUME NEW S, \A i \in 1..Len(s) : s[i] \in S PROVE s \in Seq(S)
  <2>1. s \in [1..Len(s) -> S]
    BY <1>2, LenProperties
  <2> QED BY <1>1, <2>1, SeqDef
<1> QED BY <1>1, <1>2

(* A part of a sequence of names that come in order.                       *)
LEMMA PartIs ==
    ASSUME NEW s \in Seq(Nat), NEW first \in 1..(Len(s) + 1), NEW last \in 0..Len(s),
           first <= last + 1
    PROVE  LET t == SubSeq(s, first, last) IN
           /\ t \in Seq(Nat) /\ Len(t) = last - first + 1
           /\ \A i \in 1..Len(t) : t[i] = s[first + i - 1]
           /\ \A kept : Tidy(s, kept) => Tidy(t, kept)
<1> DEFINE t == SubSeq(s, first, last)
<1>1. /\ Len(s) \in Nat /\ DOMAIN s = 1..Len(s) /\ first \in Int /\ last \in Int
      /\ \A i \in first..last : s[i] \in Nat
  BY SeqIs
<1>2. /\ t \in Seq(Nat) /\ Len(t) = IF first <= last THEN last - first + 1 ELSE 0
      /\ \A i \in 1..(last - first + 1) : t[i] = s[first + i - 1]
  BY <1>1, SubSeqProperties
<1> HIDE DEF t
<1>3. Len(t) = last - first + 1
  BY <1>1, <1>2
<1>4. \A i \in 1..Len(t) : t[i] = s[first + i - 1]
  BY <1>2, <1>3
<1>5. ASSUME NEW kept, Tidy(s, kept), NEW i \in 1..Len(t), NEW j \in 1..Len(t), i < j
      PROVE  t[i] <= t[j] /\ (t[i] = t[j] => t[i] \notin kept)
  <2> DEFINE l == Len(s)
             k == Len(t)
  <2>1. /\ l \in Nat /\ first \in Nat /\ last \in Nat /\ 1 <= first /\ last <= l
        /\ k = last - first + 1 /\ i \in 1..k /\ j \in 1..k /\ i < j
    BY <1>1, <1>3, <1>5
  <2> HIDE DEF l, k
  <2>2. first + i - 1 \in 1..l /\ first + j - 1 \in 1..l /\ first + i - 1 < first + j - 1
    BY <2>1
  <2>3. first + i - 1 \in DOMAIN s /\ first + j - 1 \in DOMAIN s
    BY <1>1, <2>2 DEF l
  <2>4. t[i] = s[first + i - 1] /\ t[j] = s[first + j - 1]
    BY <1>4, <1>5
  <2> QED BY <1>5, <2>2, <2>3, <2>4 DEF Tidy
<1>6. DOMAIN t = 1..Len(t)
  BY <1>2, SeqIs
<1>7. \A kept : Tidy(s, kept) => Tidy(t, kept)
  BY <1>5, <1>6 DEF Tidy
<1> QED BY <1>2, <1>3, <1>4, <1>7 DEF t

(* FS list's skip up to the cursor.                                        *)
LEMMA AfterIs ==
    ASSUME NEW s \in Seq(Nat), NEW n \in Nat, Ordered(s)
    PROVE  /\ After(s, n) \in Seq(Nat)
           /\ \A kept : Tidy(s, kept) => Tidy(After(s, n), kept)
           /\ \A m \in Nat : Holds(After(s, n), m) <=> Holds(s, m) /\ m > n
<1> DEFINE p == FirstAfter(s, n)
           t == After(s, n)
<1>1. Len(s) \in Nat /\ DOMAIN s = 1..Len(s) /\ \A i \in 1..Len(s) : s[i] \in Nat
  BY SeqIs
<1>2. p \in 1..(Len(s) + 1) /\ (\A i \in 1..(p - 1) : s[i] <= n) /\ \A i \in p..Len(s) : s[i] > n
  BY FirstAfterIs
<1> HIDE DEF p
<1>3. /\ t \in Seq(Nat) /\ Len(t) = Len(s) - p + 1
      /\ \A i \in 1..Len(t) : t[i] = s[p + i - 1]
      /\ \A kept : Tidy(s, kept) => Tidy(t, kept)
  <2>1. Len(s) \in 0..Len(s) /\ p <= Len(s) + 1
    BY <1>1, <1>2
  <2>2. t = SubSeq(s, p, Len(s))
    BY DEF After, p
  <2> QED BY <1>2, <2>1, <2>2, PartIs
<1> HIDE DEF t
<1>4. DOMAIN t = 1..Len(t)
  BY <1>3, SeqIs
<1>5. ASSUME NEW i \in DOMAIN t PROVE Holds(s, t[i]) /\ t[i] > n
  <2>1. p + i - 1 \in p..Len(s) /\ p + i - 1 \in DOMAIN s
    <3> DEFINE l == Len(s)
               k == Len(t)
    <3>1. l \in Nat /\ p \in Nat /\ 1 <= p /\ k = l - p + 1 /\ i \in 1..k
      BY <1>1, <1>2, <1>3, <1>4
    <3> HIDE DEF l, k
    <3>2. p + i - 1 \in p..l /\ p + i - 1 \in 1..l
      BY <3>1
    <3> QED BY <1>1, <3>2 DEF l
  <2> QED BY <1>2, <1>3, <1>4, <2>1 DEF Holds
<1>6. ASSUME NEW i \in DOMAIN s, s[i] > n PROVE Holds(t, s[i])
  <2>1. ~(s[i] <= n) /\ i \in Nat /\ p \in Nat
    BY <1>1, <1>2, <1>6
  <2>2. ~(i <= p - 1)
    BY <1>1, <1>2, <2>1
  <2>3. i - p + 1 \in DOMAIN t /\ p + (i - p + 1) - 1 = i
    BY <1>1, <1>2, <1>3, <1>4, <2>1, <2>2
  <2>4. t[i - p + 1] = s[i]
    BY <1>3, <1>4, <2>3
  <2> QED BY <2>3, <2>4 DEF Holds
<1> QED BY <1>3, <1>5, <1>6 DEF Holds, t

(* The first names of a sequence, up to a limit.                           *)
LEMMA TakeIs ==
    ASSUME NEW s \in Seq(Nat), NEW n \in Nat, Ordered(s)
    PROVE  LET t == Take(s, n) IN
           /\ t \in Seq(Nat) /\ Len(t) <= n
           /\ \A kept : Tidy(s, kept) => Tidy(t, kept)
           /\ \A m : Holds(t, m) => Holds(s, m)
           /\ \A m \in Nat : Holds(s, m) /\ (Len(t) = n /\ n # 0 => m <= t[n]) /\ n # 0 => Holds(t, m)
<1> DEFINE t == Take(s, n)
           k == IF n < Len(s) THEN n ELSE Len(s)
<1>1. Len(s) \in Nat /\ DOMAIN s = 1..Len(s) /\ \A i \in 1..Len(s) : s[i] \in Nat
  BY SeqIs
<1>0. Len(s) \in Nat /\ n \in Nat
  BY SeqIs
<1>2. k \in 0..Len(s) /\ k <= n /\ (k # n => k = Len(s))
  BY <1>0
<1>3. /\ t \in Seq(Nat) /\ Len(t) = k - 1 + 1
      /\ \A i \in 1..Len(t) : t[i] = s[1 + i - 1]
      /\ \A kept : Tidy(s, kept) => Tidy(t, kept)
  <2>1. t = SubSeq(s, 1, k)
    BY DEF Take
  <2> HIDE DEF t, k
  <2>2. 1 \in 1..(Len(s) + 1)
    BY <1>1
  <2>3. 1 <= k + 1
    BY <1>0, <1>2
  <2> QED BY <1>2, <2>1, <2>2, <2>3, PartIs
<1> HIDE DEF t, k
<1>4. Len(t) = k /\ DOMAIN t = 1..k /\ \A i \in 1..k : t[i] = s[i] /\ i \in DOMAIN s
  <2>1. k \in Nat /\ k <= Len(s)
    BY <1>0, <1>2
  <2>2. Len(t) = k
    BY <1>3, <2>1
  <2>3. DOMAIN t = 1..k
    BY <1>3, <2>2, SeqIs
  <2>4. ASSUME NEW i \in 1..k PROVE t[i] = s[i] /\ i \in DOMAIN s
    <3>1. 1 + i - 1 = i /\ i \in 1..Len(s)
      BY <1>1, <2>1
    <3> QED BY <1>1, <1>3, <2>2, <3>1
  <2> QED BY <2>2, <2>3, <2>4
<1>5. ASSUME NEW m, Holds(t, m) PROVE Holds(s, m)
  BY <1>4, <1>5 DEF Holds
<1>6. ASSUME NEW i \in DOMAIN s, Len(t) = n => s[i] <= t[n], n # 0 PROVE Holds(t, s[i])
  <2>1. CASE i <= k
    <3>1. i \in DOMAIN t /\ t[i] = s[i]
      BY <1>1, <1>4, <2>1
    <3> QED BY <3>1 DEF Holds
  <2>2. CASE ~(i <= k)
    <3>1. k = n /\ n \in DOMAIN t /\ n \in DOMAIN s /\ n < i
      <4>0. i \in 1..Len(s)
        BY <1>1
      <4>1. i \in Nat /\ k \in Nat /\ k # Len(s) /\ i <= Len(s) /\ k < i
        BY <1>0, <1>2, <2>2, <4>0
      <4>2. k = n
        BY <1>2, <4>1
      <4>3. n \in 1..k /\ n \in 1..Len(s)
        BY <1>0, <1>6, <4>1, <4>2
      <4> QED BY <1>1, <1>4, <4>1, <4>2, <4>3
    <3>2. t[n] = s[n] /\ s[n] <= s[i] /\ s[i] <= s[n]
      BY <1>4, <1>6, <3>1 DEF Ordered
    <3>3. s[n] = s[i]
      BY <1>1, <3>1, <3>2
    <3> QED BY <3>1, <3>2, <3>3 DEF Holds
  <2> QED BY <2>1, <2>2
<1>7. Len(t) <= n
  BY <1>2, <1>4
<1>8. ASSUME NEW m \in Nat, Holds(s, m), Len(t) = n => m <= t[n], n # 0 PROVE Holds(t, m)
  <2>1. PICK i \in DOMAIN s : s[i] = m
    BY <1>8 DEF Holds
  <2> QED BY <1>6, <1>8, <2>1
<1> QED BY <1>3, <1>5, <1>7, <1>8 DEF t

(* Pages, one behind the other.                                            *)
LEMMA JoinedIs ==
    ASSUME NEW s \in Seq(Nat), NEW t \in Seq(Nat)
    PROVE  /\ s \o t \in Seq(Nat) /\ Len(s \o t) = Len(s) + Len(t)
           /\ \A m : Holds(s \o t, m) <=> Holds(s, m) \/ Holds(t, m)
           /\ Len(t) # 0 => (s \o t)[Len(s) + Len(t)] = t[Len(t)]
           /\ \A kept : /\ Tidy(s, kept) /\ Tidy(t, kept)
                        /\ \A m, n : Holds(s, m) /\ Holds(t, n) => m < n
                        => Tidy(s \o t, kept)
<1> DEFINE u == s \o t
           a == Len(s)
           b == Len(t)
<1>1. a \in Nat /\ DOMAIN s = 1..a /\ b \in Nat /\ DOMAIN t = 1..b
  BY SeqIs
<1>2. /\ u \in Seq(Nat) /\ Len(u) = a + b
      /\ \A i \in 1..(a + b) : u[i] = IF i <= a THEN s[i] ELSE t[i - a]
  BY ConcatProperties
<1>3. DOMAIN u = 1..(a + b)
  BY <1>2, SeqIs
<1> HIDE DEF a, b, u
<1>4. ASSUME NEW m, Holds(s, m) \/ Holds(t, m) PROVE Holds(u, m)
  <2>1. ASSUME NEW i \in DOMAIN s, s[i] = m PROVE Holds(u, m)
    <3>1. i \in DOMAIN u /\ i <= a
      BY <1>1, <1>3
    <3> QED BY <1>2, <1>3, <2>1, <3>1 DEF Holds
  <2>2. ASSUME NEW i \in DOMAIN t, t[i] = m PROVE Holds(u, m)
    <3>1. PICK x \in 1..(a + b) : x = a + i
      BY <1>1
    <3>2. x \in DOMAIN u /\ ~(x <= a) /\ x - a = i
      BY <1>1, <1>3, <3>1
    <3>3. u[x] = t[x - a]
      BY <1>2, <3>2
    <3> QED BY <2>2, <3>2, <3>3 DEF Holds
  <2> QED BY <1>4, <2>1, <2>2 DEF Holds
<1>5. ASSUME NEW i \in DOMAIN u
      PROVE  \/ i <= a /\ i \in DOMAIN s /\ u[i] = s[i]
             \/ ~(i <= a) /\ i - a \in DOMAIN t /\ u[i] = t[i - a]
  BY <1>1, <1>2, <1>3
<1>6. ASSUME NEW m, Holds(u, m) PROVE Holds(s, m) \/ Holds(t, m)
  BY <1>5, <1>6 DEF Holds
<1>7. ASSUME b # 0 PROVE u[a + b] = t[b]
  <2>1. PICK x \in 1..(a + b) : x = a + b
    BY <1>1, <1>7
  <2>2. ~(x <= a) /\ x - a = b
    BY <1>1, <1>7, <2>1
  <2>3. u[x] = t[x - a]
    BY <1>2, <2>2
  <2> QED BY <2>1, <2>2, <2>3
<1>8. ASSUME NEW kept, Tidy(s, kept), Tidy(t, kept), \A m, n : Holds(s, m) /\ Holds(t, n) => m < n,
             NEW i \in DOMAIN u, NEW j \in DOMAIN u, i < j
      PROVE  u[i] <= u[j] /\ (u[i] = u[j] => u[i] \notin kept)
  <2>1. i \in Nat /\ j \in Nat
    BY <1>1, <1>3
  <2>2. CASE j <= a
    <3>1. i <= a
      BY <1>1, <1>8, <2>1, <2>2
    <3>2. i \in DOMAIN s /\ j \in DOMAIN s /\ u[i] = s[i] /\ u[j] = s[j]
      BY <1>5, <2>2, <3>1
    <3> QED BY <1>8, <3>2 DEF Tidy
  <2>3. CASE i <= a /\ ~(j <= a)
    <3>1. Holds(s, u[i]) /\ Holds(t, u[j])
      BY <1>5, <2>3 DEF Holds
    <3>2. u[i] < u[j]
      BY <1>8, <3>1
    <3>3. u[i] \in Nat /\ u[j] \in Nat
      BY <1>2, <1>3, SeqIs
    <3> QED BY <3>2, <3>3
  <2>4. CASE ~(i <= a)
    <3>1. ~(j <= a) /\ i - a < j - a
      BY <1>1, <1>8, <2>1, <2>4
    <3>2. i - a \in DOMAIN t /\ j - a \in DOMAIN t /\ u[i] = t[i - a] /\ u[j] = t[j - a]
      BY <1>5, <2>4, <3>1
    <3> QED BY <1>8, <3>1, <3>2 DEF Tidy
  <2> QED BY <2>2, <2>3, <2>4
<1>9. \A kept : /\ Tidy(s, kept) /\ Tidy(t, kept)
                /\ \A m, n : Holds(s, m) /\ Holds(t, n) => m < n
                => Tidy(u, kept)
  BY <1>8 DEF Tidy
<1> QED BY <1>2, <1>4, <1>6, <1>7, <1>9 DEF u, a, b

-----------------------------------------------------------------------------
(* The inductive invariant.                                                *)

(* s is what a listing of the names after low and up to high may hold: no  *)
(* other names, and all those that stay.                                   *)
Covers(s, kept, low, high) ==
    /\ \A i \in DOMAIN s : low < s[i] /\ s[i] <= high
    /\ \A m \in kept : low < m /\ m <= high => Holds(s, m)

(* A directory scan: what stays is still due, or collected; and what is    *)
(* collected and stays will not be delivered again.                        *)
Scanned(s, kept, delivered, missing) ==
    /\ \A i \in DOMAIN s : s[i] \in kept => s[i] \in delivered
    /\ \A m \in kept : m \in missing \/ Holds(s, m)

Asking == phase \notin {"scanning", "paging"}

StoreInv ==
    /\ Files \subseteq seen /\ stable \subseteq Files
    /\ Asking => found = <<>>
    /\ phase # "scanning" => visited = {}
    /\ phase # "paging" => token = None
    /\ \A i \in DOMAIN found : found[i] \in seen
    /\ Tidy(found, stable)
PagesInv ==
    /\ Tidy(returned, stable)
    /\ phase \notin Ended => Covers(returned, stable, None, cursor)
    /\ phase = "done" => \A m \in stable : Holds(returned, m)
ScanInv == phase = "scanning" => Scanned(found, stable, visited, due)
PageInv ==
    phase = "paging" => /\ Len(found) < limit
                        /\ token # None => cursor < token
                        /\ Covers(found, stable, cursor, IF token = None THEN cursor ELSE token)
ListingInv == TypeOK /\ StoreInv /\ PagesInv /\ ScanInv /\ PageInv

LEMMA InNames ==
    ASSUME NEW s \in Seq(Names)
    PROVE  /\ s \in Seq(Nat) /\ DOMAIN s = 1..Len(s) /\ Len(s) \in Nat
           /\ \A i \in DOMAIN s : s[i] \in Names /\ s[i] \in Nat /\ s[i] > 0
           /\ \A m : Holds(s, m) => m \in Names
<1>1. Names \subseteq Nat \ {0}
  BY ListingAssumption
<1>2. Len(s) \in Nat /\ DOMAIN s = 1..Len(s) /\ \A i \in 1..Len(s) : s[i] \in Names
  BY LenProperties
<1>3. s \in Seq(Nat)
  <2>1. s \in [1..Len(s) -> Names]
    BY LenProperties
  <2>2. s \in [1..Len(s) -> Nat]
    BY <1>1, <2>1
  <2> QED BY <1>2, <2>2, SeqDef
<1> QED BY <1>1, <1>2, <1>3 DEF Holds

(* A page: at most the limit of names after the cursor, in order, and none *)
(* that stays is missing, up to its last one if it is full.                *)
Page(page, kept, after, most) ==
    /\ page \in Seq(Names) /\ Len(page) <= most
    /\ Tidy(page, kept)
    /\ \A i \in DOMAIN page : after < page[i]
    /\ \A m \in kept : after < m /\ (Len(page) = most => m <= page[most]) => Holds(page, m)

(* Behind the pages before it, which hold what stays up to the cursor, a   *)
(* full page holds what stays up to its last name, and any other page all  *)
(* that stays.                                                             *)
LEMMA JoinedPage ==
    ASSUME NEW before \in Seq(Names), NEW page, NEW kept \in SUBSET Names,
           NEW after \in Names \cup {None}, NEW most \in 1..MaxLimit,
           Page(page, kept, after, most), Tidy(before, kept), Covers(before, kept, None, after)
    PROVE  /\ before \o page \in Seq(Names) /\ Tidy(before \o page, kept)
           /\ Len(page) = most =>
                page[most] \in Names /\ Covers(before \o page, kept, None, page[most])
           /\ Len(page) # most => \A m \in kept : Holds(before \o page, m)
<1>1. /\ page \in Seq(Names) /\ after \in Nat /\ most \in Nat \ {0}
      /\ Names \subseteq Nat \ {0} /\ kept \subseteq Names
  BY ListingAssumption DEF Page, None
<1>2. /\ before \in Seq(Nat) /\ page \in Seq(Nat) /\ DOMAIN page = 1..Len(page) /\ Len(page) \in Nat
      /\ \A m : Holds(before, m) \/ Holds(page, m) => m \in Names
  BY <1>1, InNames
<1>3. \A m : Holds(before, m) => m <= after
  BY DEF Covers, Holds
<1>4. \A n : Holds(page, n) => after < n
  BY DEF Page, Holds
<1>5. \A m, n : Holds(before, m) /\ Holds(page, n) => m < n
  <2>1. ASSUME NEW m, NEW n, Holds(before, m), Holds(page, n) PROVE m < n
    <3>1. m \in Nat /\ n \in Nat /\ m <= after /\ after < n
      BY <1>1, <1>2, <1>3, <1>4, <2>1
    <3> QED BY <1>1, <3>1
  <2> QED BY <2>1
<1> DEFINE joined == before \o page
<1>6. /\ joined \in Seq(Nat)
      /\ \A m : Holds(joined, m) <=> Holds(before, m) \/ Holds(page, m)
      /\ Tidy(joined, kept)
  <2>1. Tidy(page, kept)
    BY DEF Page
  <2> QED BY <1>2, <1>5, <2>1, JoinedIs
<1> HIDE DEF joined
<1>7. joined \in Seq(Names)
  BY <1>2, <1>6, SeqIs DEF Holds
<1>8. ASSUME NEW m \in kept, m <= after PROVE Holds(joined, m)
  <2>1. None < m
    BY <1>1 DEF None
  <2> QED BY <1>6, <1>8, <2>1 DEF Covers
<1>9. ASSUME NEW m \in kept, ~(m <= after), Len(page) = most => m <= page[most]
      PROVE  Holds(joined, m)
  <2>1. after < m
    BY <1>1, <1>9
  <2> QED BY <1>6, <1>9, <2>1 DEF Page
<1>10. ASSUME Len(page) = most
       PROVE  page[most] \in Names /\ Covers(joined, kept, None, page[most])
  <2>1. most \in DOMAIN page /\ page[most] \in Names /\ after < page[most]
    <3>1. most \in DOMAIN page
      BY <1>1, <1>2, <1>10
    <3> QED BY <1>1, <3>1, InNames DEF Page
  <2>2. ASSUME NEW n, Holds(page, n) PROVE n <= page[most]
    <3>1. PICK i \in DOMAIN page : page[i] = n
      BY <2>2 DEF Holds
    <3>2. CASE i = most
      <4>1. page[most] = n /\ n \in Nat
        BY <1>1, <2>1, <3>1, <3>2
      <4> QED BY <4>1
    <3>3. CASE i # most
      <4>1. i < most
        BY <1>1, <1>2, <1>10, <3>3
      <4> QED BY <2>1, <3>1, <4>1 DEF Page, Tidy
    <3> QED BY <3>2, <3>3
  <2>3. ASSUME NEW i \in DOMAIN joined PROVE None < joined[i] /\ joined[i] <= page[most]
    <3> DEFINE x == joined[i]
               last == page[most]
    <3>1. Holds(before, x) \/ Holds(page, x)
      BY <1>6 DEF Holds
    <3>2. last \in Names /\ after < last /\ \A n : Holds(page, n) => n <= last
      BY <2>1, <2>2
    <3> HIDE DEF x, last
    <3>3. x \in Names
      BY <1>2, <3>1
    <3>4. x \in Nat \ {0} /\ last \in Nat
      BY <1>1, <3>2, <3>3
    <3>5. x <= after \/ x <= last
      BY <1>3, <3>1, <3>2
    <3>6. None < x /\ x <= last
      BY <1>1, <3>2, <3>4, <3>5 DEF None
    <3> QED BY <3>6 DEF x, last
  <2>4. ASSUME NEW m \in kept, m <= page[most] PROVE Holds(joined, m)
    BY <1>8, <1>9, <2>4
  <2> QED BY <2>1, <2>3, <2>4 DEF Covers
<1>11. ASSUME Len(page) # most, NEW m \in kept PROVE Holds(joined, m)
  BY <1>8, <1>9, <1>11
<1> QED BY <1>6, <1>7, <1>10, <1>11 DEF joined

LEMMA ReplyKeeps ==
    ASSUME NEW page, TypeOK, PagesInv, phase \notin Ended, Page(page, stable, cursor, limit),
           Reply(page), stable' = stable
    PROVE  /\ returned' \in Seq(Names) /\ cursor' \in Names \cup {None} /\ phase' \in Phase
           /\ PagesInv'
<1>1. /\ returned \in Seq(Names) /\ stable \in SUBSET Names /\ cursor \in Names \cup {None}
      /\ limit \in 1..MaxLimit
      /\ Tidy(returned, stable) /\ Covers(returned, stable, None, cursor)
  BY DEF TypeOK, PagesInv
<1>2. returned' = returned \o page
  BY DEF Reply
<1>3. /\ returned' \in Seq(Names) /\ Tidy(returned', stable)
      /\ Len(page) = limit =>
           page[limit] \in Names /\ Covers(returned', stable, None, page[limit])
      /\ Len(page) # limit => \A m \in stable : Holds(returned', m)
  BY <1>1, <1>2, JoinedPage
<1>4. CASE Len(page) = limit
  <2>1. cursor' = page[limit] /\ phase' = "client"
    BY <1>4 DEF Reply
  <2> QED BY <1>3, <1>4, <2>1 DEF PagesInv, Phase
<1>5. CASE Len(page) # limit
  <2>1. cursor' = None /\ phase' = "done"
    BY <1>5 DEF Reply
  <2> QED BY <1>3, <1>5, <2>1 DEF PagesInv, Phase, Ended
<1> QED BY <1>4, <1>5

LEMMA EmptyIs ==
    /\ \A kept : Tidy(<<>>, kept)
    /\ \A m : ~Holds(<<>>, m)
    /\ \A S : <<>> \in Seq(S)
    /\ DOMAIN <<>> = {} /\ Len(<<>>) = 0
BY DEF Tidy, Holds

LEMMA ListingInit == Init => ListingInv
<1> SUFFICES ASSUME Init PROVE ListingInv
  OBVIOUS
<1>1. TypeOK
  BY ListingAssumption, EmptyIs DEF Init, TypeOK, Phase, Files
<1>2. StoreInv
  BY EmptyIs DEF Init, StoreInv, Asking, None
<1>3. PagesInv
  <2>1. ASSUME NEW m \in stable PROVE ~(None < m /\ m <= None)
    <3>1. m \in Nat
      BY ListingAssumption DEF Init, Files
    <3> QED BY <3>1 DEF None
  <2>2. returned = <<>> /\ cursor = None /\ phase = "client"
    BY DEF Init
  <2>3. Covers(returned, stable, None, cursor)
    BY <2>1, <2>2, EmptyIs DEF Covers
  <2> QED BY <2>2, <2>3, EmptyIs DEF PagesInv
<1>4. ScanInv /\ PageInv
  BY DEF Init, ScanInv, PageInv
<1> QED BY <1>1, <1>2, <1>3, <1>4 DEF ListingInv

LEMMA StutterListing == ListingInv /\ UNCHANGED vars => ListingInv'
BY DEF ListingInv, TypeOK, StoreInv, PagesInv, ScanInv, PageInv, Asking, Files, vars, request, scan, history

(* A request starts with nothing found, and with all that stays still due. *)
LEMMA RequestKeeps ==
    ASSUME ListingInv, NEW asked \in Asked, Request(asked)
    PROVE  ListingInv'
<1>1. /\ phase = "client" /\ phase' = Verdict(asked) /\ seen' = Files
      /\ found' = found /\ token' = token /\ stable' = stable /\ visited' = visited
      /\ returned' = returned /\ cursor' = cursor /\ store' = store
      /\ due' = IF Verdict(asked) = "scanning" THEN Present ELSE {}
  BY DEF Request
<1>2. found = <<>> /\ token = None /\ visited = {} /\ stable \subseteq Files
  BY <1>1 DEF ListingInv, StoreInv, Asking
<1>3. Verdict(asked) \in Ended \ {"done"} \/ Verdict(asked) \in {"scanning", "paging"}
  BY DEF Verdict, Ended
<1>4. TypeOK'
  <2>1. limit' \in 1..MaxLimit
    <3>1. CASE Verdict(asked) \in Ended
      BY <3>1 DEF Request, ListingInv, TypeOK
    <3>2. CASE Verdict(asked) \notin Ended
      <4>1. ~(asked > MaxLimit)
        BY <3>2 DEF Verdict, Ended
      <4> QED BY <3>2, <4>1, ListingAssumption DEF Request, EffectiveLimit, Asked
    <3> QED BY <3>1, <3>2
  <2> QED BY <1>1, <1>3, <2>1 DEF Request, ListingInv, TypeOK, Phase, Files, Present
<1>5. StoreInv'
  BY <1>1, <1>2, <1>3, EmptyIs DEF StoreInv, Asking, Files, Ended
<1>6. PagesInv'
  BY <1>1, <1>3 DEF ListingInv, PagesInv, Ended
<1>7. ScanInv'
  BY <1>1, <1>2, EmptyIs DEF ScanInv, Scanned, Files, Present
<1>8. PageInv'
  <2>1. SUFFICES ASSUME phase' = "paging"
                 PROVE  Len(found') < limit' /\ Covers(found', stable', cursor', cursor')
    BY <1>1, <1>2 DEF PageInv
  <2>2. Len(found') < limit'
    <3>1. limit' \in Nat \ {0}
      BY <1>4, ListingAssumption DEF TypeOK
    <3> QED BY <1>1, <1>2, <3>1, EmptyIs
  <2>3. ASSUME NEW m \in stable PROVE ~(cursor < m /\ m <= cursor)
    <3>1. m \in Nat /\ cursor \in Nat
      BY ListingAssumption DEF ListingInv, TypeOK, None
    <3> QED BY <3>1
  <2> QED BY <1>1, <1>2, <2>2, <2>3, EmptyIs DEF Covers
<1> QED BY <1>4, <1>5, <1>6, <1>7, <1>8 DEF ListingInv

(* A request that fails leaves the pages and the cursor alone.             *)
LEMMA FailsKeeps == ListingInv /\ Fails => ListingInv'
<1> SUFFICES ASSUME ListingInv, Fails PROVE ListingInv'
  OBVIOUS
<1>1. TypeOK'
  BY EmptyIs DEF ListingInv, TypeOK, Fails, Phase, request, history, None
<1>2. StoreInv'
  BY EmptyIs DEF ListingInv, StoreInv, Fails, Asking, Files, request, history
<1>3. PagesInv'
  BY DEF ListingInv, PagesInv, Fails, Ended, request, history
<1>4. ScanInv' /\ PageInv'
  BY DEF ScanInv, PageInv, Fails
<1> QED BY <1>1, <1>2, <1>3, <1>4 DEF ListingInv

(* An entry that readdir delivers is no longer due; a file that stays is   *)
(* not delivered twice.                                                    *)
LEMMA ScanEntryKeeps ==
    ASSUME ListingInv, NEW n \in Names, ScanEntry(n)
    PROVE  ListingInv'
<1>1. /\ phase = "scanning" /\ n \in Present \ visited /\ phase' = phase
      /\ visited' = visited \cup {n} /\ due' = due \ {n}
      /\ found' = IF store[n] = "file" THEN InsertSorted(found, n) ELSE found
      /\ store' = store /\ token' = token /\ stable' = stable /\ seen' = seen
      /\ returned' = returned /\ cursor' = cursor /\ limit' = limit /\ backend' = backend
      /\ changes' = changes
  BY DEF ScanEntry, request, history
<1>2. /\ found \in Seq(Names) /\ found \in Seq(Nat) /\ n \in Nat /\ Tidy(found, stable)
      /\ stable \subseteq Files /\ Files \subseteq seen /\ Files \subseteq Names
      /\ Scanned(found, stable, visited, due)
  BY <1>1, InNames, ListingAssumption DEF ListingInv, TypeOK, StoreInv, ScanInv, Files
<1>3. n \in stable => ~Holds(found, n)
  BY <1>1, <1>2 DEF Scanned, Holds
<1>4. /\ InsertSorted(found, n) \in Seq(Nat) /\ Tidy(InsertSorted(found, n), stable)
      /\ \A m : Holds(InsertSorted(found, n), m) <=> m = n \/ Holds(found, m)
  BY <1>2, <1>3, Inserted
<1>5. /\ found' \in Seq(Nat) /\ Tidy(found', stable)
      /\ \A m : Holds(found', m) <=> (m = n /\ n \in Files) \/ Holds(found, m)
  <2>1. CASE store[n] = "file"
    BY <1>1, <1>4, <2>1 DEF Files
  <2>2. CASE store[n] # "file"
    BY <1>1, <1>2, <2>2 DEF Files
  <2> QED BY <2>1, <2>2
<1>6. found' \in Seq(Names)
  <2>1. \A m : Holds(found', m) => m \in Names
    BY <1>2, <1>5, InNames
  <2> QED BY <1>5, <2>1, SeqIs DEF Holds
<1>7. TypeOK'
  BY <1>1, <1>6 DEF ListingInv, TypeOK
<1>8. StoreInv'
  <2>1. \A m : Holds(found, m) => m \in seen
    BY DEF ListingInv, StoreInv, Holds
  <2>2. \A i \in DOMAIN found' : found'[i] \in seen
    BY <1>2, <1>5, <2>1 DEF Holds
  <2> QED BY <1>1, <1>5, <2>2 DEF ListingInv, StoreInv, Asking, Files
<1>9. PagesInv' /\ PageInv'
  BY <1>1 DEF ListingInv, PagesInv, PageInv
<1>10. ScanInv'
  <2>1. ASSUME NEW i \in DOMAIN found', found'[i] \in stable PROVE found'[i] \in visited'
    <3>1. found'[i] = n \/ Holds(found, found'[i])
      BY <1>5 DEF Holds
    <3> QED BY <1>1, <1>2, <2>1, <3>1 DEF Scanned, Holds
  <2>2. ASSUME NEW m \in stable PROVE m \in due' \/ Holds(found', m)
    BY <1>1, <1>2, <1>5 DEF Scanned
  <2> QED BY <1>1, <2>1, <2>2 DEF ScanInv, Scanned
<1> QED BY <1>7, <1>8, <1>9, <1>10 DEF ListingInv

(* A backend that answers a request with such a page, of files that were   *)
(* there while it ran, ends the request.                                   *)
PageReply(page) ==
    /\ phase \in {"scanning", "paging"}
    /\ Page(page, stable, cursor, limit)
    /\ \A i \in DOMAIN page : page[i] \in seen
    /\ Reply(page)
    /\ UNCHANGED <<backend, store, changes, limit, stable, seen>>

LEMMA AnswerKeeps == ASSUME NEW page, ListingInv, PageReply(page) PROVE ListingInv'
<1>0. /\ phase \notin Ended /\ Page(page, stable, cursor, limit) /\ Reply(page)
      /\ UNCHANGED <<backend, store, changes, limit, stable, seen>>
  BY DEF PageReply, Ended
<1>1. /\ returned' \in Seq(Names) /\ cursor' \in Names \cup {None} /\ phase' \in Phase /\ PagesInv'
  BY <1>0, ReplyKeeps DEF ListingInv
<1>2. found' = <<>> /\ visited' = {} /\ due' = {} /\ token' = None /\ phase' \in {"client", "done"}
  BY <1>0 DEF Reply
<1>3. TypeOK'
  BY <1>0, <1>1, <1>2, EmptyIs DEF ListingInv, TypeOK
<1>4. StoreInv'
  BY <1>0, <1>2, EmptyIs DEF ListingInv, StoreInv, Asking, Files
<1>5. ScanInv' /\ PageInv'
  BY <1>2 DEF ScanInv, PageInv
<1> QED BY <1>1, <1>3, <1>4, <1>5 DEF ListingInv

(* At the end of the directory all that stays is collected, so the page    *)
(* after the cursor is complete.                                           *)
LEMMA ScanEndPage == ListingInv /\ ScanEnd => \E page : PageReply(page)
<1> SUFFICES ASSUME ListingInv, ScanEnd PROVE \E page : PageReply(page)
  OBVIOUS
<1> DEFINE page == Take(After(found, cursor), limit)
<1>1. /\ phase = "scanning" /\ due = {} /\ Reply(page)
      /\ store' = store /\ backend' = backend /\ changes' = changes /\ limit' = limit
      /\ stable' = stable /\ seen' = seen
  BY DEF ScanEnd
<1>2. /\ found \in Seq(Names) /\ found \in Seq(Nat) /\ Tidy(found, stable) /\ Ordered(found)
      /\ cursor \in Nat /\ limit \in Nat \ {0} /\ stable \subseteq Names /\ Names \subseteq Nat
      /\ \A m \in stable : Holds(found, m)
  BY <1>1, InNames, ListingAssumption
     DEF ListingInv, TypeOK, StoreInv, ScanInv, Scanned, Tidy, Ordered, None
<1> DEFINE rest == After(found, cursor)
<1>3. /\ rest \in Seq(Nat) /\ Tidy(rest, stable)
      /\ \A m \in Nat : Holds(rest, m) <=> Holds(found, m) /\ m > cursor
  BY <1>2, AfterIs
<1> HIDE DEF rest
<1>4. Ordered(rest)
  BY <1>3 DEF Tidy, Ordered
<1>5. /\ page \in Seq(Nat) /\ Len(page) <= limit /\ Tidy(page, stable)
      /\ \A m : Holds(page, m) => Holds(rest, m)
      /\ \A m \in Nat : Holds(rest, m) /\ (Len(page) = limit => m <= page[limit]) => Holds(page, m)
  <2>1. page = Take(rest, limit)
    BY DEF rest
  <2> HIDE DEF page
  <2> QED BY <1>2, <1>3, <1>4, <2>1, TakeIs
<1> HIDE DEF page
<1>6. \A m : Holds(page, m) => m \in Nat /\ Holds(found, m) /\ cursor < m
  <2>1. \A m : Holds(rest, m) => m \in Nat
    BY <1>3, SeqIs DEF Holds
  <2> QED BY <1>2, <1>3, <1>5, <2>1
<1>7. Page(page, stable, cursor, limit)
  <2>1. page \in Seq(Names)
    <3>1. \A m : Holds(page, m) => m \in Names
      BY <1>2, <1>6, InNames
    <3> QED BY <1>5, <3>1, SeqIs DEF Holds
  <2>2. \A i \in DOMAIN page : cursor < page[i]
    BY <1>6 DEF Holds
  <2>3. ASSUME NEW m \in stable, cursor < m, Len(page) = limit => m <= page[limit]
        PROVE  Holds(page, m)
    <3>1. m \in Nat /\ m > cursor /\ Holds(found, m)
      BY <1>2, <2>3
    <3> QED BY <1>3, <1>5, <2>3, <3>1
  <2> QED BY <1>5, <2>1, <2>2, <2>3 DEF Page
<1>8. \A i \in DOMAIN page : page[i] \in seen
  <2>1. \A m : Holds(found, m) => m \in seen
    BY DEF ListingInv, StoreInv, Holds
  <2> QED BY <1>6, <2>1 DEF Holds
<1>9. PageReply(page)
  BY <1>1, <1>7, <1>8 DEF PageReply
<1> QED BY <1>9

(* A set of names, written down in name order.                             *)
LEMMA InNameOrderIs ==
    ASSUME NEW S \in SUBSET Names, NEW s \in InNameOrder(S)
    PROVE  /\ s \in Seq(Names) /\ \A kept : Tidy(s, kept)
           /\ \A m : Holds(s, m) <=> m \in S
<1>1. Cardinality(S) \in Nat
  BY ListingAssumption, FS_Subset, FS_CardinalityType
<1>2. /\ s \in [1..Cardinality(S) -> S] /\ DOMAIN s = 1..Cardinality(S)
      /\ \A i, j \in DOMAIN s : i < j => s[i] < s[j]
      /\ \A n \in S : \E i \in DOMAIN s : s[i] = n
  BY DEF InNameOrder
<1>3. s \in Seq(Names)
  <2>1. s \in [1..Cardinality(S) -> Names]
    BY <1>2
  <2> QED BY <1>1, <2>1, SeqDef
<1>4. ASSUME NEW i \in DOMAIN s, NEW j \in DOMAIN s, i < j PROVE s[i] <= s[j] /\ s[i] # s[j]
  <2>1. s[i] < s[j] /\ s[i] \in Nat /\ s[j] \in Nat
    BY <1>2, <1>3, <1>4, InNames
  <2> QED BY <2>1
<1>5. \A kept : Tidy(s, kept)
  BY <1>4 DEF Tidy
<1>6. \A m : Holds(s, m) <=> m \in S
  BY <1>2 DEF Holds
<1> QED BY <1>3, <1>5, <1>6

(* An answer holds the first keys after a key, all of them unless it is    *)
(* truncated.                                                              *)
LEMMA AnswerIs ==
    ASSUME NEW after, NEW answer \in Answers(after)
    PROVE  /\ \A m \in answer.keys : m \in Present /\ m > after
           /\ ~answer.truncated => \A m \in Present : m > after => m \in answer.keys
           /\ answer.truncated =>
                \E last \in answer.keys :
                   \A m \in Present : m > after => (m \in answer.keys <=> m <= last)
           /\ \A n \in answer.keys, m \in Present : m > after /\ m <= n => m \in answer.keys
<1> DEFINE keys == {n \in Present : n > after}
<1>0. Present \subseteq Nat
  BY ListingAssumption DEF Present
<1>1. CASE keys = {}
  <2>1. answer.keys = {} /\ answer.truncated = FALSE
    BY <1>1 DEF Answers
  <2> QED BY <1>1, <2>1
<1>2. CASE keys # {}
  <2>1. PICK last \in keys : /\ answer.keys = {n \in keys : n <= last}
                             /\ answer.truncated <=> {n \in keys : n <= last} # keys
    <3>1. PICK part \in {p \in {{n \in keys : n <= last} : last \in keys} : Cardinality(p) <= PageSize} :
             answer = [keys |-> part, truncated |-> part # keys]
      BY <1>2 DEF Answers
    <3>2. answer.keys = part /\ (answer.truncated <=> part # keys)
      BY <3>1
    <3>3. PICK last \in keys : part = {n \in keys : n <= last}
      BY <3>1
    <3> QED BY <3>2, <3>3
  <2>2. last \in answer.keys
    BY <1>0, <2>1
  <2>3. ASSUME NEW n \in answer.keys, NEW m \in Present, m > after, m <= n
        PROVE  m \in answer.keys
    <3>1. n <= last /\ n \in Nat /\ m \in Nat /\ last \in Nat /\ m \in keys
      BY <1>0, <2>1, <2>3
    <3>2. m <= last
      BY <2>3, <3>1
    <3> QED BY <2>1, <3>1, <3>2
  <2>4. \A m \in Present : m > after => (m \in answer.keys <=> m <= last)
    BY <2>1
  <2> QED BY <2>1, <2>2, <2>3, <2>4
<1> QED BY <1>1, <1>2

(* What a page of S3's list keeps of an answer goes on where the keys that *)
(* are out already end; only if the answer was the last one, or if the     *)
(* page is full, is it what the client gets.                               *)
Unanswered == UNCHANGED <<store, phase, cursor, limit, returned, stable, seen>>

LEMMA S3AnswerPage ==
    ListingInv /\ S3Answer => (\E page : PageReply(page)) \/ (ListingInv' /\ Unanswered)
<1> SUFFICES ASSUME ListingInv, S3Answer
             PROVE  (\E page : PageReply(page)) \/ (ListingInv' /\ Unanswered)
  OBVIOUS
<1> DEFINE after == IF token = None THEN cursor ELSE token
           room == limit - Len(found)
           Handled(answer, flat) ==
              LET out == found \o Take(flat, room)
              IN  IF Len(out) >= limit \/ ~answer.truncated
                  THEN Reply(out)
                  ELSE /\ found' = out
                       /\ token' = CHOOSE n \in answer.keys :
                                     \A m \in answer.keys : m <= n
                       /\ UNCHANGED <<phase, cursor, scan, returned>>
<1>0. PICK answer \in Answers(after) :
         \E flat \in InNameOrder(answer.keys \cap Files) : Handled(answer, flat)
  BY DEF S3Answer
<1>1. PICK flat \in InNameOrder(answer.keys \cap Files) : Handled(answer, flat)
  BY <1>0
<1>2. phase = "paging" /\ UNCHANGED <<backend, store, changes, limit, stable, seen>>
  BY DEF S3Answer
<1>3. /\ found \in Seq(Names) /\ found \in Seq(Nat) /\ Tidy(found, stable) /\ Len(found) \in Nat
      /\ cursor \in Nat /\ token \in Nat /\ limit \in Nat \ {0} /\ Len(found) < limit
      /\ stable \subseteq Files /\ Files \subseteq Names /\ Names \subseteq Nat /\ Files \subseteq seen
      /\ Files \subseteq Present /\ Present \subseteq Names
  BY <1>2, InNames, ListingAssumption
     DEF ListingInv, TypeOK, StoreInv, PageInv, None, Files, Present
<1>4. after \in Nat /\ cursor <= after /\ Covers(found, stable, cursor, after)
  BY <1>2, <1>3 DEF ListingInv, PageInv
<1> HIDE DEF after
<1>5. /\ flat \in Seq(Names) /\ \A kept : Tidy(flat, kept)
      /\ \A m : Holds(flat, m) <=> m \in answer.keys \cap Files
  BY <1>3, InNameOrderIs
<1>6. flat \in Seq(Nat) /\ Ordered(flat)
  BY <1>5, InNames DEF Tidy, Ordered
<1>7. room \in Nat \ {0}
  BY <1>3
<1> DEFINE more == Take(flat, room)
<1>8. /\ more \in Seq(Nat) /\ Len(more) <= room /\ Tidy(more, stable)
      /\ \A m : Holds(more, m) => Holds(flat, m)
      /\ \A m \in Nat : Holds(flat, m) /\ (Len(more) = room => m <= more[room]) => Holds(more, m)
  BY <1>5, <1>6, <1>7, TakeIs
<1>9. Len(more) \in Nat
  BY <1>8, SeqIs
<1> DEFINE out == found \o more
<1>10. /\ Len(out) >= limit \/ ~answer.truncated => Reply(out)
       /\ ~(Len(out) >= limit \/ ~answer.truncated) =>
            /\ found' = out
            /\ token' = CHOOSE n \in answer.keys : \A m \in answer.keys : m <= n
            /\ UNCHANGED <<phase, cursor, scan, returned>>
  BY <1>1
<1> HIDE DEF more
<1>11. \A m : Holds(more, m) => m \in answer.keys /\ m \in Files /\ m \in Nat /\ m > after
  BY <1>3, <1>5, <1>8, AnswerIs
<1>12. \A m, n : Holds(found, m) /\ Holds(more, n) => m < n
  <2>1. ASSUME NEW m, NEW n, Holds(found, m), Holds(more, n) PROVE m < n
    <3>1. m \in Nat /\ m <= after
      BY <1>3, <1>4, <2>1, InNames DEF Covers, Holds
    <3>2. n \in Nat /\ n > after
      BY <1>11, <2>1
    <3> QED BY <1>4, <3>1, <3>2
  <2> QED BY <2>1
<1>13. /\ out \in Seq(Nat) /\ Len(out) = Len(found) + Len(more) /\ Tidy(out, stable)
       /\ \A m : Holds(out, m) <=> Holds(found, m) \/ Holds(more, m)
       /\ Len(more) # 0 => out[Len(found) + Len(more)] = more[Len(more)]
  BY <1>3, <1>8, <1>12, JoinedIs
<1> HIDE DEF out
<1>14. Len(out) <= limit /\ (Len(out) = limit <=> Len(more) = room)
  BY <1>3, <1>7, <1>8, <1>9, <1>13
<1>15. \A m : Holds(out, m) => m \in Names /\ cursor < m
  <2>1. ASSUME NEW m, Holds(found, m) PROVE m \in Names /\ cursor < m
    BY <1>3, <1>4, <2>1, InNames DEF Covers, Holds
  <2>2. ASSUME NEW m, Holds(more, m) PROVE m \in Names /\ cursor < m
    <3>1. m \in Nat /\ m > after /\ m \in Names
      BY <1>3, <1>11, <2>2
    <3> QED BY <1>3, <1>4, <3>1
  <2> QED BY <1>13, <2>1, <2>2
<1>16. out \in Seq(Names) /\ \A i \in DOMAIN out : cursor < out[i]
  BY <1>13, <1>15, SeqIs DEF Holds
<1>17. \A m : Holds(out, m) => m \in seen
  <2>1. \A m : Holds(found, m) => m \in seen
    BY DEF ListingInv, StoreInv, Holds
  <2> QED BY <1>3, <1>11, <1>13, <2>1
<1>18. \A i \in DOMAIN out : out[i] \in seen
  BY <1>17 DEF Holds
<1>19. ASSUME NEW m \in stable, cursor < m, m <= after PROVE Holds(out, m)
  BY <1>4, <1>13, <1>19 DEF Covers
<1>20. ASSUME NEW m \in stable, m > after, m \in answer.keys, Len(more) = room => m <= more[room]
       PROVE  Holds(out, m)
  BY <1>3, <1>5, <1>8, <1>13, <1>20
<1>21. CASE Len(out) >= limit
  <2>1. Len(out) = limit /\ Len(more) = room
    BY <1>3, <1>9, <1>13, <1>14, <1>21
  <2>2. out[limit] = more[room] /\ Holds(more, more[room])
    <3>1. Len(more) # 0 /\ Len(found) + Len(more) = limit
      BY <1>7, <1>13, <2>1
    <3>2. room \in DOMAIN more
      BY <1>7, <1>8, <2>1, SeqIs
    <3> QED BY <1>13, <2>1, <3>1, <3>2 DEF Holds
  <2>3. more[room] \in answer.keys
    BY <1>11, <2>2
  <2>4. ASSUME NEW m \in stable, cursor < m, m <= out[limit] PROVE Holds(out, m)
    <3>1. m \in Nat
      BY <1>3
    <3>2. CASE m <= after
      BY <1>19, <2>4, <3>2
    <3>3. CASE ~(m <= after)
      <4>1. m > after /\ m \in Present /\ m <= more[room]
        BY <1>3, <1>4, <2>2, <2>4, <3>1, <3>3
      <4>2. m \in answer.keys
        BY <2>3, <4>1, AnswerIs
      <4> QED BY <1>20, <4>1, <4>2
    <3> QED BY <3>2, <3>3
  <2>5. Page(out, stable, cursor, limit)
    BY <1>13, <1>14, <1>16, <2>1, <2>4 DEF Page
  <2>6. PageReply(out)
    BY <1>2, <1>10, <1>18, <1>21, <2>5 DEF PageReply
  <2> QED BY <2>6
<1>22. CASE ~(Len(out) >= limit) /\ ~answer.truncated
  <2>1. Len(out) # limit /\ Len(more) # room
    BY <1>3, <1>9, <1>13, <1>14, <1>22
  <2>2. ASSUME NEW m \in stable, cursor < m PROVE Holds(out, m)
    <3>1. m \in Nat /\ m \in Present
      BY <1>3
    <3>2. CASE m <= after
      BY <1>19, <2>2, <3>2
    <3>3. CASE ~(m <= after)
      <4>1. m > after
        BY <1>4, <3>1, <3>3
      <4>2. m \in answer.keys
        BY <1>22, <3>1, <4>1, AnswerIs
      <4> QED BY <1>20, <2>1, <4>1, <4>2
    <3> QED BY <3>2, <3>3
  <2>3. Page(out, stable, cursor, limit)
    BY <1>13, <1>14, <1>16, <2>1, <2>2 DEF Page
  <2>4. PageReply(out)
    BY <1>2, <1>10, <1>18, <1>22, <2>3 DEF PageReply
  <2> QED BY <2>4
<1>23. CASE ~(Len(out) >= limit) /\ answer.truncated
  <2>1. Len(out) < limit /\ Len(more) # room
    BY <1>3, <1>9, <1>13, <1>14, <1>23
  <2>2. /\ found' = out /\ token' = CHOOSE n \in answer.keys : \A m \in answer.keys : m <= n
        /\ phase' = phase /\ cursor' = cursor /\ visited' = visited /\ due' = due
        /\ returned' = returned /\ limit' = limit /\ store' = store
        /\ stable' = stable /\ seen' = seen /\ backend' = backend /\ changes' = changes
    BY <1>2, <1>10, <1>23 DEF scan
  <2>3. PICK last \in answer.keys :
           \A m \in Present : m > after => (m \in answer.keys <=> m <= last)
    BY <1>23, AnswerIs
  <2>4. \A m \in answer.keys : m <= last /\ m \in Names /\ m \in Nat /\ m > after
    BY <1>3, <2>3, AnswerIs
  <2>5. token' \in answer.keys /\ \A m \in answer.keys : m <= token'
    BY <2>2, <2>3, <2>4
  <2>6. token' \in Names /\ token' \in Nat /\ token' > after
    BY <2>4, <2>5
  <2>7. cursor < token' /\ token' # None
    BY <1>3, <1>4, <2>6 DEF None
  <2>8. ASSUME NEW m \in stable, cursor < m, m <= token' PROVE Holds(out, m)
    <3>1. m \in Nat /\ m \in Present
      BY <1>3
    <3>2. CASE m <= after
      BY <1>19, <2>8, <3>2
    <3>3. CASE ~(m <= after)
      <4>1. m > after
        BY <1>4, <3>1, <3>3
      <4>2. m \in answer.keys
        BY <2>5, <2>8, <3>1, <4>1, AnswerIs
      <4> QED BY <1>20, <2>1, <4>1, <4>2
    <3> QED BY <3>2, <3>3
  <2>9. ASSUME NEW i \in DOMAIN out PROVE cursor < out[i] /\ out[i] <= token'
    <3> DEFINE x == out[i]
    <3>1. cursor < x /\ (Holds(found, x) \/ Holds(more, x))
      BY <1>13, <1>16 DEF Holds
    <3> HIDE DEF x
    <3>2. CASE Holds(found, x)
      <4>1. x \in Nat /\ x <= after
        BY <1>3, <1>4, <3>2, InNames DEF Covers, Holds
      <4> QED BY <1>4, <2>6, <3>1, <4>1 DEF x
    <3>3. CASE Holds(more, x)
      BY <1>11, <2>5, <3>1, <3>3 DEF x
    <3> QED BY <3>1, <3>2, <3>3
  <2>10. TypeOK'
    BY <1>16, <2>2, <2>6 DEF ListingInv, TypeOK
  <2>11. StoreInv'
    BY <1>18, <1>2, <1>13, <2>2 DEF ListingInv, StoreInv, Asking, Files
  <2>12. PagesInv' /\ ScanInv'
    BY <1>2, <2>2 DEF ListingInv, PagesInv, ScanInv
  <2>13. PageInv'
    BY <2>1, <2>2, <2>7, <2>8, <2>9 DEF PageInv, Covers
  <2> QED BY <2>2, <2>10, <2>11, <2>12, <2>13 DEF ListingInv, Unanswered
<1> QED BY <1>21, <1>22, <1>23

(* What others do to the store: a file that goes no longer stays, and one  *)
(* that comes has not stayed.                                              *)
LEMMA ChangeKeeps ==
    ASSUME ListingInv, NEW n \in Names, Create(n) \/ Delete(n)
    PROVE  ListingInv'
<1>1. PICK kind \in {"file", "other", "absent"} : Change(n, kind)
  BY DEF Create, Delete, KindsOf
<1>2. /\ changes' \in 0..MaxChanges /\ store' = [store EXCEPT ![n] = kind]
      /\ backend' = backend /\ phase' = phase /\ cursor' = cursor /\ limit' = limit
      /\ found' = found /\ token' = token /\ returned' = returned
  BY <1>1, ListingAssumption DEF Change, request, ListingInv, TypeOK
<1>3. /\ visited' \subseteq visited /\ due' \subseteq due /\ seen \subseteq seen'
      /\ stable' \subseteq stable
  BY DEF Create, Delete, Change, scan
<1>4. /\ Files' \subseteq seen' /\ seen' \subseteq Names
      /\ stable' \subseteq Files'
      /\ visited \ {n} \subseteq visited' /\ due \ {n} \subseteq due'
      /\ n \in stable' => visited' = visited /\ due' = due
      /\ phase # "scanning" => visited' = {}
  <2>1. /\ store \in [Names -> {"file", "other", "absent"}]
        /\ Files \subseteq seen /\ stable \subseteq Files /\ seen \subseteq Names
        /\ phase # "scanning" => visited = {}
    BY DEF ListingInv, TypeOK, StoreInv
  <2>2. \A m \in Names : store'[m] = IF m = n THEN kind ELSE store[m]
    BY <1>2, <2>1
  <2>3. CASE Create(n)
    <3>1. PICK new \in KindsOf(n) :
             /\ Change(n, new)
             /\ seen' = IF new = "file" THEN seen \cup {n} ELSE seen
      BY <2>3 DEF Create
    <3>2. store' = [store EXCEPT ![n] = new]
      BY <3>1 DEF Change
    <3>3. \A m \in Names : store'[m] = IF m = n THEN new ELSE store[m]
      BY <2>1, <3>2
    <3>4. n \notin stable
      BY <2>1, <2>3 DEF Create, Files
    <3>5. visited' = visited /\ due' = due /\ stable' = stable
      BY <2>3 DEF Create, scan
    <3> QED BY <2>1, <3>1, <3>3, <3>4, <3>5 DEF Files
  <2>4. CASE Delete(n)
    <3>1. /\ visited' = visited \ {n} /\ due' = due \ {n} /\ stable' = stable \ {n}
          /\ seen' = seen /\ Change(n, "absent")
      BY <2>4 DEF Delete
    <3>2. store' = [store EXCEPT ![n] = "absent"]
      BY <3>1 DEF Change
    <3>3. \A m \in Names : store'[m] = IF m = n THEN "absent" ELSE store[m]
      BY <2>1, <3>2
    <3> QED BY <2>1, <3>1, <3>3 DEF Files
  <2> QED BY <2>3, <2>4
<1>5. TypeOK'
  <2>1. store' \in [Names -> {"file", "other", "absent"}]
    BY <1>2 DEF ListingInv, TypeOK
  <2> QED BY <1>2, <1>3, <1>4, <2>1 DEF ListingInv, TypeOK
<1>6. StoreInv'
  <2>1. Tidy(found, stable')
    BY <1>3 DEF ListingInv, StoreInv, Tidy
  <2>2. \A i \in DOMAIN found : found[i] \in seen'
    BY <1>3 DEF ListingInv, StoreInv
  <2> QED BY <1>2, <1>4, <2>1, <2>2 DEF ListingInv, StoreInv, Asking
<1>7. PagesInv'
  <2>1. Tidy(returned, stable')
    BY <1>3 DEF ListingInv, PagesInv, Tidy
  <2>2. phase \notin Ended => Covers(returned, stable', None, cursor)
    BY <1>3 DEF ListingInv, PagesInv, Covers
  <2>3. phase \notin Ended
    BY DEF Create, Delete
  <2> QED BY <1>2, <2>1, <2>2, <2>3 DEF PagesInv, Ended
<1>8. ScanInv'
  <2>1. SUFFICES ASSUME phase = "scanning" PROVE Scanned(found, stable', visited', due')
    BY <1>2 DEF ScanInv
  <2>2. Scanned(found, stable, visited, due)
    BY <2>1 DEF ListingInv, ScanInv
  <2>3. ASSUME NEW i \in DOMAIN found, found[i] \in stable' PROVE found[i] \in visited'
    <3>1. found[i] \in visited
      BY <1>3, <2>2, <2>3 DEF Scanned
    <3> QED BY <1>4, <2>3, <3>1
  <2>4. ASSUME NEW m \in stable' PROVE m \in due' \/ Holds(found, m)
    <3>1. m \in due \/ Holds(found, m)
      BY <1>3, <2>2 DEF Scanned
    <3> QED BY <1>4, <3>1
  <2> QED BY <2>3, <2>4 DEF Scanned
<1>9. PageInv'
  BY <1>2, <1>3 DEF ListingInv, PageInv, Covers
<1> QED BY <1>5, <1>6, <1>7, <1>8, <1>9 DEF ListingInv

-----------------------------------------------------------------------------
LEMMA ListingStep == ListingInv /\ [Next]_vars => ListingInv'
<1> SUFFICES ASSUME ListingInv, [Next]_vars PROVE ListingInv'
  OBVIOUS
<1>1. ASSUME NEW asked \in Asked, Request(asked) PROVE ListingInv'
  BY <1>1, RequestKeeps
<1>2. ASSUME NEW n \in Names, ScanEntry(n) PROVE ListingInv'
  BY <1>2, ScanEntryKeeps
<1>3. ASSUME NEW n \in Names, Create(n) \/ Delete(n) PROVE ListingInv'
  BY <1>3, ChangeKeeps
<1>4. ASSUME ScanEnd \/ S3Answer PROVE ListingInv'
  BY <1>4, ScanEndPage, S3AnswerPage, AnswerKeeps
<1> QED BY <1>1, <1>2, <1>3, <1>4, FailsKeeps, StutterListing DEF Next

LEMMA ListingInvHolds == Spec => []ListingInv
<1> QED BY ListingInit, ListingStep, PTL DEF Spec

(* What stays and is held by a tidy sequence of names is there once.       *)
LEMMA HeldOnce ==
    ASSUME NEW s \in Seq(Names), NEW kept, Tidy(s, kept), NEW n \in kept, Holds(s, n)
    PROVE  Cardinality({i \in DOMAIN s : s[i] = n}) = 1
<1>1. PICK i \in DOMAIN s : s[i] = n
  BY DEF Holds
<1>2. ASSUME NEW j \in DOMAIN s, s[j] = n PROVE j = i
  <2>1. ~(i < j) /\ ~(j < i)
    BY <1>1, <1>2 DEF Tidy
  <2>2. i \in Nat /\ j \in Nat
    BY InNames
  <2> QED BY <2>1, <2>2
<1>3. {j \in DOMAIN s : s[j] = n} = {i}
  BY <1>1, <1>2
<1> QED BY <1>3, FS_Singleton

(* The types of the walk's state, for any names, limits and page sizes.    *)
THEOREM ListingTypes == Spec => []TypeOK
<1>1. ListingInv => TypeOK
  BY DEF ListingInv
<1> QED BY <1>1, ListingInvHolds, PTL

(* A walk that came to its last page has returned each file that stayed    *)
(* exactly once, whatever other requests made or deleted meanwhile and     *)
(* however the pages fell: list_files' cursor, FS list's sort and skip,    *)
(* and S3 list's start_after and continuation token.                       *)
THEOREM ListedOnce == Spec => []StableListedOnce
<1>1. ListingInv => StableListedOnce
  <2> SUFFICES ASSUME ListingInv, phase = "done", NEW n \in stable
               PROVE  Cardinality({i \in DOMAIN returned : returned[i] = n}) = 1
    BY DEF StableListedOnce
  <2>1. returned \in Seq(Names) /\ Tidy(returned, stable) /\ Holds(returned, n)
    BY DEF ListingInv, TypeOK, PagesInv
  <2> QED BY <2>1, HeldOnce
<1> QED BY <1>1, ListingInvHolds, PTL

(* The names of all the pages of a walk come in order, and a file comes    *)
(* twice only if it was made again: FS list sorts what readdir delivers,   *)
(* and a page begins after the last name of the page before.               *)
THEOREM ListedInOrder == Spec => []InOrder
<1>1. ListingInv => InOrder
  BY DEF ListingInv, PagesInv, Tidy, InOrder
<1> QED BY <1>1, ListingInvHolds, PTL

(* Nothing is collected that was not a regular file in the root since the  *)
(* request began: symlink_metadata in FS list, root-level keys in S3 list. *)
THEOREM ListedExisted == Spec => []NothingInvented
<1>1. ListingInv => NothingInvented
  BY DEF ListingInv, StoreInv, NothingInvented
<1> QED BY <1>1, ListingInvHolds, PTL

-----------------------------------------------------------------------------
(* What Walk promises: every step of a listing is a step of the promise,   *)
(* or none that a client could tell.                                       *)

LEMMA PagePromised ==
    ASSUME ListingInv, NEW page, PageReply(page)
    PROVE  /\ page \in [1..Len(page) -> seen] /\ Len(page) \in 0..limit
           /\ Promise!Sound(page) /\ Promise!Sorted(page) /\ Promise!Complete(page)
<1>1. Page(page, stable, cursor, limit) /\ \A i \in DOMAIN page : page[i] \in seen
  BY DEF PageReply
<1>2. page \in Seq(Names) /\ Len(page) <= limit /\ limit \in Nat
  BY <1>1, ListingAssumption DEF Page, ListingInv, TypeOK
<1>3. DOMAIN page = 1..Len(page) /\ Len(page) \in Nat
  BY <1>2, InNames
<1>4. page \in [1..Len(page) -> seen]
  BY <1>1, <1>2, <1>3, LenProperties
<1>5. Len(page) \in 0..limit
  BY <1>2, <1>3
<1>6. Promise!Sound(page)
  BY <1>1 DEF Page, Promise!Sound
<1>7. Promise!Sorted(page)
  BY <1>1 DEF Page, Tidy, Promise!Sorted
<1>8. Promise!Complete(page)
  BY <1>1 DEF Page, Holds, Promise!Complete
<1> QED BY <1>4, <1>5, <1>6, <1>7, <1>8

LEMMA ReplyPromised ==
    ASSUME ListingInv, NEW page, PageReply(page)
    PROVE  Promise!Answer
<1>1. /\ phase \in {"scanning", "paging"} /\ Reply(page)
      /\ UNCHANGED <<store, limit, stable, seen>>
  BY DEF PageReply
<1>2. Status = "asked"
  BY <1>1 DEF Status
<1>3. PICK n \in 0..limit : n = Len(page)
  BY PagePromised
<1>4. /\ page \in [1..n -> seen]
      /\ Promise!Sound(page) /\ Promise!Sorted(page) /\ Promise!Complete(page)
  BY <1>3, PagePromised
<1>5. returned' = returned \o page
  BY <1>1 DEF Reply
<1>6. \/ n = limit /\ Status' = "idle" /\ cursor' = page[limit]
      \/ n < limit /\ Status' = "done" /\ cursor' = 0
  <2>1. CASE n = limit
    BY <1>1, <1>3, <2>1 DEF Reply, Status
  <2>2. CASE n # limit
    <3>1. n < limit
      <4>1. limit \in Nat
        BY ListingAssumption DEF ListingInv, TypeOK
      <4> QED BY <1>3, <2>2, <4>1
    <3> QED BY <1>1, <1>3, <2>2, <3>1 DEF Reply, Status, None
  <2> QED BY <2>1, <2>2
<1>7. UNCHANGED <<Files, stable, seen, limit>>
  BY <1>1 DEF Files
<1> QED BY <1>2, <1>4, <1>5, <1>6, <1>7 DEF Promise!Answer

LEMMA RequestPromised ==
    ASSUME ListingInv, NEW asked \in Asked, Request(asked)
    PROVE  Promise!Ask
<1>1. /\ phase = "client" /\ phase' = Verdict(asked) /\ seen' = Files
      /\ UNCHANGED <<store, cursor, returned, stable>>
  BY DEF Request
<1>2. limit' \in 1..MaxLimit
  BY RequestKeeps DEF ListingInv, TypeOK
<1>3. Status = "idle" /\ Status' \in {"asked", "refused"}
  BY <1>1 DEF Status, Verdict
<1>4. UNCHANGED Files
  BY <1>1 DEF Files
<1> QED BY <1>1, <1>2, <1>3, <1>4 DEF Promise!Ask

LEMMA FailsPromised == Fails => Promise!Fail
BY DEF Fails, Promise!Fail, Status, Files, request, history

LEMMA CreatePromised ==
    ASSUME ListingInv, NEW n \in Names, Create(n)
    PROVE  Promise!Appear(n) \/ UNCHANGED Promise!vars
<1>1. PICK kind \in KindsOf(n) : Change(n, kind) /\ seen' = IF kind = "file" THEN seen \cup {n} ELSE seen
  BY DEF Create
<1>2. /\ store[n] = "absent" /\ store \in [Names -> {"file", "other", "absent"}]
      /\ store' = [store EXCEPT ![n] = kind]
      /\ UNCHANGED <<phase, cursor, limit, returned, stable>>
  BY <1>1 DEF Create, Change, request, ListingInv, TypeOK
<1>3. \A m \in Names : store'[m] = IF m = n THEN kind ELSE store[m]
  BY <1>2
<1>4. UNCHANGED Status
  BY <1>2 DEF Status
<1>5. CASE kind = "file"
  <2>1. Files' = Files \cup {n}
    BY <1>3, <1>5 DEF Files
  <2> QED BY <1>1, <1>2, <1>4, <1>5, <2>1 DEF Promise!Appear
<1>6. CASE kind # "file"
  <2>1. Files' = Files
    BY <1>2, <1>3, <1>6 DEF Files
  <2> QED BY <1>1, <1>2, <1>4, <1>6, <2>1 DEF Promise!vars
<1> QED BY <1>5, <1>6

LEMMA DeletePromised ==
    ASSUME ListingInv, NEW n \in Names, Delete(n)
    PROVE  Promise!Vanish(n)
<1>1. /\ store \in [Names -> {"file", "other", "absent"}]
      /\ store' = [store EXCEPT ![n] = "absent"]
      /\ stable' = stable \ {n}
      /\ UNCHANGED <<phase, cursor, limit, returned, seen>>
  BY DEF Delete, Change, request, ListingInv, TypeOK
<1>2. \A m \in Names : store'[m] = IF m = n THEN "absent" ELSE store[m]
  BY <1>1
<1>3. Files' = Files \ {n}
  BY <1>2 DEF Files
<1> QED BY <1>1, <1>3 DEF Promise!Vanish, Status

LEMMA InitPromised == Init => Promise!Init
<1> SUFFICES ASSUME Init PROVE Promise!Init
  OBVIOUS
<1>1. Files \in SUBSET Names
  BY DEF Files
<1>2. Status = "idle"
  BY DEF Init, Status
<1> QED BY <1>1, <1>2, ListingAssumption DEF Init, Promise!Init, None

LEMMA StepPromised == ListingInv /\ [Next]_vars => [Promise!Next]_(Promise!vars)
<1> SUFFICES ASSUME ListingInv, [Next]_vars PROVE [Promise!Next]_(Promise!vars)
  OBVIOUS
<1>1. ASSUME NEW asked \in Asked, Request(asked) PROVE Promise!Next
  BY <1>1, RequestPromised DEF Promise!Next
<1>2. ASSUME NEW n \in Names, ScanEntry(n) PROVE UNCHANGED Promise!vars
  BY <1>2 DEF ScanEntry, Promise!vars, Files, Status, request, history
<1>3. ASSUME NEW n \in Names, Create(n) PROVE Promise!Next \/ UNCHANGED Promise!vars
  BY <1>3, CreatePromised DEF Promise!Next
<1>4. ASSUME NEW n \in Names, Delete(n) PROVE Promise!Next
  BY <1>4, DeletePromised DEF Promise!Next
<1>5. ASSUME ScanEnd \/ S3Answer PROVE Promise!Next \/ UNCHANGED Promise!vars
  <2>1. (\E page : PageReply(page)) \/ Unanswered
    BY <1>5, ScanEndPage, S3AnswerPage
  <2>2. ASSUME NEW page, PageReply(page) PROVE Promise!Next
    BY <2>2, ReplyPromised DEF Promise!Next
  <2>3. Unanswered => UNCHANGED Promise!vars
    BY DEF Unanswered, Promise!vars, Files, Status
  <2> QED BY <2>1, <2>2, <2>3
<1>6. Fails => Promise!Next
  BY FailsPromised DEF Promise!Next
<1>7. UNCHANGED vars => UNCHANGED Promise!vars
  BY DEF vars, Promise!vars, Files, Status, request, history
<1> QED BY <1>1, <1>2, <1>3, <1>4, <1>5, <1>6, <1>7 DEF Next

(* A directory scan and S3's paging both implement the listing that Walk   *)
(* describes: each page list_files returns is in order, holds only files   *)
(* of the root that were there while the request ran, skips none that      *)
(* stayed, and has a nextCursor exactly if it is full.                     *)
THEOREM PagesAsPromised == Spec => WalkRefinement
<1>1. Init => Promise!Init
  BY InitPromised
<1>2. ListingInv /\ [Next]_vars => [Promise!Next]_(Promise!vars)
  BY StepPromised
<1>3. Promise!Init /\ [][Promise!Next]_(Promise!vars) => Promise!Spec
  BY DEF Promise!Spec
<1> QED BY <1>1, <1>2, <1>3, ListingInvHolds, PTL DEF Spec, WalkRefinement

(* The promise is all that a complete walk needs: an invariant of Walk     *)
(* that speaks of no backend.                                              *)
PromiseInv ==
    /\ returned \in Seq(Names) /\ cursor \in Names \cup {None} /\ limit \in 1..MaxLimit
    /\ stable \subseteq Names /\ seen \subseteq Names /\ Files \subseteq seen
    /\ Tidy(returned, stable)
    /\ Status \in {"idle", "asked"} => Covers(returned, stable, None, cursor)
    /\ Status = "done" => \A m \in stable : Holds(returned, m)

LEMMA PromiseInit == Promise!Init => PromiseInv
<1> SUFFICES ASSUME Promise!Init PROVE PromiseInv
  OBVIOUS
<1>1. /\ returned = <<>> /\ cursor = None /\ limit \in 1..MaxLimit /\ Status = "idle"
      /\ stable = Files /\ seen = Files /\ Files \subseteq Names
  BY DEF Promise!Init, None
<1>2. ASSUME NEW m \in stable PROVE ~(None < m /\ m <= None)
  <2>1. m \in Nat
    BY <1>1, ListingAssumption
  <2> QED BY <2>1 DEF None
<1>3. Covers(returned, stable, None, cursor)
  BY <1>1, <1>2, EmptyIs DEF Covers
<1> QED BY <1>1, <1>3, EmptyIs DEF PromiseInv

LEMMA PromiseAnswerKeeps == PromiseInv /\ Promise!Answer => PromiseInv'
<1> SUFFICES ASSUME PromiseInv, Promise!Answer PROVE PromiseInv'
  OBVIOUS
<1>1. PICK n \in 0..limit : \E p \in [1..n -> seen] :
         /\ Promise!Sound(p) /\ Promise!Sorted(p) /\ Promise!Complete(p)
         /\ returned' = returned \o p
         /\ \/ n = limit /\ Status' = "idle" /\ cursor' = p[limit]
            \/ n < limit /\ Status' = "done" /\ cursor' = 0
  BY DEF Promise!Answer
<1>2. PICK page \in [1..n -> seen] :
         /\ Promise!Sound(page) /\ Promise!Sorted(page) /\ Promise!Complete(page)
         /\ returned' = returned \o page
         /\ \/ n = limit /\ Status' = "idle" /\ cursor' = page[limit]
            \/ n < limit /\ Status' = "done" /\ cursor' = 0
  BY <1>1
<1>3. Status = "asked" /\ UNCHANGED <<Files, stable, seen, limit>>
  BY DEF Promise!Answer
<1>4. /\ returned \in Seq(Names) /\ stable \in SUBSET Names /\ cursor \in Names \cup {None}
      /\ limit \in 1..MaxLimit /\ seen \subseteq Names /\ Files \subseteq seen
      /\ Tidy(returned, stable) /\ Covers(returned, stable, None, cursor)
  BY <1>3 DEF PromiseInv
<1>5. page \in Seq(Names) /\ Len(page) = n /\ n <= limit /\ n \in Nat
  <2>1. page \in [1..n -> Names]
    BY <1>4
  <2>2. limit \in Nat
    BY <1>4, ListingAssumption
  <2>3. n \in Nat /\ n <= limit
    BY <2>2
  <2>4. page \in Seq(Names)
    BY <2>1, <2>3, SeqDef
  <2>5. DOMAIN page = 1..n /\ DOMAIN page = 1..Len(page) /\ Len(page) \in Nat
    BY <2>1, <2>4, LenProperties
  <2>6. Len(page) = n
    BY <2>3, <2>5
  <2> QED BY <2>3, <2>4, <2>6
<1>6. Page(page, stable, cursor, limit)
  BY <1>2, <1>5 DEF Page, Tidy, Holds, Promise!Sound, Promise!Sorted, Promise!Complete
<1>7. /\ returned' \in Seq(Names) /\ Tidy(returned', stable)
      /\ n = limit => page[limit] \in Names /\ Covers(returned', stable, None, page[limit])
      /\ n # limit => \A m \in stable : Holds(returned', m)
  BY <1>2, <1>4, <1>5, <1>6, JoinedPage
<1>8. CASE n = limit /\ Status' = "idle" /\ cursor' = page[limit]
  BY <1>3, <1>4, <1>7, <1>8 DEF PromiseInv
<1>9. CASE n < limit /\ Status' = "done" /\ cursor' = 0
  <2>1. n # limit
    BY <1>5, <1>9
  <2> QED BY <1>3, <1>4, <1>7, <1>9, <2>1 DEF PromiseInv, None
<1> QED BY <1>2, <1>8, <1>9

LEMMA PromiseStep == PromiseInv /\ [Promise!Next]_(Promise!vars) => PromiseInv'
<1> SUFFICES ASSUME PromiseInv, [Promise!Next]_(Promise!vars) PROVE PromiseInv'
  OBVIOUS
<1>1. Files \subseteq Names
  BY DEF Files
<1>2. Promise!Ask => PromiseInv'
  BY <1>1 DEF Promise!Ask, PromiseInv
<1>3. Promise!Fail => PromiseInv'
  BY DEF Promise!Fail, PromiseInv
<1>4. ASSUME NEW n \in Names, Promise!Appear(n) PROVE PromiseInv'
  BY <1>4 DEF Promise!Appear, PromiseInv
<1>5. ASSUME NEW n \in Names, Promise!Vanish(n) PROVE PromiseInv'
  <2>1. /\ Files' = Files \ {n} /\ stable' = stable \ {n} /\ Status' = Status
        /\ UNCHANGED <<seen, limit, cursor, returned>>
    BY <1>5 DEF Promise!Vanish
  <2>2. Tidy(returned, stable')
    BY <2>1 DEF PromiseInv, Tidy
  <2>3. Status \in {"idle", "asked"} => Covers(returned, stable', None, cursor)
    BY <2>1 DEF PromiseInv, Covers
  <2> QED BY <2>1, <2>2, <2>3 DEF PromiseInv
<1>6. UNCHANGED Promise!vars => PromiseInv'
  BY DEF Promise!vars, PromiseInv
<1> QED BY <1>2, <1>3, <1>4, <1>5, <1>6, PromiseAnswerKeeps DEF Promise!Next

(* A client that relies on the documented listing alone (ListOptions and   *)
(* ListFilesMeta, as Walk states them) gets a complete walk in order: what *)
(* it gets does not depend on how a backend scans or pages.                *)
THEOREM PromiseSuffices == Promise!Spec => [](StableListedOnce /\ InOrder)
<1>1. Promise!Spec => []PromiseInv
  BY PromiseInit, PromiseStep, PTL DEF Promise!Spec
<1>2. PromiseInv => StableListedOnce
  <2> SUFFICES ASSUME PromiseInv, phase = "done", NEW n \in stable
               PROVE  Cardinality({i \in DOMAIN returned : returned[i] = n}) = 1
    BY DEF StableListedOnce
  <2>1. Status = "done"
    BY DEF Status
  <2> QED BY <2>1, HeldOnce DEF PromiseInv
<1>3. PromiseInv => InOrder
  BY DEF PromiseInv, Tidy, InOrder
<1> QED BY <1>1, <1>2, <1>3, PTL
===============================================================================
