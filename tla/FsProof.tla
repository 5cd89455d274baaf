------------------------------- MODULE FsProof -------------------------------
(***************************************************************************)
(* Paths below the data directory and keys below bucket_path, for any      *)
(* names, any data directory and any bucket_path: what is opened is what   *)
(* the path names, and a key leads back to its path.                       *)
(***************************************************************************)
EXTENDS FsBackend, SequenceTheorems, WellFoundedInduction, TLAPS

-----------------------------------------------------------------------------
(* Facts about sequences.                                                  *)

(* A set of natural numbers has a least member.                            *)
LEMMA Least == ASSUME NEW T \in SUBSET Nat, T # {} PROVE \E n \in T : \A m \in T : n <= m
<1> DEFINE R == {p \in Nat \X Nat : p[1] < p[2]}
<1>1. R = OpToRel(<, Nat)
  BY DEF OpToRel
<1>2. IsWellFoundedOn(R, Nat)
  BY <1>1, NatLessThanWellFounded
<1> HIDE DEF R
<1>3. PICK n \in T : \A m \in T : <<m, n>> \notin R
  BY <1>2, WFMin
<1>4. ASSUME NEW m \in T PROVE n <= m
  <2>1. <<m, n>> \in Nat \X Nat /\ <<m, n>>[1] = m /\ <<m, n>>[2] = n
    OBVIOUS
  <2>2. ~(m < n)
    BY <1>3, <2>1 DEF R
  <2> QED BY <2>2
<1> QED BY <1>4

(* The components of a path are its segments without the empty ones and    *)
(* the dots.                                                               *)
LEMMA ComponentsAre ==
    ASSUME NEW S, NEW s \in Seq(S)
    PROVE  Components(s) \in Seq(S \ {Nil, Dot})
<1> DEFINE L == Len(s)
           Kept == Seq(S \ {Nil, Dot})
           Step(f, i) == IF i = 0 THEN <<>>
                         ELSE IF s[i] \in {Nil, Dot} THEN f[i - 1]
                         ELSE Append(f[i - 1], s[i])
           Good(f, n) == f = [i \in 0..n |-> Step(f, i)]
           upTo == CHOOSE f : f = [i \in 0..L |-> Step(f, i)]
<1>1. L \in Nat /\ \A i \in 1..L : s[i] \in S
  BY LenProperties
<1>0. L \in Nat /\ L \in 0..L
  BY LenProperties
<1>2. Components(s) = upTo[L]
  BY DEF Components
<1> HIDE DEF L
(* Such a function exists up to 0, and up to n + 1 if it does up to n.     *)
<1>3. \E f : Good(f, L)
  <2> DEFINE T == {n \in 0..L : ~\E f : Good(f, n)}
  <2>1. SUFFICES ASSUME T # {} PROVE FALSE
    BY <1>0
  <2>0. T \in SUBSET Nat
    BY <1>0
  <2>2. PICK n \in T : \A m \in T : n <= m
    BY <2>0, <2>1, Least
  <2>3. CASE n = 0
    <3> DEFINE f == [i \in 0..0 |-> <<>>]
    <3>1. \A i \in 0..0 : i = 0
      OBVIOUS
    <3>2. f = [i \in 0..0 |-> Step(f, i)]
      BY <3>1
    <3> QED BY <2>2, <2>3, <3>2
  <2>4. CASE n # 0
    <3>0. n \in 0..L
      BY <2>2
    <3>1. n - 1 \in 0..L /\ n - 1 \notin T
      <4>1. n - 1 \in 0..L /\ ~(n <= n - 1)
        BY <1>0, <2>4, <3>0
      <4> HIDE DEF T
      <4> QED BY <2>2, <4>1
    <3>2. PICK f : Good(f, n - 1)
      BY <3>1
    <3> DEFINE g == [i \in 0..n |-> IF i = n THEN Step(f, n) ELSE f[i]]
    <3>3. ASSUME NEW i \in 0..n PROVE g[i] = Step(g, i)
      <4>1. CASE i = 0
        <5>1. 0 \in 0..(n - 1) /\ i # n
          BY <1>0, <2>2, <2>4, <4>1
        <5>2. f[0] = Step(f, 0)
          BY <3>2, <5>1
        <5> QED BY <4>1, <5>1, <5>2
      <4>2. CASE i # 0
        <5>1. i - 1 \in 0..n /\ i - 1 # n
          BY <1>0, <2>2, <4>2
        <5>2. g[i - 1] = f[i - 1]
          BY <5>1
        <5>3. Step(g, i) = Step(f, i)
          BY <4>2, <5>2
        <5>4. g[i] = Step(f, i)
          <6>1. CASE i = n
            BY <6>1
          <6>2. CASE i # n
            <7>1. i \in 0..(n - 1)
              BY <1>0, <2>2, <6>2
            <7>2. f[i] = Step(f, i)
              BY <3>2, <7>1
            <7> QED BY <6>2, <7>2
          <6> QED BY <6>1, <6>2
        <5> QED BY <5>3, <5>4
      <4> QED BY <4>1, <4>2
    <3>4. g = [i \in 0..n |-> Step(g, i)]
      <4>1. g = [i \in 0..n |-> g[i]]
        OBVIOUS
      <4> HIDE DEF g, Step
      <4> QED BY <3>3, <4>1
    <3> HIDE DEF g
    <3> QED BY <2>2, <3>4
  <2> QED BY <2>3, <2>4
<1>4. upTo = [i \in 0..L |-> Step(upTo, i)]
  <2> HIDE DEF Step
  <2> QED BY <1>3
<1> HIDE DEF upTo
(* All of its values are sequences of what is kept.                        *)
<1>5. \A i \in 0..L : upTo[i] \in Kept
  <2> DEFINE T == {i \in 0..L : upTo[i] \notin Kept}
  <2>1. SUFFICES ASSUME T # {} PROVE FALSE
    OBVIOUS
  <2>0. T \in SUBSET Nat
    BY <1>0
  <2>2. PICK n \in T : \A m \in T : n <= m
    BY <2>0, <2>1, Least
  <2>3. upTo[n] = Step(upTo, n)
    BY <1>4, <2>2
  <2>4. CASE n = 0
    <3>1. upTo[n] = <<>> /\ <<>> \in Kept
      BY <2>3, <2>4
    <3> QED BY <2>2, <3>1
  <2>5. CASE n # 0
    <3>1. n - 1 \in 0..L /\ n - 1 \notin T /\ n \in 1..L
      BY <1>0, <2>2, <2>5
    <3>2. upTo[n - 1] \in Kept
      BY <3>1
    <3>3. CASE s[n] \in {Nil, Dot}
      BY <2>2, <2>3, <2>5, <3>2, <3>3
    <3>4. CASE s[n] \notin {Nil, Dot}
      <4>1. s[n] \in S \ {Nil, Dot}
        BY <1>1, <3>1, <3>4
      <4>2. Append(upTo[n - 1], s[n]) \in Kept
        BY <3>2, <4>1, AppendProperties
      <4> QED BY <2>2, <2>3, <2>5, <3>4, <4>2
    <3> QED BY <3>3, <3>4
  <2> QED BY <2>4, <2>5
<1> QED BY <1>0, <1>2, <1>5

(* A concatenation begins with its first part and ends with its second.    *)
LEMMA ConcatParts ==
    ASSUME NEW S, NEW s \in Seq(S), NEW t \in Seq(S)
    PROVE  LET u == s \o t IN
           /\ u \in Seq(S) /\ Len(u) = Len(s) + Len(t)
           /\ SubSeq(u, 1, Len(s)) = s
           /\ SubSeq(u, Len(s) + 1, Len(u)) = t
<1> DEFINE u == s \o t
           a == Len(s)
           b == Len(t)
<1>1. a \in Nat /\ b \in Nat
  BY LenProperties
<1>2. (\A i \in 1..a : s[i] \in S) /\ \A i \in 1..b : t[i] \in S
  BY LenProperties
<1>3. /\ u \in Seq(S) /\ Len(u) = a + b
      /\ \A i \in 1..(a + b) : u[i] = IF i <= a THEN s[i] ELSE t[i - a]
  BY ConcatProperties
<1> HIDE DEF u, a, b
<1>4. ASSUME NEW i \in 1..a PROVE u[i] = s[i] /\ u[i] \in S
  <2>1. i \in 1..(a + b) /\ i <= a
    BY <1>1
  <2> QED BY <1>2, <1>3, <2>1
<1>5. ASSUME NEW i \in (a + 1)..(a + b) PROVE u[i] = t[i - a] /\ u[i] \in S
  <2>1. i \in 1..(a + b) /\ ~(i <= a) /\ i - a \in 1..b
    BY <1>1
  <2> QED BY <1>2, <1>3, <2>1
<1>6. SubSeq(u, 1, a) = s
  <2> DEFINE v == SubSeq(u, 1, a)
  <2>1. 1 \in Int /\ a \in Int
    BY <1>1
  <2>2. /\ v \in Seq(S) /\ Len(v) = IF 1 <= a THEN a - 1 + 1 ELSE 0
        /\ \A i \in 1..(a - 1 + 1) : v[i] = u[1 + i - 1]
    BY <1>4, <2>1, SubSeqProperties
  <2> HIDE DEF v
  <2>3. Len(v) = a
    BY <1>1, <2>2
  <2>4. ASSUME NEW i \in 1..a PROVE v[i] = s[i]
    <3>1. i \in 1..(a - 1 + 1) /\ 1 + i - 1 = i
      BY <1>1
    <3> QED BY <1>4, <2>2, <3>1
  <2>5. v = s
    BY <2>2, <2>3, <2>4, SeqEqual DEF a
  <2> QED BY <2>5 DEF v
<1>7. SubSeq(u, a + 1, a + b) = t
  <2> DEFINE lo == a + 1
             hi == a + b
             v == SubSeq(u, lo, hi)
  <2>1. lo \in Int /\ hi \in Int /\ \A i \in lo..hi : u[i] \in S
    BY <1>1, <1>5
  <2> HIDE DEF lo, hi
  <2>2. /\ v \in Seq(S) /\ Len(v) = IF lo <= hi THEN hi - lo + 1 ELSE 0
        /\ \A i \in 1..(hi - lo + 1) : v[i] = u[lo + i - 1]
    BY <2>1, SubSeqProperties
  <2> HIDE DEF v
  <2>3. Len(v) = b
    BY <1>1, <2>2 DEF lo, hi
  <2>4. ASSUME NEW i \in 1..b PROVE v[i] = t[i]
    <3>1. PICK j \in (a + 1)..(a + b) : j = a + i
      BY <1>1
    <3>2. i \in 1..(hi - lo + 1) /\ lo + i - 1 = j /\ j - a = i
      BY <1>1, <3>1 DEF lo, hi
    <3> QED BY <1>5, <2>2, <3>2
  <2>5. v = t
    BY <2>2, <2>3, <2>4, SeqEqual DEF b
  <2> QED BY <2>5 DEF v, lo, hi
<1> QED BY <1>3, <1>6, <1>7 DEF u, a, b

-----------------------------------------------------------------------------
(* Keys below bucket_path.                                                 *)

(* What stands before a path in its key.                                   *)
Dirs(prefix) ==
    IF prefix = <<Nil>> THEN <<>>
    ELSE IF EndsWithSlash(prefix) THEN SubSeq(prefix, 1, Len(prefix) - 1)
    ELSE prefix

LEMMA DirsAre ==
    ASSUME NEW prefix \in Seq(Segment), prefix # <<>>
    PROVE  /\ Dirs(prefix) \in Seq(Segment)
           /\ prefix # <<Nil>> => Len(Dirs(prefix)) > 0 /\ Dirs(prefix)[1] = prefix[1]
<1> DEFINE n == Len(prefix)
           v == SubSeq(prefix, 1, n - 1)
<1>1. n \in Nat
  BY LenProperties
<1>2. n # 0
  BY EmptySeq
<1>3. \A i \in 1..n : prefix[i] \in Segment
  BY LenProperties
<1>4. CASE prefix = <<Nil>>
  BY <1>4 DEF Dirs
<1>5. CASE prefix # <<Nil>> /\ ~EndsWithSlash(prefix)
  <2>1. Dirs(prefix) = prefix
    BY <1>5 DEF Dirs
  <2>2. n > 0
    BY <1>1, <1>2
  <2> QED BY <2>1, <2>2
<1>6. CASE prefix # <<Nil>> /\ EndsWithSlash(prefix)
  <2>1. prefix[n] = Nil
    BY <1>6 DEF EndsWithSlash
  <2>2. n # 1
    <3> SUFFICES ASSUME n = 1 PROVE FALSE
      OBVIOUS
    <3>1. Len(<<Nil>>) = n /\ <<Nil>> \in Seq(Segment) /\ <<Nil>>[1] = Nil
      BY DEF Segment
    <3>2. \A i \in 1..n : i = 1
      OBVIOUS
    <3>3. prefix = <<Nil>>
      BY <2>1, <3>1, <3>2, SeqEqual
    <3> QED BY <1>6, <3>3
  <2>3. 1 \in Int /\ n - 1 \in Int /\ \A i \in 1..(n - 1) : prefix[i] \in Segment
    BY <1>1, <1>3
  <2>4. /\ v \in Seq(Segment) /\ Len(v) = IF 1 <= n - 1 THEN n - 1 - 1 + 1 ELSE 0
        /\ \A i \in 1..(n - 1 - 1 + 1) : v[i] = prefix[1 + i - 1]
    BY <2>3, SubSeqProperties
  <2>5. Dirs(prefix) = v
    BY <1>6 DEF Dirs
  <2> HIDE DEF v, n
  <2>6. Len(v) > 0 /\ 1 \in 1..(n - 1 - 1 + 1) /\ 1 + 1 - 1 = 1
    BY <1>1, <1>2, <2>2, <2>4
  <2>7. v[1] = prefix[1]
    BY <2>4, <2>6
  <2> QED BY <2>4, <2>5, <2>6, <2>7
<1> QED BY <1>4, <1>5, <1>6

(* strip_prefix undoes key, for every bucket_path and every path.          *)
LEMMA StripUndoesKey ==
    ASSUME NEW prefix \in Seq(Segment), prefix # <<>>, NEW p \in Seq(Segment), p # <<>>
    PROVE  /\ StripPrefix(prefix, Key(prefix, p)) = {p}
           /\ prefix # <<Nil>> => Key(prefix, p)[1] = prefix[1] /\ Len(Key(prefix, p)) > 1
<1> DEFINE d == Dirs(prefix)
           key == d \o p
<1>1. d \in Seq(Segment) /\ Len(d) \in Nat /\ Len(p) \in Nat
  BY DirsAre, LenProperties
<1>2. Len(p) > 0
  <2>1. Len(p) # 0
    BY EmptySeq
  <2> QED BY <1>1, <2>1
<1>3. Key(prefix, p) = key
  <2>1. prefix = <<Nil>> => key = p
    BY ConcatEmptySeq DEF Dirs
  <2> QED BY <2>1 DEF Key, Dirs
<1>4. StripPrefix(prefix, key) = IF Len(key) > Len(d) /\ SubSeq(key, 1, Len(d)) = d
                                 THEN {SubSeq(key, Len(d) + 1, Len(key))} ELSE {}
  BY DEF StripPrefix, Dirs
<1> HIDE DEF d
<1>5. /\ Len(key) = Len(d) + Len(p) /\ SubSeq(key, 1, Len(d)) = d
      /\ SubSeq(key, Len(d) + 1, Len(key)) = p
  BY <1>1, ConcatParts
<1>6. \A i \in 1..(Len(d) + Len(p)) : key[i] = IF i <= Len(d) THEN d[i] ELSE p[i - Len(d)]
  BY <1>1, ConcatProperties
<1> HIDE DEF key
<1>7. Len(key) > Len(d)
  BY <1>1, <1>2, <1>5
<1>8. ASSUME prefix # <<Nil>> PROVE key[1] = prefix[1] /\ Len(key) > 1
  <2>1. Len(d) > 0 /\ d[1] = prefix[1]
    BY <1>8, DirsAre DEF d
  <2>2. 1 \in 1..(Len(d) + Len(p)) /\ 1 <= Len(d) /\ Len(d) + Len(p) > 1
    BY <1>1, <1>2, <2>1
  <2> QED BY <1>5, <1>6, <2>1, <2>2
<1> QED BY <1>3, <1>4, <1>5, <1>7, <1>8

-----------------------------------------------------------------------------
(* The places that paths name.                                             *)

LEMMA PathsAreSequences ==
    /\ path \in Requests => path \in Seq(Segment) /\ path # <<>>
    /\ bucketPath \in BucketPaths => bucketPath \in Seq(Segment) /\ bucketPath # <<>>
BY FsAssumption

(* Both parts of a sequence of names.                                      *)
LEMMA PartsAre ==
    ASSUME NEW names \in Seq(Names), NEW n \in 0..Len(names)
    PROVE  /\ UpTo(names, n) \in Seq(Names) /\ Len(UpTo(names, n)) = n
           /\ After(names, n) \in Seq(Names) /\ Len(After(names, n)) = Len(names) - n
           /\ n = Len(names) => UpTo(names, n) = names
<1> DEFINE a == Len(names)
           lo == n + 1
           u == SubSeq(names, 1, n)
           v == SubSeq(names, lo, a)
<1>1. a \in Nat /\ n \in 0..a /\ \A i \in 1..a : names[i] \in Names
  BY LenProperties
<1>2. UpTo(names, n) = u /\ After(names, n) = v
  BY DEF UpTo, After
<1> HIDE DEF a
<1>3. u \in Seq(Names) /\ Len(u) = n /\ \A i \in 1..n : u[i] = names[i]
  <2>1. 1 \in Int /\ n \in Int /\ \A i \in 1..n : names[i] \in Names
    BY <1>1
  <2>2. /\ u \in Seq(Names) /\ Len(u) = IF 1 <= n THEN n - 1 + 1 ELSE 0
        /\ \A i \in 1..(n - 1 + 1) : u[i] = names[1 + i - 1]
    BY <2>1, SubSeqProperties
  <2> HIDE DEF u
  <2>3. Len(u) = n
    BY <1>1, <2>2
  <2>4. ASSUME NEW i \in 1..n PROVE u[i] = names[i]
    <3>1. i \in 1..(n - 1 + 1) /\ 1 + i - 1 = i
      BY <1>1
    <3> QED BY <2>2, <3>1
  <2> QED BY <2>2, <2>3, <2>4
<1>4. v \in Seq(Names) /\ Len(v) = a - n
  <2>1. lo \in Int /\ a \in Int /\ \A i \in lo..a : names[i] \in Names
    BY <1>1
  <2> HIDE DEF lo
  <2>2. v \in Seq(Names) /\ Len(v) = IF lo <= a THEN a - lo + 1 ELSE 0
    BY <2>1, SubSeqProperties
  <2> HIDE DEF v
  <2> QED BY <1>1, <2>2 DEF lo
<1> HIDE DEF u, v
<1>5. n = a => u = names
  BY <1>3, SeqEqual DEF a
<1> QED BY <1>2, <1>3, <1>4, <1>5 DEF a

LEMMA PlaceIs ==
    ASSUME NEW tree \in {"root", "outside"}, NEW names \in Seq(Names), Len(names) \in 1..Depth
    PROVE  <<tree, names>> \in Place
<1>1. names \in [1..Len(names) -> Names]
  BY LenProperties
<1> QED BY <1>1 DEF Place

(* A path that resolve accepts is made of names, Depth of them at most     *)
(* below the root.                                                         *)
LEMMA RestIs ==
    ASSUME path \in Requests, Valid(path), Inside(path)
    PROVE  Rest \in Seq(Names) /\ Len(Rest) \in 0..Depth
<1> DEFINE full == Joined(path)
           lo == Len(RootPath) + 1
           hi == Len(full)
<1>1. path \in Seq(Names \cup {Nil})
  <2>1. Len(path) \in Nat /\ path \in [1..Len(path) -> Segment]
    BY PathsAreSequences, LenProperties
  <2>2. path \in [1..Len(path) -> Names \cup {Nil}]
    BY <2>1 DEF Valid, Segment
  <2> QED BY <2>1, <2>2, SeqDef
<1>2. Components(path) \in Seq(Names)
  <2>1. Components(path) \in Seq((Names \cup {Nil}) \ {Nil, Dot})
    BY <1>1, ComponentsAre
  <2>2. (Names \cup {Nil}) \ {Nil, Dot} = Names
    BY PathsAssumption
  <2> QED BY <2>1, <2>2
<1>3. full \in Seq(Names)
  <2>1. RootPath \o Components(path) \in Seq(Names)
    BY <1>2, PathsAssumption, ConcatProperties
  <2> QED BY <1>2, <2>1 DEF Joined
<1>4. hi \in Nat /\ (\A i \in 1..hi : full[i] \in Names) /\ Len(RootPath) \in Nat
  BY <1>3, PathsAssumption, LenProperties
<1>5. Rest = SubSeq(full, lo, hi)
  BY DEF Rest, Below
<1> HIDE DEF full, hi
<1>6. lo \in Int /\ hi \in Int /\ \A i \in lo..hi : full[i] \in Names
  BY <1>4
<1> HIDE DEF lo
<1>7. Rest \in Seq(Names) /\ Len(Rest) \in Nat
  BY <1>3, <1>5, <1>6, SubSeqProperties, LenProperties
<1>8. Len(Rest) <= Depth
  BY FsAssumption DEF Rest
<1> QED BY <1>7, <1>8, FsAssumption

(* A walk takes at least one name, and directories before the last it      *)
(* takes.                                                                  *)
LEMMA TakenIs ==
    ASSUME NEW tree, NEW names \in Seq(Names), Len(names) > 0
    PROVE  /\ Taken(tree, names) \in 1..Len(names)
           /\ \A m \in 1..(Taken(tree, names) - 1) : entry[<<tree, UpTo(names, m)>>] = "dir"
<1> DEFINE a == Len(names)
           T == {n \in 1..a : n = a \/ entry[<<tree, UpTo(names, n)>>] # "dir"}
           t == CHOOSE n \in T : \A m \in T : n <= m
<1>1. a \in Nat /\ a > 0
  BY LenProperties
<1>2. Taken(tree, names) = t
  BY DEF Taken
<1> HIDE DEF a
<1>3. a \in T /\ T \in SUBSET Nat
  BY <1>1
<1>4. \E n \in T : \A m \in T : n <= m
  <2> HIDE DEF T
  <2> QED BY <1>3, Least
<1>5. t \in T /\ \A m \in T : t <= m
  <2> HIDE DEF T
  <2> QED BY <1>4
<1> HIDE DEF t
<1>6. t \in 1..a
  BY <1>5
<1>7. ASSUME NEW m \in 1..(t - 1) PROVE entry[<<tree, UpTo(names, m)>>] = "dir"
  <2>1. m \in 1..a /\ ~(t <= m)
    BY <1>1, <1>6
  <2>2. m \notin T
    <3> HIDE DEF T
    <3> QED BY <1>5, <2>1
  <2> QED BY <2>1, <2>2
<1> QED BY <1>2, <1>6, <1>7 DEF a

(* The place that a path names: below the root, or outside behind a linked *)
(* directory; and the place where the walk to it stops.                    *)
LEMMA NamedIs ==
    ASSUME Rest \in Seq(Names), Len(Rest) \in 1..Depth
    PROVE  /\ Named \in Place /\ Stopped \in Place
           /\ Len(Named[2]) \in 1..Len(Rest) /\ Len(Stopped[2]) \in 1..Len(Named[2])
           /\ ~Linked => Named = <<"root", Rest>>
           /\ Linked => \E n \in 1..(Len(Rest) - 1) :
                          /\ WayIsDirs(Rest, n)
                          /\ entry[<<"root", UpTo(Rest, n)>>] = "link to dir"
                          /\ Named = <<"outside", After(Rest, n)>>
<1> DEFINE a == Len(Rest)
           t == Taken("root", Rest)
<1>1. a \in 1..Depth /\ a > 0 /\ Depth \in Nat
  BY FsAssumption
<1>2. t \in 1..a /\ \A m \in 1..(t - 1) : entry[<<"root", UpTo(Rest, m)>>] = "dir"
  BY <1>1, TakenIs
<1> HIDE DEF t
<1>3. /\ Named \in {"root", "outside"} \X Seq(Names) /\ Len(Named[2]) \in 1..a
      /\ ~Linked => Named = <<"root", Rest>>
      /\ Linked => \E n \in 1..(a - 1) :
                     /\ WayIsDirs(Rest, n)
                     /\ entry[<<"root", UpTo(Rest, n)>>] = "link to dir"
                     /\ Named = <<"outside", After(Rest, n)>>
  <2>1. CASE ~Linked
    <3>1. Named = <<"root", Rest>>
      BY <2>1 DEF Named
    <3> QED BY <1>1, <2>1, <3>1
  <2>2. CASE Linked
    <3>1. t < a /\ entry[<<"root", UpTo(Rest, t)>>] = "link to dir"
      BY <2>2 DEF Linked, Stop, t
    <3>2. Named = <<"outside", After(Rest, t)>>
      BY <2>2 DEF Named, t
    <3>3. t \in 1..(a - 1) /\ t \in 0..a /\ a - t \in 1..a
      <4>1. t \in 1..a
        BY <1>2
      <4>2. t < a
        BY <3>1
      <4>3. a \in Nat
        BY LenProperties
      <4> HIDE DEF a
      <4> QED BY <4>1, <4>2, <4>3
    <3>4. After(Rest, t) \in Seq(Names) /\ Len(After(Rest, t)) = a - t
      BY <3>3, PartsAre
    <3>5. WayIsDirs(Rest, t)
      BY <1>2 DEF WayIsDirs
    <3> QED BY <2>2, <3>1, <3>2, <3>3, <3>4, <3>5
  <2> QED BY <2>1, <2>2
<1> DEFINE b == Len(Named[2])
           u == Taken(Named[1], Named[2])
<1>4. Named = <<Named[1], Named[2]>> /\ Named[1] \in {"root", "outside"} /\ Named[2] \in Seq(Names)
  <2>1. Named \in {"root", "outside"} \X Seq(Names)
    BY <1>3
  <2> HIDE DEF Named
  <2> QED BY <2>1
<1>5. b \in 1..a /\ b > 0 /\ b \in 1..Depth
  <2>1. b \in 1..a
    BY <1>3
  <2> HIDE DEF a, b
  <2> QED BY <1>1, <2>1
<1>6. u \in 1..b
  BY <1>4, <1>5, TakenIs
<1>7. Stopped = <<Named[1], UpTo(Named[2], u)>>
  BY DEF Stopped, Stop
<1> HIDE DEF u
<1>8. UpTo(Named[2], u) \in Seq(Names) /\ Len(UpTo(Named[2], u)) = u
  <2>1. u \in 0..b
    BY <1>5, <1>6
  <2> QED BY <1>4, <2>1, PartsAre
<1>9. u \in 1..Depth
  BY <1>1, <1>5, <1>6
<1>10. Named \in Place
  <2>1. <<Named[1], Named[2]>> \in Place
    BY <1>4, <1>5, PlaceIs
  <2> QED BY <1>4, <2>1
<1>11. Stopped \in Place
  <2>1. <<Named[1], UpTo(Named[2], u)>> \in Place
    BY <1>4, <1>8, <1>9, PlaceIs
  <2> QED BY <1>7, <2>1
<1>12. Len(Stopped[2]) = u
  BY <1>7, <1>8
<1> QED BY <1>3, <1>6, <1>10, <1>11, <1>12

(* What a step opens.                                                      *)
Opened(p) ==
    /\ Valid(path) /\ Inside(path) /\ entry[p] \in {"file", "absent"}
    /\ \/ p = <<"root", Rest>> /\ WayIsDirs(Rest, Len(Rest))
       \/ \E n \in 1..(Len(Rest) - 1) :
            /\ WayIsDirs(Rest, n) /\ entry[<<"root", UpTo(Rest, n)>>] = "link to dir"
            /\ p = <<"outside", After(Rest, n)>>

(* If what a valid path below the root names is a file, or nothing, then   *)
(* the place it names may be opened.                                       *)
LEMMA FoundIs ==
    ASSUME path \in Requests, Valid(path), Inside(path), Found \in {"file", "absent"}
    PROVE  Named \in Place /\ Opened(Named)
<1>1. Rest \in Seq(Names) /\ Len(Rest) \in 0..Depth
  BY RestIs
<1>2. Rest # <<>>
  BY DEF Found
<1>3. Len(Rest) \in 1..Depth
  <2>1. Len(Rest) # 0
    BY <1>1, <1>2, EmptySeq
  <2> QED BY <1>1, <2>1
<1>4. /\ Named \in Place
      /\ ~Linked => Named = <<"root", Rest>>
      /\ Linked => \E n \in 1..(Len(Rest) - 1) :
                     /\ WayIsDirs(Rest, n)
                     /\ entry[<<"root", UpTo(Rest, n)>>] = "link to dir"
                     /\ Named = <<"outside", After(Rest, n)>>
  BY <1>1, <1>3, NamedIs
<1>5. Stopped = Named /\ entry[Named] = Found
  <2>1. Whole
    BY <1>2 DEF Found
  <2>2. Stopped = Named
    BY <1>2, <2>1 DEF Whole
  <2>3. entry[Named] = Found
    BY <1>2, <2>1 DEF Found
  <2> QED BY <2>2, <2>3
<1>6. ASSUME ~Linked PROVE WayIsDirs(Rest, Len(Rest))
  <2> DEFINE t == Taken("root", Rest)
  <2>1. Len(Rest) > 0
    BY <1>3, FsAssumption
  <2>2. t \in 1..Len(Rest) /\ \A m \in 1..(t - 1) : entry[<<"root", UpTo(Rest, m)>>] = "dir"
    BY <1>1, <2>1, TakenIs
  <2>3. Named = <<"root", Rest>> /\ Stopped = <<"root", UpTo(Rest, t)>>
    <3>1. Named = <<"root", Rest>>
      BY <1>4, <1>6
    <3> QED BY <3>1 DEF Stopped, Stop
  <2>4. UpTo(Rest, t) = Rest
    BY <1>5, <2>3
  <2>5. Len(UpTo(Rest, t)) = t
    <3>1. t \in 0..Len(Rest)
      BY <1>3, <2>2, FsAssumption
    <3> QED BY <1>1, <3>1, PartsAre
  <2> QED BY <2>2, <2>4, <2>5 DEF WayIsDirs
<1> QED BY <1>4, <1>5, <1>6 DEF Opened

(* What is put at a place is typed.                                        *)
LEMMA PutIs ==
    ASSUME entry \in [Place -> Entry], NEW p \in Place, NEW e \in Entry
    PROVE  Put(p, e) \in [Place -> Entry]
BY DEF Put, Entry

-----------------------------------------------------------------------------
(* The inductive invariant: a request beyond resolve carries a valid path  *)
(* below the root.                                                         *)
FsInv ==
    /\ TypeOK
    /\ pc \in {"checked", "made"} => Valid(path) /\ Inside(path)

LEMMA FsInit == Init => FsInv
<1> SUFFICES ASSUME Init PROVE FsInv
  OBVIOUS
<1>1. PICK e \in {"file", "absent"} :
        entry = [p \in Place |-> IF Len(p[2]) > 1 THEN "absent"
                                 ELSE IF p[1] = "root" THEN "dir" ELSE e]
  BY DEF Init
<1>2. entry \in [Place -> Entry]
  BY <1>1 DEF Entry
<1>3. changes \in 0..MaxChanges /\ made \in 0..Depth
  BY FsAssumption DEF Init
<1> QED BY <1>2, <1>3 DEF Init, FsInv, TypeOK

(* Nothing else than its variables tells whether a path is valid.          *)
LEMMA PathKept ==
    ASSUME path' = path
    PROVE  Valid(path)' = Valid(path) /\ Inside(path)' = Inside(path)
BY DEF Valid, Inside, Joined, Absolute, Components

(* A request that ends opens nothing.                                      *)
LEMMA EndsKeeps ==
    ASSUME FsInv, NEW outcome, Ends(outcome), at = {},
           outcome \in {"checked", "made", "invalid_path", "not_found", "io_error"},
           outcome \in {"checked", "made"} => Valid(path) /\ Inside(path)
    PROVE  FsInv'
<1>1. /\ pc' = outcome /\ entry' = entry /\ changes' = changes /\ op' = op /\ path' = path
      /\ bucketPath' = bucketPath /\ made' = made /\ at' = at
  BY DEF Ends
<1>2. TypeOK'
  BY <1>1 DEF FsInv, TypeOK
<1> QED BY <1>1, <1>2, PathKept DEF FsInv

(* One step of the invariant, and what the step opens.                     *)
LEMMA FsStep ==
    FsInv /\ [Next]_vars => FsInv' /\ \A p \in at' \ at : Opened(p)
<1> SUFFICES ASSUME FsInv, [Next]_vars PROVE FsInv' /\ \A p \in at' \ at : Opened(p)
  OBVIOUS
<1>1. /\ entry \in [Place -> Entry] /\ path \in Requests /\ at \subseteq Place
      /\ at # {} <=> pc = "opened"
  BY DEF FsInv, TypeOK
<1>2. pc \in {"checked", "made"} => Valid(path) /\ Inside(path) /\ at = {}
  BY <1>1 DEF FsInv
(* The two steps that open.                                                *)
<1>3. ASSUME pc \in {"checked", "made"}, Found \in {"file", "absent"},
             Opens(Named), Named \in Place => entry' \in [Place -> Entry]
      PROVE  FsInv' /\ \A p \in at' \ at : Opened(p)
  <2>1. Named \in Place /\ Opened(Named)
    BY <1>1, <1>2, <1>3, FoundIs
  <2>2. /\ at' = at \cup {Named} /\ pc' = "opened" /\ changes' = changes /\ op' = op
        /\ path' = path /\ bucketPath' = bucketPath /\ made' = made
    BY <1>3 DEF Opens
  <2>3. entry' \in [Place -> Entry] /\ at' \subseteq Place /\ at' # {}
    BY <1>1, <1>3, <2>1, <2>2
  <2>4. FsInv'
    BY <2>2, <2>3 DEF FsInv, TypeOK
  <2> QED BY <2>1, <2>2, <2>4
(* Those that do not.                                                      *)
<1>4. ASSUME NEW outcome, Ends(outcome), pc \in {"received", "checked", "made"},
             outcome \in {"checked", "made", "invalid_path", "not_found", "io_error"},
             outcome \in {"checked", "made"} => Valid(path) /\ Inside(path)
      PROVE  FsInv' /\ \A p \in at' \ at : Opened(p)
  <2>1. at = {} /\ at' = {}
    BY <1>1, <1>4 DEF Ends
  <2> QED BY <1>4, <2>1, EndsKeeps
<1>5. CASE Resolve
  BY <1>4, <1>5 DEF Resolve
<1>6. CASE OpenRead
  <2>1. CASE Found = "file" /\ Opens(Named) /\ UNCHANGED entry
    BY <1>1, <1>3, <1>6, <2>1 DEF OpenRead
  <2> QED BY <1>4, <1>6, <2>1 DEF OpenRead
<1>7. CASE MakeDirs
  <2> DEFINE depth == Len(Rest) - Len(Named[2]) + Len(Stopped[2])
  <2>1. CASE \E outcome \in {"made", "io_error"} : Ends(outcome)
    BY <1>2, <1>4, <1>7, <2>1 DEF MakeDirs
  <2>2. CASE /\ ~Whole /\ entry' = Put(Stopped, "dir") /\ made' = depth
             /\ UNCHANGED <<changes, op, path, bucketPath, pc, at>>
    <3>1. pc = "checked" /\ Valid(path) /\ Inside(path)
      BY <1>2, <1>7 DEF MakeDirs
    <3>2. Rest \in Seq(Names) /\ Len(Rest) \in 0..Depth
      BY <1>1, <3>1, RestIs
    <3>3. Len(Rest) \in 1..Depth
      <4>1. Rest # <<>>
        BY <2>2 DEF Whole
      <4>2. Len(Rest) # 0
        BY <3>2, <4>1, EmptySeq
      <4> QED BY <3>2, <4>2
    <3>4. Stopped \in Place /\ Len(Named[2]) \in 1..Len(Rest) /\ Len(Stopped[2]) \in 1..Len(Named[2])
      BY <3>2, <3>3, NamedIs
    <3>5. depth \in 0..Depth
      <4> DEFINE k == Len(Rest)
                 m == Len(Named[2])
                 n == Len(Stopped[2])
      <4>1. k \in 1..Depth /\ m \in 1..k /\ n \in 1..m /\ Depth \in Nat
        BY <3>3, <3>4, FsAssumption
      <4> HIDE DEF k, m, n
      <4>2. k - m + n \in 0..Depth
        BY <4>1
      <4> QED BY <4>2 DEF k, m, n
    <3>6. entry' \in [Place -> Entry]
      <4>1. "dir" \in Entry
        BY DEF Entry
      <4> QED BY <1>1, <2>2, <3>4, <4>1, PutIs
    <3>7. /\ changes' = changes /\ op' = op /\ path' = path /\ bucketPath' = bucketPath
          /\ pc' = pc /\ at' = at /\ made' \in 0..Depth
      BY <2>2, <3>5
    <3>8. TypeOK'
      BY <3>6, <3>7 DEF FsInv, TypeOK
    <3> QED BY <3>1, <3>7, <3>8, PathKept DEF FsInv
  <2> QED BY <1>7, <2>1, <2>2 DEF MakeDirs
<1>8. CASE OpenWrite
  <2>1. CASE Found \in {"file", "absent"} /\ Opens(Named) /\ entry' = Put(Named, "file")
    <3>1. "file" \in Entry
      BY DEF Entry
    <3>2. Named \in Place => entry' \in [Place -> Entry]
      BY <1>1, <2>1, <3>1, PutIs
    <3> QED BY <1>3, <1>8, <2>1, <3>2 DEF OpenWrite
  <2> QED BY <1>4, <1>8, <2>1 DEF OpenWrite
<1>9. CASE Change
  <2>1. PICK p \in Place, e \in Entry : entry' = Put(p, e)
    BY <1>9 DEF Change
  <2>2. /\ changes < MaxChanges /\ changes' = changes + 1 /\ op' = op /\ path' = path
        /\ bucketPath' = bucketPath /\ pc' = pc /\ made' = made /\ at' = at
    BY <1>9 DEF Change
  <2>3. entry' \in [Place -> Entry]
    BY <1>1, <2>1, PutIs
  <2>4. changes' \in 0..MaxChanges
    BY <2>2, FsAssumption DEF FsInv, TypeOK
  <2>5. TypeOK'
    BY <2>2, <2>3, <2>4 DEF FsInv, TypeOK
  <2> QED BY <2>2, <2>5, PathKept DEF FsInv
<1>10. CASE UNCHANGED vars
  <2>1. /\ entry' = entry /\ changes' = changes /\ op' = op /\ path' = path
        /\ bucketPath' = bucketPath /\ pc' = pc /\ made' = made /\ at' = at
    BY <1>10 DEF vars
  <2>2. TypeOK'
    BY <2>1 DEF FsInv, TypeOK
  <2> QED BY <2>1, <2>2, PathKept DEF FsInv
<1> QED BY <1>5, <1>6, <1>7, <1>8, <1>9, <1>10 DEF Next

LEMMA FsInvHolds == Spec => []FsInv
<1>1. FsInv /\ [Next]_vars => FsInv'
  BY FsStep
<1> QED BY <1>1, FsInit, PTL DEF Spec

(* The types; something is open exactly when the copy can go on            *)
(* (open_read, write_all).                                                 *)
THEOREM FsTypes == Spec => []TypeOK
<1>1. FsInv => TypeOK
  BY DEF FsInv
<1> QED BY <1>1, FsInvHolds, PTL

(* Whatever other programs turn into links between resolve and the open:   *)
(* O_NOFOLLOW opens or creates the entry itself that a valid path below    *)
(* the data directory names, through directories all the way, or behind    *)
(* the first linked directory on the way, and then outside.                *)
THEOREM OpensCorrect == Spec => OpensWhatItNames
<1>1. FsInv /\ [Next]_vars => [\A p \in at' \ at : Opened(p)]_vars
  BY FsStep
<1>2. Spec => [][\A p \in at' \ at : Opened(p)]_vars
  BY <1>1, FsInvHolds, PTL DEF Spec
<1> QED BY <1>2 DEF OpensWhatItNames, Opened

(* strip_prefix gives back the path that key was given, for every          *)
(* bucket_path and every path, so no two paths share a key; list reports   *)
(* the object if its path is one name.                                     *)
THEOREM KeysLeadBack == Spec => []KeyRoundTrip
<1>1. FsInv => KeyRoundTrip
  <2> SUFFICES ASSUME FsInv, Valid(path)
               PROVE  /\ StripPrefix(bucketPath, Key(bucketPath, path)) = {path}
                      /\ Listed(bucketPath, Key(bucketPath, path)) = IF Len(path) = 1 THEN {path} ELSE {}
                      /\ bucketPath # <<Nil>> => /\ Key(bucketPath, path)[1] = bucketPath[1]
                                                 /\ Len(Key(bucketPath, path)) > 1
    BY DEF KeyRoundTrip
  <2>1. /\ bucketPath \in Seq(Segment) /\ bucketPath # <<>>
        /\ path \in Seq(Segment) /\ path # <<>> /\ path # <<Nil>>
    BY PathsAreSequences DEF FsInv, TypeOK, Valid
  <2>2. StripPrefix(bucketPath, Key(bucketPath, path)) = {path}
    BY <2>1, StripUndoesKey
  <2>3. Listed(bucketPath, Key(bucketPath, path)) = IF Len(path) = 1 THEN {path} ELSE {}
    BY <2>1, <2>2 DEF Listed
  <2> QED BY <2>1, <2>2, <2>3, StripUndoesKey
<1> QED BY <1>1, FsInvHolds, PTL

(* Two different paths never have the same key, so no copy into S3         *)
(* replaces the object of another path (S3Backend::key).                   *)
THEOREM KeysDiffer ==
    ASSUME NEW prefix \in Seq(Segment), prefix # <<>>,
           NEW p \in Seq(Segment), p # <<>>, NEW q \in Seq(Segment), q # <<>>,
           Key(prefix, p) = Key(prefix, q)
    PROVE  p = q
<1>1. {p} = {q}
  BY StripUndoesKey
<1> QED BY <1>1
===============================================================================
