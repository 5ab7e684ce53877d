-------------------------- MODULE FileJoinerProofs --------------------------
(***************************************************************************)
(* OutputIsJoin and ReportedIsWritten for any files, sizes, buffer and     *)
(* space.  Two of the model's operators are recursive: the search for the  *)
(* least name (LeastIndex) and FlattenSeq, with which the join is said.    *)
(* What they yield is proved by induction in the form of NatInduct: a set  *)
(* of naturals that has 0, and of each number the next, has all.           *)
(***************************************************************************)
EXTENDS FileJoiner, FiniteSetTheorems, SequenceTheorems, WellFoundedInduction, TLAPS

LEMMA NatInduct ==
  ASSUME NEW S \in SUBSET Nat, 0 \in S, \A n \in S : n + 1 \in S
  PROVE  S = Nat
<1> DEFINE T == Nat \ S
           R == {ss \in Nat \X Nat : ss[1] < ss[2]}
<1>1. IsWellFoundedOn(R, Nat)
  BY NatLessThanWellFounded DEF OpToRel
<1>2. \A x, y \in Nat : x < y => <<x, y>> \in R
  OBVIOUS
<1> HIDE DEF R
<1> SUFFICES ASSUME T # {} PROVE FALSE
  OBVIOUS
<1>3. PICK x \in T : \A y \in T : ~ (<<y, x>> \in R)
  BY <1>1, WFMin
<1>4. x \in Nat /\ x # 0
  BY <1>3
<1>5. x - 1 \in T
  <2>1. CASE x - 1 \in S
    <3>1. (x - 1) + 1 \in S
      BY <2>1
    <3> QED
      BY <1>4, <3>1
  <2> QED
    BY <1>4, <2>1
<1>6. <<x - 1, x>> \in R
  BY <1>2, <1>4
<1> QED
  BY <1>3, <1>5, <1>6
----------------------------------------------------------------------------
(* FlattenSeq: of nothing it is nothing, and what comes last comes last.   *)
Flat(g, s, n) == g = [i \in 1..n |-> IF i = 1 THEN s[i] ELSE g[i - 1] \o s[i]]

LEMMA FlatExists ==
  ASSUME NEW B, NEW s \in Seq(Seq(B))
  PROVE  \E g \in [1..Len(s) -> Seq(B)] : Flat(g, s, Len(s))
<1> DEFINE S == {n \in Nat : n <= Len(s) => \E g \in [1..n -> Seq(B)] : Flat(g, s, n)}
<1>1. 0 \in S
  <2> DEFINE g == [i \in 1..0 |-> IF i = 1 THEN s[i] ELSE <<>> \o s[i]]
  <2>1. g \in [1..0 -> Seq(B)] /\ Flat(g, s, 0)
    BY DEF Flat
  <2> QED
    BY <2>1
<1>2. ASSUME NEW n \in S PROVE n + 1 \in S
  <2> SUFFICES ASSUME n + 1 <= Len(s) PROVE \E h \in [1..(n + 1) -> Seq(B)] : Flat(h, s, n + 1)
    OBVIOUS
  <2>1. n \in Nat /\ Len(s) \in Nat
    OBVIOUS
  <2>2. PICK g \in [1..n -> Seq(B)] : Flat(g, s, n)
    BY <2>1
  <2> DEFINE last == IF n = 0 THEN s[n + 1] ELSE g[n] \o s[n + 1]
             h == [i \in 1..(n + 1) |-> IF i = n + 1 THEN last ELSE g[i]]
  <2>3. s[n + 1] \in Seq(B)
    BY <2>1
  <2>4. last \in Seq(B)
    <3>1. CASE n = 0
      BY <2>3, <3>1
    <3>2. CASE n # 0
      <4>1. g[n] \in Seq(B)
        BY <2>1, <2>2, <3>2
      <4> QED
        BY <2>3, <3>2, <4>1
    <3> QED
      BY <3>1, <3>2
  <2>5. \A i \in 1..n : g[i] = IF i = 1 THEN s[i] ELSE g[i - 1] \o s[i]
    BY <2>2 DEF Flat
  <2>6. \A i \in 1..(n + 1) : i = n + 1 \/ (i \in 1..n /\ i # n + 1)
    BY <2>1
  <2>7. h \in [1..(n + 1) -> Seq(B)]
    <3> HIDE DEF last
    <3> QED
      BY <2>2, <2>4, <2>6
  <2>8. ASSUME NEW i \in 1..(n + 1) PROVE h[i] = IF i = 1 THEN s[i] ELSE h[i - 1] \o s[i]
    <3>1. CASE i = n + 1
      <4>1. i # 1 => n # 0 /\ i - 1 = n /\ n \in 1..(n + 1) /\ n # n + 1
        BY <2>1, <3>1
      <4>2. i # 1 => h[i - 1] = g[n]
        BY <4>1
      <4>3. i = 1 => n = 0
        BY <2>1, <3>1
      <4>4. h[i] = last
        BY <3>1
      <4> QED
        BY <3>1, <4>1, <4>2, <4>3, <4>4
    <3>2. CASE i # n + 1
      <4>1. i \in 1..n /\ h[i] = g[i]
        BY <2>6, <3>2
      <4>2. i # 1 => i - 1 \in 1..(n + 1) /\ i - 1 # n + 1
        BY <2>1, <4>1
      <4>3. i # 1 => h[i - 1] = g[i - 1]
        BY <4>2
      <4> QED
        BY <2>5, <4>1, <4>3
    <3> QED
      BY <3>1, <3>2
  <2> HIDE DEF h
  <2>9. Flat(h, s, n + 1)
    <3>1. h = [i \in 1..(n + 1) |-> h[i]]
      BY <2>7
    <3> QED
      BY <2>8, <3>1 DEF Flat
  <2> QED
    BY <2>7, <2>9
<1> HIDE DEF S
<1>3. S = Nat
  <2>1. S \in SUBSET Nat
    BY DEF S
  <2> QED
    BY <1>1, <1>2, <2>1, NatInduct
<1>4. Len(s) \in Nat /\ Len(s) <= Len(s)
  OBVIOUS
<1> QED
  BY <1>3, <1>4 DEF S

Agree(a, b, n) == \A i \in 1..n : a[i] = b[i]

LEMMA FlatAgree ==
  ASSUME NEW g, NEW h, NEW s, NEW t, NEW n \in Nat, NEW m \in Nat, n <= m,
         Flat(g, s, n), Flat(h, t, m), Agree(s, t, n)
  PROVE  Agree(g, h, n)
<1> USE DEF Agree
<1> DEFINE S == {k \in Nat : k \in 1..n => g[k] = h[k]}
<1>1. 0 \in S
  OBVIOUS
<1>2. ASSUME NEW k \in S PROVE k + 1 \in S
  <2> SUFFICES ASSUME k + 1 \in 1..n PROVE g[k + 1] = h[k + 1]
    OBVIOUS
  <2>1. k + 1 \in 1..m /\ k \in Nat /\ (k + 1) - 1 = k
    OBVIOUS
  <2>2. g[k + 1] = IF k + 1 = 1 THEN s[k + 1] ELSE g[(k + 1) - 1] \o s[k + 1]
    BY DEF Flat
  <2>3. h[k + 1] = IF k + 1 = 1 THEN t[k + 1] ELSE h[(k + 1) - 1] \o t[k + 1]
    BY <2>1 DEF Flat
  <2>4. k + 1 # 1 => k \in 1..n
    BY <2>1
  <2>5. k + 1 # 1 => g[k] = h[k]
    BY <2>4
  <2> QED
    BY <2>1, <2>2, <2>3, <2>5
<1> HIDE DEF S
<1>3. S = Nat
  <2>1. S \in SUBSET Nat
    BY DEF S
  <2> QED
    BY <1>1, <1>2, <2>1, NatInduct
<1> QED
  BY <1>3 DEF S

LEMMA FlattenIs ==
  ASSUME NEW B, NEW s \in Seq(Seq(B)), s # <<>>
  PROVE  \E g \in [1..Len(s) -> Seq(B)] : Flat(g, s, Len(s)) /\ FlattenSeq(s) = g[Len(s)]
<1> DEFINE f == CHOOSE g : Flat(g, s, Len(s))
<1>1. Len(s) # 0 /\ Len(s) \in Nat
  OBVIOUS
<1>2. FlattenSeq(s) = f[Len(s)]
  BY <1>1, Zenon DEF FlattenSeq, Flat
<1>3. \E g : Flat(g, s, Len(s))
  BY FlatExists
<1>4. Flat(f, s, Len(s))
  BY <1>3
<1>5. PICK g \in [1..Len(s) -> Seq(B)] : Flat(g, s, Len(s))
  BY FlatExists
<1> HIDE DEF f
<1>6. Agree(s, s, Len(s)) /\ Len(s) <= Len(s)
  BY <1>1 DEF Agree
<1>7. Agree(f, g, Len(s))
  BY <1>1, <1>4, <1>5, <1>6, FlatAgree
<1>8. f[Len(s)] = g[Len(s)]
  BY <1>1, <1>7 DEF Agree
<1> QED
  BY <1>2, <1>5, <1>8

LEMMA FlattenEmpty == FlattenSeq(<<>>) = <<>>
<1>1. Len(<<>>) = 0
  OBVIOUS
<1> QED
  BY <1>1, Zenon DEF FlattenSeq

LEMMA FlattenStays == ASSUME NEW B, NEW s \in Seq(Seq(B)) PROVE FlattenSeq(s) \in Seq(B)
<1>1. CASE s = <<>>
  <2>1. FlattenSeq(s) = <<>>
    BY <1>1, FlattenEmpty, Zenon
  <2> QED
    BY <2>1
<1>2. CASE s # <<>>
  <2>1. Len(s) \in 1..Len(s)
    BY <1>2
  <2>2. \E g \in [1..Len(s) -> Seq(B)] : FlattenSeq(s) = g[Len(s)]
    BY <1>2, FlattenIs
  <2> QED
    BY <2>1, <2>2
<1> QED
  BY <1>1, <1>2

LEMMA FlattenAppend ==
  ASSUME NEW B, NEW s \in Seq(Seq(B)), NEW x \in Seq(B)
  PROVE  FlattenSeq(Append(s, x)) = FlattenSeq(s) \o x
<1> DEFINE T == Seq(B)
           t == Append(s, x)
           n == Len(s)
<1>1. /\ n \in Nat /\ t \in Seq(T) /\ t # <<>> /\ Len(t) = n + 1 /\ t[n + 1] = x
      /\ \A i \in 1..n : s[i] = t[i]
  <2>1. s \in Seq(T) /\ x \in T
    OBVIOUS
  <2> HIDE DEF T
  <2> QED
    BY <2>1
<1>2. s # <<>> => n # 0 /\ n \in 1..n
  <2>1. s \in Seq(T)
    OBVIOUS
  <2> HIDE DEF T
  <2> QED
    BY <2>1
<1>3. s = <<>> => n = 0
  OBVIOUS
<1>4. x = <<>> \o x
  OBVIOUS
<1>5. \E h \in [1..(n + 1) -> Seq(B)] : Flat(h, t, n + 1) /\ FlattenSeq(t) = h[n + 1]
  <2> HIDE DEF t, n
  <2> QED
    BY <1>1, FlattenIs
<1>6. s # <<>> => \E g \in [1..n -> Seq(B)] : Flat(g, s, n) /\ FlattenSeq(s) = g[n]
  BY FlattenIs
<1> HIDE DEF t, n, T
<1>7. PICK h \in [1..(n + 1) -> Seq(B)] : Flat(h, t, n + 1) /\ FlattenSeq(t) = h[n + 1]
  BY <1>5
<1>8. n + 1 \in 1..(n + 1) /\ (n + 1) - 1 = n /\ n + 1 \in Nat /\ n <= n + 1
  BY <1>1
<1>9. FlattenSeq(t) = IF n + 1 = 1 THEN x ELSE h[n] \o x
  BY <1>1, <1>7, <1>8 DEF Flat
<1>10. CASE s = <<>>
  BY <1>3, <1>4, <1>9, <1>10, FlattenEmpty DEF t
<1>11. CASE s # <<>>
  <2>1. PICK g \in [1..n -> Seq(B)] : Flat(g, s, n) /\ FlattenSeq(s) = g[n]
    BY <1>6, <1>11
  <2>2. \A i \in 1..n : g[i] = h[i]
    <3> DEFINE m == n + 1
    <3>1. /\ n \in Nat /\ m \in Nat /\ n <= m /\ Flat(g, s, n) /\ Flat(h, t, m)
          /\ Agree(s, t, n)
      BY <1>1, <1>7, <1>8, <2>1 DEF Agree
    <3> HIDE DEF m
    <3>2. Agree(g, h, n)
      BY <3>1, FlatAgree
    <3> QED
      BY <3>2 DEF Agree
  <2>3. n + 1 # 1
    BY <1>1, <1>2, <1>11
  <2>4. g[n] = h[n]
    BY <1>2, <1>11, <2>2
  <2> QED
    BY <1>9, <2>1, <2>3, <2>4 DEF t
<1> QED
  BY <1>10, <1>11
----------------------------------------------------------------------------
(* LeastIndex is the place of a least name.                                *)
LeastSoFar(g, names, n) ==
  g = [k \in 1..n |->
         IF k = 1 THEN 1 ELSE IF names[g[k - 1]] > names[k] THEN k ELSE g[k - 1]]
LeastUpTo(i, names, k) == i \in 1..k /\ \A j \in 1..k : names[i] <= names[j]

LEMMA LeastExists ==
  ASSUME NEW names \in Seq(Nat)
  PROVE  \E g : LeastSoFar(g, names, Len(names))
<1> DEFINE S == {n \in Nat : \E g \in [1..n -> Nat] : LeastSoFar(g, names, n)}
<1>1. 0 \in S
  <2> DEFINE g == [k \in 1..0 |-> k]
  <2>1. g \in [1..0 -> Nat] /\ LeastSoFar(g, names, 0)
    BY DEF LeastSoFar
  <2> QED
    BY <2>1
<1>2. ASSUME NEW n \in S PROVE n + 1 \in S
  <2>1. n \in Nat /\ n + 1 \in Nat
    OBVIOUS
  <2>2. PICK g \in [1..n -> Nat] : LeastSoFar(g, names, n)
    BY <2>1
  <2> DEFINE last == IF n = 0 THEN 1 ELSE IF names[g[n]] > names[n + 1] THEN n + 1 ELSE g[n]
             h == [k \in 1..(n + 1) |-> IF k = n + 1 THEN last ELSE g[k]]
  <2>3. last \in Nat
    <3>1. n # 0 => g[n] \in Nat
      BY <2>1, <2>2
    <3> QED
      BY <2>1, <3>1
  <2>4. \A k \in 1..n :
          g[k] = IF k = 1 THEN 1 ELSE IF names[g[k - 1]] > names[k] THEN k ELSE g[k - 1]
    BY <2>2 DEF LeastSoFar
  <2>5. \A k \in 1..(n + 1) : k = n + 1 \/ (k \in 1..n /\ k # n + 1)
    BY <2>1
  <2>6. h \in [1..(n + 1) -> Nat]
    <3> HIDE DEF last
    <3> QED
      BY <2>2, <2>3, <2>5
  <2>7. ASSUME NEW k \in 1..(n + 1)
        PROVE  h[k] = IF k = 1 THEN 1 ELSE IF names[h[k - 1]] > names[k] THEN k ELSE h[k - 1]
    <3>1. CASE k = n + 1
      <4>1. k # 1 => n # 0 /\ k - 1 = n /\ n \in 1..(n + 1) /\ n # n + 1
        BY <2>1, <3>1
      <4>2. k # 1 => h[k - 1] = g[n]
        BY <4>1
      <4>3. k = 1 => n = 0
        BY <2>1, <3>1
      <4>4. h[k] = last
        BY <3>1
      <4> QED
        BY <3>1, <4>1, <4>2, <4>3, <4>4
    <3>2. CASE k # n + 1
      <4>1. k \in 1..n /\ h[k] = g[k]
        BY <2>5, <3>2
      <4>2. k # 1 => k - 1 \in 1..(n + 1) /\ k - 1 # n + 1
        BY <2>1, <4>1
      <4>3. k # 1 => h[k - 1] = g[k - 1]
        BY <4>2
      <4> QED
        BY <2>4, <4>1, <4>3
    <3> QED
      BY <3>1, <3>2
  <2> HIDE DEF h
  <2>8. LeastSoFar(h, names, n + 1)
    <3>1. h = [k \in 1..(n + 1) |-> h[k]]
      BY <2>6
    <3> QED
      BY <2>7, <3>1 DEF LeastSoFar
  <2> QED
    BY <2>1, <2>6, <2>8
<1> HIDE DEF S
<1>3. S = Nat
  <2>1. S \in SUBSET Nat
    BY DEF S
  <2> QED
    BY <1>1, <1>2, <2>1, NatInduct
<1>4. Len(names) \in Nat
  OBVIOUS
<1> QED
  BY <1>3, <1>4 DEF S

LEMMA LeastIndexIs ==
  ASSUME NEW names \in Seq(Nat), names # <<>>
  PROVE  LeastUpTo(LeastIndex(names), names, Len(names))
<1> DEFINE n == Len(names)
           f == CHOOSE g : LeastSoFar(g, names, n)
           S == {k \in Nat : k \in 1..n => LeastUpTo(f[k], names, k)}
<1>1. LeastIndex(names) = f[n]
  BY Zenon DEF LeastIndex, LeastSoFar
<1>2. LeastSoFar(f, names, n)
  BY LeastExists, Zenon
<1>3. n \in Nat /\ n # 0 /\ \A k \in 1..n : names[k] \in Nat
  OBVIOUS
<1> HIDE DEF n, f
<1>4. \A k \in 1..n :
        f[k] = IF k = 1 THEN 1 ELSE IF names[f[k - 1]] > names[k] THEN k ELSE f[k - 1]
  BY <1>2 DEF LeastSoFar
<1>5. 0 \in S
  OBVIOUS
<1>6. ASSUME NEW k \in S PROVE k + 1 \in S
  <2> SUFFICES ASSUME k + 1 \in 1..n PROVE LeastUpTo(f[k + 1], names, k + 1)
    OBVIOUS
  <2>1. k \in Nat /\ (k + 1) - 1 = k
    OBVIOUS
  <2>2. CASE k = 0
    <3>1. f[k + 1] = 1
      BY <1>4, <2>2
    <3>2. names[1] \in Nat
      BY <1>3, <2>2
    <3>3. f[k + 1] \in 1..(k + 1)
      BY <2>2, <3>1
    <3>4. ASSUME NEW j \in 1..(k + 1) PROVE names[f[k + 1]] <= names[j]
      <4>1. j = 1
        BY <2>2
      <4> QED
        BY <3>1, <3>2, <4>1
    <3> QED
      BY <3>3, <3>4 DEF LeastUpTo
  <2>3. CASE k # 0
    <3>1. k \in 1..n /\ k + 1 # 1
      BY <1>3, <2>1, <2>3
    <3>2. f[k] \in 1..k /\ \A j \in 1..k : names[f[k]] <= names[j]
      BY <3>1 DEF LeastUpTo
    <3>3. f[k + 1] = IF names[f[k]] > names[k + 1] THEN k + 1 ELSE f[k]
      BY <1>4, <2>1, <3>1
    <3>4. names[f[k]] \in Nat /\ names[k + 1] \in Nat /\ \A j \in 1..k : names[j] \in Nat
      BY <1>3, <3>1, <3>2
    <3>5. \A j \in 1..(k + 1) : j = k + 1 \/ j \in 1..k
      BY <2>1
    <3> QED
      BY SMTT(30), <2>1, <3>1, <3>2, <3>3, <3>4, <3>5 DEF LeastUpTo
  <2> QED
    BY <2>2, <2>3
<1> HIDE DEF S
<1>7. S = Nat
  <2>1. S \in SUBSET Nat
    BY DEF S
  <2> QED
    BY <1>5, <1>6, <2>1, NatInduct
<1>8. LeastUpTo(f[n], names, n)
  BY <1>3, <1>7 DEF S
<1> QED
  BY <1>1, <1>8 DEF n
----------------------------------------------------------------------------
(* The inductive invariant.                                                *)
Contents == [Names -> Seq(Names \X Nat)]

JoinTypes ==
  /\ disk \in Contents /\ sources \in Contents
  /\ missing \in SUBSET Names
  /\ Files \in Seq(Names) /\ taken \in Seq(Names)
  /\ outputfilename \in Names \cup {None}
  /\ position \in Nat
  /\ totalBytesWritten \in Nat
  /\ clicks \in Nat
  /\ pc \in {"ready", "next", "open", "read"}

(* Nothing happens before the first click.                                 *)
Begun ==
  /\ clicks > 0 => outputfilename \in Names
  /\ clicks = 0 => pc = "ready" /\ taken = <<>>

(* What is left of the selection has no name twice.                        *)
NoneTwice == \A i, j \in 1..Len(Files) : i # j => Files[i] # Files[j]

(* The output has what was counted, unless it has reached the space.       *)
Written ==
  clicks > 0 =>
    /\ Len(disk[outputfilename]) <= Space
    /\ Len(disk[outputfilename]) # Space => totalBytesWritten = Len(disk[outputfilename])

(* A click changes no file but the output.                                 *)
SourcesKept == \A n \in Names : n # outputfilename => disk[n] = sources[n]

(* The segment at hand is the one taken last; its end has been reached     *)
(* when feof says so, unless it is the output itself.                      *)
AtHand ==
  /\ pc \in {"open", "read"} => taken # <<>> /\ filename = taken[Len(taken)]
  /\ pc = "read" =>
       /\ filename \notin missing
       /\ position <= Len(disk[filename])
       /\ eof /\ filename # outputfilename => position = Len(disk[filename])

(* The first n names of names, each with its whole file, or with nothing   *)
(* when it is absent.                                                      *)
Whole(name, absent, files) == IF name \in absent THEN <<>> ELSE files[name]
Wholes(n, names, absent, files) == [i \in 1..n |-> Whole(names[i], absent, files)]
Copied == IF pc \in {"open", "read"} THEN Len(taken) - 1 ELSE Len(taken)
ReadOfIt == IF pc = "read" THEN SubSeq(sources[filename], 1, position) ELSE <<>>

Joined ==
  clicks > 0 /\ ~OutputSelected /\ Len(disk[outputfilename]) # Space =>
    disk[outputfilename] = FlattenSeq(Wholes(Copied, taken, missing, sources)) \o ReadOfIt

JoinInv ==
  JoinTypes /\ Begun /\ NoneTwice /\ TakenInOrder /\ Written /\ SourcesKept /\ AtHand /\ Joined

USE JoinerAssumption
----------------------------------------------------------------------------
(* Lemmas on the model's helpers.                                          *)
LEMMA RemoveAtIs ==
  ASSUME NEW X, NEW s \in Seq(X), NEW i \in 1..Len(s)
  PROVE  /\ RemoveAt(s, i) \in Seq(X)
         /\ Len(RemoveAt(s, i)) = Len(s) - 1
         /\ \A k \in 1..(Len(s) - 1) : RemoveAt(s, i)[k] = IF k < i THEN s[k] ELSE s[k + 1]
<1> DEFINE a == SubSeq(s, 1, i - 1)
           b == SubSeq(s, i + 1, Len(s))
<1>1. i \in Nat /\ i - 1 \in Int /\ i + 1 \in Int /\ Len(s) \in Nat /\ i >= 1 /\ i <= Len(s)
      /\ \A k \in 1..Len(s) : s[k] \in X
  OBVIOUS
<1>2. (\A k \in 1..(i - 1) : s[k] \in X) /\ \A k \in (i + 1)..Len(s) : s[k] \in X
  BY <1>1
<1>3. /\ a \in Seq(X)
      /\ Len(a) = IF 1 <= i - 1 THEN (i - 1) - 1 + 1 ELSE 0
      /\ \A k \in 1..((i - 1) - 1 + 1) : a[k] = s[1 + k - 1]
  BY <1>1, <1>2, SubSeqProperties
<1>4. /\ b \in Seq(X)
      /\ Len(b) = IF i + 1 <= Len(s) THEN Len(s) - (i + 1) + 1 ELSE 0
      /\ \A k \in 1..(Len(s) - (i + 1) + 1) : b[k] = s[(i + 1) + k - 1]
  BY <1>1, <1>2, SubSeqProperties
<1>5. RemoveAt(s, i) = a \o b
  BY DEF RemoveAt
<1> HIDE DEF a, b
<1>6. Len(a) = i - 1 /\ Len(b) = Len(s) - i
  BY <1>1, <1>3, <1>4
<1>7. /\ a \o b \in Seq(X)
      /\ Len(a \o b) = Len(a) + Len(b)
      /\ \A k \in 1..(Len(a) + Len(b)) : (a \o b)[k] = IF k <= Len(a) THEN a[k] ELSE b[k - Len(a)]
  BY <1>3, <1>4, ConcatProperties
<1>8. ASSUME NEW k \in 1..(Len(s) - 1)
      PROVE  (a \o b)[k] = IF k < i THEN s[k] ELSE s[k + 1]
  <2>1. (a \o b)[k] = IF k <= i - 1 THEN a[k] ELSE b[k - (i - 1)]
    BY <1>1, <1>6, <1>7
  <2>2. CASE k < i
    <3>1. k \in 1..((i - 1) - 1 + 1) /\ 1 + k - 1 = k /\ k <= i - 1
      BY <1>1, <2>2
    <3> QED
      BY <1>3, <2>1, <2>2, <3>1
  <2>3. CASE ~ (k < i)
    <3>1. /\ k - (i - 1) \in 1..(Len(s) - (i + 1) + 1)
          /\ (i + 1) + (k - (i - 1)) - 1 = k + 1
          /\ ~ (k <= i - 1)
      BY <1>1, <2>3
    <3>2. b[k - (i - 1)] = s[(i + 1) + (k - (i - 1)) - 1]
      BY <1>4, <3>1
    <3> QED
      BY <2>1, <2>3, <3>1, <3>2
  <2> QED
    BY <2>2, <2>3
<1> QED
  BY <1>1, <1>5, <1>6, <1>7, <1>8

LEMMA SelectionIs ==
  ASSUME NEW selection \in Selections
  PROVE  /\ selection \in Seq(Names)
         /\ \A i, j \in 1..Len(selection) : i # j => selection[i] # selection[j]
<1>1. PICK S \in SUBSET Names : selection \in SetToSeqs(S)
  BY DEF Selections
<1>2. IsFiniteSet(S)
  BY <1>1, FS_Subset
<1>3. Cardinality(S) \in Nat
  BY <1>2, FS_CardinalityType
<1> DEFINE n == Cardinality(S)
<1>4. selection \in [1..n -> S] /\ \A i, j \in 1..n : i # j => selection[i] # selection[j]
  BY <1>1 DEF SetToSeqs
<1> HIDE DEF n
<1>5. n \in Nat
  BY <1>3 DEF n
<1>6. selection \in Seq(S) /\ Len(selection) = n
  BY <1>4, <1>5
<1>7. selection \in Seq(Names)
  <2>1. selection \in [1..n -> Names]
    BY <1>4
  <2> QED
    BY <1>5, <2>1
<1> QED
  BY <1>4, <1>6, <1>7

LEMMA WholesNone ==
  ASSUME NEW names, NEW absent, NEW files
  PROVE  FlattenSeq(Wholes(0, names, absent, files)) = <<>>
<1>1. Wholes(0, names, absent, files) = <<>>
  BY DEF Wholes
<1> QED
  BY <1>1, FlattenEmpty

LEMMA WholesSeq ==
  ASSUME NEW names \in Seq(Names), NEW absent, NEW files \in Contents, NEW n \in 0..Len(names)
  PROVE  /\ Wholes(n, names, absent, files) \in Seq(Seq(Names \X Nat))
         /\ Len(Wholes(n, names, absent, files)) = n
<1> DEFINE T == Seq(Names \X Nat)
           W == Wholes(n, names, absent, files)
<1>1. <<>> \in T
  OBVIOUS
<1>2. files \in [Names -> T]
  BY DEF Contents
<1> HIDE DEF T
<1>3. n \in Nat /\ \A i \in 1..n : names[i] \in Names
  OBVIOUS
<1>4. W \in [1..n -> T]
  BY <1>1, <1>2, <1>3 DEF Wholes, Whole
<1> HIDE DEF W
<1>5. W \in Seq(T) /\ Len(W) = n
  BY <1>3, <1>4
<1> QED
  BY <1>5 DEF T, W

(* One more name: its file is added at the end.                            *)
LEMMA WholesNext ==
  ASSUME NEW names \in Seq(Names), NEW absent, NEW files \in Contents,
         NEW n \in 1..Len(names)
  PROVE  FlattenSeq(Wholes(n, names, absent, files))
           = FlattenSeq(Wholes(n - 1, names, absent, files)) \o Whole(names[n], absent, files)
<1> DEFINE B == Names \X Nat
           T == Seq(B)
           x == Whole(names[n], absent, files)
           W == Wholes(n - 1, names, absent, files)
           V == Wholes(n, names, absent, files)
<1>1. n \in 0..Len(names) /\ n - 1 \in 0..Len(names) /\ n \in Nat /\ n >= 1
  OBVIOUS
<1>2. W \in Seq(T) /\ Len(W) = n - 1 /\ V \in Seq(T) /\ Len(V) = n
  <2> DEFINE k == n - 1
  <2>1. Wholes(n, names, absent, files) \in Seq(Seq(Names \X Nat))
        /\ Len(Wholes(n, names, absent, files)) = n
    BY <1>1, WholesSeq
  <2>2. k \in 0..Len(names)
    BY <1>1
  <2> HIDE DEF k
  <2>3. Wholes(k, names, absent, files) \in Seq(Seq(Names \X Nat))
        /\ Len(Wholes(k, names, absent, files)) = k
    BY <2>2, WholesSeq
  <2> QED
    BY <2>1, <2>3 DEF k
<1>3. x \in T
  <2>1. <<>> \in T
    OBVIOUS
  <2>2. names[n] \in Names
    OBVIOUS
  <2>3. files[names[n]] \in T
    BY <2>2 DEF Contents
  <2> QED
    BY <2>1, <2>3 DEF Whole
<1>4. \A i \in 1..(n - 1) : V[i] = W[i]
  BY DEF Wholes
<1>5. V[n] = x
  BY DEF Wholes
<1> HIDE DEF W, V, T, x
<1>6. V = Append(W, x)
  <2>1. Append(W, x) \in Seq(T) /\ Len(Append(W, x)) = n
    BY <1>1, <1>2, <1>3
  <2>2. \A i \in 1..n : V[i] = Append(W, x)[i]
    BY <1>1, <1>2, <1>3, <1>4, <1>5
  <2> QED
    BY <1>2, <2>1, <2>2
<1>7. W \in Seq(Seq(B)) /\ x \in Seq(B)
  BY <1>2, <1>3 DEF T
<1> HIDE DEF B
<1>8. FlattenSeq(V) = FlattenSeq(W) \o x
  BY <1>6, <1>7, FlattenAppend
<1> QED
  BY <1>8 DEF V, W, x

LEMMA WholesOfAppend ==
  ASSUME NEW names \in Seq(Names), NEW y, NEW absent, NEW files
  PROVE  Wholes(Len(names), Append(names, y), absent, files)
           = Wholes(Len(names), names, absent, files)
<1>1. \A i \in 1..Len(names) : Append(names, y)[i] = names[i]
  OBVIOUS
<1> QED
  BY <1>1 DEF Wholes
----------------------------------------------------------------------------
LEMMA JoinInit == Init => JoinInv
<1> SUFFICES ASSUME Init PROVE JoinInv
  OBVIOUS
<1>1. disk \in Contents
  <2> DEFINE T == Seq(Names \X Nat)
  <2>1. PICK size \in [Names -> Sizes] :
          disk = [n \in Names |-> [k \in 1..size[n] |-> Block(n, k)]]
    BY DEF Init
  <2>2. ASSUME NEW n \in Names PROVE [k \in 1..size[n] |-> Block(n, k)] \in T
    <3>1. size[n] \in Nat
      BY <2>1
    <3>2. [k \in 1..size[n] |-> Block(n, k)] \in [1..size[n] -> Names \X Nat]
      BY <3>1 DEF Block
    <3> QED
      BY <3>1, <3>2
  <2> HIDE DEF T
  <2>3. disk \in [Names -> T]
    BY <2>1, <2>2
  <2> QED
    BY <2>3 DEF T, Contents
<1>2. JoinTypes
  BY <1>1 DEF Init, JoinTypes
<1>3. NoneTwice /\ TakenInOrder
  BY DEF Init, NoneTwice, TakenInOrder
<1> QED
  BY <1>2, <1>3 DEF Init, JoinInv, Begun, Written, SourcesKept, AtHand, Joined

LEMMA ClickKeeps ==
  ASSUME JoinInv, NEW selection \in Selections, NEW output \in Names,
         BitBtn1Click(selection, output)
  PROVE  JoinInv'
<1> USE DEF JoinInv
<1>1. selection \in Seq(Names) /\ \A i, j \in 1..Len(selection) : i # j => selection[i] # selection[j]
  BY SelectionIs
<1>2. disk' \in Contents /\ disk'[output] = <<>>
  <2> DEFINE T == Seq(Names \X Nat)
  <2>1. <<>> \in T
    OBVIOUS
  <2>2. disk \in [Names -> T] /\ disk' = [disk EXCEPT ![output] = <<>>]
    BY DEF JoinTypes, Contents, BitBtn1Click
  <2> HIDE DEF T
  <2>3. disk' \in [Names -> T] /\ disk'[output] = <<>>
    BY <2>1, <2>2
  <2> QED
    BY <2>3 DEF T, Contents
<1>3. JoinTypes'
  BY <1>1, <1>2 DEF JoinTypes, BitBtn1Click, stream
<1>4. clicks' > 0 /\ outputfilename' = output /\ Begun'
  BY DEF JoinTypes, Begun, BitBtn1Click
<1>5. NoneTwice'
  BY <1>1 DEF NoneTwice, BitBtn1Click
<1>6. TakenInOrder'
  BY DEF TakenInOrder, BitBtn1Click
<1>7. Written'
  <2>1. Len(disk'[output]) = 0 /\ totalBytesWritten' = 0
    BY <1>2 DEF BitBtn1Click
  <2> QED
    BY <1>4, <2>1 DEF Written
<1>8. SourcesKept'
  BY DEF SourcesKept, JoinTypes, Contents, BitBtn1Click
<1>9. AtHand'
  BY DEF AtHand, BitBtn1Click
<1>10. Joined'
  <2>1. Copied' = 0 /\ ReadOfIt' = <<>>
    BY DEF Copied, ReadOfIt, BitBtn1Click
  <2>2. FlattenSeq(Wholes(0, taken', missing', sources')) = <<>>
    BY WholesNone
  <2>3. <<>> = <<>> \o <<>>
    OBVIOUS
  <2>4. disk'[outputfilename'] = FlattenSeq(Wholes(Copied', taken', missing', sources')) \o ReadOfIt'
    BY <1>2, <1>4, <2>1, <2>2, <2>3
  <2> QED
    BY <2>4 DEF Joined
<1> QED
  BY <1>3, <1>4, <1>5, <1>6, <1>7, <1>8, <1>9, <1>10

LEMMA NextFileKeeps == ASSUME JoinInv, GetNextFileName PROVE JoinInv'
<1> USE DEF JoinInv
<1> DEFINE i == LeastIndex(Files)
           x == Files[i]
           n == Len(Files)
           m == Len(taken)
<1>1. /\ pc = "next" /\ Files # <<>> /\ filename' = x /\ taken' = Append(taken, x)
      /\ Files' = RemoveAt(Files, i) /\ pc' = "open"
      /\ UNCHANGED <<disk, missing, position, eof, totalBytesWritten, outside>>
  BY DEF GetNextFileName
<1>2. /\ UNCHANGED <<disk, missing, sources, outputfilename, position, clicks, totalBytesWritten>>
  BY <1>1 DEF outside
<1>3. Files \in Seq(Nat)
  <2>1. Files \in [1..Len(Files) -> Names] /\ Len(Files) \in Nat
    BY DEF JoinTypes
  <2>2. Files \in [1..Len(Files) -> Nat]
    BY <2>1
  <2> QED
    BY <2>1, <2>2
<1>4. i \in 1..n /\ \A k \in 1..n : Files[i] <= Files[k]
  BY <1>1, <1>3, LeastIndexIs DEF LeastUpTo
<1>5. Files \in Seq(Names) /\ taken \in Seq(Names) /\ n \in Nat /\ m \in Nat
  BY DEF JoinTypes
<1> HIDE DEF i
<1>6. /\ Files' \in Seq(Names)
      /\ Len(Files') = n - 1
      /\ \A k \in 1..(n - 1) : Files'[k] = IF k < i THEN Files[k] ELSE Files[k + 1]
  BY <1>1, <1>4, <1>5, RemoveAtIs
<1>7. x \in Names
  BY <1>4, <1>5
<1>8. /\ taken' \in Seq(Names) /\ Len(taken') = m + 1 /\ taken' # <<>> /\ taken'[m + 1] = x
      /\ \A k \in 1..m : taken'[k] = taken[k]
  <2> HIDE DEF x
  <2> QED
    BY <1>1, <1>5, <1>7
<1> HIDE DEF x
(* Each name that is left was there, elsewhere than the name taken.        *)
<1>9. \A k \in 1..(n - 1) : \E j \in 1..n : j # i /\ Files'[k] = Files[j] /\ j = (IF k < i THEN k ELSE k + 1)
  <2> TAKE k \in 1..(n - 1)
  <2>1. CASE k < i
    BY <1>4, <1>5, <1>6, <2>1
  <2>2. CASE ~ (k < i)
    <3>1. k + 1 \in 1..n /\ k + 1 # i
      BY <1>4, <1>5, <2>2
    <3> QED
      BY <1>6, <2>2, <3>1
  <2> QED
    BY <2>1, <2>2
<1>10. JoinTypes'
  BY <1>1, <1>2, <1>6, <1>8 DEF JoinTypes
<1>11. Begun'
  BY <1>1, <1>2 DEF Begun, JoinTypes
<1>12. NoneTwice'
  <2> SUFFICES ASSUME NEW k \in 1..(n - 1), NEW l \in 1..(n - 1), k # l
               PROVE  Files'[k] # Files'[l]
    BY <1>6 DEF NoneTwice
  <2>1. PICK a \in 1..n : Files'[k] = Files[a] /\ a = (IF k < i THEN k ELSE k + 1)
    BY <1>9
  <2>2. PICK b \in 1..n : Files'[l] = Files[b] /\ b = (IF l < i THEN l ELSE l + 1)
    BY <1>9
  <2>3. a # b
    BY <1>4, <1>5, <2>1, <2>2
  <2> QED
    BY <2>1, <2>2, <2>3 DEF NoneTwice
<1>13. TakenInOrder'
  <2>1. \A k \in 1..(n - 1) : x < Files'[k]
    <3> TAKE k \in 1..(n - 1)
    <3>1. PICK j \in 1..n : j # i /\ Files'[k] = Files[j]
      BY <1>9
    <3>2. Files[i] # Files[j]
      BY <1>4, <3>1 DEF NoneTwice
    <3>3. Files[i] <= Files[j] /\ Files[i] \in Nat /\ Files[j] \in Nat
      BY <1>3, <1>4
    <3> QED
      BY <3>1, <3>2, <3>3 DEF x
  <2>2. \A a \in 1..m : taken[a] < x
    BY <1>4 DEF TakenInOrder, x
  <2>3. \A a \in 1..m, k \in 1..(n - 1) : taken[a] < Files'[k]
    <3> TAKE a \in 1..m, k \in 1..(n - 1)
    <3>1. PICK j \in 1..n : Files'[k] = Files[j]
      BY <1>9
    <3> QED
      BY <3>1 DEF TakenInOrder
  <2>4. \A a \in 1..m : \A b \in (a + 1)..m : taken[a] < taken[b]
    BY DEF TakenInOrder
  <2>5. \A a \in 1..(m + 1) : a = m + 1 \/ a \in 1..m
    BY <1>5
  <2>6. ASSUME NEW a \in 1..(m + 1), NEW b \in (a + 1)..(m + 1) PROVE taken'[a] < taken'[b]
    <3>1. a \in 1..m /\ taken'[a] = taken[a]
      BY <1>5, <1>8
    <3>2. CASE b = m + 1
      BY <1>8, <2>2, <3>1, <3>2
    <3>3. CASE b # m + 1
      <4>1. b \in (a + 1)..m /\ b \in 1..m
        BY <1>5, <3>3
      <4> QED
        BY <1>8, <2>4, <3>1, <4>1
    <3> QED
      BY <3>2, <3>3
  <2>7. ASSUME NEW a \in 1..(m + 1), NEW k \in 1..(n - 1) PROVE taken'[a] < Files'[k]
    <3>1. CASE a = m + 1
      BY <1>8, <2>1, <3>1
    <3>2. CASE a \in 1..m
      BY <1>8, <2>3, <3>2
    <3> QED
      BY <2>5, <3>1, <3>2
  <2> QED
    BY <1>6, <1>8, <2>6, <2>7 DEF TakenInOrder
<1>14. Written' /\ SourcesKept'
  BY <1>2 DEF Written, SourcesKept
<1>15. AtHand'
  BY <1>1, <1>8 DEF AtHand
<1>16. Joined'
  <2> SUFFICES ASSUME clicks > 0, ~OutputSelected', Len(disk[outputfilename]) # Space
               PROVE  disk'[outputfilename'] =
                        FlattenSeq(Wholes(Copied', taken', missing', sources')) \o ReadOfIt'
    BY <1>2 DEF Joined
  <2>1. ~OutputSelected
    <3>1. \A a \in 1..m : outputfilename # taken[a]
      BY <1>2, <1>5, <1>8 DEF OutputSelected, ToSet
    <3>2. outputfilename # x
      BY <1>2, <1>5, <1>8 DEF OutputSelected, ToSet
    <3>3. \A a \in 1..n : outputfilename # Files[a]
      <4> TAKE a \in 1..n
      <4>1. CASE a = i
        BY <3>2, <4>1 DEF x
      <4>2. CASE a < i
        <5>1. a \in 1..(n - 1) /\ Files'[a] = Files[a]
          BY <1>4, <1>5, <1>6, <4>2
        <5>2. a \in DOMAIN Files'
          BY <1>6, <5>1
        <5> QED
          BY <1>2, <5>1, <5>2 DEF OutputSelected, ToSet
      <4>3. CASE a > i
        <5>1. a - 1 \in 1..(n - 1) /\ ~ (a - 1 < i) /\ (a - 1) + 1 = a
          BY <1>4, <1>5, <4>3
        <5>2. Files'[a - 1] = Files[a]
          BY <1>6, <5>1
        <5>3. a - 1 \in DOMAIN Files'
          BY <1>6, <5>1
        <5> QED
          BY <1>2, <5>2, <5>3 DEF OutputSelected, ToSet
      <4> QED
        BY <1>4, <1>5, <4>1, <4>2, <4>3
    <3> QED
      BY <1>5, <3>1, <3>3 DEF OutputSelected, ToSet
  <2>2. disk[outputfilename] = FlattenSeq(Wholes(m, taken, missing, sources)) \o <<>>
    BY <1>1, <2>1 DEF Joined, Copied, ReadOfIt
  <2>3. Copied' = m /\ ReadOfIt' = <<>>
    BY <1>1, <1>5, <1>8 DEF Copied, ReadOfIt
  <2>4. Wholes(m, taken', missing, sources) = Wholes(m, taken, missing, sources)
    BY <1>1, <1>5, WholesOfAppend
  <2> QED
    BY <1>2, <2>2, <2>3, <2>4
<1> QED
  BY <1>10, <1>11, <1>12, <1>13, <1>14, <1>15, <1>16

LEMMA OpenKeeps == ASSUME JoinInv, OpenSegment PROVE JoinInv'
<1> USE DEF JoinInv
<1> DEFINE m == Len(taken)
<1>1. /\ pc = "open" /\ position' = 0 /\ eof' = FALSE
      /\ pc' = IF filename \in missing THEN "next" ELSE "read"
      /\ UNCHANGED <<disk, missing, Files, filename, totalBytesWritten, outside, taken>>
  BY DEF OpenSegment, OpenOrElse
<1>2. /\ UNCHANGED <<disk, missing, Files, filename, totalBytesWritten, taken,
                     sources, outputfilename, clicks>>
  BY <1>1 DEF outside
<1>3. taken # <<>> /\ filename = taken[m] /\ taken \in Seq(Names) /\ m \in Nat
  BY <1>1 DEF AtHand, JoinTypes
<1>4. m \in 1..Len(taken) /\ (m - 1) + 1 = m /\ m - 1 \in Nat /\ filename \in Names
  BY <1>3
<1>5. JoinTypes'
  BY <1>1, <1>2 DEF JoinTypes
<1>6. Begun'
  BY <1>1, <1>2 DEF Begun, JoinTypes
<1>7. NoneTwice' /\ TakenInOrder' /\ Written' /\ SourcesKept'
  BY <1>2 DEF NoneTwice, TakenInOrder, Written, SourcesKept
<1>8. AtHand'
  <2>1. Len(disk[filename]) \in Nat
    BY <1>4 DEF JoinTypes, Contents
  <2> QED
    BY <1>1, <1>2, <1>3, <2>1 DEF AtHand
<1>9. Joined'
  <2> SUFFICES ASSUME clicks > 0, ~OutputSelected, Len(disk[outputfilename]) # Space
               PROVE  disk[outputfilename] =
                        FlattenSeq(Wholes(Copied', taken, missing, sources)) \o ReadOfIt'
    BY <1>2 DEF Joined, OutputSelected
  <2> DEFINE W == FlattenSeq(Wholes(m - 1, taken, missing, sources))
  <2>1. disk[outputfilename] = W \o <<>>
    BY <1>1 DEF Joined, Copied, ReadOfIt
  <2>2. CASE filename \in missing
    <3>1. Copied' = m /\ ReadOfIt' = <<>>
      BY <1>1, <1>2, <2>2 DEF Copied, ReadOfIt
    <3>2. FlattenSeq(Wholes(m, taken, missing, sources)) = W \o Whole(taken[m], missing, sources)
      BY <1>3, <1>4, WholesNext DEF JoinTypes
    <3>3. FlattenSeq(Wholes(m, taken, missing, sources)) = W \o <<>>
      BY <1>3, <2>2, <3>2 DEF Whole
    <3>4. W \in Seq(Names \X Nat)
      <4>1. m - 1 \in 0..Len(taken)
        BY <1>4
      <4> QED
        BY <1>3, <4>1, WholesSeq, FlattenStays DEF JoinTypes
    <3>5. W \o <<>> = W
      BY <3>4, ConcatEmptySeq
    <3> QED
      BY <2>1, <3>1, <3>3, <3>5
  <2>3. CASE filename \notin missing
    <3>1. Copied' = m - 1
      BY <1>1, <1>2, <2>3 DEF Copied
    <3>2. ReadOfIt' = SubSeq(sources[filename], 1, 0)
      BY <1>1, <1>2, <2>3 DEF ReadOfIt
    <3>3. SubSeq(sources[filename], 1, 0) = <<>>
      BY SubSeqEmpty
    <3> QED
      BY <2>1, <3>1, <3>2, <3>3
  <2> QED
    BY <2>2, <2>3
<1> QED
  BY <1>5, <1>6, <1>7, <1>8, <1>9

(* What one turn of the copying loop adds, and what it leaves.             *)
LEMMA CopyAdds ==
  ASSUME JoinInv, CopySegment
  PROVE  /\ taken # <<>> /\ filename = taken[Len(taken)] /\ filename \in Names
         /\ filename \notin missing /\ outputfilename \in Names /\ clicks > 0
         /\ position <= Len(disk[filename])
         /\ BytesRead \in Nat /\ BytesRead <= Len(disk[filename]) - position
         /\ BytesRead < SIZE_OF_BUFFER => BytesRead = Len(disk[filename]) - position
         /\ Room \in Nat
         /\ Lesser(BytesRead, Room) \in Nat
         /\ Lesser(BytesRead, Room) <= Room
         /\ Lesser(BytesRead, Room) < Room => Lesser(BytesRead, Room) = BytesRead
         /\ Lesser(BytesRead, Room) <= BytesRead
         /\ SubSeq(disk[filename], position + 1, position + Lesser(BytesRead, Room))
              \in Seq(Names \X Nat)
         /\ Len(SubSeq(disk[filename], position + 1, position + Lesser(BytesRead, Room)))
              = Lesser(BytesRead, Room)
<1> USE DEF JoinInv
<1>1. pc = "read"
  BY DEF CopySegment, CopyBlocks
<1>2. /\ taken # <<>> /\ filename = taken[Len(taken)] /\ filename \notin missing
      /\ position <= Len(disk[filename]) /\ filename \in Names
  <2>1. taken # <<>> /\ filename = taken[Len(taken)] /\ taken \in Seq(Names)
    BY <1>1 DEF AtHand, JoinTypes
  <2>2. filename \in Names
    BY <2>1
  <2> QED
    BY <1>1, <2>1, <2>2 DEF AtHand
<1>3. clicks > 0 /\ outputfilename \in Names
  BY <1>1 DEF Begun, JoinTypes
<1> DEFINE B == Names \X Nat
           file == disk[filename]
           l == Lesser(BytesRead, Room)
           added == SubSeq(file, position + 1, position + l)
<1>4. file \in Seq(B) /\ disk[outputfilename] \in Seq(B)
  <2> DEFINE T == Seq(B)
  <2>1. disk \in [Names -> T]
    BY DEF JoinTypes, Contents
  <2> HIDE DEF T
  <2>2. file \in T /\ disk[outputfilename] \in T
    BY <1>2, <1>3, <2>1
  <2> QED
    BY <2>2 DEF T
<1> HIDE DEF B
<1>5. Len(file) \in Nat /\ Len(disk[outputfilename]) \in Nat /\ position \in Nat
  BY <1>4 DEF JoinTypes
<1>6. Room \in Nat
  BY <1>3, <1>5 DEF Room, Written
<1>7. /\ BytesRead \in Nat /\ BytesRead <= Len(file) - position
      /\ BytesRead < SIZE_OF_BUFFER => BytesRead = Len(file) - position
  BY <1>2, <1>5 DEF BytesRead, Lesser
<1>8. l \in Nat /\ l <= Room /\ (l < Room => l = BytesRead) /\ l <= BytesRead
  BY <1>6, <1>7 DEF Lesser
<1> HIDE DEF l, file
<1>9. \A k \in (position + 1)..(position + l) : file[k] \in B
  BY <1>4, <1>5, <1>7, <1>8
<1>10. added \in Seq(B) /\ Len(added) = l
  <2>1. position + 1 \in Int /\ position + l \in Int
    BY <1>5, <1>8
  <2>2. /\ added \in Seq(B)
        /\ Len(added) = IF position + 1 <= position + l
                          THEN (position + l) - (position + 1) + 1 ELSE 0
    BY <1>9, <2>1, SubSeqProperties
  <2> QED
    BY <1>5, <1>8, <2>2
<1> QED
  BY <1>2, <1>3, <1>6, <1>7, <1>8, <1>10 DEF B, file, l

LEMMA CopyKeeps == ASSUME JoinInv, CopySegment PROVE JoinInv'
<1> USE DEF JoinInv
<1> DEFINE B == Names \X Nat
           file == disk[filename]
           out == disk[outputfilename]
           l == Lesser(BytesRead, Room)
           read == BytesRead
           added == SubSeq(file, position + 1, position + l)
           m == Len(taken)
<1>1. /\ pc = "read" /\ disk' = [disk EXCEPT ![outputfilename] = @ \o added]
      /\ position' = position + read /\ eof' = (read < SIZE_OF_BUFFER)
      /\ totalBytesWritten' = totalBytesWritten + read
      /\ UNCHANGED <<missing, Files, filename, pc, outside, taken>>
  BY DEF CopySegment, CopyBlocks, Count
<1>2. UNCHANGED <<missing, Files, filename, pc, taken, sources, outputfilename, clicks>>
  BY <1>1 DEF outside
<1>3. /\ taken # <<>> /\ filename = taken[m] /\ filename \in Names
      /\ filename \notin missing /\ outputfilename \in Names /\ clicks > 0
      /\ position <= Len(file)
      /\ read \in Nat /\ read <= Len(file) - position
      /\ read < SIZE_OF_BUFFER => read = Len(file) - position
      /\ Room \in Nat /\ l \in Nat /\ l <= Room /\ (l < Room => l = read) /\ l <= read
      /\ added \in Seq(B) /\ Len(added) = l
  BY CopyAdds
<1>4. file \in Seq(B) /\ out \in Seq(B) /\ disk \in [Names -> Seq(B)]
  <2> DEFINE T == Seq(B)
  <2>1. disk \in [Names -> T]
    BY DEF JoinTypes, Contents
  <2> HIDE DEF T
  <2>2. file \in T /\ out \in T
    BY <1>3, <2>1
  <2> QED
    BY <2>1, <2>2 DEF T
<1> HIDE DEF B, l, read, file, out, added
<1>5. Len(file) \in Nat /\ Len(out) \in Nat /\ position \in Nat /\ totalBytesWritten \in Nat
  BY <1>4 DEF JoinTypes
<1>6. out \o added \in Seq(B) /\ Len(out \o added) = Len(out) + l
  <2>1. out \in Seq(B) /\ added \in Seq(B) /\ Len(added) = l
    BY <1>3, <1>4
  <2> QED
    BY <2>1, ConcatProperties
<1>7. /\ disk' \in [Names -> Seq(B)]
      /\ disk'[outputfilename] = out \o added
      /\ \A n \in Names : n # outputfilename => disk'[n] = disk[n]
  <2> DEFINE T == Seq(B)
             o == out \o added
  <2>1. disk' = [disk EXCEPT ![outputfilename] = o] /\ disk \in [Names -> T] /\ o \in T
    BY <1>1, <1>4, <1>6 DEF out
  <2> HIDE DEF T, o
  <2>2. disk' \in [Names -> T] /\ disk'[outputfilename] = o
        /\ \A n \in Names : n # outputfilename => disk'[n] = disk[n]
    BY <1>3, <2>1
  <2> QED
    BY <2>2 DEF T, o
<1>8. JoinTypes'
  <2>1. position' \in Nat /\ totalBytesWritten' \in Nat
    BY <1>1, <1>3, <1>5
  <2>2. disk' \in Contents
    BY <1>7 DEF Contents, B
  <2> QED
    BY <1>2, <2>1, <2>2 DEF JoinTypes
<1>9. Begun'
  BY <1>2 DEF Begun
<1>10. NoneTwice' /\ TakenInOrder'
  BY <1>2 DEF NoneTwice, TakenInOrder
<1>11. Room = Space - Len(out)
  BY DEF Room, out
<1>12. Written'
  <2>1. Len(out) <= Space /\ (Len(out) # Space => totalBytesWritten = Len(out))
    BY <1>3 DEF Written, out
  <2>2. Len(out \o added) <= Space
    BY <1>3, <1>5, <1>6, <1>11, <2>1
  <2>3. Len(out \o added) # Space => totalBytesWritten + read = Len(out \o added)
    BY <1>3, <1>5, <1>6, <1>11, <2>1
  <2> QED
    BY <1>1, <1>2, <1>7, <2>2, <2>3 DEF Written
<1>13. SourcesKept'
  BY <1>2, <1>7 DEF SourcesKept
<1>14. AtHand'
  <2>1. position' <= Len(disk'[filename])
    <3>1. CASE filename = outputfilename
      <4>1. file = out
        BY <3>1 DEF file, out
      <4> QED
        BY <1>1, <1>3, <1>5, <1>6, <1>7, <3>1, <4>1
    <3>2. CASE filename # outputfilename
      <4>1. disk'[filename] = file
        BY <1>3, <1>7, <3>2 DEF file
      <4> QED
        BY <1>1, <1>3, <1>5, <4>1
    <3> QED
      BY <3>1, <3>2
  <2>2. eof' /\ filename # outputfilename => position' = Len(disk'[filename])
    <3> SUFFICES ASSUME read < SIZE_OF_BUFFER, filename # outputfilename
                 PROVE  position' = Len(disk'[filename])
      BY <1>1
    <3>1. disk'[filename] = file
      BY <1>3, <1>7 DEF file
    <3> QED
      BY <1>1, <1>3, <1>5, <3>1
  <2> QED
    BY <1>2, <1>3, <2>1, <2>2 DEF AtHand
<1>15. Joined'
  <2> SUFFICES ASSUME ~OutputSelected, Len(out \o added) # Space
               PROVE  out \o added =
                        FlattenSeq(Wholes(Copied', taken, missing, sources)) \o ReadOfIt'
    BY <1>2, <1>7 DEF Joined, OutputSelected
  <2> DEFINE W == FlattenSeq(Wholes(m - 1, taken, missing, sources))
             before == SubSeq(file, 1, position)
  <2>1. filename # outputfilename
    BY <1>3 DEF JoinTypes, OutputSelected, ToSet
  <2>2. file = sources[filename]
    BY <1>3, <2>1 DEF SourcesKept, file
  <2>3. Len(out) # Space /\ l = read
    BY <1>3, <1>5, <1>6, <1>11
  <2>4. out = W \o before
    <3>1. disk[outputfilename] = FlattenSeq(Wholes(Copied, taken, missing, sources)) \o ReadOfIt
      BY <1>3, <2>3 DEF Joined, out
    <3> QED
      BY <1>1, <2>2, <3>1 DEF Copied, ReadOfIt, out
  <2>5. Copied' = m - 1
    BY <1>1, <1>2 DEF Copied
  <2>6. ReadOfIt' = SubSeq(file, 1, position + read)
    BY <1>1, <1>2, <2>2 DEF ReadOfIt
  <2>7. before \o added = SubSeq(file, 1, position + read)
    <3>1. /\ 1 \in 1..(Len(file) + 1)
          /\ position \in (1 - 1)..Len(file)
          /\ position + read \in position..Len(file)
      BY <1>3, <1>5
    <3>2. SubSeq(file, 1, position) \o SubSeq(file, position + 1, position + read)
            = SubSeq(file, 1, position + read)
      BY <1>4, <3>1, ConcatAdjacentSubSeq
    <3> QED
      BY <2>3, <3>2 DEF added
  <2>8. W \in Seq(B)
    <3>1. m - 1 \in 0..Len(taken) /\ taken \in Seq(Names) /\ sources \in Contents
      BY <1>3 DEF JoinTypes
    <3> QED
      BY <3>1, WholesSeq, FlattenStays DEF B
  <2>9. before \in Seq(B)
    <3>1. 1 \in Int /\ position \in Int /\ \A k \in 1..position : file[k] \in B
      BY <1>3, <1>4, <1>5
    <3> QED
      BY <3>1, SubSeqProperties
  <2> HIDE DEF W, before
  <2>10. (W \o before) \o added = W \o (before \o added)
    <3>1. W \in Seq(B) /\ before \in Seq(B) /\ added \in Seq(B)
      BY <1>3, <2>8, <2>9
    <3> QED
      BY <3>1, ConcatAssociative
  <2> QED
    BY <2>4, <2>5, <2>6, <2>7, <2>10 DEF W
<1> QED
  BY <1>8, <1>9, <1>10, <1>12, <1>13, <1>14, <1>15

LEMMA CloseKeeps == ASSUME JoinInv, CloseSegment PROVE JoinInv'
<1> USE DEF JoinInv
<1> DEFINE m == Len(taken)
<1>1. /\ pc = "read" /\ eof /\ pc' = "next"
      /\ UNCHANGED <<disk, missing, Files, filename, position, totalBytesWritten, taken,
                     sources, outputfilename, clicks>>
  BY DEF CloseSegment, stream, outside
<1>2. /\ taken # <<>> /\ filename = taken[m] /\ taken \in Seq(Names) /\ m \in 1..Len(taken)
      /\ filename \in Names /\ filename \notin missing
  <2>1. taken # <<>> /\ filename = taken[m] /\ taken \in Seq(Names) /\ filename \notin missing
    BY <1>1 DEF AtHand, JoinTypes
  <2>2. m \in 1..Len(taken) /\ filename \in Names
    BY <2>1
  <2> QED
    BY <2>1, <2>2
<1>3. JoinTypes' /\ Begun'
  BY <1>1 DEF JoinTypes, Begun
<1>4. NoneTwice' /\ TakenInOrder' /\ Written' /\ SourcesKept' /\ AtHand'
  BY <1>1 DEF NoneTwice, TakenInOrder, Written, SourcesKept, AtHand
<1>5. Joined'
  <2> SUFFICES ASSUME clicks > 0, ~OutputSelected, Len(disk[outputfilename]) # Space
               PROVE  disk[outputfilename] =
                        FlattenSeq(Wholes(Copied', taken, missing, sources)) \o ReadOfIt'
    BY <1>1 DEF Joined, OutputSelected
  <2> DEFINE W == FlattenSeq(Wholes(m - 1, taken, missing, sources))
             B == Names \X Nat
             file == sources[filename]
  <2>1. filename # outputfilename
    BY <1>2 DEF OutputSelected, ToSet
  <2>2. position = Len(file)
    BY <1>1, <1>2, <2>1 DEF AtHand, SourcesKept
  <2>3. file \in Seq(B)
    BY <1>2 DEF JoinTypes, Contents
  <2>4. disk[outputfilename] = W \o SubSeq(file, 1, position)
    BY <1>1 DEF Joined, Copied, ReadOfIt
  <2>5. SubSeq(file, 1, position) = file
    <3> HIDE DEF file, B
    <3> QED
      BY <2>2, <2>3, SubSeqFull
  <2>6. FlattenSeq(Wholes(m, taken, missing, sources)) = W \o Whole(taken[m], missing, sources)
    BY <1>2, WholesNext DEF JoinTypes
  <2>7. Whole(taken[m], missing, sources) = file
    BY <1>2 DEF Whole
  <2>8. m \in 0..Len(taken)
    BY <1>2
  <2>9. FlattenSeq(Wholes(m, taken, missing, sources)) \in Seq(B)
    BY <1>2, <2>8, WholesSeq, FlattenStays DEF JoinTypes
  <2>10. FlattenSeq(Wholes(m, taken, missing, sources)) \o <<>>
           = FlattenSeq(Wholes(m, taken, missing, sources))
    BY <2>9, ConcatEmptySeq
  <2>11. Copied' = m /\ ReadOfIt' = <<>>
    BY <1>1 DEF Copied, ReadOfIt
  <2> HIDE DEF W, file
  <2> QED
    BY <2>4, <2>5, <2>6, <2>7, <2>10, <2>11
<1> QED
  BY <1>3, <1>4, <1>5

LEMMA FinishKeeps == ASSUME JoinInv, Finish PROVE JoinInv'
<1> USE DEF JoinInv
<1>1. /\ pc = "next" /\ pc' = "ready"
      /\ UNCHANGED <<disk, missing, Files, filename, position, totalBytesWritten, taken,
                     sources, outputfilename, clicks>>
  BY DEF Finish, stream, outside
<1>2. JoinTypes' /\ Begun'
  BY <1>1 DEF JoinTypes, Begun
<1>3. NoneTwice' /\ TakenInOrder' /\ Written' /\ SourcesKept' /\ AtHand'
  BY <1>1 DEF NoneTwice, TakenInOrder, Written, SourcesKept, AtHand
<1>4. Copied' = Copied /\ ReadOfIt' = ReadOfIt /\ OutputSelected' = OutputSelected
  BY <1>1 DEF Copied, ReadOfIt, OutputSelected
<1>5. Joined'
  BY <1>1, <1>4 DEF Joined
<1> QED
  BY <1>2, <1>3, <1>5

LEMMA JoinStutters == ASSUME JoinInv, UNCHANGED vars PROVE JoinInv'
<1> USE DEF JoinInv
<1>1. UNCHANGED <<disk, missing, Files, filename, position, eof, totalBytesWritten, taken,
                  sources, outputfilename, clicks, pc>>
  BY DEF vars, stream, outside
<1>2. JoinTypes' /\ Begun'
  BY <1>1 DEF JoinTypes, Begun
<1>3. NoneTwice' /\ TakenInOrder' /\ Written' /\ SourcesKept' /\ AtHand'
  BY <1>1 DEF NoneTwice, TakenInOrder, Written, SourcesKept, AtHand
<1>4. Copied' = Copied /\ ReadOfIt' = ReadOfIt /\ OutputSelected' = OutputSelected
  BY <1>1 DEF Copied, ReadOfIt, OutputSelected
<1>5. Joined'
  BY <1>1, <1>4 DEF Joined
<1> QED
  BY <1>2, <1>3, <1>5

LEMMA JoinNext == ASSUME JoinInv, [Next]_vars PROVE JoinInv'
<1>1. ASSUME NEW selection \in Selections, NEW output \in Names, BitBtn1Click(selection, output)
      PROVE  JoinInv'
  BY <1>1, ClickKeeps
<1>2. CASE GetNextFileName
  BY <1>2, NextFileKeeps
<1>3. CASE OpenSegment
  BY <1>3, OpenKeeps
<1>4. CASE CopySegment
  BY <1>4, CopyKeeps
<1>5. CASE CloseSegment
  BY <1>5, CloseKeeps
<1>6. CASE Finish
  BY <1>6, FinishKeeps
<1>7. CASE UNCHANGED vars
  BY <1>7, JoinStutters
<1> QED
  BY <1>1, <1>2, <1>3, <1>4, <1>5, <1>6, <1>7 DEF Next, JoinStep

(* The invariant holds while segments are taken, opened, copied and closed.*)
THEOREM JoinInvariant == Spec => []JoinInv
<1>1. Init => JoinInv
  BY JoinInit
<1>2. JoinInv /\ [Next]_vars => JoinInv'
  BY JoinNext
<1> QED
  BY <1>1, <1>2, PTL DEF Spec
----------------------------------------------------------------------------
(* The portions of OutputIsJoin are the whole files copied so far and what *)
(* has been read of the one at hand.                                       *)
LEMMA PortionsJoined ==
  ASSUME JoinInv, ~OutputSelected
  PROVE  FlattenSeq([i \in 1..Len(taken) |-> Portion(i)])
           = FlattenSeq(Wholes(Copied, taken, missing, sources)) \o ReadOfIt
<1> USE DEF JoinInv
<1> DEFINE B == Names \X Nat
           T == Seq(B)
           m == Len(taken)
           P == [i \in 1..m |-> Portion(i)]
           W == Wholes(m - 1, taken, missing, sources)
           V == Wholes(m, taken, missing, sources)
<1>1. taken \in Seq(Names) /\ m \in Nat /\ sources \in Contents /\ m \in 0..Len(taken)
  BY DEF JoinTypes
<1>2. CASE pc \notin {"open", "read"}
  <2>1. P = V
    BY <1>2 DEF Portion, Wholes, Whole
  <2>2. V \in Seq(Seq(B))
    BY <1>1, WholesSeq
  <2>3. FlattenSeq(V) \in Seq(B)
    BY <2>2, FlattenStays
  <2>4. FlattenSeq(V) \o <<>> = FlattenSeq(V)
    BY <2>3, ConcatEmptySeq
  <2>5. Copied = m /\ ReadOfIt = <<>>
    BY <1>2 DEF Copied, ReadOfIt
  <2> HIDE DEF P
  <2> QED
    BY <2>1, <2>4, <2>5 DEF P
<1>3. CASE pc \in {"open", "read"}
  <2>1. taken # <<>> /\ filename = taken[m]
    BY <1>3 DEF AtHand
  <2>2. m # 0 /\ m - 1 \in 0..Len(taken) /\ filename \in Names
    BY <1>1, <2>1
  <2>3. W \in Seq(T) /\ Len(W) = m - 1
    BY <1>1, <2>2, WholesSeq
  <2>4. Copied = m - 1
    BY <1>3 DEF Copied
  <2>5. Portion(m) = ReadOfIt
    <3>1. CASE pc = "open"
      BY <3>1 DEF Portion, ReadOfIt
    <3>2. CASE pc = "read"
      <4>1. filename \notin missing
        BY <3>2 DEF AtHand
      <4> QED
        BY <2>1, <3>2, <4>1 DEF Portion, ReadOfIt
    <3> QED
      BY <1>3, <3>1, <3>2
  <2>6. ReadOfIt \in T
    <3>1. CASE pc = "open"
      <4>1. ReadOfIt = <<>>
        BY <3>1 DEF ReadOfIt
      <4> QED
        BY <4>1
    <3>2. CASE pc = "read"
      <4> DEFINE file == sources[filename]
      <4>1. file \in Seq(B)
        BY <2>2 DEF JoinTypes, Contents
      <4>2. position \in Nat /\ position <= Len(disk[filename])
        BY <3>2 DEF AtHand, JoinTypes
      <4>3. disk[filename] = file
        <5>1. filename # outputfilename
          BY <1>1, <2>1, <2>2 DEF OutputSelected, ToSet
        <5> QED
          BY <2>2, <5>1 DEF SourcesKept
      <4> HIDE DEF file, B
      <4>4. 1 \in Int /\ position \in Int /\ \A k \in 1..position : file[k] \in B
        BY <4>1, <4>2, <4>3
      <4>5. SubSeq(file, 1, position) \in Seq(B)
        BY <4>4, SubSeqProperties
      <4> QED
        BY <3>2, <4>5 DEF ReadOfIt, file
    <3> QED
      BY <1>3, <3>1, <3>2
  <2>7. \A i \in 1..(m - 1) : P[i] = W[i]
    BY <1>1, <1>3 DEF Portion, Wholes, Whole
  <2>8. P[m] = ReadOfIt
    BY <2>2, <2>5
  <2>9. DOMAIN P = 1..m
    OBVIOUS
  <2> HIDE DEF T, W, P
  <2>10. P = Append(W, ReadOfIt)
    <3>1. Append(W, ReadOfIt) \in Seq(T) /\ Len(Append(W, ReadOfIt)) = m
      BY <1>1, <2>3, <2>6
    <3>2. \A i \in 1..m : P[i] = Append(W, ReadOfIt)[i]
      BY <1>1, <2>2, <2>3, <2>6, <2>7, <2>8
    <3>3. P \in [1..m -> T]
      <4>1. \A i \in 1..m : Append(W, ReadOfIt)[i] \in T
        BY <3>1
      <4>2. \A i \in 1..m : P[i] \in T
        BY <3>2, <4>1
      <4>3. P = [i \in 1..m |-> P[i]]
        BY DEF P
      <4> QED
        BY <4>2, <4>3
    <3>4. P \in Seq(T) /\ Len(P) = m
      BY <1>1, <3>3
    <3> QED
      BY <3>1, <3>2, <3>4
  <2>11. W \in Seq(Seq(B)) /\ ReadOfIt \in Seq(B)
    BY <2>3, <2>6 DEF T
  <2>12. FlattenSeq(P) = FlattenSeq(W) \o ReadOfIt
    BY <2>10, <2>11, FlattenAppend
  <2> QED
    BY <2>4, <2>12 DEF P, W
<1> QED
  BY <1>2, <1>3

(* OutputIsJoin holds: the output has the selected segments in the order   *)
(* of their names (MTS_FileJoiner.cpp, GetNextFileName and the loop of     *)
(* BitBtn1Click), whatever the files, their sizes and the size of buffer.  *)
THEOREM SegmentsJoined == Spec => []OutputIsJoin
<1>1. ASSUME JoinInv PROVE OutputIsJoin
  <2> USE <1>1 DEF JoinInv
  <2>1. TakenInOrder
    OBVIOUS
  <2>2. ASSUME clicks > 0, ~OutputSelected, ~DiskFull
        PROVE  disk[outputfilename] = FlattenSeq([i \in 1..Len(taken) |-> Portion(i)])
    <3>1. outputfilename \in Names /\ Len(disk[outputfilename]) \in Nat
          /\ Len(disk[outputfilename]) <= Space
      BY <2>2 DEF Begun, JoinTypes, Contents, Written
    <3>2. Len(disk[outputfilename]) # Space
      BY <2>2, <3>1 DEF DiskFull, Room
    <3>3. disk[outputfilename]
            = FlattenSeq(Wholes(Copied, taken, missing, sources)) \o ReadOfIt
      BY <2>2, <3>2 DEF Joined
    <3> QED
      BY <1>1, <2>2, <3>3, PortionsJoined
  <2> QED
    BY <2>1, <2>2 DEF OutputIsJoin
<1> QED
  BY <1>1, JoinInvariant, PTL

(* ReportedIsWritten holds: the number of bytes in the log is the size of  *)
(* the output, unless the disk is full.                                    *)
THEOREM ReportedAlways == Spec => []ReportedIsWritten
<1>1. ASSUME JoinInv PROVE ReportedIsWritten
  <2> SUFFICES ASSUME clicks > 0, ~DiskFull
               PROVE  totalBytesWritten = Len(disk[outputfilename])
    BY DEF ReportedIsWritten
  <2>1. outputfilename \in Names /\ Len(disk[outputfilename]) \in Nat
        /\ Len(disk[outputfilename]) <= Space
    BY <1>1 DEF JoinInv, Begun, JoinTypes, Contents, Written
  <2>2. Len(disk[outputfilename]) # Space
    BY <2>1 DEF DiskFull, Room
  <2> QED
    BY <1>1, <2>2 DEF JoinInv, Written
<1> QED
  BY <1>1, JoinInvariant, PTL
=============================================================================
