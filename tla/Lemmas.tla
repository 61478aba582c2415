------------------------------- MODULE Lemmas -------------------------------
(***************************************************************************)
(* Lemmas about what the models are built from, for any values: sets of    *)
(* numbers, sequences that hold nothing twice, functions defined by        *)
(* recursion over 0..n, and the edits of Layout.                           *)
(***************************************************************************)
EXTENDS Layout, SequenceTheorems, WellFoundedInduction, TLAPS

-----------------------------------------------------------------------------
(* Numbers and sequences *)

\* Every set of natural numbers that has an element has a least one.
LEMMA LeastNatural ==
    ASSUME NEW T \in SUBSET Nat, T # {}
    PROVE  \E x \in T : \A y \in T : x <= y
<1>1. PICK R : IsWellFoundedOn(R, Nat) /\ \A x, y \in Nat : <<x, y>> \in R <=> x < y
  BY NatLessThanWellFounded DEF OpToRel
<1>2. IsWellFoundedOn(R, Nat) /\ T \subseteq Nat
  BY <1>1
<1>3. PICK x \in T : \A y \in T : ~(<<y, x>> \in R)
  BY <1>2, WFMin
<1>4. ASSUME NEW y \in T
      PROVE  x <= y
  <2>1. x \in Nat /\ y \in Nat /\ ~(y < x)
    BY <1>1, <1>3
  <2>2. QED
    BY <2>1
<1>5. QED
  BY <1>3, <1>4

LEMMA MinIsLeast ==
    ASSUME NEW T \in SUBSET Nat, T # {}
    PROVE  Min(T) \in T /\ \A y \in T : Min(T) <= y
BY LeastNatural DEF Min

\* What is left of a sequence without the element at i.
LEMMA RemoveAtIndex ==
    ASSUME NEW S, NEW s \in Seq(S), NEW i \in 1..Len(s)
    PROVE  /\ RemoveAt(s, i) \in Seq(S)
           /\ Len(RemoveAt(s, i)) = Len(s) - 1
           /\ \A k \in 1..(Len(s) - 1) : RemoveAt(s, i)[k] = s[IF k < i THEN k ELSE k + 1]
<1> DEFINE a == SubSeq(s, 1, i - 1)
           b == SubSeq(s, i + 1, Len(s))
<1>1. /\ a \in Seq(S) /\ Len(a) = i - 1
      /\ \A k \in 1..(i - 1) : a[k] = s[k]
  OBVIOUS
<1>2. /\ b \in Seq(S) /\ Len(b) = Len(s) - i
      /\ \A k \in 1..(Len(s) - i) : b[k] = s[k + i]
  OBVIOUS
<1>3. RemoveAt(s, i) = a \o b
  BY DEF RemoveAt
<1> HIDE DEF a, b
<1>4. /\ a \o b \in Seq(S) /\ Len(a \o b) = Len(s) - 1
      /\ \A k \in 1..(Len(s) - 1) : (a \o b)[k] = IF k <= i - 1 THEN a[k] ELSE b[k - (i - 1)]
  <2>1. a \o b \in Seq(S) /\ Len(a \o b) = Len(a) + Len(b)
    BY <1>1, <1>2, ConcatProperties
  <2>2. \A k \in 1..(Len(a) + Len(b)) : (a \o b)[k] = IF k <= Len(a) THEN a[k] ELSE b[k - Len(a)]
    BY <1>1, <1>2, ConcatProperties
  <2>3. Len(a) + Len(b) = Len(s) - 1
    BY <1>1, <1>2
  <2>4. QED
    BY <1>1, <2>1, <2>2, <2>3
<1>5. ASSUME NEW k \in 1..(Len(s) - 1)
      PROVE  (a \o b)[k] = s[IF k < i THEN k ELSE k + 1]
  <2>1. CASE k < i
    BY <1>1, <1>4, <2>1
  <2>2. CASE ~(k < i)
    <3>1. k - (i - 1) \in 1..(Len(s) - i) /\ k - (i - 1) + i = k + 1
      BY <2>2
    <3>2. QED
      BY <1>2, <1>4, <2>2, <3>1
  <2>3. QED
    BY <2>1, <2>2
<1>6. QED
  BY <1>3, <1>4, <1>5

\* RemoveFirst of what is there is the removal at its first place.
LEMMA RemoveFirstIndex ==
    ASSUME NEW S, NEW s \in Seq(S), NEW e \in ToSet(s)
    PROVE  \E i \in 1..Len(s) : s[i] = e /\ RemoveFirst(s, e) = RemoveAt(s, i)
<1> DEFINE I == {i \in 1..Len(s) : s[i] = e}
<1>1. I \in SUBSET Nat /\ I # {}
  BY DEF ToSet
<1>2. Min(I) \in I
  BY <1>1, MinIsLeast
<1>3. RemoveFirst(s, e) = RemoveAt(s, Min(I))
  BY <1>1 DEF RemoveFirst, SelectInSeq
<1>4. QED
  BY <1>2, <1>3

\* Taking e off a list that holds nothing twice leaves the others, in order.
LEMMA RemoveFirstProperties ==
    ASSUME NEW S, NEW s \in Seq(S), NEW e, IsInjective(s)
    PROVE  /\ RemoveFirst(s, e) \in Seq(S)
           /\ IsInjective(RemoveFirst(s, e))
           /\ ToSet(RemoveFirst(s, e)) = ToSet(s) \ {e}
           /\ s # <<>> /\ Head(s) # e =>
                 RemoveFirst(s, e) # <<>> /\ Head(RemoveFirst(s, e)) = Head(s)
<1>1. CASE e \notin ToSet(s)
  <2>1. RemoveFirst(s, e) = s
    BY <1>1 DEF RemoveFirst, ToSet
  <2>2. QED
    BY <1>1, <2>1
<1>2. CASE e \in ToSet(s)
  <2> DEFINE r == RemoveFirst(s, e)
  <2>1. PICK i \in 1..Len(s) : s[i] = e /\ r = RemoveAt(s, i)
    BY <1>2, RemoveFirstIndex
  <2>2. /\ r \in Seq(S) /\ Len(r) = Len(s) - 1
        /\ \A k \in 1..(Len(s) - 1) : r[k] = s[IF k < i THEN k ELSE k + 1]
    BY <2>1, RemoveAtIndex
  <2> HIDE DEF r
  <2>3. DOMAIN r = 1..(Len(s) - 1) /\ DOMAIN s = 1..Len(s)
    BY <2>2
  <2>4. IsInjective(r)
    <3>1. SUFFICES ASSUME NEW j \in 1..(Len(s) - 1), NEW k \in 1..(Len(s) - 1), r[j] = r[k]
                   PROVE  j = k
      BY <2>3 DEF IsInjective
    <3>2. s[IF j < i THEN j ELSE j + 1] = s[IF k < i THEN k ELSE k + 1]
      BY <2>2, <3>1
    <3>3. (IF j < i THEN j ELSE j + 1) = (IF k < i THEN k ELSE k + 1)
      BY <2>3, <3>2 DEF IsInjective
    <3>4. QED
      BY <3>3
  <2>5. ToSet(r) \subseteq ToSet(s) \ {e}
    <3>1. SUFFICES ASSUME NEW k \in 1..(Len(s) - 1)
                   PROVE  r[k] \in ToSet(s) \ {e}
      BY <2>3 DEF ToSet
    <3>2. PICK j \in 1..Len(s) : j # i /\ r[k] = s[j]
      BY <2>2
    <3>3. s[j] # s[i]
      BY <2>3, <3>2 DEF IsInjective
    <3>4. QED
      BY <2>1, <2>3, <3>2, <3>3 DEF ToSet
  <2>6. ToSet(s) \ {e} \subseteq ToSet(r)
    <3>1. SUFFICES ASSUME NEW j \in 1..Len(s), s[j] # e
                   PROVE  s[j] \in ToSet(r)
      BY <2>3 DEF ToSet
    <3>2. PICK k \in 1..(Len(s) - 1) : j = IF k < i THEN k ELSE k + 1
      <4>1. CASE j < i
        BY <4>1
      <4>2. CASE j > i
        <5>1. j - 1 \in 1..(Len(s) - 1) /\ ~(j - 1 < i) /\ j = (j - 1) + 1
          BY <4>2
        <5>2. QED
          BY <5>1
      <4>3. j # i
        BY <2>1, <3>1
      <4>4. QED
        BY <4>1, <4>2, <4>3
    <3>3. r[k] = s[j]
      BY <2>2, <3>2
    <3>4. QED
      BY <2>3, <3>3 DEF ToSet
  <2>7. ASSUME s # <<>>, Head(s) # e
        PROVE  r # <<>> /\ Head(r) = Head(s)
    <3>1. Head(s) = s[1] /\ i # 1
      BY <2>1, <2>7
    <3>2. Len(s) > 1 /\ r[1] = s[1]
      BY <2>2, <3>1
    <3>3. QED
      BY <2>2, <3>1, <3>2
  <2>8. QED
    BY <2>2, <2>4, <2>5, <2>6, <2>7 DEF r
<1>3. QED
  BY <1>1, <1>2

\* Putting e in front of a list without it.
LEMMA PutInFront ==
    ASSUME NEW S, NEW s \in Seq(S), NEW e \in S
    PROVE  /\ <<e>> \o s \in Seq(S)
           /\ <<e>> \o s # <<>> /\ Head(<<e>> \o s) = e
           /\ ToSet(<<e>> \o s) = {e} \cup ToSet(s)
           /\ IsInjective(s) /\ e \notin ToSet(s) => IsInjective(<<e>> \o s)
<1> DEFINE r == <<e>> \o s
<1>1. <<e>> \in Seq(S) /\ Len(<<e>>) = 1 /\ <<e>>[1] = e
  OBVIOUS
<1>2. /\ r \in Seq(S) /\ Len(r) = Len(s) + 1
      /\ \A i \in 1..(Len(s) + 1) : r[i] = IF i <= 1 THEN <<e>>[i] ELSE s[i - 1]
  BY <1>1, ConcatProperties
<1> HIDE DEF r
<1>3. r[1] = e /\ \A i \in 1..Len(s) : r[i + 1] = s[i]
  BY <1>1, <1>2
<1>4. DOMAIN r = 1..(Len(s) + 1) /\ DOMAIN s = 1..Len(s)
  BY <1>2
<1>5. r # <<>> /\ Head(r) = e
  BY <1>2, <1>3
<1>6. ASSUME NEW i \in 1..(Len(s) + 1)
      PROVE  (i = 1 /\ r[i] = e) \/ (i - 1 \in 1..Len(s) /\ r[i] = s[i - 1])
  <2>1. CASE i = 1
    BY <1>3, <2>1
  <2>2. CASE i # 1
    <3>1. i - 1 \in 1..Len(s) /\ (i - 1) + 1 = i
      BY <1>2, <2>2
    <3>2. QED
      BY <1>3, <3>1
  <2>3. QED
    BY <2>1, <2>2
<1>7. ToSet(r) = {e} \cup ToSet(s)
  <2>1. ToSet(r) \subseteq {e} \cup ToSet(s)
    BY <1>4, <1>6 DEF ToSet
  <2>2. e \in ToSet(r)
    BY <1>3, <1>4 DEF ToSet
  <2>3. ASSUME NEW i \in 1..Len(s)
        PROVE  s[i] \in ToSet(r)
    <3>1. i + 1 \in 1..(Len(s) + 1) /\ r[i + 1] = s[i]
      BY <1>3
    <3>2. QED
      BY <1>4, <3>1 DEF ToSet
  <2>4. QED
    BY <1>4, <2>1, <2>2, <2>3 DEF ToSet
<1>8. ASSUME IsInjective(s), e \notin ToSet(s)
      PROVE  IsInjective(r)
  <2>1. SUFFICES ASSUME NEW i \in 1..(Len(s) + 1), NEW j \in 1..(Len(s) + 1), r[i] = r[j]
                 PROVE  i = j
    BY <1>4 DEF IsInjective
  <2>2. \A k \in 1..Len(s) : s[k] # e
    BY <1>4, <1>8 DEF ToSet
  <2>3. \/ i = 1 /\ j = 1
        \/ i - 1 \in 1..Len(s) /\ j - 1 \in 1..Len(s) /\ s[i - 1] = s[j - 1]
    BY <1>6, <2>1, <2>2, Zenon
  <2>4. QED
    BY <1>4, <1>8, <2>3 DEF IsInjective
<1>9. QED
  BY <1>2, <1>5, <1>7, <1>8 DEF r

\* Putting e at the end of a list without it.
LEMMA PutAtEnd ==
    ASSUME NEW S, NEW s \in Seq(S), NEW e \in S
    PROVE  /\ Append(s, e) \in Seq(S)
           /\ ToSet(Append(s, e)) = ToSet(s) \cup {e}
           /\ IsInjective(s) /\ e \notin ToSet(s) => IsInjective(Append(s, e))
<1> DEFINE r == Append(s, e)
<1>1. /\ r \in Seq(S) /\ Len(r) = Len(s) + 1 /\ r[Len(s) + 1] = e
      /\ \A i \in 1..Len(s) : r[i] = s[i]
  BY AppendProperties
<1> HIDE DEF r
<1>2. DOMAIN r = 1..(Len(s) + 1) /\ DOMAIN s = 1..Len(s)
  BY <1>1
<1>3. 1..(Len(s) + 1) = 1..Len(s) \cup {Len(s) + 1}
  OBVIOUS
<1>4. ToSet(r) = ToSet(s) \cup {e}
  BY <1>1, <1>2, <1>3 DEF ToSet
<1>5. ASSUME IsInjective(s), e \notin ToSet(s)
      PROVE  IsInjective(r)
  BY <1>1, <1>2, <1>3, <1>5 DEF IsInjective, ToSet
<1>6. QED
  BY <1>1, <1>4, <1>5 DEF r

-----------------------------------------------------------------------------
(* Functions that are defined by recursion over 0..n *)

\* What holds at 0 and passes from each number to the next holds up to n.
LEMMA UpTo ==
    ASSUME NEW n \in Nat, NEW T, NEW p, p[0] \in T,
           \A i \in 1..n : p[i - 1] \in T => p[i] \in T
    PROVE  \A i \in 0..n : p[i] \in T
<1> DEFINE bad == {i \in 0..n : p[i] \notin T}
<1>1. SUFFICES ASSUME bad # {} PROVE FALSE
  OBVIOUS
<1>2. PICK i \in bad : \A j \in bad : i <= j
  <2>1. bad \in SUBSET Nat
    OBVIOUS
  <2>2. QED
    BY <1>1, <2>1, LeastNatural
<1>3. i \in 1..n /\ i - 1 \in 0..n /\ ~(i <= i - 1)
  BY <1>2
<1>4. i - 1 \notin bad
  BY <1>2, <1>3
<1>5. QED
  BY <1>2, <1>3, <1>4

\* h makes of each value, up to n, the next one by Step, a being the first.
Unfolds(h, n, T, a, Step) ==
    h \in [0..n -> T] /\ h[0] = a /\ \A i \in 1..n : h[i] = Step[i][h[i - 1]]

\* A function is defined by its value at 0 and what each value makes of the one
\* before it.
LEMMA RecursionExists ==
    ASSUME NEW n \in Nat, NEW T, NEW a \in T, NEW Step \in [1..n -> [T -> T]]
    PROVE  \E h : Unfolds(h, n, T, a, Step)
<1> DEFINE Solves(h, m) == /\ h \in [0..m -> T] /\ h[0] = a
                           /\ \A i \in 1..m : h[i] = Step[i][h[i - 1]]
           bad == {m \in 0..n : ~\E h : Solves(h, m)}
<1>1. ASSUME NEW m \in bad, \A j \in bad : m <= j
      PROVE  FALSE
  <2>1. CASE m = 0
    <3> DEFINE h == [i \in 0..0 |-> a]
    <3>1. Solves(h, 0)
      OBVIOUS
    <3>2. QED
      BY <1>1, <2>1, <3>1
  <2>2. CASE m # 0
    <3>1. PICK k \in 0..n : m = k + 1 /\ k + 1 <= n
      <4>1. m \in 0..n
        OBVIOUS
      <4>2. m - 1 \in 0..n /\ m = (m - 1) + 1 /\ (m - 1) + 1 <= n
        BY <2>2, <4>1
      <4>3. QED
        BY <4>2
    <3>2. k \notin bad
      <4>1. m \in Nat /\ ~(m <= k)
        BY <3>1
      <4>2. QED
        BY <1>1, <4>1
    <3>3. PICK g : Solves(g, k)
      BY <3>2
    <3> HIDE DEF bad
    <3> DEFINE h == [i \in 0..(k + 1) |-> IF i = k + 1 THEN Step[k + 1][g[k]] ELSE g[i]]
    <3>4. \A i \in 0..k : h[i] = g[i] /\ g[i] \in T
      BY <3>1, <3>3
    <3>5. g[k] \in T /\ h[k] = g[k] /\ h[0] = a
      <4>1. 0 \in 0..k /\ k \in 0..k
        OBVIOUS
      <4>2. QED
        BY <3>3, <3>4, <4>1
    <3>6. h[k + 1] = Step[k + 1][g[k]] /\ h[k + 1] \in T
      BY <3>1, <3>5
    <3>7. h \in [0..(k + 1) -> T]
      BY <3>3, <3>6
    <3> HIDE DEF h
    <3>8. ASSUME NEW i \in 1..(k + 1)
          PROVE  h[i] = Step[i][h[i - 1]]
      <4>1. CASE i = k + 1
        <5>1. i - 1 = k
          BY <4>1
        <5>2. QED
          BY <3>5, <3>6, <4>1, <5>1
      <4>2. CASE i # k + 1
        <5>1. i \in 1..k /\ i \in 0..k /\ i - 1 \in 0..k
          BY <4>2
        <5>2. g[i] = Step[i][g[i - 1]]
          BY <3>3, <5>1
        <5>3. h[i] = g[i] /\ h[i - 1] = g[i - 1]
          BY <3>4, <5>1
        <5>4. QED
          BY <5>2, <5>3
      <4>3. QED
        BY <4>1, <4>2
    <3>9. Solves(h, m)
      BY <3>1, <3>5, <3>7, <3>8
    <3>10. QED
      BY <1>1, <3>9 DEF bad
  <2>3. QED
    BY <2>1, <2>2
<1>2. bad \in SUBSET Nat
  OBVIOUS
<1>3. bad = {}
  <2> HIDE DEF bad
  <2>1. QED
    BY <1>1, <1>2, LeastNatural
<1>4. n \in 0..n
  OBVIOUS
<1>5. QED
  BY <1>3, <1>4 DEF Unfolds

\* Every set of numbers up to n that has an element has a greatest one.
LEMMA GreatestUpTo ==
    ASSUME NEW n \in Nat, NEW T \in SUBSET (1..n), T # {}
    PROVE  \E x \in T : \A y \in T : y <= x
<1> DEFINE D == {n - y : y \in T}
<1>1. D \in SUBSET Nat /\ D # {}
  <2>1. \A y \in T : n - y \in Nat
    OBVIOUS
  <2>2. QED
    BY <2>1
<1>2. PICK d \in D : \A e \in D : d <= e
  BY <1>1, LeastNatural
<1>3. PICK x \in T : d = n - x
  BY <1>2
<1>4. ASSUME NEW y \in T
      PROVE  y <= x
  <2>1. n - x <= n - y
    BY <1>2, <1>3
  <2>2. x \in 1..n /\ y \in 1..n
    OBVIOUS
  <2>3. QED
    BY <2>1, <2>2
<1>5. QED
  BY <1>4

\* Putting e at place k of a sequence.
LEMMA PutAt ==
    ASSUME NEW S, NEW s \in Seq(S), NEW e \in S, NEW k \in 1..(Len(s) + 1)
    PROVE  /\ InsertAt(s, k, e) \in Seq(S)
           /\ Len(InsertAt(s, k, e)) = Len(s) + 1
           /\ InsertAt(s, k, e)[k] = e
           /\ \A i \in 1..(Len(s) + 1) : i < k => InsertAt(s, k, e)[i] = s[i]
           /\ \A i \in 1..(Len(s) + 1) : i > k => InsertAt(s, k, e)[i] = s[i - 1]
<1> DEFINE a == SubSeq(s, 1, k - 1)
           b == SubSeq(s, k, Len(s))
           c == a \o <<e>>
<1>1. /\ a \in Seq(S) /\ Len(a) = k - 1
      /\ \A i \in 1..(k - 1) : a[i] = s[i]
  OBVIOUS
<1>2. /\ b \in Seq(S) /\ Len(b) = Len(s) - k + 1
      /\ \A i \in 1..(Len(s) - k + 1) : b[i] = s[i + k - 1]
  OBVIOUS
<1>3. InsertAt(s, k, e) = c \o b
  BY DEF InsertAt
<1> HIDE DEF a, b
<1>4. <<e>> \in Seq(S) /\ Len(<<e>>) = 1 /\ <<e>>[1] = e
  OBVIOUS
<1>5. /\ c \in Seq(S) /\ Len(c) = k
      /\ \A i \in 1..k : c[i] = IF i <= k - 1 THEN a[i] ELSE <<e>>[i - (k - 1)]
  <2>1. c \in Seq(S) /\ Len(c) = Len(a) + Len(<<e>>)
    BY <1>1, <1>4, ConcatProperties
  <2>2. \A i \in 1..(Len(a) + Len(<<e>>)) : c[i] = IF i <= Len(a) THEN a[i] ELSE <<e>>[i - Len(a)]
    BY <1>1, <1>4, ConcatProperties
  <2>3. Len(a) + Len(<<e>>) = k
    BY <1>1, <1>4
  <2>4. QED
    BY <1>1, <2>1, <2>2, <2>3
<1>6. c[k] = e /\ \A i \in 1..(k - 1) : c[i] = s[i]
  BY <1>1, <1>4, <1>5
<1> HIDE DEF c
<1>7. /\ c \o b \in Seq(S) /\ Len(c \o b) = Len(s) + 1
      /\ \A i \in 1..(Len(s) + 1) : (c \o b)[i] = IF i <= k THEN c[i] ELSE b[i - k]
  <2>1. c \o b \in Seq(S) /\ Len(c \o b) = Len(c) + Len(b)
    BY <1>2, <1>5, ConcatProperties
  <2>2. \A i \in 1..(Len(c) + Len(b)) : (c \o b)[i] = IF i <= Len(c) THEN c[i] ELSE b[i - Len(c)]
    BY <1>2, <1>5, ConcatProperties
  <2>3. Len(c) + Len(b) = Len(s) + 1
    BY <1>2, <1>5
  <2>4. QED
    BY <1>5, <2>1, <2>2, <2>3
<1>8. ASSUME NEW i \in 1..(Len(s) + 1), i < k
      PROVE  (c \o b)[i] = s[i]
  BY <1>6, <1>7, <1>8
<1>9. ASSUME NEW i \in 1..(Len(s) + 1), i > k
      PROVE  (c \o b)[i] = s[i - 1]
  <2>1. i - k \in 1..(Len(s) - k + 1) /\ (i - k) + k - 1 = i - 1
    BY <1>9
  <2>2. QED
    BY <1>2, <1>7, <1>9, <2>1
<1>10. QED
  BY <1>3, <1>6, <1>7, <1>8, <1>9

LEMMA PutAtKeeps ==
    ASSUME NEW S, NEW s \in Seq(S), NEW e \in S, NEW k \in 1..(Len(s) + 1)
    PROVE  /\ InsertAt(s, k, e) \in Seq(S)
           /\ ToSet(InsertAt(s, k, e)) = ToSet(s) \cup {e}
           /\ IsInjective(s) /\ e \notin ToSet(s) => IsInjective(InsertAt(s, k, e))
<1> DEFINE r == InsertAt(s, k, e)
           o == [i \in 1..(Len(s) + 1) |-> IF i < k THEN i ELSE i - 1]
<1>1. /\ r \in Seq(S) /\ Len(r) = Len(s) + 1 /\ r[k] = e
      /\ \A i \in 1..(Len(s) + 1) : i < k => r[i] = s[i]
      /\ \A i \in 1..(Len(s) + 1) : i > k => r[i] = s[i - 1]
  BY PutAt
<1> HIDE DEF r
<1>2. Len(s) \in Nat /\ DOMAIN s = 1..Len(s) /\ DOMAIN r = 1..(Len(s) + 1)
  BY <1>1, LenProperties
<1>3. ASSUME NEW i \in DOMAIN r, i # k
      PROVE  o[i] \in DOMAIN s /\ r[i] = s[o[i]]
  <2>1. i \in 1..(Len(s) + 1) /\ o[i] = IF i < k THEN i ELSE i - 1
    BY <1>2
  <2>2. CASE i < k
    BY <1>1, <1>2, <2>1, <2>2
  <2>3. CASE i > k
    BY <1>1, <1>2, <2>1, <2>3
  <2>4. QED
    BY <1>3, <2>1, <2>2, <2>3
<1>4. ASSUME NEW i \in DOMAIN r, NEW j \in DOMAIN r, i # k, j # k, o[i] = o[j]
      PROVE  i = j
  <2>1. i \in 1..(Len(s) + 1) /\ o[i] = (IF i < k THEN i ELSE i - 1)
    BY <1>2
  <2>2. j \in 1..(Len(s) + 1) /\ o[j] = (IF j < k THEN j ELSE j - 1)
    BY <1>2
  <2>3. QED
    BY <1>4, <2>1, <2>2
<1>5. ASSUME NEW j \in DOMAIN s
      PROVE  \E i \in DOMAIN r : i # k /\ o[i] = j
  <2>1. CASE j < k
    <3>1. j \in DOMAIN r /\ j # k
      BY <1>2, <2>1
    <3>2. o[j] = j
      BY <1>2, <2>1
    <3>3. QED
      BY <3>1, <3>2
  <2>2. CASE ~(j < k)
    <3>1. j + 1 \in 1..(Len(s) + 1) /\ j + 1 # k /\ ~(j + 1 < k) /\ (j + 1) - 1 = j
      BY <1>2, <2>2
    <3>2. o[j + 1] = j
      BY <3>1
    <3>3. QED
      BY <1>2, <3>1, <3>2
  <2>3. QED
    BY <2>1, <2>2
<1>6. k \in DOMAIN r
  BY <1>2
<1> HIDE DEF o
<1>7. ASSUME NEW x
      PROVE  (\E i \in DOMAIN r : x = r[i]) <=> x = e \/ \E i \in DOMAIN s : x = s[i]
  <2>1. ASSUME NEW i \in DOMAIN r
        PROVE  r[i] = e \/ \E j \in DOMAIN s : r[i] = s[j]
    BY <1>1, <1>3
  <2>2. ASSUME NEW j \in DOMAIN s
        PROVE  \E i \in DOMAIN r : s[j] = r[i]
    <3>1. PICK i \in DOMAIN r : i # k /\ o[i] = j
      BY <1>5
    <3>2. r[i] = s[j]
      BY <1>3, <3>1
    <3>3. QED
      BY <3>2
  <2>3. QED
    BY <1>1, <1>6, <2>1, <2>2
<1>8. \A x : x \in ToSet(r) <=> x \in ToSet(s) \cup {e}
  BY <1>7 DEF ToSet
<1>9. ASSUME IsInjective(s), e \notin ToSet(s)
      PROVE  IsInjective(r)
  <2>1. ASSUME NEW i \in DOMAIN r, i # k
        PROVE  r[i] # e
    <3>1. r[i] = s[o[i]] /\ o[i] \in DOMAIN s
      BY <1>3, <2>1
    <3>2. QED
      BY <1>9, <3>1 DEF ToSet
  <2>2. ASSUME NEW i \in DOMAIN r, NEW j \in DOMAIN r, r[i] = r[j], i # k, j # k
        PROVE  i = j
    <3>1. s[o[i]] = s[o[j]] /\ o[i] \in DOMAIN s /\ o[j] \in DOMAIN s
      BY <1>3, <2>2
    <3>2. o[i] = o[j]
      BY <1>9, <3>1 DEF IsInjective
    <3>3. QED
      BY <1>4, <2>2, <3>2
  <2>3. ASSUME NEW i \in DOMAIN r, NEW j \in DOMAIN r, r[i] = r[j]
        PROVE  i = j
    BY <1>1, <2>1, <2>2, <2>3
  <2>4. QED
    BY <2>3 DEF IsInjective
<1>10. QED
  BY <1>1, <1>8, <1>9 DEF r

-----------------------------------------------------------------------------
(* The greatest of finitely many numbers *)

LEMMA MaxIsGreatest ==
    ASSUME NEW T \in SUBSET Nat, T # {}, NEW m \in Nat, \A x \in T : x <= m
    PROVE  Max(T) \in T /\ \A y \in T : y <= Max(T)
<1> DEFINE D == {m - y : y \in T}
<1>1. \A y \in T : y \in Nat /\ m - y \in Nat
  OBVIOUS
<1>2. D \in SUBSET Nat /\ D # {}
  BY <1>1
<1>3. PICK d \in D : \A e \in D : d <= e
  BY <1>2, LeastNatural
<1>4. PICK x \in T : d = m - x
  BY <1>3
<1>5. ASSUME NEW y \in T
      PROVE  x >= y
  <2>1. m - x <= m - y
    BY <1>3, <1>4
  <2>2. QED
    BY <1>1, <2>1
<1>6. Max(T) \in T /\ \A y \in T : Max(T) >= y
  BY <1>5 DEF Max
<1>7. QED
  BY <1>1, <1>6

\* A finite list of numbers has an upper bound.
LEMMA BoundedAbove ==
    ASSUME NEW n \in Nat, NEW f \in [1..n -> Nat]
    PROVE  \E m \in Nat : \A i \in 1..n : f[i] <= m
<1> DEFINE Bound(k, m) == \A i \in 1..k : f[i] <= m
           bad == {k \in 0..n : ~\E m \in Nat : Bound(k, m)}
<1>1. ASSUME NEW k \in bad, \A j \in bad : k <= j
      PROVE  FALSE
  <2>1. CASE k = 0
    <3>1. Bound(0, 0)
      OBVIOUS
    <3>2. QED
      BY <2>1, <3>1
  <2>2. CASE k # 0
    <3>1. k \in 1..n /\ k - 1 \in 0..n /\ ~(k <= k - 1)
      BY <2>2
    <3>2. k - 1 \notin bad
      BY <1>1, <3>1
    <3>3. PICK m \in Nat : Bound(k - 1, m)
      BY <3>1, <3>2
    <3>4. f[k] \in Nat
      BY <3>1
    <3>5. PICK x \in Nat : m <= x /\ f[k] <= x
      <4>1. m + f[k] \in Nat /\ m <= m + f[k] /\ f[k] <= m + f[k]
        BY <3>4
      <4>2. QED
        BY <4>1
    <3>6. ASSUME NEW i \in 1..k
          PROVE  f[i] <= x
      <4>1. CASE i = k
        BY <3>5, <4>1
      <4>2. CASE i # k
        <5>1. i \in 1..(k - 1) /\ i \in 1..n
          BY <3>1, <4>2
        <5>2. f[i] <= m /\ f[i] \in Nat
          BY <3>3, <5>1
        <5>3. QED
          BY <3>5, <5>2
      <4>3. QED
        BY <4>1, <4>2
    <3>7. Bound(k, x)
      BY <3>6
    <3>8. QED
      BY <3>7
  <2>3. QED
    BY <2>1, <2>2
<1>2. bad \in SUBSET Nat
  OBVIOUS
<1>3. bad = {}
  <2> HIDE DEF bad
  <2>1. QED
    BY <1>1, <1>2, LeastNatural
<1>4. n \in 0..n
  OBVIOUS
<1>5. QED
  BY <1>3, <1>4

\* The last place in a sequence of what passes a test is one that passes it,
\* and so is the first.
LastIn(s, T) == SelectLastInSeq(s, LAMBDA x : x \in T)
FirstIn(s, T) == SelectInSeq(s, LAMBDA x : x \in T)

LEMMA LastPlace ==
    ASSUME NEW S, NEW s \in Seq(S), NEW T, T \cap ToSet(s) # {}
    PROVE  LastIn(s, T) \in DOMAIN s /\ s[LastIn(s, T)] \in T
<1> DEFINE I == {i \in 1..Len(s) : s[i] \in T}
<1>1. Len(s) \in Nat /\ DOMAIN s = 1..Len(s)
  BY LenProperties
<1>2. I \in SUBSET Nat /\ I # {} /\ \A i \in I : i <= Len(s)
  BY <1>1 DEF ToSet
<1>3. Max(I) \in I
  <2> HIDE DEF I
  <2>1. QED
    BY <1>1, <1>2, MaxIsGreatest
<1>4. LastIn(s, T) = Max(I)
  BY <1>2 DEF LastIn, SelectLastInSeq
<1>5. QED
  BY <1>1, <1>3, <1>4

LEMMA FirstPlace ==
    ASSUME NEW S, NEW s \in Seq(S), NEW T
    PROVE  /\ FirstIn(s, T) # 0 => FirstIn(s, T) \in DOMAIN s /\ s[FirstIn(s, T)] \in T
           /\ T \cap ToSet(s) # {} => FirstIn(s, T) # 0
<1> DEFINE I == {i \in 1..Len(s) : s[i] \in T}
<1>1. Len(s) \in Nat /\ DOMAIN s = 1..Len(s)
  BY LenProperties
<1>2. I \in SUBSET Nat /\ (T \cap ToSet(s) # {} => I # {})
  BY <1>1 DEF ToSet
<1>3. FirstIn(s, T) = IF I # {} THEN Min(I) ELSE 0
  BY DEF FirstIn, SelectInSeq
<1>4. CASE I = {}
  BY <1>2, <1>3, <1>4
<1>5. CASE I # {}
  <2>1. Min(I) \in I
    <3> HIDE DEF I
    <3>1. QED
      BY <1>2, <1>5, MinIsLeast
  <2>2. Min(I) \in 1..Len(s) /\ s[Min(I)] \in T
    BY <2>1
  <2>3. QED
    BY <1>1, <1>3, <1>5, <2>2
<1>6. QED
  BY <1>4, <1>5

-----------------------------------------------------------------------------
(* Layouts that hold each view once *)

Columns(Views) == Seq(Seq(Views))

\* No column is empty, and no view is in two places.
GoodColumns(Views, C) ==
    /\ C \in Columns(Views)
    /\ \A i \in DOMAIN C :
          /\ C[i] # <<>> /\ IsInjective(C[i])
          /\ \A j \in DOMAIN C : \A x \in ToSet(C[i]) : x \in ToSet(C[j]) => i = j

Tiled(C) == UNION {ToSet(C[i]) : i \in DOMAIN C}

\* Layout l holds each view of S once, and no other.
GoodLayout(Views, l, S) ==
    /\ l \in [columns: Columns(Views), floats: Seq(Views)]
    /\ GoodColumns(Views, l.columns) /\ IsInjective(l.floats)
    /\ Tiled(l.columns) \cap ToSet(l.floats) = {}
    /\ Tiled(l.columns) \cup ToSet(l.floats) = S

LEMMA TilesOf ==
    ASSUME NEW C, NEW x
    PROVE  x \in Tiled(C) <=> \E i \in DOMAIN C : x \in ToSet(C[i])
BY DEF Tiled

\* The columns D are C's but for those of K: o tells which of C's each one is.
Edits(Views, C, D, K, o) ==
    /\ D \in Columns(Views)
    /\ \A i \in DOMAIN D \ K : o[i] \in DOMAIN C /\ D[i] = C[o[i]]
    /\ \A i \in DOMAIN D \ K : \A j \in DOMAIN D \ K : o[i] = o[j] => i = j
    /\ \A k \in DOMAIN D \cap K :
          /\ D[k] # <<>> /\ IsInjective(D[k])
          /\ \A i \in DOMAIN D : \A x \in ToSet(D[k]) : x \in ToSet(D[i]) => i = k

LEMMA Edited ==
    ASSUME NEW Views, NEW C, GoodColumns(Views, C), NEW D, NEW K, NEW o, Edits(Views, C, D, K, o)
    PROVE  GoodColumns(Views, D)
<1>1. ASSUME NEW i \in DOMAIN D
      PROVE  D[i] # <<>> /\ IsInjective(D[i])
  <2>1. CASE i \in K
    BY <2>1 DEF Edits
  <2>2. CASE i \notin K
    BY <2>2 DEF GoodColumns, Edits
  <2>3. QED
    BY <2>1, <2>2
<1>2. ASSUME NEW i \in DOMAIN D, NEW j \in DOMAIN D, NEW x \in ToSet(D[i]), x \in ToSet(D[j])
      PROVE  i = j
  <2>1. CASE i \in K
    BY <1>2, <2>1 DEF Edits
  <2>2. CASE j \in K
    BY <1>2, <2>2 DEF Edits
  <2>3. CASE i \notin K /\ j \notin K
    <3>1. o[i] \in DOMAIN C /\ o[j] \in DOMAIN C /\ D[i] = C[o[i]] /\ D[j] = C[o[j]]
      BY <2>3 DEF Edits
    <3>2. o[i] = o[j]
      BY <1>2, <3>1 DEF GoodColumns
    <3>3. QED
      BY <2>3, <3>2 DEF Edits
  <2>4. QED
    BY <2>1, <2>2, <2>3
<1>3. QED
  BY <1>1, <1>2 DEF GoodColumns, Edits

\* What a column of a layout is.
LEMMA ColumnType ==
    ASSUME NEW Views, NEW C, GoodColumns(Views, C)
    PROVE  /\ Len(C) \in Nat /\ DOMAIN C = 1..Len(C)
           /\ \A i \in DOMAIN C :
                 /\ C[i] \in Seq(Views) /\ C[i] # <<>> /\ IsInjective(C[i])
                 /\ ToSet(C[i]) \subseteq Views /\ ToSet(C[i]) \subseteq Tiled(C)
<1>1. C \in Seq(Seq(Views))
  BY DEF GoodColumns, Columns
<1>2. Len(C) \in Nat /\ DOMAIN C = 1..Len(C)
  BY <1>1, LenProperties
<1>3. \A i \in DOMAIN C : C[i] \in Seq(Views)
  BY <1>1, <1>2, ElementOfSeq
<1>4. ASSUME NEW i \in DOMAIN C
      PROVE  ToSet(C[i]) \subseteq Views
  <2>1. C[i] \in Seq(Views)
    BY <1>3
  <2>2. QED
    BY <2>1 DEF ToSet
<1>5. \A i \in DOMAIN C : ToSet(C[i]) \subseteq Tiled(C)
  BY DEF Tiled
<1>6. QED
  BY <1>2, <1>3, <1>4, <1>5 DEF GoodColumns

\* D is C with column i made d, which has no tiles of other columns.
Replaces(Views, C, D, i, d) ==
    /\ i \in DOMAIN C /\ D = [C EXCEPT ![i] = d]
    /\ d \in Seq(Views) /\ d # <<>> /\ IsInjective(d)
    /\ \A x \in ToSet(d) : x \in ToSet(C[i]) \/ x \notin Tiled(C)

\* A column that is replaced so leaves the views of the others where they are.
LEMMA ColumnReplaced ==
    ASSUME NEW Views, NEW C, GoodColumns(Views, C), NEW D, NEW i, NEW d,
           Replaces(Views, C, D, i, d)
    PROVE  GoodColumns(Views, D) /\ Tiled(D) = (Tiled(C) \ ToSet(C[i])) \cup ToSet(d)
<1> DEFINE o == [j \in DOMAIN C |-> j]
<1> USE DEF Replaces
<1>1. C \in Seq(Seq(Views)) /\ DOMAIN C = 1..Len(C)
  BY ColumnType DEF GoodColumns, Columns
<1>2. D \in Columns(Views) /\ DOMAIN D = DOMAIN C /\ D[i] = d /\ \A j \in DOMAIN C : j # i => D[j] = C[j]
  BY <1>1 DEF Columns
<1>3. ASSUME NEW j \in DOMAIN C, NEW x \in ToSet(d), x \in ToSet(D[j])
      PROVE  j = i
  <2>1. CASE j # i
    <3>1. x \in ToSet(C[j])
      BY <1>2, <1>3, <2>1
    <3>2. x \notin ToSet(C[i])
      BY <2>1, <3>1 DEF GoodColumns
    <3>3. x \in Tiled(C)
      BY <3>1, TilesOf
    <3>4. QED
      BY <3>2, <3>3
  <2>2. QED
    BY <2>1
<1>4. GoodColumns(Views, D)
  <2>1. \A j \in DOMAIN D \ {i} : o[j] \in DOMAIN C /\ D[j] = C[o[j]]
    BY <1>2
  <2>2. \A j \in DOMAIN D \ {i} : \A k \in DOMAIN D \ {i} : o[j] = o[k] => j = k
    BY <1>2
  <2>3. \A k \in DOMAIN D \cap {i} :
              /\ D[k] # <<>> /\ IsInjective(D[k])
              /\ \A j \in DOMAIN D : \A x \in ToSet(D[k]) : x \in ToSet(D[j]) => j = k
    BY <1>2, <1>3
  <2> HIDE DEF o
  <2>4. Edits(Views, C, D, {i}, o)
    BY <1>2, <2>1, <2>2, <2>3 DEF Edits
  <2>5. QED
    BY <2>4, Edited
<1>5. ASSUME NEW x
      PROVE  x \in Tiled(D) <=> x \in (Tiled(C) \ ToSet(C[i])) \cup ToSet(d)
  <2>1. CASE x \in ToSet(d)
    BY <1>2, <2>1, TilesOf
  <2>2. CASE x \notin ToSet(d)
    <3>1. x \in Tiled(D) <=> \E j \in DOMAIN C : j # i /\ x \in ToSet(C[j])
      BY <1>2, <2>2, TilesOf
    <3>2. (\E j \in DOMAIN C : j # i /\ x \in ToSet(C[j])) <=> x \in Tiled(C) /\ x \notin ToSet(C[i])
      BY TilesOf DEF GoodColumns
    <3>3. QED
      BY <2>2, <3>1, <3>2
  <2>3. QED
    BY <2>1, <2>2
<1>6. QED
  BY <1>4, <1>5

LEMMA ColumnDropped ==
    ASSUME NEW Views, NEW C, GoodColumns(Views, C), NEW i \in DOMAIN C
    PROVE  GoodColumns(Views, RemoveAt(C, i)) /\ Tiled(RemoveAt(C, i)) = Tiled(C) \ ToSet(C[i])
<1> DEFINE D == RemoveAt(C, i)
           n == Len(C)
           o == [j \in 1..(n - 1) |-> IF j < i THEN j ELSE j + 1]
<1>1. C \in Seq(Seq(Views)) /\ n \in Nat /\ DOMAIN C = 1..n
  BY ColumnType DEF GoodColumns, Columns
<1>2. /\ D \in Seq(Seq(Views)) /\ Len(D) = n - 1
      /\ \A k \in 1..(n - 1) : D[k] = C[IF k < i THEN k ELSE k + 1]
  BY <1>1, RemoveAtIndex
<1>3. DOMAIN D = 1..(n - 1)
  BY <1>2, LenProperties
<1> HIDE DEF D, n
<1>4. ASSUME NEW j \in DOMAIN D
      PROVE  o[j] \in DOMAIN C /\ o[j] # i /\ D[j] = C[o[j]]
  <2>1. j \in 1..(n - 1) /\ i \in 1..n /\ o[j] = IF j < i THEN j ELSE j + 1
    BY <1>1, <1>3
  <2>2. o[j] \in 1..n /\ o[j] # i
    BY <1>1, <2>1
  <2>3. QED
    BY <1>1, <1>2, <2>1, <2>2
<1>5. \A j, k \in DOMAIN D : o[j] = o[k] => j = k
  BY <1>1, <1>3
<1>6. ASSUME NEW j \in DOMAIN C, j # i
      PROVE  \E k \in DOMAIN D : o[k] = j
  <2>1. j \in 1..n /\ i \in 1..n
    BY <1>1
  <2>2. CASE j < i
    <3>1. j \in 1..(n - 1)
      BY <1>1, <2>1, <2>2
    <3>2. o[j] = j
      BY <2>2, <3>1
    <3>3. QED
      BY <1>3, <3>1, <3>2
  <2>3. CASE j > i
    <3>1. j - 1 \in 1..(n - 1) /\ ~(j - 1 < i) /\ (j - 1) + 1 = j
      BY <1>1, <2>1, <2>3
    <3>2. o[j - 1] = j
      BY <3>1
    <3>3. QED
      BY <1>3, <3>1, <3>2
  <2>4. QED
    BY <1>6, <2>1, <2>2, <2>3
<1> HIDE DEF o
<1>7. GoodColumns(Views, D)
  <2>1. \A j \in DOMAIN D \ {} : o[j] \in DOMAIN C /\ D[j] = C[o[j]]
    BY <1>4
  <2>2. \A j \in DOMAIN D \ {} : \A k \in DOMAIN D \ {} : o[j] = o[k] => j = k
    BY <1>5
  <2>3. Edits(Views, C, D, {}, o)
    BY <1>2, <2>1, <2>2 DEF Edits, Columns
  <2>4. QED
    BY <2>3, Edited
<1>8. ASSUME NEW x
      PROVE  x \in Tiled(D) <=> x \in Tiled(C) \ ToSet(C[i])
  <2>1. x \in Tiled(D) <=> \E j \in DOMAIN C : j # i /\ x \in ToSet(C[j])
    BY <1>4, <1>6, TilesOf
  <2>2. (\E j \in DOMAIN C : j # i /\ x \in ToSet(C[j])) <=> x \in Tiled(C) /\ x \notin ToSet(C[i])
    BY TilesOf DEF GoodColumns
  <2>3. QED
    BY <2>1, <2>2
<1>9. QED
  BY <1>7, <1>8 DEF D

\* The columns D are C's and at k a new one of the view v alone.
Adds(Views, C, D, k, o, v) ==
    /\ D \in Columns(Views) /\ k \in DOMAIN D /\ D[k] = <<v>>
    /\ \A i \in DOMAIN D : i # k => o[i] \in DOMAIN C /\ D[i] = C[o[i]]
    /\ \A i \in DOMAIN D : \A j \in DOMAIN D : i # k /\ j # k /\ o[i] = o[j] => i = j
    /\ \A j \in DOMAIN C : \E i \in DOMAIN D : i # k /\ o[i] = j

LEMMA ColumnAdded ==
    ASSUME NEW Views, NEW C, GoodColumns(Views, C), NEW v, v \notin Tiled(C), NEW D, NEW k, NEW o,
           Adds(Views, C, D, k, o, v)
    PROVE  GoodColumns(Views, D) /\ Tiled(D) = Tiled(C) \cup {v}
<1>a. /\ D \in Columns(Views) /\ k \in DOMAIN D /\ D[k] = <<v>>
      /\ \A i \in DOMAIN D : i # k => o[i] \in DOMAIN C /\ D[i] = C[o[i]]
      /\ \A i \in DOMAIN D : \A j \in DOMAIN D : i # k /\ j # k /\ o[i] = o[j] => i = j
      /\ \A j \in DOMAIN C : \E i \in DOMAIN D : i # k /\ o[i] = j
  BY DEF Adds
<1>1. <<v>> # <<>> /\ IsInjective(<<v>>) /\ ToSet(<<v>>) = {v}
  BY DEF IsInjective, ToSet
<1>2. \A i \in DOMAIN D : i # k => v \notin ToSet(D[i])
  BY <1>a, TilesOf
<1>3. Edits(Views, C, D, {k}, o)
  BY <1>a, <1>1, <1>2 DEF Edits
<1>4. GoodColumns(Views, D)
  BY <1>3, Edited
<1>5. ASSUME NEW x
      PROVE  x \in Tiled(D) <=> x \in Tiled(C) \cup {v}
  <2>1. CASE x = v
    BY <1>a, <1>1, <2>1, TilesOf
  <2>2. CASE x # v
    <3>1. x \in Tiled(D) <=> \E i \in DOMAIN D : i # k /\ x \in ToSet(D[i])
      BY <1>a, <1>1, <2>2, TilesOf
    <3>2. (\E i \in DOMAIN D : i # k /\ x \in ToSet(D[i])) <=> \E j \in DOMAIN C : x \in ToSet(C[j])
      BY <1>a
    <3>3. QED
      BY <2>2, <3>1, <3>2, TilesOf
  <2>3. QED
    BY <2>1, <2>2
<1>6. QED
  BY <1>4, <1>5

LEMMA ColumnPut ==
    ASSUME NEW Views, NEW C, GoodColumns(Views, C), NEW v \in Views, v \notin Tiled(C), NEW k \in 1..(Len(C) + 1)
    PROVE  GoodColumns(Views, InsertAt(C, k, <<v>>)) /\ Tiled(InsertAt(C, k, <<v>>)) = Tiled(C) \cup {v}
<1> DEFINE D == InsertAt(C, k, <<v>>)
           o == [i \in 1..(Len(C) + 1) |-> IF i < k THEN i ELSE i - 1]
<1>1. C \in Seq(Seq(Views)) /\ Len(C) \in Nat /\ DOMAIN C = 1..Len(C)
  BY ColumnType DEF GoodColumns, Columns
<1>2. <<v>> \in Seq(Views)
  OBVIOUS
<1>3. /\ D \in Seq(Seq(Views)) /\ Len(D) = Len(C) + 1 /\ D[k] = <<v>>
      /\ \A i \in 1..(Len(C) + 1) : i < k => D[i] = C[i]
      /\ \A i \in 1..(Len(C) + 1) : i > k => D[i] = C[i - 1]
  <2> DEFINE T == Seq(Views)
             e == <<v>>
  <2>1. e \in T /\ C \in Seq(T)
    BY <1>1, <1>2
  <2> HIDE DEF T, e
  <2>2. LET r == InsertAt(C, k, e)
        IN /\ r \in Seq(T) /\ Len(r) = Len(C) + 1 /\ r[k] = e
           /\ \A i \in 1..(Len(C) + 1) : i < k => r[i] = C[i]
           /\ \A i \in 1..(Len(C) + 1) : i > k => r[i] = C[i - 1]
    BY <2>1, PutAt
  <2>3. QED
    BY <2>2 DEF e, T
<1>4. DOMAIN D = 1..(Len(C) + 1)
  BY <1>3, LenProperties
<1> HIDE DEF D
<1>5. ASSUME NEW i \in DOMAIN D, i # k
      PROVE  o[i] \in DOMAIN C /\ D[i] = C[o[i]]
  <2>1. CASE i < k
    <3>1. i \in 1..(Len(C) + 1) /\ i \in 1..Len(C)
      BY <1>1, <1>4, <2>1
    <3>2. o[i] = i
      BY <2>1, <3>1
    <3>3. QED
      BY <1>1, <1>3, <2>1, <3>1, <3>2
  <2>2. CASE i > k
    <3>1. i \in 1..(Len(C) + 1) /\ i - 1 \in 1..Len(C) /\ ~(i < k)
      BY <1>1, <1>4, <2>2
    <3>2. o[i] = i - 1
      BY <3>1
    <3>3. QED
      BY <1>1, <1>3, <2>2, <3>1, <3>2
  <2>3. QED
    BY <1>1, <1>4, <1>5, <2>1, <2>2
<1>6. ASSUME NEW i \in DOMAIN D, NEW j \in DOMAIN D, i # k, j # k, o[i] = o[j]
      PROVE  i = j
  <2>1. i \in 1..(Len(C) + 1) /\ j \in 1..(Len(C) + 1)
    BY <1>4
  <2>2. o[i] = (IF i < k THEN i ELSE i - 1) /\ o[j] = (IF j < k THEN j ELSE j - 1)
    BY <2>1
  <2>3. QED
    BY <1>1, <1>6, <2>1, <2>2
<1>7. ASSUME NEW j \in DOMAIN C
      PROVE  \E i \in DOMAIN D : i # k /\ o[i] = j
  <2>1. j \in 1..Len(C)
    BY <1>1
  <2>2. CASE j < k
    <3>1. j \in 1..(Len(C) + 1) /\ j # k
      BY <1>1, <2>1, <2>2
    <3>2. o[j] = j
      BY <2>2, <3>1
    <3>3. QED
      BY <1>4, <3>1, <3>2
  <2>3. CASE ~(j < k)
    <3>1. j + 1 \in 1..(Len(C) + 1) /\ j + 1 # k /\ ~(j + 1 < k) /\ (j + 1) - 1 = j
      BY <1>1, <2>1, <2>3
    <3>2. o[j + 1] = j
      BY <3>1
    <3>3. QED
      BY <1>4, <3>1, <3>2
  <2>4. QED
    BY <2>2, <2>3
<1>8. k \in DOMAIN D /\ D \in Columns(Views)
  BY <1>3, <1>4 DEF Columns
<1> HIDE DEF o
<1>9. Adds(Views, C, D, k, o, v)
  BY <1>3, <1>5, <1>6, <1>7, <1>8 DEF Adds
<1>10. GoodColumns(Views, D) /\ Tiled(D) = Tiled(C) \cup {v}
  BY <1>9, ColumnAdded
<1>11. QED
  BY <1>10 DEF D

LEMMA ColumnAppended ==
    ASSUME NEW Views, NEW C, GoodColumns(Views, C), NEW v \in Views, v \notin Tiled(C)
    PROVE  GoodColumns(Views, Append(C, <<v>>)) /\ Tiled(Append(C, <<v>>)) = Tiled(C) \cup {v}
<1> DEFINE D == Append(C, <<v>>)
           k == Len(C) + 1
           o == [i \in 1..Len(C) |-> i]
<1>1. C \in Seq(Seq(Views)) /\ Len(C) \in Nat /\ DOMAIN C = 1..Len(C)
  BY ColumnType DEF GoodColumns, Columns
<1>2. <<v>> \in Seq(Views)
  OBVIOUS
<1>3. /\ D \in Seq(Seq(Views)) /\ Len(D) = k /\ D[k] = <<v>>
      /\ \A i \in 1..Len(C) : D[i] = C[i]
  BY <1>1, <1>2, AppendProperties
<1>4. DOMAIN D = 1..k
  BY <1>1, <1>3, LenProperties
<1> HIDE DEF D
<1>5. \A i \in DOMAIN D : i # k => i \in 1..Len(C)
  BY <1>1, <1>4
<1>6. \A i \in DOMAIN D : i # k => o[i] \in DOMAIN C /\ D[i] = C[o[i]]
  BY <1>1, <1>3, <1>5
<1>7. \A i \in DOMAIN D : \A j \in DOMAIN D : i # k /\ j # k /\ o[i] = o[j] => i = j
  BY <1>5
<1>8. ASSUME NEW j \in DOMAIN C
      PROVE  \E i \in DOMAIN D : i # k /\ o[i] = j
  <2>1. j \in DOMAIN D /\ j # k
    BY <1>1, <1>4
  <2>2. o[j] = j
    BY <1>1
  <2>3. QED
    BY <2>1, <2>2
<1>9. k \in DOMAIN D /\ D \in Columns(Views)
  BY <1>1, <1>3, <1>4 DEF Columns
<1> HIDE DEF o, k
<1>b. Adds(Views, C, D, k, o, v)
  BY <1>3, <1>6, <1>7, <1>8, <1>9 DEF Adds
<1>10. GoodColumns(Views, D) /\ Tiled(D) = Tiled(C) \cup {v}
  BY <1>b, ColumnAdded
<1>11. QED
  BY <1>10 DEF D

\* Two columns change places.
LEMMA ColumnsSwapped ==
    ASSUME NEW Views, NEW C, GoodColumns(Views, C), NEW i \in DOMAIN C, NEW j \in DOMAIN C
    PROVE  /\ GoodColumns(Views, Swapped(C, i, j)) /\ Tiled(Swapped(C, i, j)) = Tiled(C)
           /\ DOMAIN Swapped(C, i, j) = DOMAIN C
           /\ Swapped(C, i, j)[i] = C[j] /\ Swapped(C, i, j)[j] = C[i]
<1> DEFINE D == Swapped(C, i, j)
           o == [k \in DOMAIN C |-> IF k = i THEN j ELSE IF k = j THEN i ELSE k]
<1>1. C \in Seq(Seq(Views)) /\ DOMAIN C = 1..Len(C)
  BY ColumnType DEF GoodColumns, Columns
<1>2. C[i] \in Seq(Views) /\ C[j] \in Seq(Views)
  BY ColumnType
<1>3. D \in Columns(Views) /\ DOMAIN D = DOMAIN C
  BY <1>1, <1>2 DEF Columns, Swapped
<1>4. /\ D[i] = C[j] /\ D[j] = C[i]
      /\ \A k \in DOMAIN C : k # i /\ k # j => D[k] = C[k]
  BY <1>1 DEF Swapped
<1> HIDE DEF D
<1>5. \A k \in DOMAIN D : o[k] \in DOMAIN C /\ D[k] = C[o[k]]
  BY <1>3, <1>4
<1>6. \A k \in DOMAIN D : \A m \in DOMAIN D : o[k] = o[m] => k = m
  BY <1>3
<1>7. \A k \in DOMAIN C : \E m \in DOMAIN D : o[m] = k
  BY <1>3
<1> HIDE DEF o
<1>8. GoodColumns(Views, D)
  <2>1. Edits(Views, C, D, {}, o)
    BY <1>3, <1>5, <1>6 DEF Edits
  <2>2. QED
    BY <2>1, Edited
<1>9. ASSUME NEW x
      PROVE  x \in Tiled(D) <=> x \in Tiled(C)
  BY <1>5, <1>7, TilesOf
<1>10. QED
  BY <1>3, <1>4, <1>8, <1>9 DEF D

\* The tiles of a column change places.
LEMMA TilesSwapped ==
    ASSUME NEW Views, NEW c \in Seq(Views), c # <<>>, IsInjective(c), NEW i \in DOMAIN c, NEW j \in DOMAIN c
    PROVE  LET d == Swapped(c, i, j)
           IN  d \in Seq(Views) /\ d # <<>> /\ IsInjective(d) /\ ToSet(d) = ToSet(c)
<1> DEFINE d == Swapped(c, i, j)
           o == [k \in DOMAIN c |-> IF k = i THEN j ELSE IF k = j THEN i ELSE k]
<1>1. c[i] \in Views /\ c[j] \in Views /\ DOMAIN c = 1..Len(c)
  BY ElementOfSeq, LenProperties
<1>2. d \in Seq(Views) /\ DOMAIN d = DOMAIN c
  BY <1>1 DEF Swapped
<1>3. /\ d[i] = c[j] /\ d[j] = c[i]
      /\ \A k \in DOMAIN c : k # i /\ k # j => d[k] = c[k]
  BY DEF Swapped
<1> HIDE DEF d
<1>4. \A k \in DOMAIN c : o[k] \in DOMAIN c /\ d[k] = c[o[k]]
  BY <1>3
<1>5. \A k \in DOMAIN c : \A m \in DOMAIN c : o[k] = o[m] => k = m
  OBVIOUS
<1>6. \A k \in DOMAIN c : \E m \in DOMAIN c : o[m] = k
  OBVIOUS
<1> HIDE DEF o
<1>7. IsInjective(d)
  <2>1. ASSUME NEW k \in DOMAIN d, NEW m \in DOMAIN d, d[k] = d[m]
        PROVE  k = m
    <3>1. k \in DOMAIN c /\ m \in DOMAIN c
      BY <1>2
    <3>2. o[k] \in DOMAIN c /\ o[m] \in DOMAIN c /\ c[o[k]] = c[o[m]]
      BY <1>4, <2>1, <3>1
    <3>3. o[k] = o[m]
      BY <3>2 DEF IsInjective
    <3>4. QED
      BY <1>5, <3>1, <3>3
  <2>2. QED
    BY <2>1 DEF IsInjective
<1>8. ToSet(d) = ToSet(c)
  <2>1. ASSUME NEW x
        PROVE  (\E k \in DOMAIN d : x = d[k]) <=> (\E k \in DOMAIN c : x = c[k])
    <3>1. ASSUME NEW k \in DOMAIN d
          PROVE  \E m \in DOMAIN c : d[k] = c[m]
      BY <1>2, <1>4
    <3>2. ASSUME NEW k \in DOMAIN c
          PROVE  \E m \in DOMAIN d : c[k] = d[m]
      <4>1. PICK m \in DOMAIN c : o[m] = k
        BY <1>6
      <4>2. d[m] = c[k] /\ m \in DOMAIN d
        BY <1>2, <1>4, <4>1
      <4>3. QED
        BY <4>2
    <3>3. QED
      BY <3>1, <3>2
  <2>2. \A x : x \in ToSet(d) <=> x \in ToSet(c)
    BY <2>1 DEF ToSet
  <2>3. QED
    BY <2>2
<1>9. d # <<>>
  BY <1>2
<1>10. QED
  BY <1>2, <1>7, <1>8, <1>9 DEF d

\* A layout from its parts.
LEMMA Assembled ==
    ASSUME NEW Views, NEW C, GoodColumns(Views, C), NEW F \in Seq(Views), IsInjective(F),
           Tiled(C) \cap ToSet(F) = {}
    PROVE  GoodLayout(Views, [columns |-> C, floats |-> F], Tiled(C) \cup ToSet(F))
<1>1. C \in Columns(Views)
  BY DEF GoodColumns
<1>2. QED
  BY <1>1 DEF GoodLayout

\* And its parts.
LEMMA Parts ==
    ASSUME NEW Views, NEW S, NEW l, GoodLayout(Views, l, S)
    PROVE  /\ l = [columns |-> l.columns, floats |-> l.floats]
           /\ GoodColumns(Views, l.columns) /\ l.floats \in Seq(Views) /\ IsInjective(l.floats)
           /\ Tiled(l.columns) \cap ToSet(l.floats) = {}
           /\ S = Tiled(l.columns) \cup ToSet(l.floats)
           /\ S \subseteq Views
<1>1. /\ l = [columns |-> l.columns, floats |-> l.floats]
      /\ GoodColumns(Views, l.columns) /\ l.floats \in Seq(Views) /\ IsInjective(l.floats)
      /\ Tiled(l.columns) \cap ToSet(l.floats) = {}
      /\ S = Tiled(l.columns) \cup ToSet(l.floats)
  BY DEF GoodLayout
<1>2. ToSet(l.floats) \subseteq Views
  BY <1>1 DEF ToSet
<1>3. Tiled(l.columns) \subseteq Views
  BY <1>1, ColumnType DEF Tiled
<1>4. QED
  BY <1>1, <1>2, <1>3

LEMMA Containing ==
    ASSUME NEW Views, NEW s \in Seq(Views), NEW v
    PROVE  Contains(s, v) <=> v \in ToSet(s)
BY LenProperties DEF Contains, ToSet

\* Workspace::find_column finds the column of a tile.
LEMMA ColumnFoundIsIts ==
    ASSUME NEW Views, NEW l, GoodColumns(Views, l.columns), NEW v, NEW i, i = FindColumn(l, v)
    PROVE  /\ v \in Tiled(l.columns) => i # 0
           /\ i # 0 => i \in DOMAIN l.columns /\ v \in ToSet(l.columns[i])
           /\ \A j \in DOMAIN l.columns : v \in ToSet(l.columns[j]) => j = i
<1>1. \A j \in DOMAIN l.columns : Contains(l.columns[j], v) <=> v \in ToSet(l.columns[j])
  BY ColumnType, Containing
<1>2. CASE \E j \in DOMAIN l.columns : Contains(l.columns[j], v)
  <2>1. i = CHOOSE j \in DOMAIN l.columns : Contains(l.columns[j], v)
    BY <1>2 DEF FindColumn
  <2>2. i \in DOMAIN l.columns /\ Contains(l.columns[i], v)
    BY <1>2, <2>1
  <2>3. i # 0
    BY <2>2, ColumnType
  <2>4. v \in ToSet(l.columns[i])
    BY <1>1, <2>2
  <2>5. \A j \in DOMAIN l.columns : v \in ToSet(l.columns[j]) => j = i
    BY <2>2, <2>4 DEF GoodColumns
  <2>6. QED
    BY <2>2, <2>3, <2>4, <2>5
<1>3. CASE ~\E j \in DOMAIN l.columns : Contains(l.columns[j], v)
  <2>1. i = 0
    BY <1>3 DEF FindColumn
  <2>2. \A j \in DOMAIN l.columns : v \notin ToSet(l.columns[j])
    BY <1>1, <1>3
  <2>3. v \notin Tiled(l.columns)
    BY <2>2, TilesOf
  <2>4. QED
    BY <2>1, <2>2, <2>3
<1>4. QED
  BY <1>2, <1>3

\* Workspace::remove_view takes the view off, wherever it is.
LEMMA ViewRemoved ==
    ASSUME NEW Views, NEW S, NEW l, GoodLayout(Views, l, S), NEW v, NEW r, r = RemoveView(l, v)
    PROVE  /\ GoodLayout(Views, r, S \ {v})
           /\ Tiled(r.columns) = Tiled(l.columns) \ {v}
           /\ ToSet(r.floats) = ToSet(l.floats) \ {v}
<1> DEFINE i == FindColumn(l, v)
           d == RemoveFirst(l.columns[i], v)
<1>1. r = [columns |-> CASE i = 0 -> l.columns
                         [] i # 0 /\ d = <<>> -> RemoveAt(l.columns, i)
                         [] OTHER -> [l.columns EXCEPT ![i] = d],
           floats  |-> RemoveFirst(l.floats, v)]
  BY Zenon DEF RemoveView
<1>2. /\ GoodColumns(Views, l.columns) /\ l.floats \in Seq(Views) /\ IsInjective(l.floats)
      /\ Tiled(l.columns) \cap ToSet(l.floats) = {}
      /\ S = Tiled(l.columns) \cup ToSet(l.floats)
  BY Parts
<1>3. /\ RemoveFirst(l.floats, v) \in Seq(Views) /\ IsInjective(RemoveFirst(l.floats, v))
      /\ ToSet(RemoveFirst(l.floats, v)) = ToSet(l.floats) \ {v}
  BY <1>2, RemoveFirstProperties
<1>4. GoodColumns(Views, r.columns) /\ Tiled(r.columns) = Tiled(l.columns) \ {v}
  <2>1. CASE i = 0
    <3>1. v \notin Tiled(l.columns)
      BY <1>2, <2>1, ColumnFoundIsIts
    <3>2. r.columns = l.columns
      BY <1>1, <2>1
    <3>3. QED
      BY <1>2, <3>1, <3>2
  <2>2. CASE i # 0
    <3>1. i \in DOMAIN l.columns /\ v \in ToSet(l.columns[i])
      BY <1>2, <2>2, ColumnFoundIsIts
    <3>2. l.columns[i] \in Seq(Views) /\ IsInjective(l.columns[i]) /\ ToSet(l.columns[i]) \subseteq Tiled(l.columns)
      BY <1>2, <3>1, ColumnType
    <3>3. d \in Seq(Views) /\ IsInjective(d) /\ ToSet(d) = ToSet(l.columns[i]) \ {v}
      BY <3>2, RemoveFirstProperties
    <3> HIDE DEF i, d
    <3>4. CASE d = <<>>
      <4>1. r.columns = RemoveAt(l.columns, i)
        BY <1>1, <2>2, <3>4
      <4>2. ToSet(d) = {}
        BY <3>4 DEF ToSet
      <4>3. ToSet(l.columns[i]) = {v}
        BY <3>1, <3>3, <4>2
      <4>4. QED
        BY <1>2, <3>1, <4>1, <4>3, ColumnDropped
    <3>5. CASE d # <<>>
      <4>1. r.columns = [l.columns EXCEPT ![i] = d]
        BY <1>1, <2>2, <3>5
      <4>2. \A x \in ToSet(d) : x \in ToSet(l.columns[i]) \/ x \notin Tiled(l.columns)
        BY <3>3
      <4>3. GoodColumns(Views, r.columns) /\ Tiled(r.columns) = (Tiled(l.columns) \ ToSet(l.columns[i])) \cup ToSet(d)
        BY <1>2, <3>1, <3>3, <3>5, <4>1, <4>2, ColumnReplaced DEF Replaces
      <4>4. QED
        BY <3>1, <3>2, <3>3, <4>3
    <3>6. QED
      BY <3>4, <3>5
  <2>3. QED
    BY <2>1, <2>2
<1> HIDE DEF i, d
<1>5. r = [columns |-> r.columns, floats |-> r.floats] /\ r.floats = RemoveFirst(l.floats, v)
  BY <1>1
<1>6. GoodLayout(Views, r, Tiled(r.columns) \cup ToSet(r.floats))
  <2> DEFINE C == r.columns
             F == r.floats
  <2>1. GoodColumns(Views, C) /\ F \in Seq(Views) /\ IsInjective(F) /\ Tiled(C) \cap ToSet(F) = {}
    BY <1>2, <1>3, <1>4, <1>5
  <2>2. r = [columns |-> C, floats |-> F]
    BY <1>5
  <2> HIDE DEF C, F
  <2>3. GoodLayout(Views, r, Tiled(C) \cup ToSet(F))
    BY <2>1, <2>2, Assembled
  <2>4. QED
    BY <2>3 DEF C, F
<1>7. Tiled(r.columns) \cup ToSet(r.floats) = S \ {v}
  BY <1>2, <1>3, <1>4, <1>5
<1>8. QED
  BY <1>3, <1>4, <1>5, <1>6, <1>7

\* Where e is in s: 0 if it is not.
Place(s, e) == SelectInSeq(s, LAMBDA x : x = e)

LEMMA PlaceOf ==
    ASSUME NEW Views, NEW s \in Seq(Views), NEW e
    PROVE  /\ Place(s, e) \in 0..Len(s)
           /\ Place(s, e) # 0 => Place(s, e) \in DOMAIN s /\ s[Place(s, e)] = e
           /\ Place(s, e) = 0 => e \notin ToSet(s)
<1> DEFINE I == {i \in 1..Len(s) : s[i] = e}
           k == Place(s, e)
<1>1. k = IF I # {} THEN Min(I) ELSE 0
  BY DEF Place, SelectInSeq
<1>2. Len(s) \in Nat /\ DOMAIN s = 1..Len(s)
  BY LenProperties
<1> HIDE DEF k
<1>3. CASE I # {}
  <2>1. I \in SUBSET Nat
    OBVIOUS
  <2>2. Min(I) \in I
    BY <1>3, <2>1, MinIsLeast
  <2>3. k \in DOMAIN s /\ s[k] = e /\ k # 0
    BY <1>1, <1>2, <1>3, <2>2
  <2>4. QED
    BY <1>2, <2>3 DEF k
<1>4. CASE I = {}
  <2>1. k = 0 /\ e \notin ToSet(s)
    BY <1>1, <1>2, <1>4 DEF ToSet
  <2>2. QED
    BY <1>2, <2>1 DEF k
<1>5. QED
  BY <1>3, <1>4

\* Workspace::add_view puts a view that is not there in one place.
LEMMA ViewAdded ==
    ASSUME NEW Views, NEW S, NEW l, GoodLayout(Views, l, S), NEW v \in Views, v \notin S, NEW n, NEW b \in BOOLEAN,
           NEW r, r = AddView(l, v, n, b)
    PROVE  GoodLayout(Views, r, S \cup {v})
<1> DEFINE C == l.columns
           F == l.floats
           i == FindColumn(l, n)
           p == Place(F, n)
<1>1. /\ l = [columns |-> C, floats |-> F]
      /\ GoodColumns(Views, C) /\ F \in Seq(Views) /\ IsInjective(F)
      /\ Tiled(C) \cap ToSet(F) = {}
      /\ S = Tiled(C) \cup ToSet(F)
  BY Parts
<1>2. v \notin Tiled(C) /\ v \notin ToSet(F)
  BY <1>1
<1>3. i # 0 => i \in DOMAIN C
  BY <1>1, ColumnFoundIsIts
<1>4. p \in 0..Len(F)
  BY <1>1, PlaceOf
<1>5. CASE b
  <2> DEFINE G == IF p = 0 THEN Append(F, v) ELSE InsertAt(F, p + 1, v)
  <2>1. r = [l EXCEPT !.floats = G]
    BY <1>5 DEF AddView, Place
  <2> HIDE DEF p
  <2>2. G \in Seq(Views) /\ IsInjective(G) /\ ToSet(G) = ToSet(F) \cup {v}
    <3>1. CASE p = 0
      BY <1>1, <1>2, <3>1, PutAtEnd
    <3>2. CASE p # 0
      <4>1. p + 1 \in 1..(Len(F) + 1)
        BY <1>1, <1>4, <3>2, LenProperties
      <4>2. G = InsertAt(F, p + 1, v)
        BY <3>2
      <4>3. QED
        BY <1>1, <1>2, <4>1, <4>2, PutAtKeeps
    <3>3. QED
      BY <3>1, <3>2
  <2> HIDE DEF G, C, F
  <2>3. r = [columns |-> C, floats |-> G]
    BY <1>1, <2>1
  <2>4. GoodLayout(Views, r, Tiled(C) \cup ToSet(G))
    BY <1>1, <1>2, <2>2, <2>3, Assembled
  <2>5. Tiled(C) \cup ToSet(G) = S \cup {v}
    BY <1>1, <2>2
  <2>6. QED
    BY <2>4, <2>5
<1>6. CASE ~b
  <2> DEFINE D == IF i = 0 THEN Append(C, <<v>>) ELSE InsertAt(C, i + 1, <<v>>)
  <2>1. r = [l EXCEPT !.columns = D]
    BY <1>6 DEF AddView
  <2> HIDE DEF i
  <2>2. GoodColumns(Views, D) /\ Tiled(D) = Tiled(C) \cup {v}
    <3>1. CASE i = 0
      BY <1>1, <1>2, <3>1, ColumnAppended
    <3>2. CASE i # 0
      <4>1. i + 1 \in 1..(Len(C) + 1)
        BY <1>1, <1>3, <3>2, ColumnType
      <4>2. D = InsertAt(C, i + 1, <<v>>)
        BY <3>2
      <4>3. QED
        BY <1>1, <1>2, <4>1, <4>2, ColumnPut
    <3>3. QED
      BY <3>1, <3>2
  <2> HIDE DEF D, C, F
  <2>3. r = [columns |-> D, floats |-> F]
    BY <1>1, <2>1
  <2>4. Tiled(D) \cap ToSet(F) = {}
    BY <1>1, <1>2, <2>2
  <2>5. GoodLayout(Views, r, Tiled(D) \cup ToSet(F))
    BY <1>1, <2>2, <2>3, <2>4, Assembled
  <2>6. Tiled(D) \cup ToSet(F) = S \cup {v}
    BY <1>1, <2>2
  <2>7. QED
    BY <2>5, <2>6
<1>7. QED
  BY <1>5, <1>6

LEMMA FloatingOnes ==
    ASSUME NEW Views, NEW S, NEW l, GoodLayout(Views, l, S), NEW v
    PROVE  IsFloating(l, v) <=> v \in ToSet(l.floats)
<1>1. l.floats \in Seq(Views)
  BY Parts
<1>2. QED
  BY <1>1, Containing DEF IsFloating

\* Workspace::insert_into_column moves a view to the column of another one.
LEMMA ViewInserted ==
    ASSUME NEW Views, NEW S, NEW l, GoodLayout(Views, l, S), NEW v \in S, NEW a \in Tiled(l.columns), a # v,
           NEW r, r = InsertIntoColumn(l, v, a)
    PROVE  GoodLayout(Views, r, S)
<1> DEFINE q == RemoveView(l, v)
           C == q.columns
           F == q.floats
           i == FindColumn(q, a)
           d == Append(C[i], v)
           D == [C EXCEPT ![i] = d]
<1>0. q = RemoveView(l, v)
  OBVIOUS
<1> HIDE DEF q
<1>1. /\ GoodLayout(Views, q, S \ {v})
      /\ Tiled(C) = Tiled(l.columns) \ {v} /\ ToSet(F) = ToSet(l.floats) \ {v}
  BY <1>0, ViewRemoved
<1>2. /\ q = [columns |-> C, floats |-> F]
      /\ GoodColumns(Views, C) /\ F \in Seq(Views) /\ IsInjective(F)
      /\ Tiled(C) \cap ToSet(F) = {}
      /\ S \ {v} = Tiled(C) \cup ToSet(F)
  BY <1>1, Parts
<1>3. v \in Views
  BY Parts
<1>4. i \in DOMAIN C
  BY <1>1, <1>2, ColumnFoundIsIts
<1>5. r = [q EXCEPT !.columns[i] = d]
  BY <1>0 DEF InsertIntoColumn
<1> HIDE DEF i
<1>6. r = [columns |-> D, floats |-> F]
  BY <1>2, <1>5
<1>7. C[i] \in Seq(Views) /\ IsInjective(C[i]) /\ ToSet(C[i]) \subseteq Tiled(C)
  BY <1>2, <1>4, ColumnType
<1>8. v \notin Tiled(C) /\ v \notin ToSet(F) /\ v \notin ToSet(C[i])
  BY <1>1, <1>7
<1>9. d \in Seq(Views) /\ ToSet(d) = ToSet(C[i]) \cup {v} /\ IsInjective(d)
  BY <1>3, <1>7, <1>8, PutAtEnd
<1>10. d # <<>>
  BY <1>7, <1>3, AppendProperties
<1> HIDE DEF d, C, F
<1>11. \A x \in ToSet(d) : x \in ToSet(C[i]) \/ x \notin Tiled(C)
  BY <1>8, <1>9
<1>12. GoodColumns(Views, D) /\ Tiled(D) = (Tiled(C) \ ToSet(C[i])) \cup ToSet(d)
  <2>1. D = [C EXCEPT ![i] = d]
    OBVIOUS
  <2> HIDE DEF D
  <2>2. GoodColumns(Views, C) /\ d \in Seq(Views) /\ IsInjective(d)
    BY <1>2, <1>9
  <2>3. Replaces(Views, C, D, i, d)
    BY <1>4, <1>10, <1>11, <2>1, <2>2 DEF Replaces
  <2>4. QED
    BY <2>2, <2>3, ColumnReplaced
<1>13. Tiled(D) = Tiled(C) \cup {v}
  BY <1>7, <1>9, <1>12
<1> HIDE DEF D
<1>14. GoodLayout(Views, r, Tiled(D) \cup ToSet(F))
  <2>1. Tiled(D) \cap ToSet(F) = {}
    BY <1>2, <1>8, <1>13
  <2>2. QED
    BY <1>2, <1>6, <1>12, <2>1, Assembled
<1>15. Tiled(D) \cup ToSet(F) = S
  BY <1>2, <1>13
<1>16. QED
  BY <1>14, <1>15

\* Workspace::pop_from_column gives the bottom view a column of its own.
LEMMA ViewPopped ==
    ASSUME NEW Views, NEW S, NEW l, GoodLayout(Views, l, S), NEW i \in DOMAIN l.columns,
           NEW r, r = PopFromColumn(l, i)
    PROVE  GoodLayout(Views, r, S)
<1> DEFINE c == l.columns[i]
           v == Last(c)
           q == RemoveView(l, v)
<1>1. CASE Len(c) < 2
  BY <1>1 DEF PopFromColumn
<1>2. CASE ~(Len(c) < 2)
  <2>1. GoodColumns(Views, l.columns) /\ S = Tiled(l.columns) \cup ToSet(l.floats) /\ S \subseteq Views
    BY Parts
  <2>2. c \in Seq(Views) /\ ToSet(c) \subseteq Tiled(l.columns) /\ c # <<>>
    BY <2>1, ColumnType
  <2>3. v = c[Len(c)] /\ Len(c) \in DOMAIN c
    BY <1>2, <2>2, LenProperties DEF Last
  <2>4. v \in ToSet(c)
    BY <2>3 DEF ToSet
  <2>5. v \in S /\ v \in Views
    BY <2>1, <2>2, <2>4
  <2>6. GoodLayout(Views, q, S \ {v})
    BY ViewRemoved
  <2>7. r = AddView(q, v, Head(c), FALSE)
    BY <1>2 DEF PopFromColumn
  <2> HIDE DEF q, v, c
  <2>8. GoodLayout(Views, r, (S \ {v}) \cup {v})
    BY <2>5, <2>6, <2>7, ViewAdded
  <2>9. (S \ {v}) \cup {v} = S
    BY <2>5
  <2>10. QED
    BY <2>8, <2>9
<1>3. QED
  BY <1>1, <1>2

\* commands::toggle_floating moves a view between the tiles and the floating
\* ones.
LEMMA ViewToggled ==
    ASSUME NEW Views, NEW S, NEW l, GoodLayout(Views, l, S), NEW v \in S, NEW r, r = ToggleFloating(l, v)
    PROVE  GoodLayout(Views, r, S)
<1> DEFINE q == RemoveView(l, v)
           C == q.columns
           F == q.floats
<1>1. GoodLayout(Views, q, S \ {v})
  BY ViewRemoved
<1>2. /\ q = [columns |-> C, floats |-> F]
      /\ GoodColumns(Views, C) /\ F \in Seq(Views) /\ IsInjective(F)
      /\ Tiled(C) \cap ToSet(F) = {}
      /\ S \ {v} = Tiled(C) \cup ToSet(F)
  BY <1>1, Parts
<1>3. v \in Views /\ v \notin Tiled(C) /\ v \notin ToSet(F)
  BY <1>2, Parts
<1>4. CASE IsFloating(l, v)
  <2> DEFINE D == Append(C, <<v>>)
  <2>1. r = [q EXCEPT !.columns = D]
    BY <1>4 DEF ToggleFloating
  <2>2. GoodColumns(Views, D) /\ Tiled(D) = Tiled(C) \cup {v}
    BY <1>2, <1>3, ColumnAppended
  <2> HIDE DEF D, q
  <2>3. r = [columns |-> D, floats |-> F]
    BY <1>2, <2>1
  <2> HIDE DEF C, F
  <2>4. Tiled(D) \cap ToSet(F) = {} /\ Tiled(D) \cup ToSet(F) = S
    BY <1>2, <1>3, <2>2
  <2>5. GoodLayout(Views, r, Tiled(D) \cup ToSet(F))
    BY <1>2, <2>2, <2>3, <2>4, Assembled
  <2>6. QED
    BY <2>4, <2>5
<1>5. CASE ~IsFloating(l, v)
  <2> DEFINE G == Append(F, v)
  <2>1. r = [q EXCEPT !.floats = G]
    BY <1>5 DEF ToggleFloating
  <2>2. G \in Seq(Views) /\ IsInjective(G) /\ ToSet(G) = ToSet(F) \cup {v}
    BY <1>2, <1>3, PutAtEnd
  <2> HIDE DEF G, q
  <2>3. r = [columns |-> C, floats |-> G]
    BY <1>2, <2>1
  <2> HIDE DEF C, F
  <2>4. Tiled(C) \cap ToSet(G) = {} /\ Tiled(C) \cup ToSet(G) = S
    BY <1>2, <1>3, <2>2
  <2>5. GoodLayout(Views, r, Tiled(C) \cup ToSet(G))
    BY <1>2, <2>2, <2>3, <2>4, Assembled
  <2>6. QED
    BY <2>4, <2>5
<1>6. QED
  BY <1>4, <1>5

LEMMA Remainder ==
    ASSUME NEW a \in Int, NEW n \in Nat, n > 0
    PROVE  (a % n) + 1 \in 1..n
OBVIOUS

\* commands::move exchanges columns, then tiles of a column.
LEMMA TileMoved ==
    ASSUME NEW Views, NEW S, NEW l, GoodLayout(Views, l, S), NEW v \in Tiled(l.columns),
           NEW dx \in Int, NEW dy \in Int,
           NEW r, r = MoveTile(l, v, dx, dy)
    PROVE  GoodLayout(Views, r, S) /\ Tiled(r.columns) = Tiled(l.columns)
<1> DEFINE C == l.columns
           F == l.floats
           i == FindColumn(l, v)
           j == i + dx
           swap == dx # 0 /\ j \in DOMAIN C
           cols == IF swap THEN Swapped(C, i, j) ELSE C
           at == IF swap THEN j ELSE i
           n == Len(cols[at])
           k == Place(cols[at], v)
           other == ((k - 1 - dy + n) % n) + 1
           d == Swapped(cols[at], k, other)
           D == IF dy # 0 /\ n > 1 THEN [cols EXCEPT ![at] = d] ELSE cols
<1>1. r = [l EXCEPT !.columns = D]
  BY DEF MoveTile, Place
<1>2. /\ l = [columns |-> C, floats |-> F]
      /\ GoodColumns(Views, C) /\ F \in Seq(Views) /\ IsInjective(F)
      /\ Tiled(C) \cap ToSet(F) = {}
      /\ S = Tiled(C) \cup ToSet(F)
  BY Parts
<1>3. i \in DOMAIN C /\ v \in ToSet(C[i])
  BY <1>2, ColumnFoundIsIts
<1> HIDE DEF i, C, F
<1>4. /\ GoodColumns(Views, cols) /\ Tiled(cols) = Tiled(C)
      /\ at \in DOMAIN cols /\ v \in ToSet(cols[at])
  <2>1. CASE swap
    <3>1. j \in DOMAIN C
      BY <2>1
    <3> HIDE DEF j
    <3>2. cols = Swapped(C, i, j) /\ at = j
      BY <2>1
    <3>3. /\ GoodColumns(Views, cols) /\ Tiled(cols) = Tiled(C) /\ DOMAIN cols = DOMAIN C
          /\ cols[j] = C[i]
      BY <1>2, <1>3, <3>1, <3>2, ColumnsSwapped
    <3>4. QED
      BY <1>3, <3>1, <3>2, <3>3
  <2>2. CASE ~swap
    BY <1>2, <1>3, <2>2
  <2>3. QED
    BY <2>1, <2>2
<1> HIDE DEF cols, at, swap, j
<1>5. GoodColumns(Views, D) /\ Tiled(D) = Tiled(C)
  <2>1. CASE ~(dy # 0 /\ n > 1)
    BY <1>4, <2>1
  <2>2. CASE dy # 0 /\ n > 1
    <3>1. /\ cols[at] \in Seq(Views) /\ cols[at] # <<>> /\ IsInjective(cols[at])
          /\ ToSet(cols[at]) \subseteq Tiled(cols)
      BY <1>4, ColumnType
    <3>2. n \in Nat /\ DOMAIN cols[at] = 1..n
      BY <3>1, LenProperties
    <3>3. k \in DOMAIN cols[at]
      BY <1>4, <3>1, PlaceOf
    <3>4. other \in DOMAIN cols[at]
      <4>1. k \in Int
        BY <3>2, <3>3
      <4> HIDE DEF k, n
      <4> DEFINE b == k - 1 - dy + n
      <4>2. b \in Int
        BY <3>2, <4>1
      <4>3. other = (b % n) + 1
        OBVIOUS
      <4> HIDE DEF b, other
      <4>5. n > 0 /\ n \in Nat
        BY <2>2, <3>2
      <4>6. (b % n) + 1 \in 1..n
        BY <4>2, <4>5, Remainder
      <4>7. other \in 1..n
        BY <4>3, <4>6
      <4>8. QED
        BY <3>2, <4>7
    <3> HIDE DEF other, k
    <3>5. d \in Seq(Views) /\ d # <<>> /\ IsInjective(d) /\ ToSet(d) = ToSet(cols[at])
      BY <3>1, <3>3, <3>4, TilesSwapped
    <3>6. D = [cols EXCEPT ![at] = d]
      BY <2>2
    <3> HIDE DEF d, D, n
    <3>7. \A x \in ToSet(d) : x \in ToSet(cols[at]) \/ x \notin Tiled(cols)
      BY <3>5
    <3>8. GoodColumns(Views, D) /\ Tiled(D) = (Tiled(cols) \ ToSet(cols[at])) \cup ToSet(d)
      <4>1. GoodColumns(Views, cols) /\ at \in DOMAIN cols
        BY <1>4
      <4>2. d \in Seq(Views) /\ d # <<>> /\ IsInjective(d)
        BY <3>5
      <4>3. Replaces(Views, cols, D, at, d)
        BY <3>6, <3>7, <4>1, <4>2 DEF Replaces
      <4>4. QED
        BY <4>1, <4>3, ColumnReplaced
    <3>9. QED
      BY <1>4, <3>1, <3>5, <3>8
  <2>3. QED
    BY <2>1, <2>2
<1> HIDE DEF D
<1>6. r = [columns |-> D, floats |-> F]
  BY <1>1, <1>2
<1>7. GoodLayout(Views, r, Tiled(D) \cup ToSet(F))
  BY <1>2, <1>5, <1>6, Assembled
<1>8. GoodLayout(Views, r, S)
  BY <1>2, <1>5, <1>7
<1>9. Tiled(r.columns) = Tiled(C)
  BY <1>5, <1>6
<1>10. QED
  BY <1>8, <1>9 DEF C
=============================================================================
