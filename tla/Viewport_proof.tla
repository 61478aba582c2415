--------------------------- MODULE Viewport_proof ---------------------------
(***************************************************************************)
(* Theorems about Viewport, for any output, gap, panels and widths.        *)
(***************************************************************************)
EXTENDS Viewport, Lemmas

\* The least number of a set is the one that Min chooses.
LEMMA MinIs ==
    ASSUME NEW S \in SUBSET Int, NEW m \in S, \A n \in S : m <= n
    PROVE  Min(S) = m
<1>1. \A x \in S : (\A y \in S : x <= y) => x = m
  BY SMT
<1> QED BY <1>1 DEF Min

LEMMA OutputSize == OutputWidth \in Nat /\ 100 <= OutputWidth /\ OutputWidth < 10000
  BY SizesAssumption, SMT

\* What is cut off when a width of cycle_width is brought to whole pixels
LEMMA Cut ==
    ASSUME NEW i \in 1..3
    PROVE  /\ CycleWidths[i] \in Nat
           /\ CycleWidths[i] * 10000 <= Ratios[i] * OutputWidth
           /\ Ratios[i] * OutputWidth < CycleWidths[i] * 10000 + 10000
<1> USE OutputSize DEF CycleWidths, Ratios
<1>1. CASE i = 1
  BY <1>1, SMT
<1>2. CASE i = 2
  BY <1>2, SMT
<1>3. CASE i = 3
  BY <1>3, SMT
<1> QED BY <1>1, <1>2, <1>3

\* The first and the third are cut on every output: 3819 and 6181 have no
\* factor in common with 10000, and no output is 10000 wide.
LEMMA FirstIsCut ==
    ASSUME NEW q \in Int
    PROVE  q * 10000 # 3819 * OutputWidth
<1> SUFFICES ASSUME q * 10000 = 3819 * OutputWidth PROVE FALSE
  OBVIOUS
<1> DEFINE z == 5779 * q - 2207 * OutputWidth
<1>1. OutputWidth = 10000 * z /\ z \in Int
  BY OutputSize, SMT
<1> HIDE DEF z
<1>2. z > 0 /\ z < 1
  BY <1>1, OutputSize, SMT
<1> QED BY <1>1, <1>2, SMT

LEMMA ThirdIsCut ==
    ASSUME NEW q \in Int
    PROVE  q * 10000 # 6181 * OutputWidth
<1> SUFFICES ASSUME q * 10000 = 6181 * OutputWidth PROVE FALSE
  OBVIOUS
<1> DEFINE z == 4221 * q - 2609 * OutputWidth
<1>1. OutputWidth = 10000 * z /\ z \in Int
  BY OutputSize, SMT
<1> HIDE DEF z
<1>2. z > 0 /\ z < 1
  BY <1>1, OutputSize, SMT
<1> QED BY <1>1, <1>2, SMT

\* From each of its three widths, View::cycle_width goes to the next one: the
\* first and the third are found near the ratio they were cut from; the second
\* too, unless nothing was cut from it, and then the third is next anyway.
LEMMA CycledToTheNext ==
    ASSUME NEW i \in 1..3
    PROVE  Cycled(CycleWidths[i]) = {CycleWidths[(i % 3) + 1]}
<1> DEFINE w == CycleWidths[i]
<1>0. w \in Nat /\ w * 10000 <= Ratios[i] * OutputWidth
               /\ Ratios[i] * OutputWidth < w * 10000 + 10000
  BY Cut
<1>a. Ratios[1] = 3819 /\ Ratios[2] = 5000 /\ Ratios[3] = 6181
  BY DEF Ratios
<1> HIDE DEF w
<1>n. Near(w, i)
  BY <1>0, <1>a, OutputSize, SMT DEF Near
<1>b. \A m \in 1..3 : Above(w) \in SUBSET Int
  BY DEF Above
<1>c. ASSUME NEW m \in 1..3, m \in Above(w), \A n \in Above(w) : m <= n
      PROVE  Above(w) # {} /\ Min(Above(w)) = m
  BY <1>b, <1>c, MinIs
<1>1. CASE Ratios[i] * OutputWidth > w * 10000
  <2>1. i \in Above(w)
    BY <1>1 DEF Above
  <2>2. \A n \in Above(w) : i <= n
    BY <1>0, <1>a, OutputSize, SMT DEF Above
  <2>3. Above(w) # {} /\ Min(Above(w)) = i
    BY <1>c, <2>1, <2>2
  <2> QED BY <2>3, <1>n DEF Cycled, w
<1>2. CASE Ratios[i] * OutputWidth = w * 10000
  <2>1. i = 2
    BY <1>0, <1>2, <1>a, FirstIsCut, ThirdIsCut, SMT
  <2>2. 3 \in Above(w)
    BY <2>1, <1>2, <1>a, OutputSize, SMT DEF Above
  <2>3. \A n \in Above(w) : 3 <= n
    BY <2>1, <1>2, <1>a, OutputSize, SMT DEF Above
  <2>4. Above(w) # {} /\ Min(Above(w)) = 3
    BY <1>c, <2>2, <2>3
  <2>5. ~Near(w, 3)
    BY <2>1, <1>0, <1>2, <1>a, OutputSize, SMT DEF Near
  <2> QED BY <2>1, <2>4, <2>5 DEF Cycled, w
<1> QED BY <1>0, <1>1, <1>2, <1>a, OutputSize, SMT

-----------------------------------------------------------------------------
\* What fit_view_on_screen computes on the output at the origin, wherever the
\* viewport was and whatever column the view is in.
LEMMA FitShows ==
    ASSUME NEW p, NEW v, NEW s \in Int, NEW condense \in BOOLEAN,
           OutputX = 0,
           p.width[v] \in Nat, p.area.x \in Nat, p.area.width \in Nat,
           Arranged(p, v) \in Nat, Wx(p, v) = Arranged(p, v),
           FindColumn(p.layout, v) = 1 => Arranged(p, v) = 0,
           Room(p, v)
    PROVE  LET x == X(p, Fit(p, s, v, condense), v)
           IN  0 <= x /\ x + p.width[v] <= p.area.x + p.area.width
<1> DEFINE w == p.width[v]
           ax == p.area.x
           aw == p.area.width
           at == Arranged(p, v)
           half == Gap \div 2
           left == at - ax - half
           right == at + w - (ax + aw) + half
<1>1. Fit(p, s, v, condense) \in {s, left, right}
  <2>1. CASE condense /\ FindColumn(p.layout, v) = 1
    BY <2>1 DEF Fit, AlignLeft
  <2>2. CASE condense /\ FindColumn(p.layout, v) # 1
                      /\ FindColumn(p.layout, v) = Len(p.layout.columns)
    BY <2>2 DEF Fit, AlignLeft
  <2>3. CASE ~(condense /\ FindColumn(p.layout, v) = 1)
             /\ ~(condense /\ FindColumn(p.layout, v) # 1
                           /\ FindColumn(p.layout, v) = Len(p.layout.columns))
    BY <2>3 DEF Fit, AlignLeft
  <2> QED BY <2>1, <2>2, <2>3
<1>2. half \in Int
  BY SizesAssumption
<1>3. X(p, s, v) = at - s
  BY DEF X
<1>4. ASSUME Fit(p, s, v, condense) = s, s # left, s # right
      PROVE  0 <= at - s /\ at - s + w <= ax + aw
  <2>1. ~Overflows(at - s, w, p.area)
    <3>1. SUFFICES ASSUME Overflows(at - s, w, p.area) PROVE FALSE
      OBVIOUS
    <3>2. ~(at - s < ax) /\ ~(at - s >= ax /\ at - s + w >= ax + aw)
      BY <1>3, <1>4, <3>1 DEF Fit, AlignLeft
    <3> QED BY <3>1, <3>2 DEF Overflows
  <2> HIDE DEF w, ax, aw, at
  <2> QED BY <2>1 DEF Overflows, w, ax, aw, at
<1>5. w + half <= aw
  BY DEF Room
<1> HIDE DEF w, ax, aw, at, half
<1>6. /\ w \in Nat /\ ax \in Nat /\ aw \in Nat /\ at \in Nat
      /\ half \in Nat
  BY SizesAssumption DEF w, ax, aw, at, half
<1>7. PICK t \in {s, left, right} : t = Fit(p, s, v, condense)
  BY <1>1
<1>8. t \in Int /\ 0 <= at - t /\ at - t + w <= ax + aw
  <2>1. CASE t = left
    BY <1>5, <1>6, <2>1
  <2>2. CASE t = right
    BY <1>5, <1>6, <2>2
  <2>3. CASE t = s /\ s # left /\ s # right
    BY <1>4, <1>7, <2>3
  <2> QED BY <1>7, <2>1, <2>2, <2>3
<1>9. X(p, t, v) = at - t
  BY <1>6, <1>8 DEF X, at
<1> QED BY <1>7, <1>8, <1>9 DEF w, ax, aw

\* Where it moves the viewport to, the view is right of the left end of the
\* usable area.
LEMMA FitClears ==
    ASSUME NEW p, NEW v, NEW s \in Int, NEW condense \in BOOLEAN,
           OutputX = 0,
           p.width[v] \in Nat, p.area.x \in Nat, p.area.width \in Nat,
           Arranged(p, v) \in Nat, Wx(p, v) = Arranged(p, v),
           FindColumn(p.layout, v) = 1 => Arranged(p, v) = 0,
           Room(p, v), Fit(p, s, v, condense) # s
    PROVE  p.area.x <= X(p, Fit(p, s, v, condense), v)
<1> DEFINE w == p.width[v]
           ax == p.area.x
           aw == p.area.width
           at == Arranged(p, v)
           half == Gap \div 2
           left == at - ax - half
           right == at + w - (ax + aw) + half
<1>1. Fit(p, s, v, condense) \in {left, right}
  <2>1. CASE condense /\ FindColumn(p.layout, v) = 1
    BY <2>1 DEF Fit, AlignLeft
  <2>2. CASE condense /\ FindColumn(p.layout, v) # 1
                      /\ FindColumn(p.layout, v) = Len(p.layout.columns)
    BY <2>2 DEF Fit, AlignLeft
  <2>3. CASE ~(condense /\ FindColumn(p.layout, v) = 1)
             /\ ~(condense /\ FindColumn(p.layout, v) # 1
                           /\ FindColumn(p.layout, v) = Len(p.layout.columns))
    BY <2>3 DEF Fit, AlignLeft
  <2> QED BY <2>1, <2>2, <2>3
<1>2. w + half <= aw
  BY DEF Room
<1> HIDE DEF w, ax, aw, at, half
<1>3. w \in Nat /\ ax \in Nat /\ aw \in Nat /\ at \in Nat /\ half \in Nat
  BY SizesAssumption DEF w, ax, aw, at, half
<1>4. PICK t \in {left, right} : t = Fit(p, s, v, condense)
  BY <1>1
<1>5. t \in Int /\ ax <= at - t
  <2>1. CASE t = left
    BY <1>3, <2>1
  <2>2. CASE t = right
    BY <1>2, <1>3, <2>2
  <2> QED BY <1>4, <2>1, <2>2
<1>6. X(p, t, v) = at - t
  BY <1>3, <1>5 DEF X, at
<1> QED BY <1>4, <1>5, <1>6 DEF ax

-----------------------------------------------------------------------------
(* The invariant *)

Statuses == {"new", "normal", "fullscreen", "recovering", "gone"}
ViewWidths == Widths \cup Range(CycleWidths) \cup {0}

\* The layout of the plane holds each view that is mapped, and holds it once.
GoodPlane(p) ==
    /\ p \in [layout: [columns: Columns(Views), floats: Seq(Views)], status: [Views -> Statuses],
              width: [Views -> ViewWidths], area: Areas]
    /\ GoodLayout(Views, p.layout, MappedViews(p))

GoodStack(st, S) == st \in Seq(Views) /\ ToSet(st) \subseteq S /\ IsInjective(st)

\* The viewport is where fit_view_on_screen has put it for the view fitted last.
FittedThere ==
    fitted # None =>
        /\ fitted \in MappedViews(plane) /\ Fits(plane, fitted)
        /\ \E s \in Int, condense \in BOOLEAN : scroll = Fit(plane, s, fitted, condense)

IInv ==
    /\ GoodPlane(plane)
    /\ GoodStack(stack, MappedViews(plane))
    /\ scroll \in Int
    /\ FittedThere
    /\ stopped \in BOOLEAN /\ edits \in 0..MaxEdits

-----------------------------------------------------------------------------
(* Widths and places *)

LEMMA WidthsAreNatural ==
    /\ ViewWidths \subseteq Nat
    /\ \A i \in 1..3 : CycleWidths[i] \in ViewWidths
<1>1. \A i \in 1..3 : CycleWidths[i] \in Nat
  BY Cut
<1>2. DOMAIN CycleWidths = 1..3
  BY DEF CycleWidths
<1>3. Range(CycleWidths) \subseteq Nat
  BY <1>1, <1>2 DEF Range
<1>4. \A i \in 1..3 : CycleWidths[i] \in Range(CycleWidths)
  BY <1>2 DEF Range
<1>5. Widths \subseteq Nat /\ 0 \in Nat
  BY SizesAssumption
<1>6. ViewWidths \subseteq Nat
  BY <1>3, <1>5 DEF ViewWidths
<1>7. QED
  BY <1>4, <1>6 DEF ViewWidths

LEMMA PlaneParts ==
    ASSUME NEW p, GoodPlane(p)
    PROVE  /\ p = [layout |-> p.layout, status |-> p.status, width |-> p.width, area |-> p.area]
           /\ p.status \in [Views -> Statuses] /\ p.width \in [Views -> ViewWidths]
           /\ p.area \in Areas /\ p.area.x \in Nat /\ p.area.width \in Nat
           /\ GoodLayout(Views, p.layout, MappedViews(p)) /\ GoodColumns(Views, p.layout.columns)
           /\ MappedViews(p) \subseteq Views
<1>1. /\ p = [layout |-> p.layout, status |-> p.status, width |-> p.width, area |-> p.area]
      /\ p.status \in [Views -> Statuses] /\ p.width \in [Views -> ViewWidths]
      /\ p.area \in Areas
      /\ GoodLayout(Views, p.layout, MappedViews(p))
  BY DEF GoodPlane
<1>2. p.area.x \in Nat /\ p.area.width \in Nat
  BY <1>1, SizesAssumption
<1>3. GoodColumns(Views, p.layout.columns)
  BY <1>1, Parts
<1>4. QED
  BY <1>1, <1>2, <1>3 DEF MappedViews

LEMMA PlaneMade ==
    ASSUME NEW st \in [Views -> Statuses], NEW w \in [Views -> ViewWidths], NEW a \in Areas,
           NEW l, GoodLayout(Views, l, {v \in Views : st[v] \notin {"new", "gone"}}),
           NEW p, p = [layout |-> l, status |-> st, width |-> w, area |-> a]
    PROVE  GoodPlane(p) /\ MappedViews(p) = {v \in Views : st[v] \notin {"new", "gone"}}
<1>1. l \in [columns: Columns(Views), floats: Seq(Views)]
  BY DEF GoodLayout
<1>2. MappedViews(p) = {v \in Views : st[v] \notin {"new", "gone"}}
  BY DEF MappedViews
<1>3. QED
  BY <1>1, <1>2 DEF GoodPlane

\* What a loop accumulates from shares of a kind of number is of that kind.
LEMMA TotalType ==
    ASSUME NEW s \in Seq(Nat)
    PROVE  Total(s) \in Nat
<1> DEFINE n == Len(s)
           Step == [i \in 1..n |-> [x \in Nat |-> x + s[i]]]
           Acc(q) == q = [i \in 0..n |-> IF i = 0 THEN 0 ELSE q[i - 1] + s[i]]
           acc == CHOOSE q : Acc(q)
<1>1. n \in Nat /\ \A i \in 1..n : s[i] \in Nat
  BY LenProperties, ElementOfSeq
<1>2. \A i \in 1..n, x \in Nat : x + s[i] \in Nat
  BY <1>1
<1>3. Step \in [1..n -> [Nat -> Nat]]
  BY <1>2
<1>4. \A i \in 1..n, x \in Nat : Step[i][x] = x + s[i]
  OBVIOUS
<1>5. Total(s) = acc[n]
  BY DEF Total
<1> HIDE DEF Step, n
<1>6. PICK h : Unfolds(h, n, Nat, 0, Step)
  BY <1>1, <1>3, RecursionExists
<1>7. Acc(h)
  <2>1. ASSUME NEW i \in 0..n
        PROVE  h[i] = IF i = 0 THEN 0 ELSE h[i - 1] + s[i]
    <3>1. CASE i = 0
      BY <1>6, <3>1 DEF Unfolds
    <3>2. CASE i # 0
      <4>1. i \in 1..n /\ i - 1 \in 0..n
        BY <1>1, <3>2
      <4>2. h[i] = Step[i][h[i - 1]] /\ h[i - 1] \in Nat
        BY <1>6, <4>1 DEF Unfolds
      <4>3. QED
        BY <1>4, <3>2, <4>1, <4>2
    <3>3. QED
      BY <3>1, <3>2
  <2>2. QED
    BY <1>6, <2>1 DEF Unfolds
<1>8. Acc(acc)
  BY <1>7, Zenon
<1> HIDE DEF acc
<1>9. \A i \in 0..n : acc[i] = IF i = 0 THEN 0 ELSE acc[i - 1] + s[i]
  BY <1>8
<1>10. 0 \in 0..n /\ n \in 0..n
  BY <1>1
<1>11. acc[0] \in Nat
  BY <1>9, <1>10
<1>12. ASSUME NEW i \in 1..n, acc[i - 1] \in Nat
       PROVE  acc[i] \in Nat
  <2>1. i \in 0..n /\ i # 0
    BY <1>1
  <2>2. acc[i] = acc[i - 1] + s[i]
    BY <1>9, <2>1
  <2>3. QED
    BY <1>1, <1>12, <2>2
<1>13. \A i \in 0..n : acc[i] \in Nat
  BY <1>1, <1>11, <1>12, UpTo
<1>14. QED
  BY <1>5, <1>10, <1>13

\* The tiles a column shows are views of it, and it is as wide as one of them or
\* not wide at all.
LEMMA ColumnShows ==
    ASSUME NEW p, GoodPlane(p), NEW i \in DOMAIN p.layout.columns
    PROVE  /\ Tiles(p, i) \subseteq ToSet(p.layout.columns[i])
           /\ Tiles(p, i) # {} => TopTile(p, i) \in Tiles(p, i) /\ BottomTile(p, i) \in Tiles(p, i)
           /\ ColumnWidth(p, i) \in ViewWidths /\ ColumnWidth(p, i) \in Nat
<1> DEFINE c == p.layout.columns[i]
           W == {p.width[v] : v \in Tiles(p, i)} \cup {0}
<1>1. c \in Seq(Views) /\ ToSet(c) \subseteq Views
  BY PlaneParts, ColumnType
<1>2. Tiles(p, i) \subseteq ToSet(c)
  BY DEF Tiles
<1>3. ASSUME Tiles(p, i) # {}
      PROVE  TopTile(p, i) \in Tiles(p, i) /\ BottomTile(p, i) \in Tiles(p, i)
  <2>1. Tiles(p, i) \cap ToSet(c) # {}
    BY <1>2, <1>3
  <2>2. TopTile(p, i) \in Tiles(p, i)
    BY <1>1, <2>1, FirstPlace DEF TopTile, FirstIn
  <2>3. BottomTile(p, i) \in Tiles(p, i)
    BY <1>1, <2>1, LastPlace DEF BottomTile, LastIn
  <2>4. QED
    BY <2>2, <2>3
<1>4. W \subseteq ViewWidths
  <2>1. \A v \in Tiles(p, i) : p.width[v] \in ViewWidths
    BY <1>1, <1>2, PlaneParts
  <2>2. 0 \in ViewWidths
    BY DEF ViewWidths
  <2>3. QED
    BY <2>1, <2>2
<1>5. PICK m \in Nat : \A x \in W : x <= m
  <2> DEFINE n == Len(c)
             f == [j \in 1..n |-> p.width[c[j]]]
  <2>1. n \in Nat /\ DOMAIN c = 1..n /\ \A j \in 1..n : c[j] \in Views
    BY <1>1, LenProperties, ElementOfSeq
  <2>2. f \in [1..n -> Nat]
    BY <2>1, PlaneParts, WidthsAreNatural
  <2> HIDE DEF n
  <2>3. PICK m \in Nat : \A j \in 1..n : f[j] <= m
    <3> HIDE DEF f
    <3>1. QED
      BY <2>1, <2>2, BoundedAbove
  <2>4. ASSUME NEW v \in Tiles(p, i)
        PROVE  p.width[v] <= m
    <3>1. PICK j \in 1..n : v = c[j]
      BY <1>2, <2>1 DEF ToSet
    <3>2. QED
      BY <2>3, <3>1
  <2>5. QED
    BY <2>3, <2>4
<1>6. Max(W) \in W
  <2>1. W \in SUBSET Nat /\ W # {}
    BY <1>4, WidthsAreNatural
  <2> HIDE DEF W
  <2>2. QED
    BY <1>5, <2>1, MaxIsGreatest
<1>7. ColumnWidth(p, i) = Max(W)
  BY DEF ColumnWidth
<1> HIDE DEF W
<1>8. QED
  BY <1>2, <1>3, <1>4, <1>6, <1>7, WidthsAreNatural

\* Where the columns of a plane begin.
LEMMA PlacesAreNatural ==
    ASSUME NEW p, GoodPlane(p), NEW v
    PROVE  /\ Arranged(p, v) \in Nat /\ Wx(p, v) \in Nat
           /\ FindColumn(p.layout, v) = 1 => Arranged(p, v) = 0
           /\ Even(p, v) => Wx(p, v) = Arranged(p, v)
<1> DEFINE i == FindColumn(p.layout, v)
           B == Before(p, v)
           a == [j \in B |-> ColumnWidth(p, j) + Gap]
           w == [j \in B |-> IF Tiles(p, j) = {} THEN 0 ELSE p.width[BottomTile(p, j)] + Gap]
<1>1. GoodColumns(Views, p.layout.columns)
  BY PlaneParts
<1>2. i \in Nat /\ (i # 0 => i \in DOMAIN p.layout.columns)
  <2>1. i # 0 => i \in DOMAIN p.layout.columns
    BY <1>1, ColumnFoundIsIts
  <2>2. QED
    BY <1>1, <2>1, ColumnType
<1>3. B \subseteq DOMAIN p.layout.columns
  BY <1>1, <1>2, ColumnType DEF Before
<1>4. PICK n \in Nat : B = 1..n /\ (i = 1 => n = 0)
  <2>1. CASE i = 0
    <3>1. B = 1..0
      BY <2>1 DEF Before
    <3>2. QED
      BY <2>1, <3>1
  <2>2. CASE i # 0
    <3>1. i - 1 \in Nat /\ B = 1..(i - 1)
      BY <1>2, <2>2 DEF Before
    <3>2. QED
      BY <3>1
  <2>3. QED
    BY <2>1, <2>2
<1>5. Gap \in Nat
  BY SizesAssumption
<1>6. \A j \in B : ColumnWidth(p, j) + Gap \in Nat
  BY <1>3, <1>5, ColumnShows
<1>7. ASSUME NEW j \in B
      PROVE  (IF Tiles(p, j) = {} THEN 0 ELSE p.width[BottomTile(p, j)] + Gap) \in Nat
  <2>1. CASE Tiles(p, j) = {}
    BY <2>1
  <2>2. CASE Tiles(p, j) # {}
    <3>1. BottomTile(p, j) \in Views
      BY <1>1, <1>3, <2>2, ColumnShows, ColumnType
    <3>2. p.width[BottomTile(p, j)] \in Nat
      BY <3>1, PlaneParts, WidthsAreNatural
    <3>3. QED
      BY <1>5, <2>2, <3>2
  <2>3. QED
    BY <2>1, <2>2
<1>8. a \in Seq(Nat) /\ w \in Seq(Nat)
  <2>1. a \in [1..n -> Nat]
    BY <1>4, <1>6
  <2>2. w \in [1..n -> Nat]
    BY <1>4, <1>7
  <2> HIDE DEF a, w
  <2>3. QED
    BY <2>1, <2>2, SeqDef
<1>9. Arranged(p, v) = Total(a) /\ Wx(p, v) = Total(w)
  BY DEF Arranged, Wx
<1>10. ASSUME Even(p, v)
       PROVE  w = a
  BY <1>10 DEF Even
<1>11. ASSUME i = 1
       PROVE  Total(a) = 0
  <2>1. a = <<>>
    <3>1. B = 1..0
      BY <1>4, <1>11
    <3>2. Len(a) = 0
      <4>1. DOMAIN a = 1..0
        BY <3>1
      <4> HIDE DEF a
      <4>2. QED
        BY <1>8, <4>1, LenProperties
    <3> HIDE DEF a
    <3>3. QED
      BY <1>8, <3>2, EmptySeq
  <2>2. Total(<<>>) = 0
    <3> DEFINE s == <<>>
               Acc(q) == q = [j \in 0..Len(s) |-> IF j = 0 THEN 0 ELSE q[j - 1] + s[j]]
               acc == CHOOSE q : Acc(q)
    <3>1. Len(s) = 0
      OBVIOUS
    <3>2. Acc([j \in 0..0 |-> 0])
      OBVIOUS
    <3>3. Acc(acc)
      BY <3>2, Zenon
    <3>4. Total(s) = acc[0]
      BY <3>1 DEF Total
    <3> HIDE DEF acc
    <3>5. acc[0] = 0
      BY <3>1, <3>3
    <3>6. QED
      BY <3>4, <3>5
  <2> HIDE DEF a
  <2>3. QED
    BY <2>1, <2>2
<1> HIDE DEF a, w
<1>12. QED
  BY <1>8, <1>9, <1>10, <1>11, TotalType

-----------------------------------------------------------------------------
(* What the ways to end a step leave *)

LEMMA FitType ==
    ASSUME NEW p, GoodPlane(p), NEW v \in Views, NEW s \in Int, NEW condense \in BOOLEAN
    PROVE  Fit(p, s, v, condense) \in Int
<1> DEFINE w == p.width[v]
           half == Gap \div 2
           left(wx) == wx - p.area.x - half
           right == Wx(p, v) + w - (p.area.x + p.area.width) + half
<1>1. /\ w \in Nat /\ p.area.x \in Nat /\ p.area.width \in Nat /\ Wx(p, v) \in Nat
      /\ half \in Int
  BY PlaneParts, WidthsAreNatural, PlacesAreNatural, SizesAssumption
<1>2. Fit(p, s, v, condense) \in {s, left(0), left(Wx(p, v)), right}
  <2>1. CASE condense /\ FindColumn(p.layout, v) = 1
    BY <2>1 DEF Fit, AlignLeft
  <2>2. CASE condense /\ FindColumn(p.layout, v) # 1
                      /\ FindColumn(p.layout, v) = Len(p.layout.columns)
    BY <2>2 DEF Fit, AlignLeft
  <2>3. CASE ~(condense /\ FindColumn(p.layout, v) = 1)
             /\ ~(condense /\ FindColumn(p.layout, v) # 1
                           /\ FindColumn(p.layout, v) = Len(p.layout.columns))
    BY <2>3 DEF Fit, AlignLeft
  <2>4. QED
    BY <2>1, <2>2, <2>3
<1>3. left(0) \in Int /\ left(Wx(p, v)) \in Int /\ right \in Int
  <2> HIDE DEF w, half
  <2>1. QED
    BY <1>1
<1> HIDE DEF left, right
<1>4. QED
  BY <1>2, <1>3

\* The step leaves plane p, and the view fitted last, if any, fitted there.
Leaves(p) == plane' = p /\ scroll' \in Int /\ FittedThere'

LEMMA FitLeaves ==
    ASSUME NEW p, GoodPlane(p), NEW v \in Views, NEW s \in Int, NEW condense \in BOOLEAN,
           FitView(p, s, v, condense)
    PROVE  Leaves(p)
<1>1. plane' = p
  BY DEF FitView
<1>2. CASE Fits(p, v)
  <2>1. scroll' = Fit(p, s, v, condense) /\ fitted' = v
    BY <1>2 DEF FitView
  <2>2. scroll' \in Int
    BY <2>1, FitType
  <2>3. v \in MappedViews(p)
    BY <1>2 DEF Fits, MappedViews
  <2>4. FittedThere'
    BY <1>1, <1>2, <2>1, <2>3 DEF FittedThere
  <2>5. QED
    BY <1>1, <2>2, <2>4 DEF Leaves
<1>3. CASE ~Fits(p, v)
  BY <1>1, <1>3 DEF FitView, FittedThere, Leaves
<1>4. QED
  BY <1>2, <1>3

LEMMA ArrangeLeaves ==
    ASSUME NEW p, scroll \in Int, OnlyArrange(p)
    PROVE  Leaves(p)
BY DEF OnlyArrange, FittedThere, Leaves

LEMMA FocusLeaves ==
    ASSUME NEW p, GoodPlane(p), NEW st, GoodStack(st, MappedViews(p)), NEW v \in MappedViews(p),
           NEW s \in Int, NEW condense \in BOOLEAN,
           FocusView(p, s, st, v, condense)
    PROVE  Leaves(p) /\ GoodStack(stack', MappedViews(p))
<1> DEFINE denied == (st = <<>> \/ Head(st) # v) /\ \E u \in Views \ {v} : p.status[u] = "fullscreen"
           rest == RemoveFirst(st, v)
<1>1. v \in Views
  BY DEF MappedViews
<1>2. CASE denied
  <2>1. plane' = p /\ scroll' = s /\ fitted' = None /\ stack' = st
    BY <1>2 DEF FocusView
  <2>2. QED
    BY <2>1 DEF Leaves, FittedThere
<1>3. CASE ~denied
  <2>1. FitView(p, s, v, condense) /\ stack' = <<v>> \o rest
    BY <1>3 DEF FocusView
  <2>2. Leaves(p)
    BY <1>1, <2>1, FitLeaves
  <2>3. /\ rest \in Seq(Views) /\ IsInjective(rest) /\ ToSet(rest) = ToSet(st) \ {v}
    BY RemoveFirstProperties DEF GoodStack
  <2> HIDE DEF rest
  <2>4. /\ stack' \in Seq(Views) /\ ToSet(stack') = {v} \cup ToSet(rest) /\ IsInjective(stack')
    BY <1>1, <2>1, <2>3, PutInFront
  <2>5. QED
    BY <2>2, <2>3, <2>4 DEF GoodStack
<1>4. QED
  BY <1>2, <1>3

\* A step that leaves a good plane and does not touch what bounds it keeps the
\* invariant.
LEMMA Kept ==
    ASSUME IInv, NEW p, GoodPlane(p), Leaves(p), GoodStack(stack', MappedViews(p)),
           stopped' \in BOOLEAN, edits' = edits \/ Edit
    PROVE  IInv'
<1>1. edits' \in 0..MaxEdits
  BY SizesAssumption DEF IInv, Edit
<1>2. QED
  BY <1>1 DEF IInv, Leaves

\* The focus stack of a plane is one of any plane that has more views.
LEMMA StackOfMore ==
    ASSUME NEW st, NEW S, NEW R, S \subseteq R, GoodStack(st, S)
    PROVE  GoodStack(st, R)
BY DEF GoodStack

\* The focused view is mapped.
LEMMA FocusedIsMapped ==
    ASSUME IInv, stack # <<>>
    PROVE  Head(stack) \in MappedViews(plane) /\ Head(stack) \in Views
<1>1. stack \in Seq(Views) /\ ToSet(stack) \subseteq MappedViews(plane)
  BY DEF IInv, GoodStack
<1>2. Head(stack) = stack[1] /\ 1 \in DOMAIN stack
  BY <1>1, LenProperties, EmptySeq
<1>3. Head(stack) \in ToSet(stack)
  BY <1>2 DEF ToSet
<1>4. QED
  BY <1>1, <1>3 DEF MappedViews

-----------------------------------------------------------------------------
(* What each change of the plane leaves *)

\* A change of the layout, and of a view's status and width, in the plane's parts
LEMMA PlaneChanged ==
    ASSUME NEW q, NEW l, NEW st, NEW ws, NEW a,
           q = [layout |-> l, status |-> st, width |-> ws, area |-> a],
           NEW m, NEW v, NEW t, NEW w
    PROVE  /\ [q EXCEPT !.layout = m, !.status[v] = t, !.width[v] = w] =
                 [layout |-> m, status |-> [st EXCEPT ![v] = t], width |-> [ws EXCEPT ![v] = w],
                  area |-> a]
           /\ [q EXCEPT !.width[v] = w, !.status[v] = t] =
                 [layout |-> l, status |-> [st EXCEPT ![v] = t], width |-> [ws EXCEPT ![v] = w],
                  area |-> a]
<1> DEFINE so == [st EXCEPT ![v] = t]
           wo == [ws EXCEPT ![v] = w]
<1>1. ASSUME NEW r, NEW k, NEW x, r = [layout |-> k, status |-> st, width |-> x, area |-> a]
      PROVE  [r EXCEPT !.status[v] = t] =
                [layout |-> k, status |-> so, width |-> x, area |-> a]
  <2>1. r.status = st
    BY <1>1
  <2>2. QED
    BY <1>1, <2>1
<1>2. ASSUME NEW r, NEW k, NEW x, r = [layout |-> k, status |-> x, width |-> ws, area |-> a]
      PROVE  [r EXCEPT !.width[v] = w] =
                [layout |-> k, status |-> x, width |-> wo, area |-> a]
  <2>1. r.width = ws
    BY <1>2
  <2>2. QED
    BY <1>2, <2>1
<1> HIDE DEF so, wo
<1> DEFINE q1 == [q EXCEPT !.layout = m]
           q2 == [q1 EXCEPT !.status[v] = t]
           q3 == [q2 EXCEPT !.width[v] = w]
           p1 == [q EXCEPT !.width[v] = w]
           p2 == [p1 EXCEPT !.status[v] = t]
<1>3. q1 = [layout |-> m, status |-> st, width |-> ws, area |-> a]
  OBVIOUS
<1> HIDE DEF q1
<1>4. q2 = [layout |-> m, status |-> so, width |-> ws, area |-> a]
  BY <1>1, <1>3
<1> HIDE DEF q2
<1>5. q3 = [layout |-> m, status |-> so, width |-> wo, area |-> a]
  BY <1>2, <1>4
<1>6. p1 = [layout |-> l, status |-> st, width |-> wo, area |-> a]
  BY <1>2
<1> HIDE DEF p1
<1>7. p2 = [layout |-> l, status |-> so, width |-> wo, area |-> a]
  BY <1>1, <1>6
<1> HIDE DEF q3, p2
<1>8. [q EXCEPT !.layout = m, !.status[v] = t, !.width[v] = w] = q3
  BY DEF q1, q2, q3
<1>9. [q EXCEPT !.width[v] = w, !.status[v] = t] = p2
  BY DEF p1, p2
<1>10. QED
  BY <1>5, <1>7, <1>8, <1>9 DEF so, wo

\* A view is mapped.
LEMMA MapLeaves ==
    ASSUME IInv, NEW v \in Views, NEW w \in Widths, MapView(v, w)
    PROVE  IInv'
<1> DEFINE next == IF stack = <<>> THEN None ELSE Head(stack)
           l == AddView(plane.layout, v, next, FALSE)
           p == [plane EXCEPT !.layout = AddView(@, v, next, FALSE),
                              !.status[v] = "normal", !.width[v] = w]
           st == [plane.status EXCEPT ![v] = "normal"]
           ws == [plane.width EXCEPT ![v] = w]
<1>1. GoodPlane(plane) /\ GoodStack(stack, MappedViews(plane)) /\ scroll \in Int
  BY DEF IInv
<1>2. FocusView(p, scroll, stack, v, FALSE) /\ UNCHANGED <<stopped, edits>>
      /\ plane.status[v] = "new"
  BY DEF MapView
<1>3. v \notin MappedViews(plane)
  BY <1>2 DEF MappedViews
<1>4. GoodLayout(Views, plane.layout, MappedViews(plane))
  BY <1>1, PlaneParts
<1> HIDE DEF next
<1>5. GoodLayout(Views, l, MappedViews(plane) \cup {v})
  BY <1>3, <1>4, ViewAdded
<1>6. st \in [Views -> Statuses] /\ ws \in [Views -> ViewWidths] /\ plane.area \in Areas
  BY <1>1, PlaneParts DEF Statuses, ViewWidths
<1>7. {u \in Views : st[u] \notin {"new", "gone"}} = MappedViews(plane) \cup {v}
  BY <1>1, PlaneParts DEF MappedViews
<1>8. p = [layout |-> l, status |-> st, width |-> ws, area |-> plane.area]
  <2>1. plane = [layout |-> plane.layout, status |-> plane.status, width |-> plane.width,
                 area |-> plane.area]
    BY <1>1, PlaneParts
  <2>2. p = [plane EXCEPT !.layout = l, !.status[v] = "normal", !.width[v] = w]
    OBVIOUS
  <2> HIDE DEF p, l
  <2>3. QED
    BY <2>1, <2>2, PlaneChanged
<1> HIDE DEF l, st, ws, p
<1>9. GoodPlane(p) /\ MappedViews(p) = MappedViews(plane) \cup {v}
  BY <1>5, <1>6, <1>7, <1>8, PlaneMade
<1>10. GoodStack(stack, MappedViews(p)) /\ v \in MappedViews(p)
  BY <1>1, <1>9, StackOfMore
<1>11. Leaves(p) /\ GoodStack(stack', MappedViews(p))
  BY <1>1, <1>2, <1>9, <1>10, FocusLeaves
<1>12. stopped' \in BOOLEAN /\ edits' = edits
  BY <1>2 DEF IInv
<1>13. QED
  BY <1>9, <1>11, <1>12, Kept

\* A view is unmapped, and the next one has the focus.
LEMMA UnmapLeaves ==
    ASSUME IInv, NEW v \in Views, UnmapView(v)
    PROVE  IInv'
<1> DEFINE l == RemoveView(plane.layout, v)
           p == [plane EXCEPT !.layout = RemoveView(@, v), !.status[v] = "gone", !.width[v] = 0]
           st == [plane.status EXCEPT ![v] = "gone"]
           ws == [plane.width EXCEPT ![v] = 0]
           rest == RemoveFirst(stack, v)
<1>1. GoodPlane(plane) /\ GoodStack(stack, MappedViews(plane)) /\ scroll \in Int
  BY DEF IInv
<1>2. /\ (rest # <<>> /\ FitView(p, scroll, Head(rest), TRUE)) \/ OnlyArrange(p)
      /\ stack' = rest /\ UNCHANGED <<stopped, edits>>
  BY DEF UnmapView
<1>3. GoodLayout(Views, plane.layout, MappedViews(plane))
  BY <1>1, PlaneParts
<1>4. GoodLayout(Views, l, MappedViews(plane) \ {v})
  BY <1>3, ViewRemoved
<1>5. st \in [Views -> Statuses] /\ ws \in [Views -> ViewWidths] /\ plane.area \in Areas
  BY <1>1, PlaneParts DEF Statuses, ViewWidths
<1>6. {u \in Views : st[u] \notin {"new", "gone"}} = MappedViews(plane) \ {v}
  BY <1>1, PlaneParts DEF MappedViews
<1>7. p = [layout |-> l, status |-> st, width |-> ws, area |-> plane.area]
  <2>1. plane = [layout |-> plane.layout, status |-> plane.status, width |-> plane.width,
                 area |-> plane.area]
    BY <1>1, PlaneParts
  <2>2. p = [plane EXCEPT !.layout = l, !.status[v] = "gone", !.width[v] = 0]
    OBVIOUS
  <2> HIDE DEF p, l
  <2>3. QED
    BY <2>1, <2>2, PlaneChanged
<1> HIDE DEF l, st, ws, p
<1>8. GoodPlane(p) /\ MappedViews(p) = MappedViews(plane) \ {v}
  BY <1>4, <1>5, <1>6, <1>7, PlaneMade
<1>9. rest \in Seq(Views) /\ IsInjective(rest) /\ ToSet(rest) = ToSet(stack) \ {v}
  BY <1>1, RemoveFirstProperties DEF GoodStack
<1> HIDE DEF rest
<1>10. GoodStack(stack', MappedViews(p))
  BY <1>1, <1>2, <1>8, <1>9 DEF GoodStack
<1>11. rest # <<>> => Head(rest) \in Views
  BY <1>9, HeadTailProperties
<1>12. Leaves(p)
  BY <1>1, <1>2, <1>8, <1>11, FitLeaves, ArrangeLeaves
<1>13. stopped' \in BOOLEAN /\ edits' = edits
  BY <1>2 DEF IInv
<1>14. QED
  BY <1>8, <1>10, <1>12, <1>13, Kept

\* The layout of the plane is changed and holds the views it held.
LEMMA Relaid ==
    ASSUME IInv, NEW l, GoodLayout(Views, l, MappedViews(plane)),
           NEW ws \in [Views -> ViewWidths], NEW a \in Areas,
           NEW st \in [Views -> Statuses],
           \A u \in Views : st[u] \in {"new", "gone"} <=> plane.status[u] \in {"new", "gone"},
           NEW p, p = [layout |-> l, status |-> st, width |-> ws, area |-> a],
           UNCHANGED <<stack, stopped>>, edits' = edits \/ Edit,
           Leaves(p) \/ OnlyArrange(p)
              \/ \E v \in Views, c \in BOOLEAN : FitView(p, scroll, v, c)
    PROVE  IInv'
<1>1. GoodPlane(plane) /\ GoodStack(stack, MappedViews(plane)) /\ scroll \in Int
  BY DEF IInv
<1>2. {u \in Views : st[u] \notin {"new", "gone"}} = MappedViews(plane)
  <2>1. \A u \in Views : st[u] \notin {"new", "gone"} <=> plane.status[u] \notin {"new", "gone"}
    OBVIOUS
  <2>2. QED
    BY <2>1, Zenon DEF MappedViews
<1>3. GoodPlane(p) /\ MappedViews(p) = MappedViews(plane)
  <2>1. GoodLayout(Views, l, {u \in Views : st[u] \notin {"new", "gone"}})
    BY <1>2
  <2>2. QED
    BY <1>2, <2>1, PlaneMade
<1>4. Leaves(p)
  BY <1>1, <1>3, FitLeaves, ArrangeLeaves
<1>5. GoodStack(stack', MappedViews(p)) /\ stopped' \in BOOLEAN
  BY <1>1, <1>3 DEF IInv
<1>6. QED
  BY <1>3, <1>4, <1>5, Kept

\* The plane in its parts, as those lemmas take them.
LEMMA PlaneNow ==
    ASSUME IInv
    PROVE  /\ plane = [layout |-> plane.layout, status |-> plane.status, width |-> plane.width,
                       area |-> plane.area]
           /\ plane.status \in [Views -> Statuses] /\ plane.width \in [Views -> ViewWidths]
           /\ plane.area \in Areas
           /\ GoodLayout(Views, plane.layout, MappedViews(plane)) /\ GoodColumns(Views, plane.layout.columns)
           /\ Tiled(plane.layout.columns) \subseteq MappedViews(plane)
           /\ MappedViews(plane) \subseteq Views
<1>1. GoodPlane(plane)
  BY DEF IInv
<1>2. GoodLayout(Views, plane.layout, MappedViews(plane))
  BY <1>1, PlaneParts
<1>3. Tiled(plane.layout.columns) \subseteq MappedViews(plane)
  BY <1>2, Parts
<1>4. QED
  BY <1>1, <1>2, <1>3, PlaneParts

LEMMA CommitLeaves ==
    ASSUME IInv, NEW v \in Views, NEW w \in Widths, Commit(v, w)
    PROVE  IInv'
<1> DEFINE st == [plane.status EXCEPT ![v] = IF @ = "recovering" THEN "normal" ELSE @]
           ws == [plane.width EXCEPT ![v] = w]
           p == [plane EXCEPT !.width[v] = w,
                   !.status[v] = IF @ = "recovering" THEN "normal" ELSE @]
<1>1. p = [layout |-> plane.layout, status |-> st, width |-> ws, area |-> plane.area]
  <2> DEFINE t == IF plane.status[v] = "recovering" THEN "normal" ELSE plane.status[v]
  <2>1. st = [plane.status EXCEPT ![v] = t]
    OBVIOUS
  <2>2. p = [plane EXCEPT !.width[v] = w, !.status[v] = t]
    BY PlaneNow
  <2> HIDE DEF p, st, t
  <2>3. QED
    BY <2>1, <2>2, PlaneNow, PlaneChanged
<1>2. st \in [Views -> Statuses] /\ ws \in [Views -> ViewWidths]
  BY PlaneNow DEF Statuses, ViewWidths
<1>3. \A u \in Views : st[u] \in {"new", "gone"} <=> plane.status[u] \in {"new", "gone"}
  BY PlaneNow
<1>4. OnlyArrange(p) /\ Edit /\ UNCHANGED <<stack, stopped>>
  BY DEF Commit
<1> HIDE DEF p, st, ws
<1>5. QED
  BY <1>1, <1>2, <1>3, <1>4, PlaneNow, Relaid

LEMMA FullscreenLeaves ==
    ASSUME IInv, NEW v \in Views, RequestFullscreen(v)
    PROVE  IInv'
<1> DEFINE st == [u \in Views |-> CASE u = v -> "fullscreen"
                                    [] u # v /\ plane.status[u] = "fullscreen" -> "recovering"
                                    [] OTHER -> plane.status[u]]
           p == [plane EXCEPT !.status = st]
<1>1. p = [layout |-> plane.layout, status |-> st, width |-> plane.width, area |-> plane.area]
  BY PlaneNow
<1>2. st \in [Views -> Statuses]
  BY PlaneNow DEF Statuses
<1>3. plane.status[v] = "normal" /\ OnlyArrange(p) /\ Edit /\ UNCHANGED <<stack, stopped>>
  BY DEF RequestFullscreen
<1>4. \A u \in Views : st[u] \in {"new", "gone"} <=> plane.status[u] \in {"new", "gone"}
  BY <1>3
<1> HIDE DEF p, st
<1>5. QED
  BY <1>1, <1>2, <1>3, <1>4, PlaneNow, Relaid

LEMMA UnfullscreenLeaves ==
    ASSUME IInv, NEW v \in Views, RequestUnfullscreen(v)
    PROVE  IInv'
<1> DEFINE st == [plane.status EXCEPT ![v] = "recovering"]
           p == [plane EXCEPT !.status[v] = "recovering"]
<1>1. p = [layout |-> plane.layout, status |-> st, width |-> plane.width, area |-> plane.area]
  BY PlaneNow
<1>2. st \in [Views -> Statuses]
  BY PlaneNow DEF Statuses
<1>3. plane.status[v] = "fullscreen" /\ OnlyArrange(p) /\ Edit /\ UNCHANGED <<stack, stopped>>
  BY DEF RequestUnfullscreen
<1>4. \A u \in Views : st[u] \in {"new", "gone"} <=> plane.status[u] \in {"new", "gone"}
  BY <1>3, PlaneNow
<1> HIDE DEF p, st
<1>5. QED
  BY <1>1, <1>2, <1>3, <1>4, PlaneNow, Relaid

LEMMA LayersLeave ==
    ASSUME IInv, NEW a \in Areas, ArrangeLayers(a)
    PROVE  IInv'
<1> DEFINE p == [plane EXCEPT !.area = a]
<1>1. p = [layout |-> plane.layout, status |-> plane.status, width |-> plane.width, area |-> a]
  BY PlaneNow
<1>2. /\ OnlyArrange(p) \/ (stack # <<>> /\ FitView(p, scroll, Head(stack), FALSE))
      /\ Edit /\ UNCHANGED <<stack, stopped>>
  BY DEF ArrangeLayers
<1> HIDE DEF p
<1>3. OnlyArrange(p) \/ \E v \in Views, c \in BOOLEAN : FitView(p, scroll, v, c)
  BY <1>2, FocusedIsMapped
<1>4. QED
  BY <1>1, <1>2, <1>3, PlaneNow, Relaid

\* A command lays the plane out anew, and scrolls to a view or does not.
LEMMA LayoutChanged ==
    ASSUME IInv, NEW l, GoodLayout(Views, l, MappedViews(plane)),
           NEW p, p = [plane EXCEPT !.layout = l],
           UNCHANGED <<stack, stopped>>, Edit,
           OnlyArrange(p) \/ \E v \in Views, c \in BOOLEAN : FitView(p, scroll, v, c)
    PROVE  IInv'
<1>1. p = [layout |-> l, status |-> plane.status, width |-> plane.width, area |-> plane.area]
  BY PlaneNow
<1>2. QED
  BY <1>1, PlaneNow, Relaid

LEMMA MoveLeaves ==
    ASSUME IInv, NEW dx \in {-1, 0, 1}, NEW dy \in {-1, 0, 1}, MoveCommand(dx, dy)
    PROVE  IInv'
<1> DEFINE v == Head(stack)
           l == MoveTile(plane.layout, v, dx, dy)
           p == [plane EXCEPT !.layout = MoveTile(@, v, dx, dy)]
           i == FindColumn(plane.layout, v)
           j == FindColumn(p.layout, v)
           u == Head(p.layout.columns[j])
<1>1. /\ FitView(p, scroll, u, FALSE) /\ Edit /\ UNCHANGED <<stack, stopped>>
      /\ i # 0
  BY DEF MoveCommand
<1>2. p = [plane EXCEPT !.layout = l]
  OBVIOUS
<1>3. p.layout = l
  BY PlaneNow
<1>4. i \in DOMAIN plane.layout.columns /\ v \in ToSet(plane.layout.columns[i])
  BY <1>1, PlaneNow, ColumnFoundIsIts
<1>5. v \in Tiled(plane.layout.columns)
  BY <1>4, TilesOf
<1> HIDE DEF p, i, v
<1>6. GoodLayout(Views, l, MappedViews(plane)) /\ Tiled(l.columns) = Tiled(plane.layout.columns)
  BY <1>5, PlaneNow, TileMoved
<1> HIDE DEF l
<1>7. u \in Views
  <2>1. GoodColumns(Views, l.columns)
    BY <1>6, Parts
  <2>2. j \in DOMAIN l.columns
    BY <1>3, <1>5, <1>6, <2>1, ColumnFoundIsIts
  <2> HIDE DEF j
  <2>3. l.columns[j] \in Seq(Views) /\ l.columns[j] # <<>>
    BY <2>1, <2>2, ColumnType
  <2>4. QED
    BY <1>3, <2>3, HeadTailProperties
<1> HIDE DEF u, j
<1>8. QED
  BY <1>1, <1>2, <1>6, <1>7, LayoutChanged

LEMMA InsertLeaves ==
    ASSUME IInv, InsertCommand
    PROVE  IInv'
<1> DEFINE v == Head(stack)
           i == FindColumn(plane.layout, v)
           u == TopTile(plane, i + 1)
           x == ColumnWidth(plane, i)
           l == InsertIntoColumn(plane.layout, u, v)
           ws == [plane.width EXCEPT ![u] = x]
           p == [plane EXCEPT !.layout = InsertIntoColumn(@, u, v), !.width[u] = x]
<1>1. /\ OnlyArrange(p) /\ Edit /\ UNCHANGED <<stack, stopped>>
      /\ stack # <<>> /\ i # 0 /\ i < Len(plane.layout.columns) /\ Tiles(plane, i + 1) # {}
  BY DEF InsertCommand
<1>2. p = [layout |-> l, status |-> plane.status, width |-> ws, area |-> plane.area]
  <2>1. p = [plane EXCEPT !.layout = l, !.width[u] = x]
    OBVIOUS
  <2>2. [plane EXCEPT !.layout = l].width = plane.width
    BY PlaneNow
  <2> HIDE DEF p, l, u, x
  <2>3. QED
    BY <2>1, <2>2, PlaneNow
<1> HIDE DEF p
<1>3. i \in DOMAIN plane.layout.columns /\ v \in ToSet(plane.layout.columns[i])
  <2>1. GoodColumns(Views, plane.layout.columns)
    BY PlaneNow
  <2> HIDE DEF v
  <2>2. QED
    BY <1>1, <2>1, ColumnFoundIsIts
<1> HIDE DEF i
<1>4. i + 1 \in DOMAIN plane.layout.columns /\ i + 1 # i
  BY <1>1, <1>3, PlaneNow, ColumnType
<1>5. GoodPlane(plane)
  BY DEF IInv
<1>6. u \in ToSet(plane.layout.columns[i + 1])
  BY <1>1, <1>4, <1>5, ColumnShows
<1>7. x \in ViewWidths
  BY <1>3, <1>5, ColumnShows
<1> HIDE DEF u, x, v
<1>8. v \in Tiled(plane.layout.columns) /\ u \in Tiled(plane.layout.columns)
  BY <1>3, <1>4, <1>6, TilesOf
<1>9. u # v
  BY <1>3, <1>4, <1>6, PlaneNow DEF GoodColumns
<1>10. u \in MappedViews(plane) /\ u \in Views
  BY <1>8, PlaneNow
<1>11. GoodLayout(Views, l, MappedViews(plane))
  BY <1>8, <1>9, <1>10, PlaneNow, ViewInserted
<1>12. ws \in [Views -> ViewWidths]
  BY <1>7, <1>10, PlaneNow
<1> HIDE DEF l, ws
<1>13. QED
  BY <1>1, <1>2, <1>11, <1>12, PlaneNow, Relaid

LEMMA PopLeaves ==
    ASSUME IInv, PopCommand
    PROVE  IInv'
<1> DEFINE v == Head(stack)
           i == FindColumn(plane.layout, v)
           l == PopFromColumn(plane.layout, i)
           p == [plane EXCEPT !.layout = PopFromColumn(@, i)]
<1>1. /\ FitView(p, scroll, v, FALSE) /\ Edit /\ UNCHANGED <<stack, stopped>>
      /\ stack # <<>> /\ i # 0
  BY DEF PopCommand
<1>2. p = [plane EXCEPT !.layout = l]
  OBVIOUS
<1>3. i \in DOMAIN plane.layout.columns
  BY <1>1, PlaneNow, ColumnFoundIsIts
<1>4. v \in Views
  BY <1>1, FocusedIsMapped
<1> HIDE DEF p, v, i
<1>5. GoodLayout(Views, l, MappedViews(plane))
  BY <1>3, PlaneNow, ViewPopped
<1> HIDE DEF l
<1>6. QED
  BY <1>1, <1>2, <1>4, <1>5, LayoutChanged

LEMMA ToggleLeaves ==
    ASSUME IInv, ToggleFloatingCommand
    PROVE  IInv'
<1> DEFINE v == Head(stack)
           l == ToggleFloating(plane.layout, v)
           p == [plane EXCEPT !.layout = ToggleFloating(@, v)]
<1>1. /\ \/ FitView(p, scroll, v, FALSE)
         \/ Len(stack) > 1 /\ FitView(p, scroll, stack[2], TRUE)
         \/ OnlyArrange(p)
      /\ Edit /\ UNCHANGED <<stack, stopped>>
      /\ stack # <<>>
  BY DEF ToggleFloatingCommand
<1>2. p = [plane EXCEPT !.layout = l]
  OBVIOUS
<1>3. v \in Views /\ v \in MappedViews(plane)
  BY <1>1, FocusedIsMapped
<1>4. Len(stack) > 1 => stack[2] \in Views
  <2>1. stack \in Seq(Views)
    BY DEF IInv, GoodStack
  <2>2. QED
    BY <2>1, LenProperties, ElementOfSeq
<1> HIDE DEF p, v
<1>5. OnlyArrange(p) \/ \E u \in Views, c \in BOOLEAN : FitView(p, scroll, u, c)
  BY <1>1, <1>3, <1>4
<1>6. GoodLayout(Views, l, MappedViews(plane))
  BY <1>3, PlaneNow, ViewToggled
<1> HIDE DEF l
<1>7. QED
  BY <1>1, <1>2, <1>5, <1>6, LayoutChanged

\* cycle_width comes out with one of the three widths.
LEMMA CycledWidths ==
    ASSUME NEW w
    PROVE  Cycled(w) \subseteq ViewWidths
<1>1. CASE Above(w) = {}
  BY <1>1, WidthsAreNatural DEF Cycled
<1>2. CASE Above(w) # {}
  <2> DEFINE i == Min(Above(w))
  <2>1. Above(w) \in SUBSET Nat /\ Above(w) \subseteq 1..3
    BY DEF Above
  <2>2. i \in 1..3
    BY <1>2, <2>1, MinIsLeast
  <2>3. Cycled(w) = {CycleWidths[IF Near(w, i) THEN (i % 3) + 1 ELSE i]}
    BY <1>2 DEF Cycled
  <2> HIDE DEF i
  <2>4. (i % 3) + 1 \in 1..3
    BY <2>2
  <2>5. QED
    BY <2>2, <2>3, <2>4, WidthsAreNatural
<1>3. QED
  BY <1>1, <1>2

LEMMA CycleLeaves ==
    ASSUME IInv, CycleWidthCommand
    PROVE  IInv'
<1> DEFINE v == Head(stack)
<1>1. stack # <<>> /\ Edit /\ UNCHANGED <<stack, stopped>>
  BY DEF CycleWidthCommand
<1>2. PICK w \in Cycled(plane.width[v]) :
        FitView([plane EXCEPT !.width[v] = w], scroll, v, TRUE)
  BY DEF CycleWidthCommand
<1> DEFINE ws == [plane.width EXCEPT ![v] = w]
           p == [plane EXCEPT !.width[v] = w]
<1>3. v \in Views /\ w \in ViewWidths
  BY <1>1, FocusedIsMapped, CycledWidths
<1>4. p = [layout |-> plane.layout, status |-> plane.status, width |-> ws, area |-> plane.area]
  BY PlaneNow
<1>5. ws \in [Views -> ViewWidths]
  BY <1>3, PlaneNow
<1>6. \E u \in Views, c \in BOOLEAN : FitView(p, scroll, u, c)
  BY <1>2, <1>3
<1> HIDE DEF v, ws, p
<1>7. QED
  BY <1>1, <1>4, <1>5, <1>6, PlaneNow, Relaid

\* find_dominant_view picks a view of the focus stack, if there is any.
LEMMA DominantIsMapped ==
    ASSUME IInv, NEW s
    PROVE  /\ Dominant(plane, s) \in MappedViews(plane) \cup {None}
           /\ stack # <<>> => Dominant(plane, s) \in MappedViews(plane)
           /\ stack = <<>> => Dominant(plane, s) = None
<1> DEFINE columns == DOMAIN plane.layout.columns
           most == Max({Coverage(plane, s, i) : i \in columns} \cup {0})
           best == Min({i \in columns : Coverage(plane, s, i) = most})
           mine == IF Fits(plane, Head(stack))
                   THEN Coverage(plane, s, FindColumn(plane.layout, Head(stack))) ELSE 0
           T == Tiles(plane, best)
           k == FirstIn(stack, T)
<1>1. Dominant(plane, s) = CASE stack = <<>> -> None
                             [] stack # <<>> /\ (most - mine <= 10 \/ k = 0) -> Head(stack)
                             [] OTHER -> stack[k]
  BY DEF Dominant, FirstIn
<1>2. stack \in Seq(Views) /\ ToSet(stack) \subseteq MappedViews(plane)
  BY DEF IInv, GoodStack
<1> HIDE DEF columns, most, best, mine, T
<1>3. k # 0 => k \in DOMAIN stack
  BY <1>2, FirstPlace
<1> HIDE DEF k
<1>4. k # 0 => stack[k] \in ToSet(stack)
  BY <1>3 DEF ToSet
<1>5. QED
  BY <1>1, <1>2, <1>4, FocusedIsMapped

LEMMA FocusKeeps ==
    ASSUME IInv, NEW v \in MappedViews(plane), NEW s \in Int,
           FocusView(plane, s, stack, v, FALSE), UNCHANGED <<stopped, edits>>
    PROVE  IInv'
<1>1. GoodPlane(plane) /\ GoodStack(stack, MappedViews(plane)) /\ stopped' \in BOOLEAN
  BY DEF IInv
<1>2. Leaves(plane) /\ GoodStack(stack', MappedViews(plane))
  BY <1>1, FocusLeaves
<1>3. QED
  BY <1>1, <1>2, Kept

LEMMA ScrollKeeps ==
    ASSUME IInv, scroll' \in Int, fitted' = None, stopped' \in BOOLEAN,
           UNCHANGED <<plane, stack, edits>>
    PROVE  IInv'
BY DEF IInv, FittedThere

LEMMA SwipeLeaves ==
    ASSUME IInv, NEW s \in Scrolls, Swipe(s)
    PROVE  IInv'
<1>1. s \in Int
  BY SizesAssumption
<1>2. edits' = edits
  BY DEF Swipe
<1>3. CASE Lost(plane, s)
  <2>1. stopped' = TRUE /\ scroll' = s /\ fitted' = None /\ UNCHANGED <<plane, stack>>
    BY <1>3 DEF Swipe
  <2>2. QED
    BY <1>1, <1>2, <2>1, ScrollKeeps
<1>4. CASE ~Lost(plane, s) /\ Dominant(plane, s) = None
  <2>1. scroll' = s /\ fitted' = None /\ UNCHANGED <<plane, stack, stopped>>
    BY <1>4 DEF Swipe
  <2>2. stopped' \in BOOLEAN
    BY <2>1 DEF IInv
  <2>3. QED
    BY <1>1, <1>2, <2>1, <2>2, ScrollKeeps
<1>5. CASE ~Lost(plane, s) /\ Dominant(plane, s) # None
  <2>1. FocusView(plane, s, stack, Dominant(plane, s), FALSE) /\ UNCHANGED stopped
    BY <1>5 DEF Swipe
  <2>2. QED
    BY <1>1, <1>2, <1>5, <2>1, DominantIsMapped, FocusKeeps
<1>6. QED
  BY <1>3, <1>4, <1>5

-----------------------------------------------------------------------------
(* What find_dominant_view sees of a column *)

\* Quotients that are rounded up, and down
LEMMA RoundedUp ==
    ASSUME NEW n \in Nat, NEW d \in Nat \ {0}, NEW q, q = (n + d - 1) \div d
    PROVE  q \in Nat /\ n <= q * d /\ q * d < n + d
BY SMT

LEMMA RoundedDown ==
    ASSUME NEW n \in Nat, NEW d \in Nat \ {0}, NEW q, q = n \div d
    PROVE  q \in Nat /\ q * d <= n /\ n < q * d + d
BY SMT

LEMMA UpAndDown ==
    ASSUME NEW n \in Nat, NEW d \in Nat \ {0}
    PROVE  /\ n \div d <= (n + d - 1) \div d
           /\ (n + d - 1) \div d <= n \div d + 1
<1> DEFINE up == (n + d - 1) \div d
           down == n \div d
<1>1. up \in Nat /\ n <= up * d /\ up * d < n + d
  BY RoundedUp
<1>2. down \in Nat /\ down * d <= n /\ n < down * d + d
  BY RoundedDown
<1> HIDE DEF up, down
<1>3. down * d < (up + 1) * d
  BY <1>1, <1>2, SMT
<1>4. up * d < (down + 2) * d
  BY <1>1, <1>2, SMT
<1>5. QED
  BY <1>1, <1>2, <1>3, <1>4, SMT

\* If two columns' coverage differs by no more than a hundredth, so do their
\* shares, but for what is rounded, as long as 11 rows of 15 are left.
LEMMA CloseCoverage ==
    ASSUME NEW h \in Nat \ {0}, NEW rows \in Nat, 11 * h <= 15 * rows,
           NEW f \in Nat, NEW i \in Nat,
           (i * rows + h - 1) \div h <= (f * rows + h - 1) \div h + 10
    PROVE  i <= f + 14
<1> DEFINE ci == (i * rows + h - 1) \div h
           cf == (f * rows + h - 1) \div h
<1>1. i * rows \in Nat /\ f * rows \in Nat
  OBVIOUS
<1>2. ci \in Nat /\ i * rows <= ci * h
  BY <1>1, RoundedUp
<1>3. cf \in Nat /\ cf * h < f * rows + h
  BY <1>1, RoundedUp
<1>4. ci <= cf + 10
  OBVIOUS
<1> HIDE DEF ci, cf
<1>5. ci * h <= (cf + 10) * h
  BY <1>2, <1>3, <1>4, SMT
<1>6. i * rows < f * rows + 11 * h
  BY <1>1, <1>2, <1>3, <1>5, SMT
<1>7. SUFFICES ASSUME i >= f + 15 PROVE FALSE
  OBVIOUS
<1>8. (f + 15) * rows <= i * rows
  BY <1>7, SMT
<1>9. QED
  BY <1>1, <1>6, <1>8, SMT

LEMMA AtLeast0Type ==
    ASSUME NEW n \in Int
    PROVE  AtLeast0(n) \in Nat /\ n <= AtLeast0(n)
<1>1. \E x \in {n, 0} : \A y \in {n, 0} : x >= y
  OBVIOUS
<1>2. Max({n, 0}) \in {n, 0} /\ \A y \in {n, 0} : Max({n, 0}) >= y
  BY <1>1 DEF Max
<1>3. QED
  BY <1>2 DEF AtLeast0

LEMMA EndsOfTwo ==
    ASSUME NEW m \in Int, NEW n \in Int
    PROVE  Max({m, n}) \in Int /\ Min({m, n}) \in Int
<1>1. /\ \E x \in {m, n} : \A y \in {m, n} : x >= y
      /\ \E x \in {m, n} : \A y \in {m, n} : x <= y
  OBVIOUS
<1>2. Max({m, n}) \in {m, n} /\ Min({m, n}) \in {m, n}
  BY <1>1 DEF Max, Min
<1>3. QED
  BY <1>2

LEMMA OverlapType ==
    ASSUME NEW p, GoodPlane(p), NEW x \in Int, NEW w \in Int
    PROVE  Overlap(p, x, w) \in Nat
<1>1. p.area.x \in Nat /\ p.area.width \in Nat /\ OutputX \in Nat
  BY PlaneParts, SizesAssumption
<1> DEFINE right == Min({x + w, OutputX + p.area.x + p.area.width})
           left == Max({x, OutputX + p.area.x})
<1>2. right \in Int /\ left \in Int
  <2>1. /\ x + w \in Int /\ OutputX + p.area.x + p.area.width \in Int
        /\ x \in Int /\ OutputX + p.area.x \in Int
    BY <1>1
  <2>2. QED
    BY <2>1, EndsOfTwo
<1>3. Overlap(p, x, w) = AtLeast0(right - left)
  BY DEF Overlap
<1> HIDE DEF right, left
<1>4. QED
  BY <1>2, <1>3, AtLeast0Type

\* The rows of the screen on which the box of a column is looked for
Rows(p) == AtLeast0(OutputHeight - (OutputX + p.area.x))

\* The coverage of a column is its share of the usable area, rounded up, of
\* these rows, rounded up again.
LEMMA CoverageIs ==
    ASSUME NEW p, GoodPlane(p), NEW s \in Int, NEW i \in DOMAIN p.layout.columns
    PROVE  \E q \in Nat : /\ Coverage(p, s, i) = (q * Rows(p) + OutputHeight - 1) \div OutputHeight
                          /\ Share(p, s, i) \in Nat
                          /\ Share(p, s, i) <= q /\ q <= Share(p, s, i) + 1
<1> DEFINE v == TopTile(p, i)
           w == p.width[v]
           over == Overlap(p, X(p, s, v), w)
           q == (1000 * over + w - 1) \div w
<1>1. OutputHeight \in Nat \ {0} /\ p.area.x \in Nat /\ OutputX \in Nat
  BY PlaneParts, SizesAssumption
<1>2. Rows(p) \in Nat
  BY <1>1, AtLeast0Type DEF Rows
<1>3. CASE Tiles(p, i) = {} \/ w = 0
  <2>1. Coverage(p, s, i) = 0 /\ Share(p, s, i) = 0
    BY <1>3 DEF Coverage, Share
  <2>2. (0 * Rows(p) + OutputHeight - 1) \div OutputHeight = 0
    <3>1. 0 * Rows(p) + OutputHeight - 1 = OutputHeight - 1
      BY <1>1, <1>2
    <3>2. (OutputHeight - 1) \div OutputHeight = 0
      BY <1>1, SMT
    <3>3. QED
      BY <3>1, <3>2
  <2>3. QED
    BY <2>1, <2>2
<1>4. CASE ~(Tiles(p, i) = {} \/ w = 0)
  <2>1. v \in Views
    <3>1. v \in Tiles(p, i) /\ Tiles(p, i) \subseteq ToSet(p.layout.columns[i])
      BY <1>4, ColumnShows
    <3>2. ToSet(p.layout.columns[i]) \subseteq Views
      BY PlaneParts, ColumnType
    <3>3. QED
      BY <3>1, <3>2
  <2>2. w \in Nat \ {0}
    BY <1>4, <2>1, PlaneParts, WidthsAreNatural
  <2>3. X(p, s, v) \in Int
    BY <1>1, PlacesAreNatural DEF X
  <2>4. over \in Nat
    BY <2>2, <2>3, OverlapType
  <2>5. Share(p, s, i) = (1000 * over) \div w
    BY <1>4 DEF Share
  <2>6. Coverage(p, s, i) = (q * Rows(p) + OutputHeight - 1) \div OutputHeight
    BY <1>4 DEF Coverage, Rows
  <2> HIDE DEF over, w
  <2>7. 1000 * over \in Nat
    BY <2>4
  <2>8. /\ q \in Nat /\ (1000 * over) \div w \in Nat
        /\ (1000 * over) \div w <= q /\ q <= (1000 * over) \div w + 1
    <3> DEFINE n == 1000 * over
    <3>1. n \in Nat /\ q = (n + w - 1) \div w
      BY <2>7
    <3> HIDE DEF n, q
    <3>2. q \in Nat /\ n \div w \in Nat /\ n \div w <= q /\ q <= n \div w + 1
      BY <2>2, <3>1, UpAndDown, RoundedUp, RoundedDown
    <3>3. QED
      BY <3>2 DEF n
  <2> HIDE DEF q
  <2>9. QED
    BY <2>5, <2>6, <2>8
<1>5. QED
  BY <1>3, <1>4

LEMMA CoverageType ==
    ASSUME NEW p, GoodPlane(p), NEW s \in Int, NEW i \in DOMAIN p.layout.columns
    PROVE  Coverage(p, s, i) \in Nat /\ Share(p, s, i) \in Nat
<1>1. PICK q \in Nat : /\ Coverage(p, s, i) = (q * Rows(p) + OutputHeight - 1) \div OutputHeight
                       /\ Share(p, s, i) \in Nat
  BY CoverageIs
<1>2. OutputHeight \in Nat \ {0} /\ p.area.x \in Nat /\ OutputX \in Nat
  BY PlaneParts, SizesAssumption
<1>3. Rows(p) \in Nat
  BY <1>2, AtLeast0Type DEF Rows
<1>4. q * Rows(p) \in Nat
  BY <1>3
<1>5. QED
  BY <1>1, <1>2, <1>4, RoundedUp

\* Panels on the left are narrow: they take no more of the width of the screen
\* than 4 parts in 15 of its height.
NarrowPanels == \A a \in Areas : 15 * a.x <= 4 * OutputHeight

\* A column that is covered no better than another by more than a hundredth
\* shows no more of its width than the other, but for what is rounded.
LEMMA ShareFollowsCoverage ==
    ASSUME NarrowPanels, OutputX = 0, NEW p, GoodPlane(p), NEW s \in Int,
           NEW i \in DOMAIN p.layout.columns, NEW f \in DOMAIN p.layout.columns,
           Coverage(p, s, i) <= Coverage(p, s, f) + 10
    PROVE  Share(p, s, i) <= Share(p, s, f) + 15
<1>1. PICK qi \in Nat : /\ Coverage(p, s, i) = (qi * Rows(p) + OutputHeight - 1) \div OutputHeight
                        /\ Share(p, s, i) \in Nat /\ Share(p, s, i) <= qi
  BY CoverageIs
<1>2. PICK qf \in Nat : /\ Coverage(p, s, f) = (qf * Rows(p) + OutputHeight - 1) \div OutputHeight
                        /\ Share(p, s, f) \in Nat /\ qf <= Share(p, s, f) + 1
  BY CoverageIs
<1>3. OutputHeight \in Nat \ {0} /\ p.area.x \in Nat /\ 15 * p.area.x <= 4 * OutputHeight
  BY PlaneParts, SizesAssumption DEF NarrowPanels
<1>4. Rows(p) \in Nat /\ OutputHeight - p.area.x <= Rows(p)
  BY <1>3, AtLeast0Type DEF Rows
<1>5. 11 * OutputHeight <= 15 * Rows(p)
  BY <1>3, <1>4
<1>6. qi <= qf + 14
  <2> DEFINE h == OutputHeight
             rows == Rows(p)
  <2>1. h \in Nat \ {0} /\ rows \in Nat /\ 11 * h <= 15 * rows
    BY <1>3, <1>4, <1>5
  <2>2. (qi * rows + h - 1) \div h <= (qf * rows + h - 1) \div h + 10
    BY <1>1, <1>2
  <2> HIDE DEF h, rows
  <2>3. QED
    BY <2>1, <2>2, CloseCoverage
<1>7. QED
  BY <1>1, <1>2, <1>6

\* A column that is covered by no more than a hundredth shows little.
LEMMA LittleCovered ==
    ASSUME NarrowPanels, OutputX = 0, NEW p, GoodPlane(p), NEW s \in Int,
           NEW i \in DOMAIN p.layout.columns, Coverage(p, s, i) <= 10
    PROVE  Share(p, s, i) <= 15
<1>1. PICK qi \in Nat : /\ Coverage(p, s, i) = (qi * Rows(p) + OutputHeight - 1) \div OutputHeight
                        /\ Share(p, s, i) \in Nat /\ Share(p, s, i) <= qi
  BY CoverageIs
<1>2. OutputHeight \in Nat \ {0} /\ p.area.x \in Nat /\ 15 * p.area.x <= 4 * OutputHeight
  BY PlaneParts, SizesAssumption DEF NarrowPanels
<1>3. Rows(p) \in Nat /\ OutputHeight - p.area.x <= Rows(p)
  BY <1>2, AtLeast0Type DEF Rows
<1>4. qi <= 0 + 14
  <2> DEFINE h == OutputHeight
             rows == Rows(p)
  <2>1. h \in Nat \ {0} /\ rows \in Nat /\ 11 * h <= 15 * rows
    BY <1>2, <1>3
  <2>2. (qi * rows + h - 1) \div h <= 10
    BY <1>1
  <2> HIDE DEF h, rows
  <2>3. (0 * rows + h - 1) \div h \in Nat
    <3>1. 0 * rows \in Nat
      BY <2>1
    <3>2. QED
      BY <2>1, <3>1, RoundedUp
  <2>4. qi * rows \in Nat
    BY <2>1
  <2>5. (qi * rows + h - 1) \div h \in Nat
    BY <2>1, <2>4, RoundedUp
  <2>6. (qi * rows + h - 1) \div h <= (0 * rows + h - 1) \div h + 10
    BY <2>2, <2>3, <2>5
  <2>7. QED
    BY <2>1, <2>6, CloseCoverage
<1>5. QED
  BY <1>1, <1>4

\* What find_dominant_view settles on: the focused view, if no column is covered
\* better than its own by more than a hundredth, or else a tile of a column
\* that is covered best.
LEMMA DominantIsBest ==
    ASSUME IInv, NEW s \in Int, ToSet(stack) = MappedViews(plane), stack # <<>>,
           NEW i \in DOMAIN plane.layout.columns
    PROVE  LET d == Dominant(plane, s)
               f == FindColumn(plane.layout, d)
           IN  /\ f # 0 => f \in DOMAIN plane.layout.columns
               /\ \/ f # 0 /\ Coverage(plane, s, i) <= Coverage(plane, s, f) + 10
                  \/ Coverage(plane, s, i) <= 10
<1> DEFINE columns == DOMAIN plane.layout.columns
           C(j) == Coverage(plane, s, j)
           all == {C(j) : j \in columns} \cup {0}
           most == Max(all)
           best == Min({j \in columns : C(j) = most})
           head == FindColumn(plane.layout, Head(stack))
           mine == IF Fits(plane, Head(stack)) THEN C(head) ELSE 0
           T == Tiles(plane, best)
           k == FirstIn(stack, T)
           d == Dominant(plane, s)
           f == FindColumn(plane.layout, d)
<1>1. /\ GoodPlane(plane) /\ GoodColumns(Views, plane.layout.columns)
      /\ stack \in Seq(Views)
  BY PlaneParts DEF IInv, GoodStack
<1>2. Len(plane.layout.columns) \in Nat /\ columns = 1..Len(plane.layout.columns)
  BY <1>1, LenProperties DEF GoodColumns, Columns
<1>3. \A j \in columns : C(j) \in Nat
  BY <1>1, CoverageType
<1>4. /\ head # 0 => head \in columns
      /\ f # 0 => f \in columns
  BY <1>1, ColumnFoundIsIts
<1>5. most \in all /\ \A x \in all : x <= most
  <2>1. all \in SUBSET Nat /\ all # {}
    BY <1>3
  <2>2. PICK m \in Nat : \A j \in 1..Len(plane.layout.columns) : C(j) <= m
    <3> DEFINE n == Len(plane.layout.columns)
               g == [j \in 1..n |-> C(j)]
    <3>1. n \in Nat /\ g \in [1..n -> Nat]
      BY <1>2, <1>3
    <3>2. \A j \in 1..n : g[j] = C(j)
      OBVIOUS
    <3> HIDE DEF n, g, C
    <3>3. PICK m \in Nat : \A j \in 1..n : g[j] <= m
      BY <3>1, BoundedAbove
    <3>4. QED
      BY <3>2, <3>3 DEF n
  <2>3. \A x \in all : x <= m
    BY <1>2, <2>2
  <2> HIDE DEF all
  <2>4. QED
    BY <2>1, <2>3, MaxIsGreatest
<1>6. C(i) <= most /\ most \in Nat /\ mine \in Nat
  BY <1>3, <1>4, <1>5 DEF Fits
<1>7. d = CASE stack = <<>> -> None
            [] stack # <<>> /\ (most - mine <= 10 \/ k = 0) -> Head(stack)
            [] OTHER -> stack[k]
  BY DEF Dominant, FirstIn
<1>8. CASE most - mine <= 10
  <2>1. d = Head(stack)
    <3> HIDE DEF most, mine, k, d
    <3>1. QED
      BY <1>7, <1>8
  <2>2. f = head
    BY <2>1
  <2>3. CASE Fits(plane, Head(stack))
    <3>1. mine = C(head) /\ head # 0
      BY <2>3 DEF Fits
    <3>2. C(i) <= C(head) + 10
      <4> HIDE DEF most, mine, C, head
      <4>1. C(head) \in Nat /\ C(i) \in Nat
        BY <1>3, <1>4, <3>1
      <4>2. QED
        BY <1>6, <1>8, <3>1, <4>1
    <3>3. QED
      BY <1>4, <2>2, <3>1, <3>2
  <2>4. CASE ~Fits(plane, Head(stack))
    <3>1. mine = 0
      BY <2>4
    <3>2. C(i) <= 10
      <4> HIDE DEF most, mine, C
      <4>1. QED
        BY <1>3, <1>6, <1>8, <3>1
    <3>3. QED
      BY <1>4, <3>2
  <2>5. QED
    BY <2>3, <2>4
<1>9. CASE ~(most - mine <= 10)
  <2>1. most > 10
    <3> HIDE DEF most, mine
    <3>1. QED
      BY <1>6, <1>9
  <2>2. best \in columns /\ C(best) = most
    <3> DEFINE B == {j \in columns : C(j) = most}
    <3>1. B \in SUBSET Nat
      BY <1>2
    <3>2. B # {}
      <4> HIDE DEF most, C
      <4>1. QED
        BY <1>5, <2>1
    <3>3. Min(B) \in B
      <4> HIDE DEF B
      <4>1. QED
        BY <3>1, <3>2, MinIsLeast
    <3>4. QED
      BY <3>3
  <2>3. T # {}
    <3>1. T = {} => C(best) = 0
      BY DEF Coverage
    <3> HIDE DEF most, C, T, best
    <3>2. QED
      BY <2>1, <2>2, <3>1
  <2>4. T \subseteq ToSet(plane.layout.columns[best]) /\ T \subseteq MappedViews(plane)
    <3>1. T \subseteq ToSet(plane.layout.columns[best])
      BY DEF Tiles
    <3>2. ToSet(plane.layout.columns[best]) \subseteq Views
      BY <1>1, <2>2, ColumnType
    <3>3. \A v \in T : plane.status[v] = "normal"
      BY DEF Tiles
    <3> HIDE DEF T, best
    <3>4. QED
      BY <3>1, <3>2, <3>3 DEF MappedViews
  <2>5. k # 0 /\ k \in DOMAIN stack /\ stack[k] \in T
    <3> HIDE DEF T
    <3>1. T \cap ToSet(stack) # {}
      BY <2>3, <2>4
    <3>2. QED
      BY <1>1, <3>1, FirstPlace
  <2>6. d = stack[k]
    <3> HIDE DEF most, mine, k, d
    <3>1. QED
      BY <1>7, <1>9, <2>5
  <2>7. f = best
    <3>1. d \in ToSet(plane.layout.columns[best])
      BY <2>4, <2>5, <2>6
    <3>2. \A j \in columns : d \in ToSet(plane.layout.columns[j]) => j = f
      BY <1>1, ColumnFoundIsIts
    <3> HIDE DEF d, best, f
    <3>3. QED
      BY <2>2, <3>1, <3>2
  <2>8. C(f) = most /\ f # 0
    <3> HIDE DEF f, best, most, C
    <3>1. QED
      BY <1>2, <2>2, <2>7
  <2>9. C(i) <= C(f) + 10
    <3> HIDE DEF f, most, C
    <3>1. QED
      BY <1>3, <1>6, <2>8
  <2>10. QED
    BY <1>4, <2>8, <2>9
<1>10. QED
  BY <1>8, <1>9

\* Where the focus goes after a swipe, when no fullscreen view denies it
LEMMA SwipeFocuses ==
    ASSUME IInv, NEW s, Swipe(s), \A v \in Views : plane.status[v] # "fullscreen"
    PROVE  /\ stack = <<>> => stack' = <<>>
           /\ stack # <<>> => stack' # <<>> /\ Head(stack') = Dominant(plane, s)
<1> DEFINE d == Dominant(plane, s)
           rest == RemoveFirst(stack, d)
<1>1. CASE stack = <<>>
  <2>1. d = None
    BY <1>1, DominantIsMapped
  <2>2. UNCHANGED stack
    BY <2>1 DEF Swipe
  <2>3. QED
    BY <1>1, <2>2
<1>2. CASE stack # <<>>
  <2>1. d \in Views /\ d # None
    BY <1>2, DominantIsMapped, NoneAssumption DEF MappedViews
  <2>2. FocusView(plane, s, stack, d, FALSE)
    BY <1>2, <2>1 DEF Swipe, Lost
  <2>3. stack' = <<d>> \o rest
    BY <2>2 DEF FocusView
  <2>4. rest \in Seq(Views)
    <3>1. stack \in Seq(Views) /\ IsInjective(stack)
      BY DEF IInv, GoodStack
    <3>2. QED
      BY <3>1, RemoveFirstProperties
  <2> HIDE DEF rest
  <2>5. stack' # <<>> /\ Head(stack') = d
    BY <2>1, <2>3, <2>4, PutInFront
  <2>6. QED
    BY <1>2, <2>5
<1>3. QED
  BY <1>1, <1>2

-----------------------------------------------------------------------------
(* The theorems *)

LEMMA InitHolds ==
    ASSUME Init
    PROVE  IInv
<1>1. PICK a \in Areas :
        plane = [layout |-> Empty, status |-> [v \in Views |-> "new"],
                 width |-> [v \in Views |-> 0], area |-> a]
  BY DEF Init
<1> DEFINE st == [v \in Views |-> "new"]
           ws == [v \in Views |-> 0]
<1>2. st \in [Views -> Statuses] /\ ws \in [Views -> ViewWidths]
  BY DEF Statuses, ViewWidths
<1>3. {v \in Views : st[v] \notin {"new", "gone"}} = {}
  OBVIOUS
<1>4. GoodLayout(Views, Empty, {})
  BY DEF GoodLayout, GoodColumns, Columns, Tiled, Empty, ToSet, IsInjective
<1>5. plane = [layout |-> Empty, status |-> st, width |-> ws, area |-> a]
  BY <1>1
<1> HIDE DEF st, ws
<1>6. GoodPlane(plane) /\ MappedViews(plane) = {}
  <2>1. GoodLayout(Views, Empty, {v \in Views : st[v] \notin {"new", "gone"}})
    BY <1>3, <1>4
  <2>2. QED
    BY <1>2, <1>3, <1>5, <2>1, PlaneMade
<1>7. GoodStack(stack, {})
  BY DEF Init, GoodStack, ToSet, IsInjective
<1>8. scroll \in Int /\ fitted = None /\ stopped \in BOOLEAN /\ edits \in 0..MaxEdits
  <2>1. 0 \in 0..MaxEdits
    <3>1. MaxEdits \in Nat
      BY SizesAssumption
    <3>2. QED
      BY <3>1
  <2>2. scroll = 0 /\ fitted = None /\ edits = 0
    BY Zenon DEF Init
  <2>3. stopped \in BOOLEAN
    BY Zenon DEF Init
  <2>4. scroll \in Int /\ edits \in 0..MaxEdits
    BY <2>1, <2>2
  <2>5. QED
    BY <2>2, <2>3, <2>4
<1>9. QED
  BY <1>6, <1>7, <1>8 DEF IInv, FittedThere

LEMMA NextKeeps ==
    ASSUME IInv, [Next]_vars
    PROVE  IInv'
<1>1. ASSUME NEW v \in Views, Focus(v)
      PROVE  IInv'
  <2>1. v \in MappedViews(plane) /\ FocusView(plane, scroll, stack, v, FALSE)
        /\ UNCHANGED <<stopped, edits>>
    BY <1>1 DEF Focus
  <2>2. scroll \in Int
    BY DEF IInv
  <2>3. QED
    BY <2>1, <2>2, FocusKeeps
<1>2. ASSUME NEW s \in Scrolls, Scroll(s)
      PROVE  IInv'
  <2>1. s \in Int
    BY SizesAssumption
  <2>2. scroll' = s /\ fitted' = None /\ UNCHANGED <<plane, stack, stopped, edits>>
    BY <1>2 DEF Scroll
  <2>3. stopped' \in BOOLEAN
    BY <2>2 DEF IInv
  <2>4. QED
    BY <2>1, <2>2, <2>3, ScrollKeeps
<1>3. CASE Stopped \/ UNCHANGED vars
  BY <1>3 DEF Stopped, vars, IInv, FittedThere
<1>4. QED
  BY <1>1, <1>2, <1>3, MapLeaves, UnmapLeaves, CommitLeaves, FullscreenLeaves, UnfullscreenLeaves,
     MoveLeaves, InsertLeaves, PopLeaves, ToggleLeaves, CycleLeaves, LayersLeave, SwipeLeaves
     DEF Next

LEMMA Invariance == Spec => []IInv
<1>1. Init => IInv
  BY InitHolds
<1>2. IInv /\ [Next]_vars => IInv'
  BY NextKeeps
<1>3. QED
  BY <1>1, <1>2, PTL DEF Spec

(* The workspace is sound: its layout holds the views that are mapped, each *)
(* once, whatever is mapped, moved, floated, joined or taken apart, and the *)
(* focus stack is of mapped views.                                          *)
THEOREM TypeCorrect == Spec => []TypeOK
<1>1. ASSUME IInv PROVE TypeOK
  <2>1. Held(plane.layout) = MappedViews(plane)
    <3> DEFINE C == plane.layout.columns
               F == plane.layout.floats
    <3>1. MappedViews(plane) = Tiled(C) \cup ToSet(F)
      BY <1>1, PlaneNow, Parts
    <3>2. UNION {ToSet(c) : c \in ToSet(C)} = Tiled(C)
      BY DEF Tiled, ToSet
    <3>3. QED
      BY <3>1, <3>2 DEF Held
  <2>2. /\ plane.status \in [Views -> {"new", "normal", "fullscreen", "recovering", "gone"}]
        /\ plane.width \in [Views -> Widths \cup Range(CycleWidths) \cup {0}]
        /\ plane.area \in Areas
    BY <1>1, PlaneNow DEF Statuses, ViewWidths
  <2>3. /\ scroll \in Int /\ stopped \in BOOLEAN /\ edits \in 0..MaxEdits
        /\ ToSet(stack) \subseteq MappedViews(plane) /\ IsInjective(stack)
        /\ fitted \in MappedViews(plane) \cup {None}
    BY <1>1 DEF IInv, GoodStack, FittedThere
  <2>4. QED
    BY <2>1, <2>2, <2>3 DEF TypeOK
<1>2. QED
  BY <1>1, Invariance, PTL

(* A view that has been fitted is all on the screen and not under a panel   *)
(* on the right, if the output is at the origin, there is room, and the     *)
(* columns before the view are as wide as get_view_wx takes them for        *)
(* (Workspace.cpp:247-283): for any views, widths, gap and panels, after    *)
(* any sequence of operations.  A panel on the left it may be under.        *)
THEOREM FittedIsShown == Spec => []FittedOnScreen
<1>1. ASSUME IInv PROVE FittedOnScreen
  <2>1. SUFFICES ASSUME fitted # None, OutputX = 0, Even(plane, fitted), Room(plane, fitted)
                 PROVE  LET x == X(plane, scroll, fitted)
                        IN  0 <= x /\ x + plane.width[fitted] <= plane.area.x + plane.area.width
    BY DEF FittedOnScreen
  <2>2. PICK s \in Int, condense \in BOOLEAN : scroll = Fit(plane, s, fitted, condense)
    BY <1>1, <2>1 DEF IInv, FittedThere
  <2>3. GoodPlane(plane) /\ fitted \in Views
    BY <1>1, <2>1 DEF IInv, FittedThere, MappedViews
  <2>4. plane.width[fitted] \in Nat /\ plane.area.x \in Nat /\ plane.area.width \in Nat
    BY <2>3, PlaneParts, WidthsAreNatural
  <2>5. /\ Arranged(plane, fitted) \in Nat /\ Wx(plane, fitted) = Arranged(plane, fitted)
        /\ FindColumn(plane.layout, fitted) = 1 => Arranged(plane, fitted) = 0
    BY <2>1, <2>3, PlacesAreNatural
  <2>6. QED
    BY <2>1, <2>2, <2>4, <2>5, FitShows
<1>2. QED
  BY <1>1, Invariance, PTL

\* What a step has fitted it has fitted from where the viewport was.
Refits == fitted' = None \/ \E condense \in BOOLEAN : scroll' = Fit(plane', scroll, fitted', condense)

LEMMA FitRefits ==
    ASSUME NEW p, NEW v, NEW condense \in BOOLEAN, FitView(p, scroll, v, condense)
    PROVE  Refits
BY DEF FitView, Refits

LEMMA FocusRefits ==
    ASSUME NEW p, NEW st, NEW v, NEW condense \in BOOLEAN,
           FocusView(p, scroll, st, v, condense)
    PROVE  Refits
BY FitRefits DEF FocusView, Refits

LEMMA ArrangeRefits ==
    ASSUME NEW p, OnlyArrange(p)
    PROVE  Refits
BY DEF OnlyArrange, Refits

LEMMA StepRefits ==
    ASSUME Next, \A s \in Scrolls : ~Swipe(s)
    PROVE  Refits \/ scroll' = scroll
<1>1. ASSUME NEW v \in Views, NEW w \in Widths, MapView(v, w)
      PROVE  Refits
  BY <1>1, FocusRefits DEF MapView
<1>2. ASSUME NEW v \in Views, UnmapView(v)
      PROVE  Refits
  BY <1>2, FitRefits, ArrangeRefits DEF UnmapView
<1>3. ASSUME NEW v \in Views, Focus(v)
      PROVE  Refits
  BY <1>3, FocusRefits DEF Focus
<1>4. ASSUME NEW v \in Views, NEW w \in Widths, Commit(v, w)
      PROVE  Refits
  BY <1>4, ArrangeRefits DEF Commit
<1>5. ASSUME NEW v \in Views, RequestFullscreen(v) \/ RequestUnfullscreen(v)
      PROVE  Refits
  BY <1>5, ArrangeRefits DEF RequestFullscreen, RequestUnfullscreen
<1>6. ASSUME NEW dx, NEW dy, MoveCommand(dx, dy)
      PROVE  Refits
  BY <1>6, FitRefits DEF MoveCommand
<1>7. CASE InsertCommand
  BY <1>7, ArrangeRefits DEF InsertCommand
<1>8. CASE PopCommand
  BY <1>8, FitRefits DEF PopCommand
<1>9. CASE ToggleFloatingCommand
  BY <1>9, FitRefits, ArrangeRefits DEF ToggleFloatingCommand
<1>10. CASE CycleWidthCommand
  BY <1>10, FitRefits DEF CycleWidthCommand
<1>11. ASSUME NEW a \in Areas, ArrangeLayers(a)
       PROVE  Refits
  BY <1>11, FitRefits, ArrangeRefits DEF ArrangeLayers
<1>12. ASSUME NEW s \in Scrolls, Scroll(s)
       PROVE  Refits
  BY <1>12 DEF Scroll, Refits
<1>13. CASE Stopped
  BY <1>13 DEF Stopped, vars
<1>14. QED
  BY <1>1, <1>2, <1>3, <1>4, <1>5, <1>6, <1>7, <1>8, <1>9, <1>10, <1>11, <1>12, <1>13 DEF Next

(* Where the viewport is moved to fit a view, the view comes to lie right   *)
(* of a panel on the left, too (Workspace.cpp:270-282): with FittedIsShown, *)
(* between the panels.                                                      *)
THEOREM ScrolledIsClear == Spec => ScrolledClear
<1> DEFINE Clear ==
      /\ fitted' # None /\ scroll' # scroll /\ \A s \in Scrolls : ~Swipe(s)
      /\ OutputX = 0 /\ Even(plane', fitted') /\ Room(plane', fitted')
      => plane'.area.x <= X(plane', scroll', fitted')
<1>1. ASSUME IInv, IInv', [Next]_vars PROVE Clear
  <2>1. SUFFICES ASSUME fitted' # None, scroll' # scroll, \A s \in Scrolls : ~Swipe(s),
                        OutputX = 0, Even(plane', fitted'), Room(plane', fitted')
                 PROVE  plane'.area.x <= X(plane', scroll', fitted')
    OBVIOUS
  <2>2. Next
    BY <1>1, <2>1 DEF vars
  <2>3. PICK condense \in BOOLEAN : scroll' = Fit(plane', scroll, fitted', condense)
    BY <2>1, <2>2, StepRefits DEF Refits
  <2>4. GoodPlane(plane') /\ fitted' \in Views /\ scroll \in Int
    BY <1>1, <2>1 DEF IInv, FittedThere, MappedViews
  <2>5. plane'.width[fitted'] \in Nat /\ plane'.area.x \in Nat /\ plane'.area.width \in Nat
    BY <2>4, PlaneParts, WidthsAreNatural
  <2>6. /\ Arranged(plane', fitted') \in Nat /\ Wx(plane', fitted') = Arranged(plane', fitted')
        /\ FindColumn(plane'.layout, fitted') = 1 => Arranged(plane', fitted') = 0
    BY <2>1, <2>4, PlacesAreNatural
  <2> DEFINE p == plane'
             v == fitted'
  <2> HIDE DEF p, v
  <2>7. QED
    BY <2>1, <2>3, <2>4, <2>5, <2>6, FitClears DEF p, v
<1>2. QED
  BY <1>1, Invariance, PTL DEF Spec, ScrolledClear

(* Giving the focus to a view that is all inside the usable area does not   *)
(* scroll (Workspace.cpp:258-275), wherever the viewport is.                *)
THEOREM NoFurtherThanNeeded == Spec => JustEnough
<1> DEFINE Still ==
      \A v \in Views :
         LET x == X(plane, scroll, v)
         IN  /\ fitted' = v /\ Focus(v) /\ OutputX = 0 /\ FindColumn(plane.layout, v) # 0
             /\ plane.area.x <= x
             /\ x + plane.width[v] <= plane.area.x + plane.area.width
             => scroll' = scroll
<1>1. ASSUME IInv PROVE Still
  <2>1. SUFFICES ASSUME NEW v \in Views, Focus(v),
                        plane.area.x <= X(plane, scroll, v),
                        X(plane, scroll, v) + plane.width[v] <= plane.area.x + plane.area.width
                 PROVE  scroll' = scroll
    OBVIOUS
  <2>2. FocusView(plane, scroll, stack, v, FALSE)
    BY <2>1 DEF Focus
  <2>3. scroll' = scroll \/ scroll' = Fit(plane, scroll, v, FALSE)
    BY <2>2 DEF FocusView, FitView
  <2>4. Fit(plane, scroll, v, FALSE) = scroll
    <3>1. GoodPlane(plane) /\ scroll \in Int
      BY <1>1 DEF IInv
    <3>2. /\ plane.width[v] \in Nat /\ plane.area.x \in Nat /\ plane.area.width \in Nat
          /\ Arranged(plane, v) \in Nat
      BY <3>1, PlaneParts, WidthsAreNatural, PlacesAreNatural
    <3>3. X(plane, scroll, v) \in Int
      BY <3>1, <3>2, SizesAssumption DEF X
    <3>4. ~Overflows(X(plane, scroll, v), plane.width[v], plane.area)
      BY <2>1, <3>2, <3>3 DEF Overflows
    <3>5. QED
      BY <3>4 DEF Fit
  <2>5. QED
    BY <2>3, <2>4
<1>2. QED
  BY <1>1, Invariance, PTL DEF JustEnough

(* The widths cycle: on any output that is 100 to 9999 pixels wide,        *)
(* View::cycle_width goes through its three widths in turn, though each is *)
(* cut to whole pixels and compared with the ratios again                  *)
(* (View.cpp:60-86).                                                       *)
THEOREM WidthsCycleInTurn == Spec => WidthsCycle
<1> DEFINE Turns ==
      \A v \in Views, i \in 1..3 :
         /\ edits' # edits /\ CycleWidthCommand
         /\ Head(stack) = v /\ plane.width[v] = CycleWidths[i]
         => plane'.width[v] = CycleWidths[(i % 3) + 1]
<1>1. IInv => Turns
  <2> SUFFICES ASSUME IInv, NEW v \in Views, NEW i \in 1..3,
                      CycleWidthCommand, Head(stack) = v,
                      plane.width[v] = CycleWidths[i]
               PROVE  plane'.width[v] = CycleWidths[(i % 3) + 1]
    OBVIOUS
  <2>1. PICK w \in Cycled(CycleWidths[i]) :
          FitView([plane EXCEPT !.width[v] = w], scroll, v, TRUE)
    BY DEF CycleWidthCommand
  <2>2. w = CycleWidths[(i % 3) + 1]
    BY <2>1, CycledToTheNext
  <2>3. plane' = [plane EXCEPT !.width[v] = w]
    BY <2>1 DEF FitView
  <2>4. QED
    BY <2>2, <2>3, PlaneNow
<1>2. QED
  BY <1>1, Invariance, PTL DEF WidthsCycle

(* After a swipe no column shows much more of its width than the one that   *)
(* has the focus then (Workspace.cpp:285-352, Seat.cpp:533-540), however    *)
(* the coverage was rounded on the way: for any views, widths and places of *)
(* the viewport, and any panels that are narrow.                            *)
THEOREM SwipesSettle ==
    ASSUME NarrowPanels
    PROVE  Spec => SwipeSettles
<1> DEFINE Settled(s) ==
      LET f == FindColumn(plane.layout, Head(stack'))
          mine == IF stack' # <<>> /\ f # 0 THEN Share(plane, s, f) ELSE 0
      IN  \A i \in DOMAIN plane.layout.columns : Share(plane, s, i) <= mine + 15
           Settles ==
      \A s \in Scrolls :
         /\ edits' = edits /\ plane' = plane /\ OutputX = 0
         /\ ToSet(stack) = MappedViews(plane)
         /\ \A v \in Views : plane.status[v] # "fullscreen"
         /\ Swipe(s)
         => Settled(s)
<1>1. ASSUME IInv PROVE Settles
  <2>1. SUFFICES ASSUME NEW s \in Scrolls, OutputX = 0, ToSet(stack) = MappedViews(plane),
                        \A v \in Views : plane.status[v] # "fullscreen",
                        Swipe(s),
                        NEW i \in DOMAIN plane.layout.columns
                 PROVE  LET f == FindColumn(plane.layout, Head(stack'))
                            mine == IF stack' # <<>> /\ f # 0 THEN Share(plane, s, f) ELSE 0
                        IN  Share(plane, s, i) <= mine + 15
    OBVIOUS
  <2>2. s \in Int /\ GoodPlane(plane)
    BY <1>1, SizesAssumption DEF IInv
  <2>3. CASE stack = <<>>
    <3>1. stack' = <<>>
      BY <1>1, <2>1, <2>3, SwipeFocuses
    <3>2. MappedViews(plane) = {}
      BY <2>1, <2>3 DEF ToSet
    <3>3. Tiles(plane, i) = {}
      <4>1. Tiles(plane, i) \subseteq ToSet(plane.layout.columns[i])
        BY DEF Tiles
      <4>2. ToSet(plane.layout.columns[i]) \subseteq Views
        BY <2>2, PlaneParts, ColumnType
      <4>3. \A v \in Tiles(plane, i) : plane.status[v] = "normal"
        BY DEF Tiles
      <4>4. QED
        BY <3>2, <4>1, <4>2, <4>3 DEF MappedViews
    <3>4. Share(plane, s, i) = 0
      BY <3>3 DEF Share
    <3>5. QED
      BY <3>1, <3>4
  <2>4. CASE stack # <<>>
    <3> DEFINE d == Dominant(plane, s)
               f == FindColumn(plane.layout, d)
    <3>1. stack' # <<>> /\ Head(stack') = d
      BY <1>1, <2>1, <2>4, SwipeFocuses
    <3>2. /\ f # 0 => f \in DOMAIN plane.layout.columns
          /\ \/ f # 0 /\ Coverage(plane, s, i) <= Coverage(plane, s, f) + 10
             \/ Coverage(plane, s, i) <= 10
      BY <1>1, <2>1, <2>2, <2>4, DominantIsBest
    <3> HIDE DEF d
    <3>3. SUFFICES Share(plane, s, i) <= (IF f # 0 THEN Share(plane, s, f) ELSE 0) + 15
      BY <3>1
    <3> HIDE DEF f
    <3>4. CASE f # 0 /\ Coverage(plane, s, i) <= Coverage(plane, s, f) + 10
      BY <2>1, <2>2, <3>2, <3>4, ShareFollowsCoverage
    <3>5. CASE Coverage(plane, s, i) <= 10
      <4>1. Share(plane, s, i) <= 15 /\ Share(plane, s, i) \in Nat
        BY <2>1, <2>2, <3>5, LittleCovered, CoverageType
      <4>2. f # 0 => Share(plane, s, f) \in Nat
        BY <2>2, <3>2, CoverageType
      <4>3. QED
        BY <4>1, <4>2
    <3>6. QED
      BY <3>2, <3>4, <3>5
  <2>5. QED
    BY <2>3, <2>4
<1>2. QED
  BY <1>1, Invariance, PTL DEF SwipeSettles
=============================================================================
