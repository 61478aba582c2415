-------------------------- MODULE SeatFocus_proof --------------------------
(***************************************************************************)
(* Theorems about SeatFocus, for any views, surfaces and clients.          *)
(***************************************************************************)
EXTENDS SeatFocus, Lemmas, FiniteSetTheorems

\* A view in the focus stack that has the keyboard is in front of it.
KeyboardInFront(f) == f.keyboard \in ToSet(f.stack) => f.keyboard = Head(f.stack)

\* What exclusive input keeps from the views of other clients.
KeptOut(f) ==
    f.exclusive # None /\ f.keyboard \in ToSet(f.stack) => ClientOf[f.keyboard] = f.exclusive

\* A surface is in the list of its layer, once it is there.
Listed ==
    \A l \in 0..3 : \A s \in ToSet(layers[l]) :
        surface[s].status # "absent" /\ surface[s].layer = l

\* Surfaces are closed when the output goes, all of them and no sooner.
ClosedWhenGone ==
    \A s \in Surfaces : surface[s].status \in IF plugged THEN {"absent", "created", "mapped"}
                                                         ELSE {"absent", "closed"}

PointerAllowed ==
    focus.exclusive # None /\ pointer # None => ClientOf[pointer] = focus.exclusive

IInv ==
    /\ TypeOK
    /\ Listed
    /\ ClosedWhenGone
    /\ KeyboardInFront(focus)
    /\ KeptOut(focus)
    /\ PointerAllowed
    /\ FocusedLayerThere
    /\ FocusedLayerHoldsKeyboard
    /\ TopmostHasFocus

-----------------------------------------------------------------------------
(* The operators on the focus of a seat *)

FocusType ==
    [keyboard: Inputs \cup {None}, stack: Seq(Views),
     layer: Surfaces \cup {None}, exclusive: Clients \cup {None}]

GoodFocus(f) ==
    f \in FocusType /\ IsInjective(f.stack) /\ KeyboardInFront(f) /\ KeptOut(f)

\* The keyboard taken from all leaves a good focus good.
LEMMA NobodyHasKeyboard ==
    ASSUME NEW f, GoodFocus(f), NEW g, g = [f EXCEPT !.keyboard = None]
    PROVE  /\ GoodFocus(g) /\ g.keyboard = None
           /\ g.stack = f.stack /\ g.layer = f.layer /\ g.exclusive = f.exclusive
<1>1. /\ g \in FocusType /\ g.keyboard = None
      /\ g.stack = f.stack /\ g.layer = f.layer /\ g.exclusive = f.exclusive
  BY DEF GoodFocus, FocusType
<1>2. None \notin ToSet(g.stack)
  BY <1>1, NamesAssumption DEF ToSet, FocusType
<1>3. QED
  BY <1>1, <1>2 DEF GoodFocus, KeyboardInFront, KeptOut

\* Seat::focus_view with no layer in the way: a view or nobody gets the
\* keyboard, and no view that exclusive input keeps out.
LEMMA PlainFocus ==
    ASSUME NEW f, GoodFocus(f), NEW v \in Views \cup {None}, NEW g, g = FocusPlainView(f, v)
    PROVE  GoodFocus(g) /\ g.layer = f.layer /\ g.exclusive = f.exclusive
<1> DEFINE c == IF Focused(f) = None THEN f ELSE [f EXCEPT !.keyboard = None]
<1>1. GoodFocus(c) /\ c.stack = f.stack /\ c.layer = f.layer /\ c.exclusive = f.exclusive
  BY NobodyHasKeyboard
<1>2. CASE g = f
  BY <1>2
<1>3. CASE g = c
  BY <1>1, <1>3
<1>4. CASE /\ v # None /\ InputAllowed(v, f.exclusive)
           /\ g = [c EXCEPT !.keyboard = v, !.stack = <<v>> \o RemoveFirst(c.stack, v)]
  <2> DEFINE r == RemoveFirst(c.stack, v)
             q == <<v>> \o r
  <2>1. c \in FocusType /\ c.stack \in Seq(Views) /\ IsInjective(c.stack) /\ v \in Views
    BY <1>1, <1>4 DEF GoodFocus, FocusType
  <2>2. r \in Seq(Views) /\ IsInjective(r) /\ v \notin ToSet(r)
    BY <2>1, RemoveFirstProperties
  <2>3. q \in Seq(Views) /\ IsInjective(q) /\ Head(q) = v
    BY <2>1, <2>2, PutInFront
  <2> HIDE DEF q, c
  <2>4. g \in FocusType /\ g.keyboard = v /\ g.stack = q /\ g.layer = c.layer /\ g.exclusive = c.exclusive
    BY <1>4, <2>1, <2>3 DEF FocusType, Inputs, q
  <2>5. GoodFocus(g)
    BY <1>1, <1>4, <2>3, <2>4 DEF GoodFocus, KeyboardInFront, KeptOut, InputAllowed
  <2>6. QED
    BY <1>1, <2>4, <2>5
<1>5. QED
  <2>1. CASE Focused(f) = v
    BY <1>2, <2>1, Zenon DEF FocusPlainView
  <2>2. CASE Focused(f) # v /\ (v = None \/ ~InputAllowed(v, f.exclusive))
    BY <1>3, <2>2, Zenon DEF FocusPlainView
  <2>3. CASE Focused(f) # v /\ ~(v = None \/ ~InputAllowed(v, f.exclusive))
    BY <1>4, <2>3, Zenon DEF FocusPlainView
  <2>4. QED
    BY <2>1, <2>2, <2>3
\* The view that has the focus is a view.
LEMMA FocusedType ==
    ASSUME NEW f, GoodFocus(f)
    PROVE  /\ Focused(f) \in Views \cup {None}
           /\ f.stack # <<>> /\ f.keyboard # None => Focused(f) = Head(f.stack)
           /\ f.stack # <<>> => Head(f.stack) \in Views /\ Head(f.stack) # None
           /\ f.keyboard = None \/ f.stack = <<>> => Focused(f) = None
<1>1. f.stack \in Seq(Views)
  BY DEF GoodFocus, FocusType
<1>2. f.stack # <<>> => Head(f.stack) \in Views
  BY <1>1
<1>3. QED
  BY <1>2, NamesAssumption DEF Focused

\* What has the keyboard and is in the focus stack is a view, the first.
LEMMA ViewInFront ==
    ASSUME NEW f, GoodFocus(f), f.keyboard \in ToSet(f.stack)
    PROVE  /\ f.stack # <<>> /\ f.keyboard = Head(f.stack)
           /\ f.keyboard \in Views /\ f.keyboard # None
<1>1. f.stack \in Seq(Views) /\ f.keyboard = Head(f.stack)
  BY DEF GoodFocus, FocusType, KeyboardInFront
<1>2. ToSet(f.stack) \subseteq Views
  BY <1>1 DEF ToSet
<1>3. f.stack # <<>>
  BY DEF ToSet
<1>4. QED
  BY <1>1, <1>2, <1>3, NamesAssumption

\* Seat::focus_layer of nothing: no layer has the focus any more.
LEMMA Unfocused ==
    ASSUME NEW f, GoodFocus(f), NEW g, g = UnfocusLayer(f)
    PROVE  GoodFocus(g) /\ g.layer = None /\ g.exclusive = f.exclusive
<1> DEFINE free == [f EXCEPT !.layer = None]
<1>1. /\ free \in FocusType /\ free.layer = None /\ free.exclusive = f.exclusive
      /\ free.stack = f.stack /\ free.keyboard = f.keyboard
  BY DEF GoodFocus, FocusType
<1>2. GoodFocus(free)
  BY <1>1 DEF GoodFocus, KeyboardInFront, KeptOut
<1> HIDE DEF free
<1>3. CASE f.layer = None \/ Focused(free) = None
  BY <1>1, <1>2, <1>3 DEF UnfocusLayer, free
<1>4. CASE ~(f.layer = None \/ Focused(free) = None)
  <2> DEFINE c == FocusPlainView(free, None)
  <2>1. GoodFocus(c) /\ c.layer = None /\ c.exclusive = f.exclusive
    BY <1>1, <1>2, PlainFocus
  <2>2. Focused(free) \in Views \cup {None}
    BY <1>2, FocusedType
  <2>3. g = FocusPlainView(c, Focused(free))
    BY <1>4 DEF UnfocusLayer, free
  <2> HIDE DEF c
  <2>4. QED
    BY <2>1, <2>2, <2>3, PlainFocus
<1>5. QED
  BY <1>3, <1>4

\* The view in front gets the keyboard that the layer lets go, if it may.
LEMMA UnfocusedReturns ==
    ASSUME NEW f, GoodFocus(f), f.layer # None, f.keyboard = f.layer,
           NEW g, g = UnfocusLayer(f), g.stack # <<>>, InputAllowed(Head(g.stack), g.exclusive)
    PROVE  g.keyboard = Head(g.stack)
<1> DEFINE free == [f EXCEPT !.layer = None]
<1>1. /\ free \in FocusType /\ free.layer = None /\ free.exclusive = f.exclusive
      /\ free.stack = f.stack /\ free.keyboard = f.keyboard
  BY DEF GoodFocus, FocusType
<1>2. GoodFocus(free)
  BY <1>1 DEF GoodFocus, KeyboardInFront, KeptOut
<1>3. g = IF Focused(free) = None THEN free ELSE FocusPlainView(FocusPlainView(free, None), Focused(free))
  BY DEF UnfocusLayer
<1> HIDE DEF free
<1>4. CASE free.stack = <<>>
  BY <1>1, <1>3, <1>4 DEF Focused
<1>5. CASE free.stack # <<>>
  <2> DEFINE h == Focused(free)
             c == FocusPlainView(free, None)
  <2>1. h = Head(free.stack) /\ h \in Views /\ h # None
    BY <1>1, <1>2, <1>5, FocusedType
  <2>2. c = [free EXCEPT !.keyboard = None]
    BY <2>1, Zenon DEF FocusPlainView
  <2>3. GoodFocus(c) /\ c.keyboard = None /\ c.stack = free.stack /\ c.exclusive = f.exclusive
    BY <1>1, <1>2, <2>2, NobodyHasKeyboard
  <2>4. g = FocusPlainView(c, h)
    BY <1>3, <2>1
  <2> HIDE DEF h, c
  <2>5. Focused(c) = None
    BY <2>3, FocusedType
  <2>6. CASE ~InputAllowed(h, c.exclusive)
    <3>1. g = c
      BY <2>1, <2>4, <2>5, <2>6, Zenon DEF FocusPlainView
    <3>2. QED
      BY <2>1, <2>3, <2>6, <3>1
  <2>7. CASE InputAllowed(h, c.exclusive)
    <3>1. g = [c EXCEPT !.keyboard = h, !.stack = <<h>> \o RemoveFirst(c.stack, h)]
      BY <2>1, <2>4, <2>5, <2>7, Zenon DEF FocusPlainView
    <3>2. c.stack \in Seq(Views) /\ IsInjective(c.stack) /\ c \in FocusType
      BY <2>3 DEF GoodFocus, FocusType
    <3>3. RemoveFirst(c.stack, h) \in Seq(Views)
      BY <3>2, RemoveFirstProperties
    <3>4. Head(<<h>> \o RemoveFirst(c.stack, h)) = h
      BY <2>1, <3>3, PutInFront
    <3>5. g.keyboard = h /\ g.stack = <<h>> \o RemoveFirst(c.stack, h)
      BY <3>1, <3>2 DEF FocusType
    <3>6. QED
      BY <3>4, <3>5
  <2>8. QED
    BY <2>6, <2>7
<1>6. QED
  BY <1>4, <1>5

\* Seat::focus_layer of a surface: it has the keyboard, if it had not the focus.
LEMMA LayerFocused ==
    ASSUME NEW f, GoodFocus(f), NEW s \in Surfaces, NEW g, g = FocusLayer(f, s)
    PROVE  /\ GoodFocus(g) /\ g.exclusive = f.exclusive
           /\ g = f \/ g.keyboard = s
           /\ g.layer = f.layer \/ (g.layer = s /\ surface[s].layer >= TOP)
           /\ f.layer # s => g.keyboard = s
           /\ surface[s].layer >= TOP => g.layer = s
<1>1. CASE f.layer = s
  BY <1>1 DEF FocusLayer
<1>2. CASE f.layer # s
  <2>1. g = [f EXCEPT !.keyboard = s, !.layer = IF surface[s].layer >= TOP THEN s ELSE f.layer]
    BY <1>2 DEF FocusLayer
  <2>2. /\ g \in FocusType /\ g.keyboard = s /\ g.stack = f.stack /\ g.exclusive = f.exclusive
        /\ g.layer = IF surface[s].layer >= TOP THEN s ELSE f.layer
    BY <2>1 DEF GoodFocus, FocusType, Inputs
  <2>3. s \notin ToSet(g.stack)
    BY <2>2, NamesAssumption DEF ToSet, FocusType
  <2>4. GoodFocus(g)
    BY <2>2, <2>3 DEF GoodFocus, KeyboardInFront, KeptOut
  <2>5. QED
    BY <2>2, <2>4
<1>3. QED
  BY <1>1, <1>2

\* Seat::focus_view: a layer above the views keeps the focus and the keyboard.
LEMMA ViewFocused ==
    ASSUME NEW f, GoodFocus(f), f.layer # None => surface[f.layer].layer >= TOP,
           NEW v \in Views \cup {None}, NEW g, g = FocusView(f, v)
    PROVE  /\ GoodFocus(g) /\ g.layer = f.layer /\ g.exclusive = f.exclusive
           /\ f.layer # None => g.keyboard = f.layer
<1>1. CASE f.layer = None
  BY <1>1, PlainFocus DEF FocusView
<1>2. CASE f.layer # None
  <2> DEFINE u == UnfocusLayer(f)
             p == FocusPlainView(u, v)
  <2>1. GoodFocus(u) /\ u.layer = None /\ u.exclusive = f.exclusive
    BY Unfocused
  <2> HIDE DEF u
  <2>2. GoodFocus(p) /\ p.layer = None /\ p.exclusive = f.exclusive
    BY <2>1, PlainFocus
  <2>3. g = FocusLayer(p, f.layer)
    BY <1>2 DEF FocusView, u
  <2> HIDE DEF p
  <2>4. f.layer \in Surfaces
    BY <1>2 DEF GoodFocus, FocusType
  <2>5. QED
    BY <1>2, <2>2, <2>3, <2>4, LayerFocused
<1>3. QED
  BY <1>1, <1>2

-----------------------------------------------------------------------------
(* Arranging the layers *)

SurfaceType ==
    [status: {"absent", "created", "mapped", "closed"}, layer: 0..3, interactive: BOOLEAN]

\* What the seat's focus owes the layer surfaces srf.
LayerThere(f, srf) ==
    f.layer # None => srf[f.layer].status \in {"mapped", "closed"} /\ srf[f.layer].layer >= TOP

LayerHolds(f, srf) ==
    f.layer # None /\ srf[f.layer].status = "mapped" => f.keyboard = f.layer

\* KeyboardReturns, of a step from f to g.
Returned(f, g) ==
    /\ f.layer # None /\ f.keyboard = f.layer
    /\ g.layer = None /\ g.stack # <<>> /\ InputAllowed(Head(g.stack), g.exclusive)
    => g.keyboard = Head(g.stack)

\* The lists of layers, for the surfaces srf.
GoodLayers(srf, lists) ==
    /\ srf \in [Surfaces -> SurfaceType]
    /\ lists \in [0..3 -> Seq(Surfaces)]
    /\ \A l \in 0..3 : IsInjective(lists[l])
    /\ \A l \in 0..3 : \A s \in ToSet(lists[l]) :
          srf[s].status # "absent" /\ srf[s].layer = l

\* The surface that arrange_layers finds is a mapped one above the views.
LEMMA TopmostAbove ==
    ASSUME NEW srf, NEW lists, GoodLayers(srf, lists), Topmost(srf, lists) # None
    PROVE  LET t == Topmost(srf, lists)
           IN  t \in Surfaces /\ srf[t].status = "mapped" /\ srf[t].layer >= TOP
<1> DEFINE above == lists[OVERLAY] \o lists[TOP]
           I == {i \in 1..Len(above) : srf[above[i]].interactive /\ srf[above[i]].status = "mapped"}
<1>1. lists[OVERLAY] \in Seq(Surfaces) /\ lists[TOP] \in Seq(Surfaces)
  BY DEF GoodLayers, OVERLAY, TOP
<1>2. above \in Seq(Surfaces) /\ Len(above) = Len(lists[OVERLAY]) + Len(lists[TOP])
  BY <1>1, ConcatProperties
<1>3. \A i \in 1..(Len(lists[OVERLAY]) + Len(lists[TOP])) :
         above[i] = IF i <= Len(lists[OVERLAY]) THEN lists[OVERLAY][i]
                    ELSE lists[TOP][i - Len(lists[OVERLAY])]
  BY <1>1, ConcatProperties
<1> HIDE DEF above
<1>4. Topmost(srf, lists) = IF I # {} THEN (IF Min(I) = 0 THEN None ELSE above[Min(I)]) ELSE None
  BY DEF Topmost, SelectInSeq, above
<1>5. I \in SUBSET Nat
  <2>1. Len(above) \in Nat
    BY <1>2, LenProperties
  <2>2. QED
    BY <2>1
<1>6. I # {}
  BY <1>4
<1>7. Min(I) \in I
  BY <1>5, <1>6, MinIsLeast
<1>8. PICK k \in 1..Len(above) : Topmost(srf, lists) = above[k] /\ srf[above[k]].status = "mapped"
  BY <1>2, <1>4, <1>6, <1>7
<1>9. above[k] \in Surfaces
  BY <1>2, ElementOfSeq
<1>10. srf[above[k]].layer >= TOP
  <2>1. PICK m \in Nat, n \in Nat : m = Len(lists[OVERLAY]) /\ n = Len(lists[TOP])
    BY <1>1, LenProperties
  <2>2. k \in 1..(m + n)
    BY <1>2, <2>1
  <2>3. DOMAIN lists[OVERLAY] = 1..m
    BY <1>1, <2>1, LenProperties
  <2>4. DOMAIN lists[TOP] = 1..n
    BY <1>1, <2>1, LenProperties
  <2>5. above[k] = IF k <= m THEN lists[OVERLAY][k] ELSE lists[TOP][k - m]
    BY <1>3, <2>1, <2>2
  <2>6. CASE k <= m
    <3>1. k \in DOMAIN lists[OVERLAY]
      BY <2>1, <2>2, <2>3, <2>6
    <3>2. above[k] = lists[OVERLAY][k]
      BY <2>5, <2>6
    <3>3. QED
      BY <3>1, <3>2 DEF GoodLayers, OVERLAY, TOP, ToSet
  <2>7. CASE ~(k <= m)
    <3>1. k - m \in DOMAIN lists[TOP]
      <4>1. k - m \in 1..n
        BY <2>2, <2>7
      <4>2. QED
        BY <2>4, <4>1
    <3>2. above[k] = lists[TOP][k - m]
      BY <2>5, <2>7
    <3>3. QED
      BY <3>1, <3>2 DEF GoodLayers, TOP, ToSet
  <2>8. QED
    BY <2>6, <2>7
<1>11. QED
  BY <1>8, <1>9, <1>10

\* arrange_layers: what it finds has the focus; what it does not find loses it
\* only when it no longer wants it.
LEMMA ArrangedFocus ==
    ASSUME NEW f, GoodFocus(f), GoodLayers(surface', layers'),
           LayerThere(f, surface'), LayerHolds(f, surface'),
           \A s \in Surfaces : surface'[s].status = "mapped" => surface[s].layer = surface'[s].layer,
           NEW g, g = Arranged(f)
    PROVE  /\ GoodFocus(g) /\ g.exclusive = f.exclusive
           /\ LayerThere(g, surface') /\ LayerHolds(g, surface')
           /\ Topmost(surface', layers') # None => g.layer = Topmost(surface', layers')
           /\ Returned(f, g)
           /\ f.layer = None /\ g.layer = None => g = f
<1> DEFINE t == Topmost(surface', layers')
<1>1. CASE t # None
  <2>1. t \in Surfaces /\ surface'[t].status = "mapped" /\ surface'[t].layer >= TOP
    BY <1>1, TopmostAbove
  <2>2. surface[t].layer >= TOP
    BY <2>1
  <2>3. g = FocusLayer(f, t)
    BY <1>1, Zenon DEF Arranged
  <2> HIDE DEF t
  <2>4. /\ GoodFocus(g) /\ g.exclusive = f.exclusive /\ g.layer = t
        /\ f.layer # t => g.keyboard = t
    BY <2>1, <2>2, <2>3, LayerFocused
  <2>5. LayerThere(g, surface')
    BY <2>1, <2>4 DEF LayerThere
  <2>6. LayerHolds(g, surface')
    <3>1. CASE f.layer = t
      <4>1. g = f
        BY <2>3, <3>1 DEF FocusLayer
      <4>2. QED
        BY <4>1
    <3>2. QED
      BY <2>4, <3>1 DEF LayerHolds
  <2>7. g.layer # None
    BY <1>1, <2>4 DEF t
  <2>8. Returned(f, g)
    BY <2>7 DEF Returned
  <2>9. QED
    BY <2>4, <2>5, <2>6, <2>7, <2>8 DEF t
<1>2. CASE t = None /\ f.layer # None /\ ~surface'[f.layer].interactive
  <2>1. g = UnfocusLayer(f)
    BY <1>2, Zenon DEF Arranged
  <2>2. GoodFocus(g) /\ g.layer = None /\ g.exclusive = f.exclusive
    BY <2>1, Unfocused
  <2>3. Returned(f, g)
    BY <2>1, UnfocusedReturns DEF Returned
  <2>4. QED
    BY <1>2, <2>2, <2>3 DEF LayerThere, LayerHolds
<1>3. CASE t = None /\ ~(f.layer # None /\ ~surface'[f.layer].interactive)
  <2>1. g = f
    BY <1>3, Zenon DEF Arranged
  <2>2. QED
    BY <1>3, <2>1 DEF Returned
<1>4. QED
  BY <1>1, <1>2, <1>3

-----------------------------------------------------------------------------
(* The inductive invariant, in terms of one focus *)

TopmostHas(f, srf, lists) ==
    f.exclusive = None /\ Topmost(srf, lists) # None => f.layer = Topmost(srf, lists)

GoodSeat(f, srf, lists) ==
    LayerThere(f, srf) /\ LayerHolds(f, srf) /\ TopmostHas(f, srf, lists)

OtherTypes ==
    /\ view \in [Views -> BOOLEAN] /\ pointer \in Inputs \cup {None}
    /\ plugged \in BOOLEAN /\ stopped \in {"no", "assertion", "freed"}

LEMMA FocusParts ==
    ASSUME IInv
    PROVE  /\ GoodFocus(focus) /\ GoodLayers(surface, layers) /\ OtherTypes
           /\ ClosedWhenGone /\ PointerAllowed
           /\ Running => GoodSeat(focus, surface, layers)
<1>1. GoodFocus(focus)
  BY DEF IInv, TypeOK, GoodFocus, FocusType
<1>2. GoodLayers(surface, layers)
  BY DEF IInv, TypeOK, Listed, GoodLayers, SurfaceType
<1>3. OtherTypes
  BY DEF IInv, TypeOK, OtherTypes
<1>4. Running => LayerThere(focus, surface)
  BY DEF IInv, FocusedLayerThere, LayerThere
<1>5. Running => LayerHolds(focus, surface)
  BY DEF IInv, FocusedLayerHoldsKeyboard, LayerHolds, Mapped
<1>6. Running => TopmostHas(focus, surface, layers)
  BY DEF IInv, TopmostHasFocus, TopmostHas
<1>7. QED
  BY <1>1, <1>2, <1>3, <1>4, <1>5, <1>6 DEF IInv, GoodSeat

LEMMA Together ==
    ASSUME GoodFocus(focus), GoodLayers(surface, layers), OtherTypes,
           ClosedWhenGone, PointerAllowed,
           Running => GoodSeat(focus, surface, layers)
    PROVE  IInv
<1>1. TypeOK
  BY DEF GoodFocus, FocusType, GoodLayers, SurfaceType, OtherTypes, TypeOK
<1>2. Listed
  BY DEF GoodLayers, Listed
<1>3. KeyboardInFront(focus) /\ KeptOut(focus)
  BY DEF GoodFocus
<1>4. FocusedLayerThere
  BY DEF GoodSeat, FocusedLayerThere, LayerThere
<1>5. FocusedLayerHoldsKeyboard
  BY DEF GoodSeat, FocusedLayerHoldsKeyboard, LayerHolds, Mapped
<1>6. TopmostHasFocus
  BY DEF GoodSeat, TopmostHasFocus, TopmostHas
<1>7. QED
  BY <1>1, <1>2, <1>3, <1>4, <1>5, <1>6 DEF IInv

LEMMA TogetherNext ==
    ASSUME GoodFocus(focus'), GoodLayers(surface', layers'), OtherTypes',
           ClosedWhenGone', PointerAllowed',
           stopped' = "no" =>
              /\ LayerThere(focus', surface') /\ LayerHolds(focus', surface')
              /\ TopmostHas(focus', surface', layers')
    PROVE  IInv'
<1>1. (GoodFocus(focus) /\ GoodLayers(surface, layers))'
  BY DEF GoodFocus, FocusType, KeyboardInFront, KeptOut, GoodLayers, SurfaceType
<1>2. (Running => GoodSeat(focus, surface, layers))'
  BY DEF Running, GoodSeat, LayerThere, LayerHolds, TopmostHas
<1>3. QED
  BY <1>1, <1>2, Together, PTL

\* A step that leaves the layers alone keeps the focused layer and its keyboard.
LEMMA LayersAlone ==
    ASSUME IInv, Running, UNCHANGED <<surface, layers, plugged>>,
           GoodFocus(focus'), OtherTypes', PointerAllowed',
           focus'.layer = focus.layer,
           focus.layer # None /\ Mapped(focus.layer) => focus'.keyboard = focus.layer,
           focus'.exclusive = None => focus.exclusive = None
    PROVE  IInv' /\ Returned(focus, focus')
<1>1. /\ GoodLayers(surface', layers') /\ ClosedWhenGone'
  BY FocusParts DEF ClosedWhenGone
<1>2. LayerThere(focus', surface')
  BY FocusParts DEF GoodSeat, LayerThere
<1>3. LayerHolds(focus', surface')
  BY DEF LayerHolds, Mapped
<1>4. TopmostHas(focus', surface', layers')
  BY FocusParts DEF GoodSeat, TopmostHas
<1>5. IInv'
  BY <1>1, <1>2, <1>3, <1>4, TogetherNext
<1>6. QED
  BY <1>5 DEF Returned

-----------------------------------------------------------------------------
(* The steps of the views, the pointer and exclusive input *)

LEMMA FocusStep ==
    ASSUME IInv, Running, NEW v \in Views, Focus(focus, v),
           UNCHANGED <<surface, layers, pointer, plugged>>, view' \in [Views -> BOOLEAN]
    PROVE  IInv' /\ Returned(focus, focus')
<1>1. CASE LayerAsserted(focus)
  <2>1. focus' = FocusView(focus, v) /\ stopped' = stopped
    BY <1>1 DEF Focus
  <2>2. focus.layer # None => surface[focus.layer].layer >= TOP
    BY FocusParts DEF GoodSeat, LayerThere
  <2>3. /\ GoodFocus(focus') /\ focus'.layer = focus.layer /\ focus'.exclusive = focus.exclusive
        /\ focus.layer # None => focus'.keyboard = focus.layer
    BY <2>1, <2>2, FocusParts, ViewFocused
  <2>4. OtherTypes' /\ PointerAllowed'
    BY <2>1, <2>3, FocusParts DEF OtherTypes, PointerAllowed
  <2>5. QED
    BY <2>3, <2>4, LayersAlone
<1>2. CASE ~LayerAsserted(focus)
  <2>1. focus' = focus /\ stopped' = "assertion"
    BY <1>2 DEF Focus
  <2>2. OtherTypes' /\ PointerAllowed'
    BY <2>1, FocusParts DEF OtherTypes, PointerAllowed
  <2>3. GoodFocus(focus') /\ (focus.layer # None /\ Mapped(focus.layer) => focus'.keyboard = focus.layer)
    BY <2>1, FocusParts DEF GoodSeat, LayerHolds, Mapped
  <2>4. QED
    BY <2>1, <2>2, <2>3, LayersAlone
<1>3. QED
  BY <1>1, <1>2

LEMMA MapViewStep ==
    ASSUME IInv, NEW v \in Views, MapView(v)
    PROVE  IInv' /\ Returned(focus, focus')
<1>1. view' \in [Views -> BOOLEAN]
  BY FocusParts DEF MapView, OtherTypes
<1>2. QED
  BY <1>1, FocusStep DEF MapView

LEMMA ClickViewStep ==
    ASSUME IInv, NEW v \in Views, ClickView(v)
    PROVE  IInv' /\ Returned(focus, focus')
<1>1. view' \in [Views -> BOOLEAN]
  BY FocusParts DEF ClickView, OtherTypes
<1>2. QED
  BY <1>1, FocusStep DEF ClickView

\* A view taken off the focus stack takes nobody's place in front.
LEMMA TakenOff ==
    ASSUME NEW f, GoodFocus(f), NEW v, NEW g, g = [f EXCEPT !.stack = RemoveFirst(f.stack, v)]
    PROVE  /\ GoodFocus(g) /\ g.keyboard = f.keyboard
           /\ g.layer = f.layer /\ g.exclusive = f.exclusive
<1> DEFINE r == RemoveFirst(f.stack, v)
<1>1. f \in FocusType /\ f.stack \in Seq(Views) /\ IsInjective(f.stack)
  BY DEF GoodFocus, FocusType
<1>2. /\ r \in Seq(Views) /\ IsInjective(r) /\ ToSet(r) = ToSet(f.stack) \ {v}
      /\ f.stack # <<>> /\ Head(f.stack) # v => r # <<>> /\ Head(r) = Head(f.stack)
  BY <1>1, RemoveFirstProperties
<1> HIDE DEF r
<1>3. /\ g \in FocusType /\ g.stack = r /\ g.keyboard = f.keyboard
      /\ g.layer = f.layer /\ g.exclusive = f.exclusive
  BY <1>1, <1>2 DEF FocusType, r
<1>4. KeptOut(g)
  BY <1>2, <1>3 DEF GoodFocus, KeptOut
<1>5. KeyboardInFront(g)
  <2>1. SUFFICES ASSUME g.keyboard \in ToSet(g.stack)
                 PROVE  g.keyboard = Head(g.stack)
    BY DEF KeyboardInFront
  <2>2. f.keyboard \in ToSet(f.stack) /\ f.keyboard # v
    BY <1>2, <1>3, <2>1
  <2>3. f.stack # <<>>
    BY <2>2 DEF ToSet
  <2>4. QED
    BY <1>2, <1>3, <2>2, <2>3 DEF GoodFocus, KeyboardInFront
<1>6. QED
  BY <1>2, <1>3, <1>4, <1>5 DEF GoodFocus

LEMMA UnmapViewStep ==
    ASSUME IInv, NEW v \in Views, UnmapView(v)
    PROVE  IInv' /\ Returned(focus, focus')
<1> DEFINE rest == RemoveFirst(focus.stack, v)
           hides == Focused(focus) = v /\ rest # <<>>
           f == IF hides THEN FocusView(focus, Head(rest)) ELSE focus
<1>1. /\ Running /\ UNCHANGED <<surface, layers, pointer, plugged>>
      /\ IF hides /\ ~LayerAsserted(focus)
         THEN stopped' = "assertion" /\ focus' = focus
         ELSE focus' = [f EXCEPT !.stack = RemoveFirst(f.stack, v)] /\ stopped' = stopped
  BY DEF UnmapView
<1>2. view' \in [Views -> BOOLEAN]
  BY FocusParts DEF UnmapView, OtherTypes
<1>3. focus.layer # None => surface[focus.layer].layer >= TOP
  BY <1>1, FocusParts DEF GoodSeat, LayerThere
<1>4. focus.layer # None /\ Mapped(focus.layer) => focus.keyboard = focus.layer
  BY <1>1, FocusParts DEF GoodSeat, LayerHolds, Mapped
<1>5. rest \in Seq(Views)
  BY FocusParts, RemoveFirstProperties DEF GoodFocus, FocusType
<1>6. /\ GoodFocus(f) /\ f.layer = focus.layer /\ f.exclusive = focus.exclusive
      /\ focus.layer # None /\ Mapped(focus.layer) => f.keyboard = focus.layer
  <2>1. CASE hides
    <3>1. Head(rest) \in Views
      BY <1>5, <2>1
    <3>2. QED
      BY <1>3, <2>1, <3>1, FocusParts, ViewFocused
  <2>2. CASE ~hides
    BY <1>4, <2>2, FocusParts
  <2>3. QED
    BY <2>1, <2>2
<1> HIDE DEF rest, hides, f
<1>7. /\ GoodFocus(focus') /\ focus'.layer = focus.layer /\ focus'.exclusive = focus.exclusive
      /\ focus.layer # None /\ Mapped(focus.layer) => focus'.keyboard = focus.layer
  <2>1. CASE hides /\ ~LayerAsserted(focus)
    BY <1>1, <1>4, <2>1, FocusParts
  <2>2. CASE ~(hides /\ ~LayerAsserted(focus))
    BY <1>1, <1>6, <2>2, TakenOff
  <2>3. QED
    BY <2>1, <2>2
<1>8. OtherTypes' /\ PointerAllowed'
  BY <1>1, <1>2, <1>7, FocusParts DEF OtherTypes, PointerAllowed
<1>9. QED
  BY <1>1, <1>7, <1>8, LayersAlone

LEMMA DestroyViewStep ==
    ASSUME IInv, NEW v \in Views, DestroyView(v)
    PROVE  IInv' /\ Returned(focus, focus')
<1>1. /\ Running /\ UNCHANGED <<view, surface, layers, plugged, stopped>>
      /\ focus' = [focus EXCEPT !.keyboard = IF focus.keyboard = v THEN None ELSE focus.keyboard]
      /\ pointer' \in {None, pointer}
  BY DEF DestroyView
<1>2. /\ GoodFocus(focus') /\ focus'.layer = focus.layer /\ focus'.exclusive = focus.exclusive
      /\ focus'.keyboard = IF focus.keyboard = v THEN None ELSE focus.keyboard
  <2>1. CASE focus.keyboard = v
    BY <1>1, <2>1, FocusParts, NobodyHasKeyboard
  <2>2. CASE focus.keyboard # v
    <3>1. focus' = focus
      BY <1>1, <2>2, FocusParts DEF GoodFocus, FocusType
    <3>2. QED
      BY <2>2, <3>1, FocusParts
  <2>3. QED
    BY <2>1, <2>2
<1>3. focus.layer # None /\ Mapped(focus.layer) => focus'.keyboard = focus.layer
  <2>1. focus.layer # v
    BY FocusParts, NamesAssumption DEF GoodFocus, FocusType
  <2>2. QED
    BY <1>1, <1>2, <2>1, FocusParts DEF GoodSeat, LayerHolds, Mapped
<1>4. OtherTypes' /\ PointerAllowed'
  BY <1>1, <1>2, FocusParts DEF OtherTypes, PointerAllowed
<1>5. QED
  BY <1>1, <1>2, <1>3, <1>4, LayersAlone

\* cursor_rebase gives the pointer to nobody whom exclusive input keeps out.
LEMMA PointerRebased ==
    ASSUME IInv, NEW x \in Under, pointer' = Rebased(x), focus'.exclusive = focus.exclusive
    PROVE  pointer' \in Inputs \cup {None} /\ PointerAllowed'
<1>1. x \in Inputs \cup {None}
  BY DEF Under, Inputs
<1>2. QED
  BY <1>1 DEF Rebased, PointerAllowed, InputAllowed

LEMMA MoveCursorStep ==
    ASSUME IInv, MoveCursor
    PROVE  IInv' /\ Returned(focus, focus')
<1>1. /\ Running /\ UNCHANGED <<view, surface, layers, focus, plugged, stopped>>
      /\ pointer' \in Inputs \cup {None} /\ PointerAllowed'
  BY PointerRebased DEF MoveCursor
<1>2. OtherTypes'
  BY <1>1, FocusParts DEF OtherTypes
<1>3. GoodFocus(focus') /\ (focus.layer # None /\ Mapped(focus.layer) => focus'.keyboard = focus.layer)
  BY <1>1, FocusParts DEF GoodSeat, LayerHolds, Mapped
<1>4. QED
  BY <1>1, <1>2, <1>3, LayersAlone

\* Seat::set_exclusive_client: the focused layer and the focused view of another
\* client lose what they have.
LEMMA InhibitStep ==
    ASSUME IInv, NEW c \in Clients, Inhibit(c)
    PROVE  IInv' /\ Returned(focus, focus')
<1> DEFINE lets == focus.layer # None /\ ClientOf[focus.layer] # c
           free == IF lets THEN UnfocusLayer(focus) ELSE focus
           unfocus == Focused(free) # None /\ ClientOf[Focused(free)] # c
           f == IF unfocus THEN FocusView(free, None) ELSE free
<1>1. /\ Running /\ focus.exclusive = None
      /\ UNCHANGED <<view, surface, layers, plugged>>
      /\ pointer' = IF pointer # None /\ ClientOf[pointer] # c THEN None ELSE pointer
      /\ IF unfocus /\ ~LayerAsserted(free)
         THEN stopped' = "assertion" /\ focus' = focus
         ELSE focus' = [f EXCEPT !.exclusive = c] /\ stopped' = stopped
  BY DEF Inhibit
<1>2. c # None
  BY NamesAssumption
<1>3. GoodSeat(focus, surface, layers)
  BY <1>1, FocusParts
<1>4. GoodFocus(focus)
  BY FocusParts
<1> DEFINE kept == focus.layer # None /\ ~lets
<1>5. /\ GoodFocus(free) /\ free.exclusive = None
      /\ free.layer = IF kept THEN focus.layer ELSE None
      /\ kept => free = focus
  BY <1>1, <1>4, Unfocused
<1>6. free.layer # None => surface[free.layer].layer >= TOP
  BY <1>3, <1>5 DEF GoodSeat, LayerThere
<1>7. /\ GoodFocus(f) /\ f.exclusive = None /\ f.layer = free.layer
      /\ unfocus /\ f.layer # None => f.keyboard = f.layer
  BY <1>5, <1>6, ViewFocused
<1>8. unfocus /\ f.layer = None => f.keyboard = None /\ f.stack = free.stack
  <2>1. SUFFICES ASSUME unfocus, f.layer = None
                 PROVE  f.keyboard = None /\ f.stack = free.stack
    OBVIOUS
  <2>2. f = FocusPlainView(free, None)
    BY <1>7, <2>1, Zenon DEF FocusView
  <2>3. f = [free EXCEPT !.keyboard = None]
    BY <2>1, <2>2, Zenon DEF FocusPlainView
  <2>4. QED
    BY <1>5, <2>3, NobodyHasKeyboard
<1>9. f.keyboard \in ToSet(f.stack) => ClientOf[f.keyboard] = c
  <2>1. SUFFICES ASSUME f.keyboard \in ToSet(f.stack)
                 PROVE  ClientOf[f.keyboard] = c
    OBVIOUS
  <2>2. f.stack # <<>> /\ f.keyboard = Head(f.stack) /\ f.keyboard \in Views /\ f.keyboard # None
    BY <1>7, <2>1, ViewInFront
  <2>3. CASE unfocus
    <3>1. f.layer # None /\ f.keyboard = f.layer
      BY <1>7, <1>8, <2>2, <2>3
    <3>2. f.layer \in Surfaces
      BY <1>7, <3>1 DEF GoodFocus, FocusType
    <3>3. QED
      BY <2>2, <3>1, <3>2, NamesAssumption
  <2>4. CASE ~unfocus
    <3>1. Focused(f) = f.keyboard
      BY <1>7, <2>2, FocusedType
    <3>2. f = free
      BY <2>4
    <3>3. QED
      BY <2>2, <2>4, <3>1, <3>2
  <2>5. QED
    BY <2>3, <2>4
<1>10. free.layer # None /\ Mapped(free.layer) => f.keyboard = free.layer
  <2>1. free.layer # None => free = focus
    BY <1>5
  <2>2. free.layer # None /\ Mapped(free.layer) => free.keyboard = free.layer
    BY <1>3, <2>1 DEF GoodSeat, LayerHolds, Mapped
  <2>3. CASE unfocus
    BY <1>7, <2>3
  <2>4. CASE ~unfocus
    BY <2>2, <2>4
  <2>5. QED
    BY <2>3, <2>4
\* What the layer lets go of, the view in front has, unless it is kept out.
<1>11. ASSUME focus.layer # None, focus.keyboard = focus.layer, f.layer = None,
              f.stack # <<>>, ClientOf[Head(f.stack)] = c
       PROVE  f.keyboard = Head(f.stack)
  <2>1. free = UnfocusLayer(focus)
    BY <1>5, <1>7, <1>11
  <2>2. free.stack = f.stack
    <3>1. CASE unfocus
      BY <1>8, <1>11, <3>1
    <3>2. CASE ~unfocus
      BY <3>2
    <3>3. QED
      BY <3>1, <3>2
  <2>3. InputAllowed(Head(free.stack), free.exclusive)
    BY <1>5 DEF InputAllowed
  <2>4. free.keyboard = Head(free.stack)
    BY <1>4, <1>11, <2>1, <2>2, <2>3, UnfocusedReturns
  <2>5. Focused(free) = Head(free.stack)
    BY <1>5, <1>11, <2>2, <2>4, FocusedType
  <2>6. QED
    BY <1>11, <2>2, <2>4, <2>5
<1> HIDE DEF f, unfocus, free, kept, lets
<1>12. pointer' \in Inputs \cup {None} /\ (pointer' # None => ClientOf[pointer'] = c)
  BY <1>1, FocusParts DEF OtherTypes
<1>13. CASE unfocus /\ ~LayerAsserted(free)
  <2>1. focus' = focus /\ stopped' = "assertion"
    BY <1>1, <1>13
  <2>2. OtherTypes' /\ PointerAllowed'
    BY <1>1, <1>12, <2>1, FocusParts DEF OtherTypes, PointerAllowed
  <2>3. GoodFocus(focus') /\ (focus.layer # None /\ Mapped(focus.layer) => focus'.keyboard = focus.layer)
    BY <1>3, <1>4, <2>1 DEF GoodSeat, LayerHolds, Mapped
  <2>4. QED
    BY <1>1, <2>1, <2>2, <2>3, LayersAlone
<1>14. CASE ~(unfocus /\ ~LayerAsserted(free))
  <2>1. focus' = [f EXCEPT !.exclusive = c] /\ stopped' = "no"
    BY <1>1, <1>14 DEF Running
  <2>2. /\ focus' \in FocusType /\ focus'.keyboard = f.keyboard /\ focus'.stack = f.stack
        /\ focus'.layer = free.layer /\ focus'.exclusive = c
    BY <1>7, <2>1 DEF GoodFocus, FocusType
  <2>3. GoodFocus(focus')
    BY <1>7, <1>9, <2>2 DEF GoodFocus, KeyboardInFront, KeptOut
  <2>4. GoodLayers(surface', layers') /\ ClosedWhenGone'
    BY <1>1, FocusParts DEF ClosedWhenGone
  <2>5. OtherTypes' /\ PointerAllowed'
    BY <1>1, <1>12, <2>1, <2>2, FocusParts DEF OtherTypes, PointerAllowed
  <2>6. LayerThere(focus', surface')
    BY <1>1, <1>3, <1>5, <2>2 DEF GoodSeat, LayerThere
  <2>7. LayerHolds(focus', surface')
    BY <1>1, <1>10, <2>2 DEF LayerHolds, Mapped
  <2>8. TopmostHas(focus', surface', layers')
    BY <1>2, <2>2 DEF TopmostHas
  <2>9. IInv'
    BY <2>3, <2>4, <2>5, <2>6, <2>7, <2>8, TogetherNext
  <2>10. Returned(focus, focus')
    <3>1. SUFFICES ASSUME focus.layer # None, focus.keyboard = focus.layer, f.layer = None,
                          f.stack # <<>>, InputAllowed(Head(f.stack), c)
                   PROVE  f.keyboard = Head(f.stack)
      BY <1>7, <2>2 DEF Returned
    <3>2. ClientOf[Head(f.stack)] = c
      BY <1>2, <3>1 DEF InputAllowed
    <3>3. QED
      BY <1>11, <3>1, <3>2
  <2>11. QED
    BY <2>9, <2>10
<1>15. QED
  BY <1>13, <1>14

-----------------------------------------------------------------------------
(* The steps of the layers and of the output *)

\* A step of the layers that arranges them: the focus f that it is given is good
\* for what the layers have become.
LEMMA ArrangedStep ==
    ASSUME IInv, Running, UNCHANGED <<view, plugged>>,
           GoodLayers(surface', layers'), ClosedWhenGone',
           \A s \in Surfaces : surface'[s].status = "mapped" => surface[s].layer = surface'[s].layer,
           NEW f, GoodFocus(f), LayerThere(f, surface'), LayerHolds(f, surface'),
           f.exclusive \in {focus.exclusive, None}, focus' = Arranged(f),
           pointer' \in Inputs \cup {None},
           f.exclusive # None /\ pointer' # None => ClientOf[pointer'] = f.exclusive,
           stopped' = stopped
    PROVE  IInv' /\ Returned(f, focus') /\ (f.layer = None /\ focus'.layer = None => focus' = f)
<1>1. /\ GoodFocus(focus') /\ focus'.exclusive = f.exclusive
      /\ LayerThere(focus', surface') /\ LayerHolds(focus', surface')
      /\ Topmost(surface', layers') # None => focus'.layer = Topmost(surface', layers')
      /\ Returned(f, focus')
      /\ f.layer = None /\ focus'.layer = None => focus' = f
  BY ArrangedFocus
<1>2. OtherTypes' /\ PointerAllowed'
  BY <1>1, FocusParts DEF OtherTypes, PointerAllowed
<1>3. TopmostHas(focus', surface', layers')
  BY <1>1 DEF TopmostHas
<1>4. QED
  BY <1>1, <1>2, <1>3, TogetherNext

\* Surfaces that change, but neither come nor go, stay where they are listed.
LEMMA ListsKept ==
    ASSUME IInv, surface' \in [Surfaces -> SurfaceType], layers' = layers,
           \A s \in Surfaces : surface'[s].layer = surface[s].layer,
           \A s \in Surfaces : surface[s].status # "absent" => surface'[s].status # "absent"
    PROVE  GoodLayers(surface', layers')
<1>1. GoodLayers(surface, layers)
  BY FocusParts
<1>2. \A l \in 0..3 : ToSet(layers[l]) \subseteq Surfaces
  BY <1>1 DEF GoodLayers, ToSet
<1>3. QED
  BY <1>1, <1>2 DEF GoodLayers

\* A change of one surface.
LEMMA SurfaceChanged ==
    ASSUME IInv, NEW s \in Surfaces, NEW t \in SurfaceType, surface' = [surface EXCEPT ![s] = t]
    PROVE  /\ surface' \in [Surfaces -> SurfaceType] /\ surface'[s] = t
           /\ \A x \in Surfaces : x # s => surface'[x] = surface[x]
<1>1. surface \in [Surfaces -> SurfaceType]
  BY FocusParts DEF GoodLayers
<1>2. QED
  BY <1>1

LEMMA SurfaceTypes ==
    ASSUME IInv, NEW s \in Surfaces
    PROVE  /\ surface[s] \in SurfaceType
           /\ surface[s].status \in {"absent", "created", "mapped", "closed"}
           /\ surface[s].layer \in 0..3 /\ surface[s].interactive \in BOOLEAN
BY FocusParts DEF GoodLayers, SurfaceType

LEMMA CreateLayerStep ==
    ASSUME IInv, NEW s \in Surfaces, NEW l \in LayersOf[s], CreateLayer(s, l)
    PROVE  IInv' /\ Returned(focus, focus')
<1> DEFINE t == [Absent EXCEPT !.status = "created", !.layer = l]
<1>1. l \in 0..3
  BY NamesAssumption
<1>2. t \in SurfaceType /\ t.status = "created" /\ t.layer = l
  BY <1>1 DEF Absent, SurfaceType
<1>3. /\ Running /\ plugged /\ surface[s].status = "absent"
      /\ surface' = [surface EXCEPT ![s] = t]
      /\ layers' = [layers EXCEPT ![l] = Append(layers[l], s)]
      /\ focus' = Arranged(focus)
      /\ UNCHANGED <<view, pointer, plugged, stopped>>
  BY DEF CreateLayer
<1> HIDE DEF t
<1>4. /\ surface' \in [Surfaces -> SurfaceType] /\ surface'[s] = t
      /\ \A x \in Surfaces : x # s => surface'[x] = surface[x]
  BY <1>2, <1>3, SurfaceChanged
<1>5. GoodLayers(surface, layers)
  BY FocusParts
<1>6. \A k \in 0..3 : layers[k] \in Seq(Surfaces) /\ s \notin ToSet(layers[k]) /\ IsInjective(layers[k])
  BY <1>3, <1>5 DEF GoodLayers
<1>7. GoodLayers(surface', layers')
  <2> DEFINE q == Append(layers[l], s)
  <2>1. q \in Seq(Surfaces) /\ ToSet(q) = ToSet(layers[l]) \cup {s} /\ IsInjective(q)
    BY <1>1, <1>6, PutAtEnd
  <2> HIDE DEF q
  <2>2. layers' = [layers EXCEPT ![l] = q]
    BY <1>3 DEF q
  <2>3. layers' \in [0..3 -> Seq(Surfaces)] /\ layers'[l] = q /\ \A k \in 0..3 : k # l => layers'[k] = layers[k]
    BY <1>1, <1>5, <2>1, <2>2 DEF GoodLayers
  <2>4. \A k \in 0..3 : IsInjective(layers'[k])
    BY <1>6, <2>1, <2>3
  <2>5. ASSUME NEW k \in 0..3, NEW x \in ToSet(layers'[k])
        PROVE  surface'[x].status # "absent" /\ surface'[x].layer = k
    <3>1. CASE k = l /\ x = s
      BY <1>2, <1>4, <3>1
    <3>2. CASE ~(k = l /\ x = s)
      <4>1. x \in ToSet(layers[k])
        BY <2>1, <2>3, <2>5, <3>2
      <4>2. x # s /\ x \in Surfaces
        BY <1>6, <4>1 DEF ToSet
      <4>3. QED
        BY <1>4, <1>5, <4>1, <4>2 DEF GoodLayers
    <3>3. QED
      BY <3>1, <3>2
  <2>6. QED
    BY <1>4, <2>3, <2>4, <2>5 DEF GoodLayers
<1>8. ClosedWhenGone'
  BY <1>2, <1>3, <1>4, FocusParts DEF ClosedWhenGone
<1>9. \A x \in Surfaces : surface'[x].status = "mapped" => surface[x].layer = surface'[x].layer
  BY <1>2, <1>4
<1>10. LayerThere(focus, surface') /\ LayerHolds(focus, surface')
  <2>1. LayerThere(focus, surface) /\ LayerHolds(focus, surface) /\ focus.layer \in Surfaces \cup {None}
    BY <1>3, FocusParts DEF GoodSeat, GoodFocus, FocusType
  <2>2. focus.layer # None => surface'[focus.layer] = surface[focus.layer]
    BY <1>3, <1>4, <2>1 DEF LayerThere
  <2>3. QED
    BY <2>1, <2>2 DEF LayerThere, LayerHolds
<1>11. pointer' \in Inputs \cup {None} /\ (focus.exclusive # None /\ pointer' # None => ClientOf[pointer'] = focus.exclusive)
  BY <1>3, FocusParts DEF OtherTypes, PointerAllowed
<1>12. GoodFocus(focus) /\ focus.exclusive \in {focus.exclusive, None}
  BY FocusParts
<1>13. QED
  BY <1>3, <1>7, <1>8, <1>9, <1>10, <1>11, <1>12, ArrangedStep

LEMMA FocusStays ==
    ASSUME IInv, Running,
           \A s \in Surfaces : s = focus.layer =>
              surface'[s].status = surface[s].status /\ surface'[s].layer = surface[s].layer
    PROVE  /\ GoodFocus(focus) /\ focus.exclusive \in {focus.exclusive, None}
           /\ LayerThere(focus, surface') /\ LayerHolds(focus, surface')
           /\ pointer \in Inputs \cup {None}
           /\ focus.exclusive # None /\ pointer # None => ClientOf[pointer] = focus.exclusive
<1>1. /\ LayerThere(focus, surface) /\ LayerHolds(focus, surface)
      /\ GoodFocus(focus) /\ focus.layer \in Surfaces \cup {None}
  BY FocusParts DEF GoodSeat, GoodFocus, FocusType
<1>2. LayerThere(focus, surface') /\ LayerHolds(focus, surface')
  BY <1>1 DEF LayerThere, LayerHolds
<1>3. pointer \in Inputs \cup {None} /\ PointerAllowed
  BY FocusParts DEF OtherTypes
<1>4. QED
  BY <1>1, <1>2, <1>3 DEF PointerAllowed

LEMMA MapLayerStep ==
    ASSUME IInv, NEW s \in Surfaces, MapLayer(s)
    PROVE  IInv' /\ Returned(focus, focus')
<1> DEFINE t == [surface[s] EXCEPT !.status = "mapped"]
<1>1. /\ Running /\ surface[s].status = "created"
      /\ surface' = [surface EXCEPT ![s] = t]
      /\ UNCHANGED <<view, layers, plugged, stopped>>
      /\ focus' = Arranged(focus)
  BY DEF MapLayer
<1>2. PICK x \in Under : pointer' = Rebased(x)
  BY DEF MapLayer
<1>3. t \in SurfaceType /\ t.status = "mapped" /\ t.layer = surface[s].layer
  BY SurfaceTypes DEF SurfaceType
<1> HIDE DEF t
<1>4. /\ surface' \in [Surfaces -> SurfaceType] /\ surface'[s] = t
      /\ \A y \in Surfaces : y # s => surface'[y] = surface[y]
  BY <1>1, <1>3, SurfaceChanged
<1>5. \A y \in Surfaces :
         /\ surface'[y].layer = surface[y].layer
         /\ surface[y].status # "absent" => surface'[y].status # "absent"
  BY <1>3, <1>4
<1>6. GoodLayers(surface', layers')
  BY <1>1, <1>4, <1>5, ListsKept
<1>7. ClosedWhenGone'
  BY <1>1, <1>3, <1>4, FocusParts DEF ClosedWhenGone
<1>8. focus.layer # s
  BY <1>1, FocusParts, NamesAssumption DEF GoodSeat, LayerThere
<1>9. /\ GoodFocus(focus) /\ focus.exclusive \in {focus.exclusive, None}
      /\ LayerThere(focus, surface') /\ LayerHolds(focus, surface')
  BY <1>1, <1>4, <1>8, FocusStays
<1>10. /\ pointer' \in Inputs \cup {None}
       /\ focus.exclusive # None /\ pointer' # None => ClientOf[pointer'] = focus.exclusive
  <2>1. x \in Inputs \cup {None}
    BY DEF Under, Inputs
  <2>2. QED
    BY <1>2, <2>1 DEF Rebased, InputAllowed
<1>11. QED
  BY <1>1, <1>5, <1>6, <1>7, <1>9, <1>10, ArrangedStep

LEMMA CommitLayerStep ==
    ASSUME IInv, NEW s \in Surfaces, NEW i \in BOOLEAN, CommitLayer(s, i)
    PROVE  IInv' /\ Returned(focus, focus')
<1> DEFINE t == [surface[s] EXCEPT !.interactive = i]
<1>1. /\ Running
      /\ surface' = [surface EXCEPT ![s] = t]
      /\ UNCHANGED <<view, layers, pointer, plugged, stopped>>
      /\ focus' = Arranged(focus)
  BY DEF CommitLayer
<1>2. t \in SurfaceType /\ t.status = surface[s].status /\ t.layer = surface[s].layer
  BY SurfaceTypes DEF SurfaceType
<1> HIDE DEF t
<1>3. /\ surface' \in [Surfaces -> SurfaceType] /\ surface'[s] = t
      /\ \A y \in Surfaces : y # s => surface'[y] = surface[y]
  BY <1>1, <1>2, SurfaceChanged
<1>4. \A y \in Surfaces :
         surface'[y].layer = surface[y].layer /\ surface'[y].status = surface[y].status
  BY <1>2, <1>3
<1>5. GoodLayers(surface', layers')
  BY <1>1, <1>3, <1>4, ListsKept
<1>6. ClosedWhenGone'
  BY <1>1, <1>4, FocusParts DEF ClosedWhenGone
<1>7. /\ GoodFocus(focus) /\ focus.exclusive \in {focus.exclusive, None}
      /\ LayerThere(focus, surface') /\ LayerHolds(focus, surface')
      /\ pointer \in Inputs \cup {None}
      /\ focus.exclusive # None /\ pointer # None => ClientOf[pointer] = focus.exclusive
  BY <1>1, <1>4, FocusStays
<1>8. QED
  BY <1>1, <1>4, <1>5, <1>6, <1>7, ArrangedStep

LEMMA ChangeOutputStep ==
    ASSUME IInv, ChangeOutput
    PROVE  IInv' /\ Returned(focus, focus')
<1>1. /\ Running /\ UNCHANGED <<view, surface, layers, pointer, plugged, stopped>>
      /\ focus' = Arranged(focus)
  BY DEF ChangeOutput
<1>2. GoodLayers(surface', layers') /\ ClosedWhenGone'
  BY <1>1, FocusParts DEF ClosedWhenGone
<1>3. /\ GoodFocus(focus) /\ focus.exclusive \in {focus.exclusive, None}
      /\ LayerThere(focus, surface') /\ LayerHolds(focus, surface')
      /\ pointer \in Inputs \cup {None}
      /\ focus.exclusive # None /\ pointer # None => ClientOf[pointer] = focus.exclusive
  BY <1>1, FocusStays
<1>4. QED
  BY <1>1, <1>2, <1>3, ArrangedStep

LEMMA UninhibitStep ==
    ASSUME IInv, Uninhibit
    PROVE  IInv' /\ Returned(focus, focus')
<1> DEFINE f == [focus EXCEPT !.exclusive = None]
<1>1. /\ Running /\ UNCHANGED <<view, surface, layers, pointer, plugged, stopped>>
      /\ focus' = Arranged(f)
  BY DEF Uninhibit, Shared
<1>2. GoodLayers(surface', layers') /\ ClosedWhenGone'
  BY <1>1, FocusParts DEF ClosedWhenGone
<1>3. /\ GoodFocus(focus)
      /\ LayerThere(focus, surface') /\ LayerHolds(focus, surface')
      /\ pointer \in Inputs \cup {None}
  BY <1>1, FocusStays
<1>4. /\ f \in FocusType /\ f.exclusive = None /\ f.layer = focus.layer
      /\ f.keyboard = focus.keyboard /\ f.stack = focus.stack
  BY <1>3 DEF GoodFocus, FocusType
<1> HIDE DEF f
<1>5. GoodFocus(f) /\ LayerThere(f, surface') /\ LayerHolds(f, surface')
  BY <1>3, <1>4 DEF GoodFocus, KeyboardInFront, KeptOut, LayerThere, LayerHolds
<1>6. IInv' /\ Returned(f, focus')
  BY <1>1, <1>2, <1>3, <1>4, <1>5, ArrangedStep
<1>7. QED
  BY <1>4, <1>6 DEF Returned

\* unmap_handler takes the focus from the surface that has it, and no other.
LEMMA UnmappedFocus ==
    ASSUME IInv, Running, NEW s \in Surfaces, NEW f, f = LayerUnmapped(focus, s)
    PROVE  /\ GoodFocus(f) /\ f.exclusive = focus.exclusive
           /\ f.layer # s
           /\ f.layer # None => f = focus
           /\ Returned(focus, f)
<1>1. GoodFocus(focus) /\ s # None
  BY FocusParts, NamesAssumption
<1>2. CASE focus.layer = s
  <2>1. f = UnfocusLayer(focus)
    BY <1>2 DEF LayerUnmapped
  <2>2. GoodFocus(f) /\ f.layer = None /\ f.exclusive = focus.exclusive
    BY <1>1, <2>1, Unfocused
  <2>3. Returned(focus, f)
    BY <1>1, <2>1, UnfocusedReturns DEF Returned
  <2>4. QED
    BY <1>1, <2>2, <2>3
<1>3. CASE focus.layer # s
  <2>1. f = focus
    BY <1>3 DEF LayerUnmapped
  <2>2. QED
    BY <1>1, <1>3, <2>1 DEF Returned
<1>4. QED
  BY <1>2, <1>3

LEMMA UnmapLayerStep ==
    ASSUME IInv, NEW s \in Surfaces, UnmapLayer(s)
    PROVE  IInv' /\ Returned(focus, focus')
<1> DEFINE t == [surface[s] EXCEPT !.status = "created"]
           f == LayerUnmapped(focus, s)
<1>1. /\ Running /\ surface[s].status = "mapped"
      /\ surface' = [surface EXCEPT ![s] = t]
      /\ UNCHANGED <<view, layers, pointer, plugged, stopped>>
      /\ focus' = Arranged(f)
  BY DEF UnmapLayer, Mapped
<1>2. t \in SurfaceType /\ t.status = "created" /\ t.layer = surface[s].layer
  BY SurfaceTypes DEF SurfaceType
<1>3. /\ GoodFocus(f) /\ f.exclusive = focus.exclusive /\ f.layer # s
      /\ f.layer # None => f = focus
      /\ Returned(focus, f)
  BY <1>1, UnmappedFocus
<1> HIDE DEF t, f
<1>4. /\ surface' \in [Surfaces -> SurfaceType] /\ surface'[s] = t
      /\ \A y \in Surfaces : y # s => surface'[y] = surface[y]
  BY <1>1, <1>2, SurfaceChanged
<1>5. \A y \in Surfaces :
         /\ surface'[y].layer = surface[y].layer
         /\ surface[y].status # "absent" => surface'[y].status # "absent"
  BY <1>2, <1>4
<1>6. GoodLayers(surface', layers')
  BY <1>1, <1>4, <1>5, ListsKept
<1>7. ClosedWhenGone'
  BY <1>1, <1>2, <1>4, FocusParts DEF ClosedWhenGone
<1>8. LayerThere(f, surface') /\ LayerHolds(f, surface')
  <2>1. CASE f.layer = None
    BY <2>1 DEF LayerThere, LayerHolds
  <2>2. CASE f.layer # None
    BY <1>1, <1>3, <1>4, <2>2, FocusStays
  <2>3. QED
    BY <2>1, <2>2
<1>9. pointer \in Inputs \cup {None} /\ (focus.exclusive # None /\ pointer # None => ClientOf[pointer] = focus.exclusive)
  BY FocusParts DEF OtherTypes, PointerAllowed
<1>10. IInv' /\ Returned(f, focus') /\ (f.layer = None /\ focus'.layer = None => focus' = f)
  BY <1>1, <1>3, <1>5, <1>6, <1>7, <1>8, <1>9, ArrangedStep
<1>11. Returned(focus, focus')
  <2>1. CASE f.layer = None
    BY <1>3, <1>10, <2>1 DEF Returned
  <2>2. CASE f.layer # None
    BY <1>3, <1>10, <2>2
  <2>3. QED
    BY <2>1, <2>2
<1>12. QED
  BY <1>10, <1>11

LEMMA DestroyLayerStep ==
    ASSUME IInv, NEW s \in Surfaces, DestroyLayer(s)
    PROVE  IInv' /\ Returned(focus, focus')
<1> DEFINE h == IF surface[s].status = "mapped" THEN LayerUnmapped(focus, s) ELSE focus
           f == CASE surface[s].status = "mapped" -> Arranged(LayerUnmapped(focus, s))
                  [] surface[s].status = "closed" -> focus
                  [] OTHER -> Arranged(focus)
           q == RemoveFirst(layers[surface[s].layer], s)
<1>1. /\ Running /\ surface[s].status # "absent"
      /\ surface' = [surface EXCEPT ![s] = Absent]
      /\ layers' = [layers EXCEPT ![surface[s].layer] = q]
      /\ focus' = [f EXCEPT !.keyboard = IF f.keyboard = s THEN None ELSE f.keyboard]
      /\ pointer' = IF pointer = s THEN None ELSE pointer
      /\ stopped' = IF f.layer = s THEN "freed" ELSE "no"
      /\ UNCHANGED <<view, plugged>>
  BY DEF DestroyLayer
<1>2. Absent \in SurfaceType /\ Absent.status = "absent"
  BY DEF SurfaceType, Absent
<1>3. /\ surface' \in [Surfaces -> SurfaceType] /\ surface'[s] = Absent
      /\ \A x \in Surfaces : x # s => surface'[x] = surface[x]
  BY <1>1, <1>2, SurfaceChanged
<1>4. GoodLayers(surface, layers) /\ surface[s].layer \in 0..3
  BY FocusParts, SurfaceTypes
<1>5. GoodLayers(surface', layers')
  <2> DEFINE l == surface[s].layer
  <2>1. layers[l] \in Seq(Surfaces) /\ IsInjective(layers[l])
    BY <1>4 DEF GoodLayers
  <2>2. q \in Seq(Surfaces) /\ ToSet(q) = ToSet(layers[l]) \ {s} /\ IsInjective(q)
    BY <2>1, RemoveFirstProperties
  <2> HIDE DEF q
  <2>3. layers' \in [0..3 -> Seq(Surfaces)] /\ layers'[l] = q /\ \A k \in 0..3 : k # l => layers'[k] = layers[k]
    BY <1>1, <1>4, <2>2 DEF GoodLayers
  <2>4. \A k \in 0..3 : IsInjective(layers'[k])
    BY <1>4, <2>2, <2>3 DEF GoodLayers
  <2>5. ASSUME NEW k \in 0..3, NEW x \in ToSet(layers'[k])
        PROVE  surface'[x].status # "absent" /\ surface'[x].layer = k
    <3>1. x \in ToSet(layers[k])
      BY <2>2, <2>3, <2>5
    <3>2. surface[x].status # "absent" /\ surface[x].layer = k
      BY <1>4, <3>1 DEF GoodLayers
    <3>3. x # s
      BY <2>2, <2>3, <2>5, <3>2
    <3>4. x \in Surfaces
      BY <1>4, <3>1 DEF GoodLayers, ToSet
    <3>5. QED
      BY <1>3, <3>2, <3>3, <3>4
  <2>6. QED
    BY <1>3, <2>3, <2>4, <2>5 DEF GoodLayers
<1> HIDE DEF q
<1>6. ClosedWhenGone'
  BY <1>1, <1>2, <1>3, FocusParts DEF ClosedWhenGone
<1>7. \A x \in Surfaces : surface'[x].status = "mapped" => surface[x].layer = surface'[x].layer
  BY <1>2, <1>3
<1>8. s # None /\ GoodSeat(focus, surface, layers) /\ GoodFocus(focus)
  BY <1>1, FocusParts, NamesAssumption
<1>9. CASE surface[s].status # "closed"
  <2>1. f = Arranged(h)
    BY <1>9, Zenon
  <2>2. /\ GoodFocus(h) /\ h.exclusive = focus.exclusive /\ h.layer # s
        /\ h.layer # None => h = focus
        /\ Returned(focus, h)
    <3>1. CASE surface[s].status = "mapped"
      BY <1>1, <3>1, UnmappedFocus
    <3>2. CASE surface[s].status = "created"
      <4>1. h = focus
        BY <3>2
      <4>2. focus.layer # s
        BY <1>8, <3>2 DEF GoodSeat, LayerThere
      <4>3. QED
        BY <1>8, <4>1, <4>2 DEF Returned
    <3>3. QED
      BY <1>1, <1>9, <3>1, <3>2, SurfaceTypes
  <2> HIDE DEF h, f
  <2>3. LayerThere(h, surface') /\ LayerHolds(h, surface')
    <3>1. CASE h.layer = None
      BY <3>1 DEF LayerThere, LayerHolds
    <3>2. CASE h.layer # None
      BY <1>1, <1>3, <2>2, <3>2, FocusStays
    <3>3. QED
      BY <3>1, <3>2
  <2>4. /\ GoodFocus(f) /\ f.exclusive = focus.exclusive
        /\ LayerThere(f, surface') /\ LayerHolds(f, surface')
        /\ Topmost(surface', layers') # None => f.layer = Topmost(surface', layers')
        /\ Returned(h, f)
        /\ h.layer = None /\ f.layer = None => f = h
    BY <1>5, <1>7, <2>1, <2>2, <2>3, ArrangedFocus
  <2>5. f.layer # s
    BY <1>2, <1>3, <1>8, <2>4 DEF LayerThere
  <2>6. Returned(focus, f)
    <3>1. CASE h.layer = None
      BY <2>2, <2>4, <3>1 DEF Returned
    <3>2. CASE h.layer # None
      BY <2>2, <2>4, <3>2
    <3>3. QED
      BY <3>1, <3>2
  <2>7. /\ GoodFocus(focus') /\ focus'.layer = f.layer /\ focus'.exclusive = f.exclusive
        /\ focus'.stack = f.stack /\ focus'.keyboard = IF f.keyboard = s THEN None ELSE f.keyboard
    <3>1. CASE f.keyboard = s
      BY <1>1, <2>4, <3>1, NobodyHasKeyboard
    <3>2. CASE f.keyboard # s
      <4>1. focus' = f
        BY <1>1, <2>4, <3>2 DEF GoodFocus, FocusType
      <4>2. QED
        BY <2>4, <3>2, <4>1
    <3>3. QED
      BY <3>1, <3>2
  <2>8. LayerThere(focus', surface') /\ LayerHolds(focus', surface')
    BY <2>4, <2>5, <2>7 DEF LayerThere, LayerHolds
  <2>9. TopmostHas(focus', surface', layers')
    BY <2>4, <2>7 DEF TopmostHas
  <2>10. OtherTypes' /\ PointerAllowed'
    BY <1>1, <2>4, <2>7, FocusParts DEF OtherTypes, PointerAllowed
  <2>11. IInv'
    BY <1>5, <1>6, <2>7, <2>8, <2>9, <2>10, TogetherNext
  <2>12. Returned(focus, focus')
    <3>1. SUFFICES ASSUME focus.layer # None, focus.keyboard = focus.layer, focus'.layer = None,
                          focus'.stack # <<>>, InputAllowed(Head(focus'.stack), focus'.exclusive)
                   PROVE  focus'.keyboard = Head(focus'.stack)
      BY DEF Returned
    <3>2. f.keyboard = Head(f.stack)
      BY <2>6, <2>7, <3>1 DEF Returned
    <3>3. Head(f.stack) \in Views
      BY <2>4, <2>7, <3>1, FocusedType
    <3>4. f.keyboard # s
      BY <3>2, <3>3, NamesAssumption
    <3>5. QED
      BY <2>7, <3>2, <3>4
  <2>13. QED
    BY <2>11, <2>12
<1>10. CASE surface[s].status = "closed"
  <2>1. f = focus
    BY <1>10, Zenon
  <2>2. ~plugged /\ ~plugged'
    BY <1>1, <1>10, FocusParts DEF ClosedWhenGone, OtherTypes
  <2>3. \A x \in Surfaces : surface'[x].status # "mapped"
    BY <1>6, <2>2 DEF ClosedWhenGone
  <2>4. Topmost(surface', layers') = None
    BY <1>5, <2>3, TopmostAbove
  <2> HIDE DEF f
  <2>5. /\ GoodFocus(focus') /\ focus'.layer = focus.layer /\ focus'.exclusive = focus.exclusive
    <3>1. CASE f.keyboard = s
      BY <1>1, <1>8, <2>1, <3>1, NobodyHasKeyboard
    <3>2. CASE f.keyboard # s
      <4>1. focus' = f
        BY <1>1, <1>8, <2>1, <3>2 DEF GoodFocus, FocusType
      <4>2. QED
        BY <1>8, <2>1, <4>1
    <3>3. QED
      BY <3>1, <3>2
  <2>6. ASSUME stopped' = "no"
        PROVE  LayerThere(focus', surface') /\ LayerHolds(focus', surface')
    <3>1. focus.layer # s /\ focus.layer \in Surfaces \cup {None}
      BY <1>1, <1>8, <2>1, <2>6 DEF GoodFocus, FocusType
    <3>2. focus.layer # None => surface'[focus.layer] = surface[focus.layer]
      BY <1>3, <3>1
    <3>3. QED
      BY <1>8, <2>3, <2>5, <3>1, <3>2 DEF GoodSeat, LayerThere, LayerHolds
  <2>7. TopmostHas(focus', surface', layers')
    BY <2>4 DEF TopmostHas
  <2>8. OtherTypes' /\ PointerAllowed'
    BY <1>1, <2>5, FocusParts DEF OtherTypes, PointerAllowed
  <2>9. IInv'
    BY <1>5, <1>6, <2>5, <2>6, <2>7, <2>8, TogetherNext
  <2>10. QED
    BY <2>5, <2>9 DEF Returned
<1>11. QED
  BY <1>9, <1>10

\* What the focus may be while the output goes and its surfaces with it: the
\* focused layer is the one it was or one that was mapped.
PassedFocus ==
    {g \in FocusType :
        /\ GoodFocus(g) /\ g.exclusive = focus.exclusive
        /\ g.layer # focus.layer =>
              /\ g.layer \in Surfaces /\ surface[g.layer].status = "mapped"
              /\ surface[g.layer].layer >= TOP}

LEMMA PassedOnGood ==
    ASSUME IInv, NEW f \in PassedFocus, NEW s \in Surfaces, NEW gone
    PROVE  PassedOn(f, s, gone) \in PassedFocus
<1> DEFINE mine(l) == {i \in DOMAIN layers[l] : LET x == layers[l][i] IN
                          Mapped(x) /\ x \notin gone \cup {s} /\ ClientOf[x] = f.exclusive}
           full == {l \in 0..3 : mine(l) # {}}
           lowest == CHOOSE l \in full : \A k \in full : l <= k
           last == CHOOSE i \in mine(lowest) : \A k \in mine(lowest) : k <= i
           x == layers[lowest][last]
<1>1. PassedOn(f, s, gone) = IF ClientOf[s] = f.exclusive /\ full # {} THEN FocusLayer(f, x) ELSE f
  BY DEF PassedOn
<1>2. CASE full # {}
  <2>1. lowest \in full
    <3>1. full \in SUBSET Nat
      OBVIOUS
    <3> HIDE DEF full
    <3>2. QED
      BY <1>2, <3>1, LeastNatural
  <2>2. lowest \in 0..3 /\ mine(lowest) # {}
    BY <2>1
  <2> HIDE DEF lowest
  <2>3. layers[lowest] \in Seq(Surfaces)
    BY <2>2, FocusParts DEF GoodLayers
  <2>4. last \in mine(lowest)
    <3>1. Len(layers[lowest]) \in Nat /\ mine(lowest) \in SUBSET (1..Len(layers[lowest]))
      BY <2>3, LenProperties
    <3> HIDE DEF mine
    <3>2. QED
      BY <2>2, <3>1, GreatestUpTo
  <2>5. x \in Surfaces /\ surface[x].status = "mapped"
    <3> HIDE DEF last
    <3>1. last \in DOMAIN layers[lowest] /\ Mapped(x)
      BY <2>4
    <3> HIDE DEF mine
    <3>2. last \in 1..Len(layers[lowest])
      BY <2>3, <3>1, LenProperties
    <3>3. QED
      BY <2>3, <3>1, <3>2, ElementOfSeq DEF Mapped
  <2> HIDE DEF x, full
  <2>6. GoodFocus(f) /\ f.exclusive = focus.exclusive
    BY DEF PassedFocus
  <2>7. ASSUME NEW g, g = FocusLayer(f, x)
        PROVE  g \in PassedFocus
    <3>1. /\ GoodFocus(g) /\ g.exclusive = f.exclusive
          /\ g.layer = f.layer \/ (g.layer = x /\ surface[x].layer >= TOP)
      BY <2>5, <2>6, <2>7, LayerFocused
    <3>2. QED
      BY <2>5, <2>6, <3>1 DEF PassedFocus, GoodFocus
  <2>8. QED
    BY <1>1, <2>7
<1>3. CASE full = {}
  BY <1>1, <1>3
<1>4. QED
  BY <1>2, <1>3

\* The focus, as each surface in turn passes it on.
LEMMA PassedInTurn ==
    ASSUME IInv, NEW n \in Nat, NEW order \in [1..n -> Surfaces], NEW p,
           p = CHOOSE q : q = [i \in 0..n |->
                  IF i = 0 THEN focus
                  ELSE PassedOn(q[i - 1], order[i], {order[k] : k \in 1..(i - 1)})]
    PROVE  p[n] \in PassedFocus
<1> DEFINE Next1(f, i) == PassedOn(f, order[i], {order[k] : k \in 1..(i - 1)})
           Pass == [i \in 1..n |-> [f \in PassedFocus |-> Next1(f, i)]]
<1>1. \A f \in PassedFocus, i \in 1..n : Next1(f, i) \in PassedFocus /\ Pass[i][f] = Next1(f, i)
  BY PassedOnGood
<1>2. Pass \in [1..n -> [PassedFocus -> PassedFocus]]
  BY <1>1
<1>3. focus \in PassedFocus
  BY FocusParts DEF PassedFocus, GoodFocus
<1> HIDE DEF Next1, Pass
<1>4. PICK h : Unfolds(h, n, PassedFocus, focus, Pass)
  BY <1>2, <1>3, RecursionExists
<1>5. h = [i \in 0..n |-> IF i = 0 THEN focus ELSE Next1(h[i - 1], i)]
  <2>1. ASSUME NEW i \in 0..n
        PROVE  h[i] = IF i = 0 THEN focus ELSE Next1(h[i - 1], i)
    <3>1. CASE i = 0
      BY <1>4, <3>1 DEF Unfolds
    <3>2. CASE i # 0
      <4>1. i \in 1..n /\ i - 1 \in 0..n
        BY <3>2
      <4>2. h[i] = Next1(h[i - 1], i)
        BY <1>1, <1>4, <4>1 DEF Unfolds
      <4>3. QED
        BY <3>2, <4>2
    <3>3. QED
      BY <3>1, <3>2
  <2>2. QED
    BY <1>4, <2>1 DEF Unfolds
<1>6. p = [i \in 0..n |-> IF i = 0 THEN focus ELSE Next1(p[i - 1], i)]
  <2>1. \E q : q = [i \in 0..n |->
                  IF i = 0 THEN focus
                  ELSE PassedOn(q[i - 1], order[i], {order[k] : k \in 1..(i - 1)})]
    BY <1>5, Zenon DEF Next1
  <2>2. QED
    BY <2>1, Zenon DEF Next1
<1>7. \A i \in 0..n : p[i] = IF i = 0 THEN focus ELSE Next1(p[i - 1], i)
  BY <1>6, Zenon
<1>8. 0 \in 0..n /\ n \in 0..n
  OBVIOUS
<1>9. p[0] \in PassedFocus
  BY <1>3, <1>7, <1>8
<1>10. ASSUME NEW i \in 1..n, p[i - 1] \in PassedFocus
       PROVE  p[i] \in PassedFocus
  <2>1. i \in 0..n /\ i # 0
    OBVIOUS
  <2>2. p[i] = Next1(p[i - 1], i)
    BY <1>7, <2>1, Zenon
  <2>3. QED
    BY <1>1, <1>10, <2>2
<1>11. \A i \in 0..n : p[i] \in PassedFocus
  <2>1. ASSUME NEW T, p[0] \in T, \A i \in 1..n : p[i - 1] \in T => p[i] \in T
        PROVE  \A i \in 0..n : p[i] \in T
    BY <2>1, UpTo
  <2>2. QED
    BY <1>9, <1>10, <2>1, Zenon
<1>12. QED
  BY <1>8, <1>11

LEMMA UnplugOutputStep ==
    ASSUME IInv, UnplugOutput
    PROVE  IInv' /\ Returned(focus, focus')
<1> DEFINE there == {s \in Surfaces : surface[s].status # "absent"}
<1>1. /\ Running /\ plugged /\ plugged' = FALSE
      /\ surface' = [s \in Surfaces |->
                        IF s \in there THEN [surface[s] EXCEPT !.status = "closed"] ELSE surface[s]]
      /\ UNCHANGED <<view, layers, pointer, stopped>>
  BY DEF UnplugOutput
<1>2. PICK order \in SetToSeqs(there) :
         LET passed[i \in 0..Len(order)] ==
                      IF i = 0 THEN focus
                      ELSE PassedOn(passed[i - 1], order[i], {order[k] : k \in 1..(i - 1)})
              IN  focus' = passed[Len(order)]
  BY DEF UnplugOutput
<1> DEFINE n == Cardinality(there)
<1>3. n \in Nat
  BY NamesAssumption, FS_Subset, FS_CardinalityType
<1>4. order \in [1..n -> Surfaces] /\ Len(order) = n
  <2>1. order \in [1..n -> there]
    BY DEF SetToSeqs
  <2>2. QED
    BY <1>3, <2>1
<1> HIDE DEF n
<1>5. focus' \in PassedFocus
  <2> DEFINE p == CHOOSE q : q = [i \in 0..n |->
                  IF i = 0 THEN focus
                  ELSE PassedOn(q[i - 1], order[i], {order[k] : k \in 1..(i - 1)})]
  <2>1. focus' = p[n]
    BY <1>2, <1>4
  <2>2. QED
    BY <1>3, <1>4, <2>1, PassedInTurn
<1>6. \A s \in Surfaces :
         /\ surface'[s] \in SurfaceType /\ surface'[s].layer = surface[s].layer
         /\ surface'[s].status = IF surface[s].status = "absent" THEN "absent" ELSE "closed"
  BY <1>1, SurfaceTypes DEF SurfaceType
<1>7. surface' \in [Surfaces -> SurfaceType]
  BY <1>1, <1>6
<1>8. GoodLayers(surface', layers')
  BY <1>1, <1>6, <1>7, ListsKept
<1>9. ClosedWhenGone'
  BY <1>1, <1>6 DEF ClosedWhenGone
<1>10. Topmost(surface', layers') = None
  BY <1>6, <1>8, TopmostAbove
<1>11. GoodFocus(focus') /\ focus'.exclusive = focus.exclusive
  BY <1>5 DEF PassedFocus
<1>12. focus'.layer # None =>
          /\ focus'.layer \in Surfaces /\ surface[focus'.layer].status = "mapped"
          /\ surface[focus'.layer].layer >= TOP
  <2>1. CASE focus'.layer = focus.layer
    <3>1. GoodFocus(focus) /\ LayerThere(focus, surface) /\ ClosedWhenGone
      BY <1>1, FocusParts DEF GoodSeat
    <3>2. focus.layer \in Surfaces \cup {None}
      BY <3>1 DEF GoodFocus, FocusType
    <3>3. QED
      BY <1>1, <2>1, <3>1, <3>2 DEF LayerThere, ClosedWhenGone
  <2>2. CASE focus'.layer # focus.layer
    BY <1>5, <2>2 DEF PassedFocus
  <2>3. QED
    BY <2>1, <2>2
<1>13. LayerThere(focus', surface') /\ LayerHolds(focus', surface')
  BY <1>6, <1>12 DEF LayerThere, LayerHolds
<1>14. TopmostHas(focus', surface', layers')
  BY <1>10 DEF TopmostHas
<1>15. OtherTypes' /\ PointerAllowed'
  BY <1>1, <1>11, FocusParts DEF OtherTypes, PointerAllowed
<1>16. IInv'
  BY <1>8, <1>9, <1>11, <1>13, <1>14, <1>15, TogetherNext
<1>17. Returned(focus, focus')
  <2>1. CASE focus'.layer = focus.layer
    BY <2>1 DEF Returned
  <2>2. CASE focus'.layer # focus.layer
    <3>1. focus'.layer # None
      BY <1>5, <2>2, NamesAssumption DEF PassedFocus
    <3>2. QED
      BY <3>1 DEF Returned
  <2>3. QED
    BY <2>1, <2>2
<1>18. QED
  BY <1>16, <1>17

-----------------------------------------------------------------------------
(* Theorems *)

LEMMA Initially == Init => IInv
<1> SUFFICES ASSUME Init PROVE IInv
  OBVIOUS
<1>1. <<>> \in Seq(Views) /\ <<>> \in Seq(Surfaces) /\ ToSet(<<>>) = {} /\ IsInjective(<<>>)
  BY DEF ToSet, IsInjective
<1>2. /\ focus \in FocusType /\ focus.stack = <<>> /\ focus.keyboard = None
      /\ focus.layer = None /\ focus.exclusive = None
  BY <1>1 DEF Init, FocusType
<1>3. GoodFocus(focus)
  BY <1>1, <1>2 DEF GoodFocus, KeyboardInFront, KeptOut
<1>4. Absent \in SurfaceType /\ Absent.status = "absent"
  BY DEF Absent, SurfaceType
<1>5. surface \in [Surfaces -> SurfaceType] /\ \A s \in Surfaces : surface[s].status = "absent"
  BY <1>4 DEF Init
<1>6. layers \in [0..3 -> Seq(Surfaces)] /\ \A l \in 0..3 : layers[l] = <<>>
  BY <1>1 DEF Init
<1>7. GoodLayers(surface, layers)
  BY <1>1, <1>5, <1>6 DEF GoodLayers
<1>8. Topmost(surface, layers) = None
  BY <1>5, <1>7, TopmostAbove
<1>9. GoodSeat(focus, surface, layers)
  BY <1>2, <1>8 DEF GoodSeat, LayerThere, LayerHolds, TopmostHas
<1>10. OtherTypes /\ PointerAllowed /\ ClosedWhenGone
  BY <1>2, <1>5 DEF Init, OtherTypes, PointerAllowed, ClosedWhenGone
<1>11. QED
  BY <1>3, <1>7, <1>9, <1>10, Together

LEMMA NextStep ==
    ASSUME IInv, [Next]_vars
    PROVE  IInv' /\ Returned(focus, focus')
<1>1. CASE \E s \in Surfaces : \E l \in LayersOf[s] : CreateLayer(s, l)
  BY <1>1, CreateLayerStep
<1>2. CASE \E s \in Surfaces : MapLayer(s)
  BY <1>2, MapLayerStep
<1>3. CASE \E s \in Surfaces, i \in BOOLEAN : CommitLayer(s, i)
  BY <1>3, CommitLayerStep
<1>4. CASE \E s \in Surfaces : UnmapLayer(s)
  BY <1>4, UnmapLayerStep
<1>5. CASE \E s \in Surfaces : DestroyLayer(s)
  BY <1>5, DestroyLayerStep
<1>6. CASE UnplugOutput
  BY <1>6, UnplugOutputStep
<1>7. CASE ChangeOutput
  BY <1>7, ChangeOutputStep
<1>8. CASE \E v \in Views : MapView(v)
  BY <1>8, MapViewStep
<1>9. CASE \E v \in Views : UnmapView(v)
  BY <1>9, UnmapViewStep
<1>10. CASE \E v \in Views : DestroyView(v)
  BY <1>10, DestroyViewStep
<1>11. CASE \E v \in Views : ClickView(v)
  BY <1>11, ClickViewStep
<1>12. CASE MoveCursor
  BY <1>12, MoveCursorStep
<1>13. CASE \E c \in Clients : Inhibit(c)
  BY <1>13, InhibitStep
<1>14. CASE Uninhibit
  BY <1>14, UninhibitStep
<1>15. CASE UNCHANGED vars
  <2>1. UNCHANGED <<view, surface, layers, pointer, plugged, stopped>> /\ focus' = focus
    BY <1>15 DEF vars
  <2>2. GoodFocus(focus') /\ GoodLayers(surface', layers')
    BY <2>1, FocusParts
  <2>3. OtherTypes' /\ ClosedWhenGone' /\ PointerAllowed'
    BY <2>1, FocusParts DEF OtherTypes, ClosedWhenGone, PointerAllowed
  <2>4. stopped' = "no" =>
           /\ LayerThere(focus', surface') /\ LayerHolds(focus', surface')
           /\ TopmostHas(focus', surface', layers')
    BY <2>1, FocusParts DEF Running, GoodSeat, LayerThere, LayerHolds, TopmostHas
  <2>5. QED
    BY <2>1, <2>2, <2>3, <2>4, TogetherNext DEF Returned
<1>16. CASE Stopped
  BY <1>15, <1>16 DEF Stopped
<1>17. QED
  BY <1>1, <1>2, <1>3, <1>4, <1>5, <1>6, <1>7, <1>8, <1>9, <1>10, <1>11, <1>12, <1>13,
     <1>14, <1>15, <1>16, Zenon DEF Next

\* No step of the views, the layers, the output or a client with exclusive input
\* breaks the invariant.
THEOREM Invariance == Spec => []IInv
<1>1. IInv /\ [Next]_vars => IInv'
  BY NextStep
<1>2. QED
  BY Initially, <1>1, PTL DEF Spec

\* The seat and the layers keep their types, and no list holds anything twice.
THEOREM TypeCorrect == Spec => []TypeOK
<1>1. IInv => TypeOK
  BY DEF IInv
<1>2. QED
  BY <1>1, Invariance, PTL

\* The focused layer is always there and above the views, for any number of
\* layers and whatever they do, unless its output took it.
THEOREM LayerIsThere == Spec => []FocusedLayerThere
<1>1. IInv => FocusedLayerThere
  BY DEF IInv
<1>2. QED
  BY <1>1, Invariance, PTL

\* No view takes the keyboard from a mapped layer that has the focus.
THEOREM LayerKeepsKeyboard == Spec => []FocusedLayerHoldsKeyboard
<1>1. IInv => FocusedLayerHoldsKeyboard
  BY DEF IInv
<1>2. QED
  BY <1>1, Invariance, PTL

\* The topmost layer that wants the keyboard has it, when no client has
\* exclusive input.
THEOREM TopmostWins == Spec => []TopmostHasFocus
<1>1. IInv => TopmostHasFocus
  BY DEF IInv
<1>2. QED
  BY <1>1, Invariance, PTL

\* Exclusive input keeps the keyboard from the views of other clients and the
\* pointer from all that is theirs.
THEOREM OthersAreKeptOut == Spec => []ExclusiveKeepsOut
<1>1. IInv => ExclusiveKeepsOut
  BY DEF IInv, KeptOut, PointerAllowed, ExclusiveKeepsOut
<1>2. QED
  BY <1>1, Invariance, PTL

\* The keyboard goes back to the view in front when a layer lets it go.
THEOREM KeyboardGoesBack == Spec => KeyboardReturns
<1>1. IInv /\ [Next]_vars =>
         [focus.layer # None /\ focus.keyboard = focus.layer /\ focus'.layer = None
            /\ focus'.stack # <<>> /\ InputAllowed(Head(focus'.stack), focus'.exclusive)
          => focus'.keyboard = Head(focus'.stack)]_vars
  <2>1. SUFFICES ASSUME IInv, [Next]_vars
                 PROVE  focus.layer # None /\ focus.keyboard = focus.layer /\ focus'.layer = None
                          /\ focus'.stack # <<>> /\ InputAllowed(Head(focus'.stack), focus'.exclusive)
                        => focus'.keyboard = Head(focus'.stack)
    OBVIOUS
  <2>2. Returned(focus, focus')
    BY <2>1, NextStep
  <2>3. QED
    BY <2>2 DEF Returned
<1>2. QED
  BY <1>1, Invariance, PTL DEF Spec, KeyboardReturns
=============================================================================
