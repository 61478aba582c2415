--------------------------- MODULE Desktop_proof ---------------------------
(***************************************************************************)
(* Theorems about Desktop, for any views and workspaces.                   *)
(***************************************************************************)
EXTENDS Desktop, Lemmas, FiniteSetTheorems

-----------------------------------------------------------------------------
(* The inductive invariant *)

\* A mapped view has a workspace.
GoodViews(vw) ==
    /\ vw \in [Views -> ViewFields]
    /\ \A v \in Views : vw[v].status = "mapped" => vw[v].ws \in Workspaces

\* The views that are mapped on w.
On(w, vw) == {v \in Views : vw[v].status = "mapped" /\ vw[v].ws = w}

\* The layout of each workspace holds the views that are mapped on it.
LayoutsHold(lay, vw) ==
    /\ lay \in [Workspaces -> [columns: Columns(Views), floats: Seq(Views)]]
    /\ \A w \in Workspaces : GoodLayout(Views, lay[w], On(w, vw))

\* A view that has the keyboard is on top of the stack, if it is there at all.
\* One that is not there keeps the keyboard only when the view to follow it was
\* denied it, which takes a fullscreen view.
GoodFocus(f) ==
    /\ f \in [keyboard: Views \cup {NoView, Foreign}, stack: Seq(Views)]
    /\ IsInjective(f.stack)
    /\ f.keyboard \in ToSet(f.stack) => f.keyboard = Head(f.stack)
    /\ FullscreenViews = {} /\ f.keyboard \in Views /\ f.stack # <<>> =>
          f.keyboard = Head(f.stack)

StackMapped(f, vw) == \A x \in ToSet(f.stack) : vw[x].status = "mapped"

\* Whichever way a view came to the fullscreen state, it has a size to return
\* to, and only views that ask for fullscreen are ever in another state than the
\* normal one.  A view that is mapped once is not in the fullscreen state when it
\* is mapped.
GoodFullscreen(full, vw) ==
    /\ full \in [Workspaces -> Views \cup {NoView}]
    /\ \A w \in Workspaces : full[w] # NoView =>
          /\ vw[full[w]].status = "mapped" /\ vw[full[w]].ws = w
          /\ vw[full[w]].expansion = "fullscreen"
    /\ \A v \in Views : vw[v].expansion = "fullscreen" => vw[v].saved # "none"
    /\ \A v \in Views : vw[v].expansion # "normal" => v \in FullscreenViews
    /\ \A v \in Views \ Remapped : vw[v].expansion = "fullscreen" =>
          /\ vw[v].status \notin {"absent", "new"}
          /\ vw[v].status = "mapped" => full[vw[v].ws] = v

IInv ==
    /\ GoodViews(view) /\ LayoutsHold(layout, view)
    /\ GoodFocus(focus) /\ StackMapped(focus, view)
    /\ GoodFullscreen(fullscreen, view)
    /\ active \in Workspaces /\ failed \in {"none", "save_state", "columns.end()"}

-----------------------------------------------------------------------------
(* Keyboard focus *)

LEMMA FocusedOf ==
    ASSUME NEW f, GoodFocus(f)
    PROVE  /\ f.stack \in Seq(Views) /\ ToSet(f.stack) \subseteq Views
           /\ Focused(f) # NoView =>
                 /\ f.stack # <<>> /\ Focused(f) = Head(f.stack)
                 /\ Focused(f) \in ToSet(f.stack) /\ Focused(f) \in Views
<1>1. f.stack \in Seq(Views)
  BY DEF GoodFocus
<1>2. ToSet(f.stack) \subseteq Views
  BY <1>1 DEF ToSet
<1>3. f.stack # <<>> => Head(f.stack) \in ToSet(f.stack)
  BY <1>1, LenProperties DEF ToSet
<1>4. Focused(f) # NoView => f.stack # <<>> /\ Focused(f) = Head(f.stack)
  BY DEF Focused
<1>5. QED
  BY <1>1, <1>2, <1>3, <1>4

\* Seat::focus_view keeps the stack and the keyboard together.
LEMMA ViewFocused ==
    ASSUME NEW f, GoodFocus(f), NEW v \in Views \cup {NoView}, NEW vw, NEW full,
           NEW g, g = FocusView(f, v, vw, full)
    PROVE  /\ GoodFocus(g)
           /\ \A x \in ToSet(g.stack) : (x = v /\ v \in Views) \/ x \in ToSet(f.stack)
           /\ g.stack = f.stack \/ (v \in Views /\ g.stack = <<v>> \o RemoveFirst(f.stack, v))
<1>1. NoView \notin Views /\ Foreign \notin Views
  BY ViewsAssumption
<1>2. CASE g = f /\ (v = Focused(f) \/ Denied(v, vw[v].ws, full))
  BY <1>1, <1>2
<1>3. CASE v = NoView /\ g = [f EXCEPT !.keyboard = NoView]
  <2>1. g.stack = f.stack /\ g.keyboard = NoView /\ g \in [keyboard: Views \cup {NoView, Foreign}, stack: Seq(Views)]
    BY <1>3 DEF GoodFocus
  <2>2. NoView \notin ToSet(g.stack)
    BY <1>1, <2>1, FocusedOf
  <2>3. QED
    BY <1>1, <1>3, <2>1, <2>2 DEF GoodFocus
<1>4. CASE v \in Views /\ g = [keyboard |-> v, stack |-> <<v>> \o RemoveFirst(f.stack, v)]
  <2> DEFINE r == RemoveFirst(f.stack, v)
  <2>1. f.stack \in Seq(Views) /\ IsInjective(f.stack)
    BY DEF GoodFocus
  <2>2. r \in Seq(Views) /\ IsInjective(r) /\ ToSet(r) = ToSet(f.stack) \ {v}
    BY <2>1, RemoveFirstProperties
  <2> HIDE DEF r
  <2> DEFINE s == <<v>> \o r
  <2>3. s \in Seq(Views) /\ s # <<>> /\ Head(s) = v /\ ToSet(s) = {v} \cup ToSet(r) /\ IsInjective(s)
    BY <1>4, <2>2, PutInFront
  <2>4. g = [keyboard |-> v, stack |-> s]
    BY <1>4 DEF r
  <2> HIDE DEF s
  <2>6. g.stack = s /\ g.keyboard = v
    BY <2>4
  <2>a. g \in [keyboard: Views \cup {NoView, Foreign}, stack: Seq(Views)]
    <3>1. v \in Views /\ s \in Seq(Views)
      BY <1>4, <2>3
    <3>2. QED
      BY <2>4, <3>1
  <2>5. GoodFocus(g)
    BY <2>3, <2>6, <2>a DEF GoodFocus
  <2>7. \A x \in ToSet(g.stack) : (x = v /\ v \in Views) \/ x \in ToSet(f.stack)
    BY <1>4, <2>2, <2>3, <2>6
  <2>8. g.stack = <<v>> \o RemoveFirst(f.stack, v)
    BY <2>6 DEF r, s
  <2>9. QED
    BY <1>4, <2>5, <2>6, <2>7, <2>8
<1>5. QED
  BY <1>2, <1>3, <1>4, Zenon DEF FocusView

\* The most recently focused view of a set is one of it that is on the stack.
LEMMA LastFocusedOf ==
    ASSUME NEW f, GoodFocus(f), NEW T, NEW r, r = LastFocused(f, T)
    PROVE  /\ r \in Views \cup {NoView}
           /\ r # NoView => r \in T /\ r \in ToSet(f.stack)
           /\ r = NoView => T \cap ToSet(f.stack) = {}
<1> DEFINE s == f.stack
           I == {i \in 1..Len(s) : s[i] \in T}
           k == IF I # {} THEN Min(I) ELSE 0
<1>1. r = IF k = 0 THEN NoView ELSE s[k]
  BY DEF LastFocused, SelectInSeq
<1>2. s \in Seq(Views) /\ ToSet(s) \subseteq Views /\ NoView \notin Views
  BY FocusedOf, ViewsAssumption
<1>3. Len(s) \in Nat /\ DOMAIN s = 1..Len(s)
  BY <1>2, LenProperties
<1>4. CASE I # {}
  <2>1. I \in SUBSET Nat
    OBVIOUS
  <2>2. Min(I) \in I
    BY <1>4, <2>1, MinIsLeast
  <2>3. k \in DOMAIN s /\ s[k] \in T /\ k # 0
    BY <1>3, <1>4, <2>2
  <2>4. s[k] \in ToSet(s)
    BY <2>3 DEF ToSet
  <2> HIDE DEF k, s
  <2>5. r = s[k]
    BY <1>1, <2>3
  <2>6. QED
    BY <1>2, <2>3, <2>4, <2>5 DEF s
<1>5. CASE I = {}
  <2>1. r = NoView
    BY <1>1, <1>5
  <2>2. T \cap ToSet(s) = {}
    BY <1>3, <1>5 DEF ToSet
  <2>3. QED
    BY <1>2, <2>1, <2>2
<1>6. QED
  BY <1>4, <1>5

\* Seat::remove_from_focus_stack, after which no view keeps the keyboard unless
\* there was a fullscreen view to deny it.
LEMMA TakenOff ==
    ASSUME NEW f, GoodFocus(f), NEW v, NEW g, g = RemoveFromFocusStack(f, v),
           FullscreenViews = {} /\ f.keyboard = v => ToSet(f.stack) \subseteq {v}
    PROVE  GoodFocus(g) /\ ToSet(g.stack) = ToSet(f.stack) \ {v}
<1> DEFINE r == RemoveFirst(f.stack, v)
<1>1. /\ f \in [keyboard: Views \cup {NoView, Foreign}, stack: Seq(Views)]
      /\ f.stack \in Seq(Views) /\ IsInjective(f.stack)
  BY DEF GoodFocus
<1>2. /\ r \in Seq(Views) /\ IsInjective(r) /\ ToSet(r) = ToSet(f.stack) \ {v}
      /\ f.stack # <<>> /\ Head(f.stack) # v => r # <<>> /\ Head(r) = Head(f.stack)
  BY <1>1, RemoveFirstProperties
<1>3. g = [f EXCEPT !.stack = r]
  BY DEF RemoveFromFocusStack
<1> HIDE DEF r
<1>4. /\ g \in [keyboard: Views \cup {NoView, Foreign}, stack: Seq(Views)]
      /\ g.stack = r /\ g.keyboard = f.keyboard
  BY <1>1, <1>2, <1>3
<1>5. ASSUME g.keyboard \in ToSet(g.stack)
      PROVE  g.keyboard = Head(g.stack)
  <2>1. f.keyboard \in ToSet(f.stack) /\ f.keyboard # v
    BY <1>2, <1>4, <1>5
  <2>2. f.stack # <<>>
    BY <2>1 DEF ToSet
  <2>3. QED
    BY <1>2, <1>4, <2>1, <2>2 DEF GoodFocus
<1>6. ASSUME FullscreenViews = {}, g.keyboard \in Views, g.stack # <<>>
      PROVE  g.keyboard = Head(g.stack)
  <2>1. Head(r) \in ToSet(r)
    BY <1>2, <1>4, <1>6, LenProperties DEF ToSet
  <2>2. ToSet(f.stack) # {} /\ ~(ToSet(f.stack) \subseteq {v})
    BY <1>2, <2>1
  <2>3. f.stack # <<>>
    BY <2>2 DEF ToSet
  <2>4. f.keyboard # v
    BY <1>6, <2>2
  <2>5. f.keyboard = Head(f.stack)
    BY <1>4, <1>6, <2>3 DEF GoodFocus
  <2>6. QED
    BY <1>2, <1>4, <2>3, <2>4, <2>5
<1>7. QED
  BY <1>2, <1>4, <1>5, <1>6 DEF GoodFocus

\* Seat::hide_view: another view gets the keyboard if there is one and nothing
\* denies it.
LEMMA ViewHidden ==
    ASSUME NEW f, GoodFocus(f), NEW v \in Views, NEW vw, NEW full,
           NEW g, g = HideView(f, v, vw, full)
    PROVE  /\ GoodFocus(g)
           /\ ToSet(g.stack) = ToSet(f.stack)
<1> DEFINE T == {x \in Views \ {v} : vw[x].status = "mapped"}
           n == LastFocused(f, T)
<1>1. n \in Views \cup {NoView} /\ (n # NoView => n \in T /\ n \in ToSet(f.stack))
  BY LastFocusedOf
<1>2. g = IF Focused(f) = v /\ n # NoView THEN FocusView(f, n, vw, full) ELSE f
  BY DEF HideView
<1> HIDE DEF n, T
<1>3. CASE g = f
  BY <1>3
<1>4. CASE n # NoView /\ g = FocusView(f, n, vw, full)
  <2>1. /\ GoodFocus(g)
        /\ g.stack = f.stack \/ g.stack = <<n>> \o RemoveFirst(f.stack, n)
    BY <1>1, <1>4, ViewFocused
  <2>2. CASE g.stack = f.stack
    BY <2>1, <2>2
  <2>3. CASE g.stack = <<n>> \o RemoveFirst(f.stack, n)
    <3>1. f.stack \in Seq(Views) /\ IsInjective(f.stack)
      BY DEF GoodFocus
    <3>2. RemoveFirst(f.stack, n) \in Seq(Views) /\ ToSet(RemoveFirst(f.stack, n)) = ToSet(f.stack) \ {n}
      BY <3>1, RemoveFirstProperties
    <3>3. n \in Views /\ n \in ToSet(f.stack)
      BY <1>1, <1>4
    <3>4. ToSet(g.stack) = {n} \cup ToSet(RemoveFirst(f.stack, n))
      BY <2>3, <3>2, <3>3, PutInFront
    <3>5. QED
      BY <2>1, <3>2, <3>3, <3>4
  <2>4. QED
    BY <2>1, <2>2, <2>3
<1>5. QED
  BY <1>2, <1>3, <1>4

\* Nothing denies the views on the stack but v the keyboard.
Free(f, v, vw, full) ==
    \A x \in ToSet(f.stack) \ {v} : vw[x].status = "mapped" /\ full[vw[x].ws] = NoView

\* Without fullscreen views the view that is hidden loses the keyboard, unless
\* no other is on the stack.
LEMMA HiddenLosesKeyboard ==
    ASSUME NEW f, GoodFocus(f), NEW v \in Views, NEW vw, NEW full, Free(f, v, vw, full),
           HideView(f, v, vw, full).keyboard = v
    PROVE  f.keyboard = v /\ (v \in ToSet(f.stack) => ToSet(f.stack) \subseteq {v})
<1> DEFINE T == {x \in Views \ {v} : vw[x].status = "mapped"}
           n == LastFocused(f, T)
           g == HideView(f, v, vw, full)
<1>1. /\ n \in Views \cup {NoView} /\ (n # NoView => n \in T /\ n \in ToSet(f.stack))
      /\ n = NoView => T \cap ToSet(f.stack) = {}
  BY LastFocusedOf
<1>2. g = IF Focused(f) = v /\ n # NoView THEN FocusView(f, n, vw, full) ELSE f
  BY DEF HideView
<1>3. ToSet(f.stack) \subseteq Views /\ NoView \notin Views
  BY FocusedOf, ViewsAssumption
<1>4. n \in T => n # v
  OBVIOUS
<1>5. T \cap ToSet(f.stack) = {} => ToSet(f.stack) \subseteq {v}
  BY <1>3 DEF Free
<1>b. g.keyboard = v
  OBVIOUS
<1> HIDE DEF n, T, g
<1>6. CASE Focused(f) = v /\ n # NoView
  <2>1. g = FocusView(f, n, vw, full) /\ n \in Views /\ n # Focused(f) /\ n # v /\ n \in ToSet(f.stack)
    BY <1>1, <1>2, <1>3, <1>4, <1>6
  <2>2. ~Denied(n, vw[n].ws, full)
    BY <2>1 DEF Denied, Free
  <2>3. g = [keyboard |-> n, stack |-> <<n>> \o RemoveFirst(f.stack, n)]
    BY <1>3, <2>1, <2>2, Zenon DEF FocusView
  <2>5. g.keyboard = n
    BY <2>3
  <2>4. QED
    BY <1>b, <2>1, <2>5
<1>7. CASE ~(Focused(f) = v /\ n # NoView)
  <2>1. f.keyboard = v
    BY <1>2, <1>b, <1>7
  <2>2. ASSUME v \in ToSet(f.stack)
        PROVE  ToSet(f.stack) \subseteq {v}
    <3>1. f.keyboard = Head(f.stack)
      BY <2>1, <2>2 DEF GoodFocus
    <3>2. f.stack # <<>>
      BY <2>2 DEF ToSet
    <3>3. Focused(f) = v
      BY <1>3, <2>1, <3>1, <3>2 DEF Focused
    <3>4. QED
      BY <1>1, <1>5, <1>7, <3>3
  <2>3. QED
    BY <2>1, <2>2
<1>8. QED
  BY <1>6, <1>7

\* commands::focus_cycle sends the second view of the stack to its bottom.
LEMMA SecondToBottom ==
    ASSUME NEW f, GoodFocus(f), Len(f.stack) >= 2,
           NEW g, g = [f EXCEPT !.stack = Append(RemoveAt(@, 2), @[2])]
    PROVE  GoodFocus(g) /\ ToSet(g.stack) = ToSet(f.stack)
<1> DEFINE s == f.stack
           e == s[2]
           r == RemoveFirst(s, e)
           t == Append(r, e)
<1>1. /\ f \in [keyboard: Views \cup {NoView, Foreign}, stack: Seq(Views)]
      /\ s \in Seq(Views) /\ IsInjective(s)
  BY DEF GoodFocus
<1>2. Len(s) \in Nat /\ DOMAIN s = 1..Len(s)
  BY <1>1, LenProperties
<1>3. 1 \in DOMAIN s /\ 2 \in DOMAIN s
  BY <1>2
<1>4. e \in ToSet(s) /\ e \in Views
  BY <1>1, <1>2, <1>3, ElementOfSeq DEF ToSet
<1>5. Head(s) # e /\ s # <<>>
  <2>1. s[1] # s[2]
    BY <1>1, <1>3 DEF IsInjective
  <2>2. QED
    BY <1>1, <1>2, <2>1
<1> HIDE DEF e
<1>6. RemoveAt(s, 2) = r
  <2>1. PICK i \in 1..Len(s) : s[i] = e /\ RemoveFirst(s, e) = RemoveAt(s, i)
    BY <1>1, <1>4, RemoveFirstIndex
  <2>2. i = 2
    BY <1>1, <1>2, <1>3, <2>1 DEF IsInjective, e
  <2>3. QED
    BY <2>1, <2>2
<1>7. /\ r \in Seq(Views) /\ IsInjective(r) /\ ToSet(r) = ToSet(s) \ {e}
      /\ r # <<>> /\ Head(r) = Head(s)
  BY <1>1, <1>5, RemoveFirstProperties
<1>8. g = [f EXCEPT !.stack = t]
  BY <1>6 DEF e
<1> HIDE DEF r, s
<1>9. /\ t \in Seq(Views) /\ ToSet(t) = ToSet(r) \cup {e} /\ IsInjective(t)
  BY <1>4, <1>7, PutAtEnd
<1>10. ToSet(t) = ToSet(s)
  BY <1>4, <1>7, <1>9
<1>11. Head(t) = Head(s) /\ t # <<>>
  <2>1. Len(r) > 0 /\ Head(r) = r[1]
    BY <1>7
  <2>2. Len(t) = Len(r) + 1 /\ t[1] = r[1] /\ Head(t) = t[1]
    BY <1>4, <1>7, <1>9, <2>1
  <2>3. QED
    BY <1>7, <2>1, <2>2
<1> HIDE DEF t
<1>12. /\ g \in [keyboard: Views \cup {NoView, Foreign}, stack: Seq(Views)]
       /\ g.stack = t /\ g.keyboard = f.keyboard
  BY <1>1, <1>8, <1>9
<1>13. QED
  BY <1>5, <1>9, <1>10, <1>11, <1>12 DEF GoodFocus, s

-----------------------------------------------------------------------------
(* The steps that move the focus and nothing else *)

LEMMA FocusOnly ==
    ASSUME IInv, UNCHANGED <<view, layout, fullscreen>>,
           GoodFocus(focus'), StackMapped(focus', view),
           active' \in Workspaces, failed' = failed
    PROVE  IInv'
BY DEF IInv

\* A mapped view, or none, is focused.
LEMMA FocusStep ==
    ASSUME IInv, UNCHANGED <<view, layout, fullscreen>>, active' \in Workspaces, failed' = failed,
           NEW v \in Views \cup {NoView}, v # NoView => Mapped(v),
           focus' = FocusView(focus, v, view, fullscreen)
    PROVE  IInv'
<1>1. GoodFocus(focus) /\ StackMapped(focus, view)
  BY DEF IInv
<1>2. /\ GoodFocus(focus')
      /\ \A x \in ToSet(focus'.stack) : (x = v /\ v \in Views) \/ x \in ToSet(focus.stack)
  BY <1>1, ViewFocused
<1>3. StackMapped(focus', view)
  BY <1>1, <1>2, ViewsAssumption DEF StackMapped, Mapped
<1>4. QED
  BY <1>2, <1>3, FocusOnly

\* The view that the commands act on is a mapped one.
LEMMA CurrentMapped ==
    ASSUME IInv, Current # NoView
    PROVE  Current \in Views /\ Mapped(Current) /\ CurrentWs \in Workspaces
<1>1. GoodFocus(focus) /\ StackMapped(focus, view) /\ GoodViews(view)
  BY DEF IInv
<1>2. Current \in Views /\ Current \in ToSet(focus.stack)
  BY <1>1, FocusedOf DEF Current
<1>3. QED
  BY <1>1, <1>2 DEF StackMapped, Mapped, GoodViews, CurrentWs

\* The last focused view of a set is a mapped one.
LEMMA LastMapped ==
    ASSUME IInv, NEW T, NEW v, v = LastFocused(focus, T)
    PROVE  v \in Views \cup {NoView} /\ (v # NoView => Mapped(v))
<1>1. GoodFocus(focus) /\ StackMapped(focus, view)
  BY DEF IInv
<1>2. v \in Views \cup {NoView} /\ (v # NoView => v \in ToSet(focus.stack))
  BY <1>1, LastFocusedOf
<1>3. QED
  BY <1>1, <1>2 DEF StackMapped, Mapped

LEMMA HeldOnes ==
    ASSUME NEW S, NEW l, GoodLayout(Views, l, S), NEW v \in Held(l)
    PROVE  v \in S
<1>1. S = Tiled(l.columns) \cup ToSet(l.floats)
  BY Parts
<1>2. CASE v \in ToSet(l.floats)
  BY <1>1, <1>2 DEF ToSet, ToSet
<1>3. CASE v \in UNION {ToSet(c) : c \in ToSet(l.columns)}
  <2>1. PICK c \in ToSet(l.columns) : v \in ToSet(c)
    BY <1>3
  <2>2. PICK i \in DOMAIN l.columns : c = l.columns[i]
    BY DEF ToSet
  <2>3. v \in ToSet(l.columns[i])
    BY <2>1, <2>2 DEF ToSet, ToSet
  <2>4. QED
    BY <1>1, <2>3, TilesOf
<1>4. QED
  BY <1>2, <1>3 DEF Held

LEMMA ClickViewStep ==
    ASSUME IInv, NEW v \in Views, ClickView(v)
    PROVE  IInv'
<1>1. active \in Workspaces /\ LayoutsHold(layout, view)
  BY DEF IInv
<1>2. /\ v \in Held(layout[active]) /\ focus' = FocusView(focus, v, view, fullscreen)
      /\ UNCHANGED <<view, layout, fullscreen>> /\ active' = active /\ failed' = failed
  BY DEF ClickView
<1>3. GoodLayout(Views, layout[active], On(active, view))
  BY <1>1 DEF LayoutsHold
<1>4. v \in On(active, view)
  BY <1>2, <1>3, HeldOnes
<1>5. Mapped(v)
  BY <1>4 DEF On, Mapped
<1>6. QED
  BY <1>1, <1>2, <1>5, FocusStep

LEMMA SwitchWorkspaceStep ==
    ASSUME IInv, NEW w \in Workspaces, SwitchWorkspace(w)
    PROVE  IInv'
<1> DEFINE n == LastFocused(focus, {x \in Views : view[x].ws = w})
<1>1. /\ focus' = FocusView(focus, n, view, fullscreen)
      /\ UNCHANGED <<view, layout, fullscreen>> /\ active' = w /\ failed' = failed
  BY DEF SwitchWorkspace
<1>2. n \in Views \cup {NoView} /\ (n # NoView => Mapped(n))
  BY LastMapped
<1> HIDE DEF n
<1>3. QED
  BY <1>1, <1>2, FocusStep

LEMMA FocusSidewaysStep ==
    ASSUME IInv, NEW dx \in {-1, 1}, FocusSideways(dx)
    PROVE  IInv'
<1> DEFINE j == CurrentColumn + dx
           n == LastFocused(focus, {x \in ToSet(layout[CurrentWs].columns[j]) : MappedAndNormal(x)})
<1>1. /\ focus' = FocusView(focus, n, view, fullscreen)
      /\ UNCHANGED <<view, layout, fullscreen>> /\ active' = active /\ failed' = failed
  BY DEF FocusSideways
<1>2. n \in Views \cup {NoView} /\ (n # NoView => Mapped(n))
  BY LastMapped
<1>3. active \in Workspaces
  BY DEF IInv
<1> HIDE DEF n
<1>4. QED
  BY <1>1, <1>2, <1>3, FocusStep

\* The layout of the workspace of the focused view.
LEMMA CurrentLayout ==
    ASSUME IInv, Current # NoView
    PROVE  /\ GoodLayout(Views, layout[CurrentWs], On(CurrentWs, view))
           /\ Current \in On(CurrentWs, view) /\ On(CurrentWs, view) \subseteq Views
           /\ CurrentColumn # 0 => /\ CurrentColumn \in DOMAIN layout[CurrentWs].columns
                                   /\ Current \in ToSet(layout[CurrentWs].columns[CurrentColumn])
<1>1. Current \in Views /\ Mapped(Current) /\ CurrentWs \in Workspaces
  BY CurrentMapped
<1>2. GoodLayout(Views, layout[CurrentWs], On(CurrentWs, view))
  BY <1>1 DEF IInv, LayoutsHold
<1>3. Current \in On(CurrentWs, view)
  BY <1>1 DEF On, Mapped, CurrentWs
<1>4. GoodColumns(Views, layout[CurrentWs].columns)
  BY <1>2, Parts
<1>5. CurrentColumn # 0 => /\ CurrentColumn \in DOMAIN layout[CurrentWs].columns
                           /\ Current \in ToSet(layout[CurrentWs].columns[CurrentColumn])
  BY <1>4, ColumnFoundIsIts DEF CurrentColumn
<1>6. On(CurrentWs, view) \subseteq Views
  BY DEF On
<1>7. QED
  BY <1>2, <1>3, <1>5, <1>6

LEMMA FocusVerticallyStep ==
    ASSUME IInv, NEW dy \in {-1, 1}, FocusVertically(dy)
    PROVE  IInv'
<1> DEFINE c == layout[CurrentWs].columns[CurrentColumn]
           at == SelectInSeq(c, LAMBDA x : x = Current)
           beyond == {k \in DOMAIN c : (k - at) * dy > 0 /\ MappedAndNormal(c[k])}
<1>1. /\ \E k \in beyond : focus' = FocusView(focus, c[k], view, fullscreen)
      /\ UNCHANGED <<view, layout, fullscreen>> /\ active' = active /\ failed' = failed
      /\ Current # NoView /\ CurrentColumn # 0
  BY DEF FocusVertically
<1>2. PICK k \in DOMAIN c : MappedAndNormal(c[k]) /\ focus' = FocusView(focus, c[k], view, fullscreen)
  BY <1>1
<1>3. /\ GoodLayout(Views, layout[CurrentWs], On(CurrentWs, view))
      /\ CurrentColumn \in DOMAIN layout[CurrentWs].columns
  BY <1>1, CurrentLayout
<1>4. GoodColumns(Views, layout[CurrentWs].columns)
  BY <1>3, Parts
<1>5. ToSet(c) \subseteq Views
  BY <1>3, <1>4, ColumnType
<1>6. c[k] \in Views
  BY <1>5 DEF ToSet
<1>7. Mapped(c[k])
  BY <1>2 DEF MappedAndNormal
<1>8. active \in Workspaces
  BY DEF IInv
<1> HIDE DEF c
<1>9. QED
  BY <1>1, <1>2, <1>6, <1>7, <1>8, FocusStep

LEMMA MoveCursorStep ==
    ASSUME IInv, NEW w \in Workspaces, MoveCursor(w)
    PROVE  IInv'
<1>1. UNCHANGED <<view, layout, fullscreen, focus>> /\ active' = w /\ failed' = failed
  BY DEF MoveCursor
<1>2. GoodFocus(focus') /\ StackMapped(focus', view)
  BY <1>1 DEF IInv
<1>3. QED
  BY <1>1, <1>2, FocusOnly

LEMMA MapForeignStep ==
    ASSUME IInv, MapForeign
    PROVE  IInv'
<1>1. /\ UNCHANGED <<view, layout, fullscreen>> /\ active' = active /\ failed' = failed
      /\ focus' = [focus EXCEPT !.keyboard = Foreign]
  BY DEF MapForeign
<1>2. GoodFocus(focus) /\ StackMapped(focus, view) /\ active \in Workspaces
  BY DEF IInv
<1>3. /\ focus' \in [keyboard: Views \cup {NoView, Foreign}, stack: Seq(Views)]
      /\ focus'.stack = focus.stack /\ focus'.keyboard = Foreign
  BY <1>1, <1>2 DEF GoodFocus
<1>4. Foreign \notin Views /\ Foreign \notin ToSet(focus.stack)
  BY <1>2, FocusedOf, ViewsAssumption
<1>5. GoodFocus(focus')
  BY <1>2, <1>3, <1>4 DEF GoodFocus
<1>6. StackMapped(focus', view)
  BY <1>2, <1>3 DEF StackMapped
<1>7. QED
  BY <1>1, <1>2, <1>5, <1>6, FocusOnly

LEMMA UnmapForeignStep ==
    ASSUME IInv, UnmapForeign
    PROVE  IInv'
<1> DEFINE f == FocusView(focus, NoView, view, fullscreen)
           h == Head(focus.stack)
<1>1. /\ UNCHANGED <<view, layout, fullscreen>> /\ active' = active /\ failed' = failed
      /\ focus' = FocusView(f, h, view, fullscreen) /\ focus.stack # <<>>
  BY DEF UnmapForeign
<1>2. GoodFocus(focus) /\ StackMapped(focus, view) /\ active \in Workspaces
  BY DEF IInv
<1>3. NoView \notin Views
  BY ViewsAssumption
<1>4. GoodFocus(f) /\ \A x \in ToSet(f.stack) : x \in ToSet(focus.stack)
  BY <1>2, <1>3, ViewFocused
<1>5. h \in Views /\ h \in ToSet(focus.stack)
  <2>1. focus.stack \in Seq(Views) /\ ToSet(focus.stack) \subseteq Views
    BY <1>2, FocusedOf
  <2>2. h \in ToSet(focus.stack)
    BY <1>1, <2>1, LenProperties DEF ToSet
  <2>3. QED
    BY <2>1, <2>2
<1> HIDE DEF f, h
<1>6. GoodFocus(focus') /\ \A x \in ToSet(focus'.stack) : x = h \/ x \in ToSet(f.stack)
  BY <1>1, <1>4, <1>5, ViewFocused
<1>7. StackMapped(focus', view)
  BY <1>2, <1>4, <1>5, <1>6 DEF StackMapped
<1>8. QED
  BY <1>1, <1>2, <1>6, <1>7, FocusOnly

LEMMA FocusCycleStep ==
    ASSUME IInv, FocusCycle
    PROVE  IInv'
<1>1. /\ UNCHANGED <<view, layout, fullscreen>> /\ active' = active /\ failed' = failed
      /\ \E k \in 2..Len(focus.stack) :
            LET f == FocusView(focus, focus.stack[k], view, fullscreen)
            IN  focus' = [f EXCEPT !.stack = Append(RemoveAt(@, 2), @[2])]
  BY DEF FocusCycle
<1>2. PICK k \in 2..Len(focus.stack) :
            LET f == FocusView(focus, focus.stack[k], view, fullscreen)
            IN  focus' = [f EXCEPT !.stack = Append(RemoveAt(@, 2), @[2])]
  BY <1>1
<1> DEFINE x == focus.stack[k]
           f == FocusView(focus, x, view, fullscreen)
<1>3. focus' = [f EXCEPT !.stack = Append(RemoveAt(@, 2), @[2])]
  BY <1>2
<1>4. GoodFocus(focus) /\ StackMapped(focus, view) /\ active \in Workspaces
  BY DEF IInv
<1>5. focus.stack \in Seq(Views) /\ ToSet(focus.stack) \subseteq Views
  BY <1>4, FocusedOf
<1>6. Len(focus.stack) \in Nat /\ Len(focus.stack) >= 2 /\ DOMAIN focus.stack = 1..Len(focus.stack)
  BY <1>5, LenProperties
<1>7. k \in DOMAIN focus.stack /\ x \in ToSet(focus.stack) /\ x \in Views
  BY <1>5, <1>6 DEF ToSet
<1> HIDE DEF x
<1>8. /\ GoodFocus(f)
      /\ \A y \in ToSet(f.stack) : y = x \/ y \in ToSet(focus.stack)
      /\ f.stack = focus.stack \/ f.stack = <<x>> \o RemoveFirst(focus.stack, x)
  BY <1>4, <1>7, ViewFocused
<1> HIDE DEF f
<1>9. Len(f.stack) >= 2
  <2>1. CASE f.stack = focus.stack
    BY <1>6, <2>1
  <2>2. CASE f.stack = <<x>> \o RemoveFirst(focus.stack, x)
    <3> DEFINE r == RemoveFirst(focus.stack, x)
    <3>1. PICK i \in 1..Len(focus.stack) : r = RemoveAt(focus.stack, i)
      BY <1>5, <1>7, RemoveFirstIndex
    <3>2. r \in Seq(Views) /\ Len(r) = Len(focus.stack) - 1
      BY <1>5, <3>1, RemoveAtIndex
    <3> HIDE DEF r
    <3>3. <<x>> \in Seq(Views) /\ Len(<<x>>) = 1
      BY <1>7
    <3>4. Len(<<x>> \o r) = 1 + Len(r)
      BY <3>2, <3>3, ConcatProperties
    <3>5. QED
      BY <1>6, <2>2, <3>2, <3>4 DEF r
  <2>3. QED
    BY <1>8, <2>1, <2>2
<1>10. GoodFocus(focus') /\ ToSet(focus'.stack) = ToSet(f.stack)
  BY <1>3, <1>8, <1>9, SecondToBottom
<1>11. StackMapped(focus', view)
  BY <1>4, <1>7, <1>8, <1>10 DEF StackMapped
<1>12. QED
  BY <1>1, <1>4, <1>10, <1>11, FocusOnly

-----------------------------------------------------------------------------
(* The commands that edit the layout of one workspace *)

LEMMA LayoutReplaced ==
    ASSUME NEW lay, NEW vw, LayoutsHold(lay, vw), NEW w \in Workspaces,
           NEW r, GoodLayout(Views, r, On(w, vw))
    PROVE  LayoutsHold([lay EXCEPT ![w] = r], vw)
<1> DEFINE q == [lay EXCEPT ![w] = r]
<1>1. r \in [columns: Columns(Views), floats: Seq(Views)]
  BY DEF GoodLayout
<1>2. lay \in [Workspaces -> [columns: Columns(Views), floats: Seq(Views)]]
  BY DEF LayoutsHold
<1>3. q \in [Workspaces -> [columns: Columns(Views), floats: Seq(Views)]]
  BY <1>1, <1>2
<1>4. q[w] = r /\ \A u \in Workspaces : u # w => q[u] = lay[u]
  BY <1>2
<1> HIDE DEF q
<1>5. \A u \in Workspaces : GoodLayout(Views, q[u], On(u, vw))
  BY <1>4 DEF LayoutsHold
<1>6. LayoutsHold(q, vw)
  BY <1>3, <1>5 DEF LayoutsHold
<1>7. QED
  BY <1>6 DEF q

\* An edit of the layout of the focused view's workspace.
LEMMA EditStep ==
    ASSUME IInv, Current # NoView, UNCHANGED <<view, fullscreen, active, focus, failed>>,
           NEW r, layout' = [layout EXCEPT ![CurrentWs] = r],
           GoodLayout(Views, r, On(CurrentWs, view))
    PROVE  IInv'
<1>1. CurrentWs \in Workspaces
  BY CurrentMapped
<1>2. LayoutsHold(layout, view)
  BY DEF IInv
<1>3. LayoutsHold(layout', view)
  BY <1>1, <1>2, LayoutReplaced
<1>4. QED
  BY <1>3 DEF IInv

LEMMA MoveCommandStep ==
    ASSUME IInv, NEW dx \in {-1, 0, 1}, NEW dy \in {-1, 0, 1}, MoveCommand(dx, dy)
    PROVE  IInv'
<1> DEFINE l == layout[CurrentWs]
           r == MoveTile(l, Current, dx, dy)
<1>1. /\ UNCHANGED <<view, fullscreen, active, focus, failed>>
      /\ layout' = [layout EXCEPT ![CurrentWs] = r]
      /\ Current # NoView /\ CurrentColumn # 0
  BY DEF MoveCommand
<1>2. /\ GoodLayout(Views, l, On(CurrentWs, view))
      /\ CurrentColumn \in DOMAIN l.columns /\ Current \in ToSet(l.columns[CurrentColumn])
  BY <1>1, CurrentLayout
<1>3. Current \in Tiled(l.columns)
  BY <1>2, TilesOf
<1>4. dx \in Int /\ dy \in Int
  OBVIOUS
<1>5. GoodLayout(Views, r, On(CurrentWs, view))
  BY <1>2, <1>3, <1>4, TileMoved
<1> HIDE DEF r
<1>6. QED
  BY <1>1, <1>5, EditStep

LEMMA PopFromColumnStep ==
    ASSUME IInv, PopCommand
    PROVE  IInv'
<1> DEFINE l == layout[CurrentWs]
           r == PopFromColumn(l, CurrentColumn)
<1>1. /\ UNCHANGED <<view, fullscreen, active, focus, failed>>
      /\ layout' = [layout EXCEPT ![CurrentWs] = r]
      /\ Current # NoView /\ CurrentColumn # 0
  BY DEF PopCommand
<1>2. /\ GoodLayout(Views, l, On(CurrentWs, view))
      /\ CurrentColumn \in DOMAIN l.columns
  BY <1>1, CurrentLayout
<1>3. GoodLayout(Views, r, On(CurrentWs, view))
  BY <1>2, ViewPopped
<1> HIDE DEF r
<1>4. QED
  BY <1>1, <1>3, EditStep

\* The view that insert_into_column takes is in another column than the focused
\* one.
LEMMA InsertIntoColumnStep ==
    ASSUME IInv, InsertCommand
    PROVE  IInv'
<1> DEFINE l == layout[CurrentWs]
           i == CurrentColumn
           c == l.columns[i + 1]
           I == {k \in 1..Len(c) : MappedAndNormal(c[k])}
           k == SelectInSeq(c, MappedAndNormal)
           r == InsertIntoColumn(l, c[k], Current)
<1>1. /\ UNCHANGED <<view, fullscreen, active, focus>>
      /\ Current # NoView /\ i < Len(l.columns)
      /\ IF i = 0
         THEN failed' = "columns.end()" /\ UNCHANGED layout
         ELSE k # 0 /\ layout' = [layout EXCEPT ![CurrentWs] = r] /\ UNCHANGED failed
  BY DEF InsertCommand
<1>2. CASE i = 0
  <2>1. failed' = "columns.end()" /\ UNCHANGED layout
    BY <1>1, <1>2
  <2>2. QED
    BY <1>1, <2>1 DEF IInv
<1>3. CASE i # 0
  <2>1. k # 0 /\ layout' = [layout EXCEPT ![CurrentWs] = r] /\ UNCHANGED failed
    BY <1>1, <1>3
  <2>2. /\ GoodLayout(Views, l, On(CurrentWs, view)) /\ Current \in On(CurrentWs, view)
        /\ i \in DOMAIN l.columns /\ Current \in ToSet(l.columns[i])
    BY <1>1, <1>3, CurrentLayout
  <2>3. GoodColumns(Views, l.columns)
    BY <2>2, Parts
  <2>4. i \in Nat /\ i + 1 \in DOMAIN l.columns /\ i + 1 # i
    BY <1>1, <2>2, <2>3, ColumnType
  <2>5. c \in Seq(Views)
    BY <2>3, <2>4, ColumnType
  <2>6. k \in DOMAIN c
    <3>1. k = IF I # {} THEN Min(I) ELSE 0
      BY DEF SelectInSeq
    <3>2. I # {} /\ k = Min(I)
      BY <2>1, <3>1
    <3>3. I \in SUBSET Nat
      OBVIOUS
    <3>4. k \in I
      BY <3>2, <3>3, MinIsLeast
    <3>5. QED
      BY <2>5, <3>4, LenProperties
  <2> HIDE DEF k
  <2> DEFINE v == c[k]
  <2>7. v \in ToSet(c)
    BY <2>6 DEF ToSet
  <2>8. v \in Tiled(l.columns) /\ Current \in Tiled(l.columns)
    BY <2>2, <2>4, <2>7, TilesOf
  <2>9. v # Current
    BY <2>2, <2>3, <2>4, <2>7 DEF GoodColumns
  <2>10. v \in On(CurrentWs, view)
    BY <2>2, <2>8, Parts
  <2> HIDE DEF c, v, l
  <2>11. r = InsertIntoColumn(l, v, Current)
    BY DEF v
  <2> HIDE DEF r
  <2>12. GoodLayout(Views, r, On(CurrentWs, view))
    BY <2>2, <2>8, <2>9, <2>10, <2>11, ViewInserted
  <2>13. UNCHANGED <<view, fullscreen, active, focus, failed>>
    BY <1>1, <2>1
  <2>14. QED
    BY <1>1, <2>1, <2>12, <2>13, EditStep
<1>4. QED
  BY <1>2, <1>3

-----------------------------------------------------------------------------
(* The steps that change the size or the state of a view and not its place *)

\* The views vw are where the views of view are.
SamePlaces(vw) ==
    /\ vw \in [Views -> ViewFields]
    /\ \A v \in Views : vw[v].status = view[v].status /\ vw[v].ws = view[v].ws

LEMMA PlacesKept ==
    ASSUME IInv, NEW vw, SamePlaces(vw)
    PROVE  /\ GoodViews(vw) /\ LayoutsHold(layout, vw) /\ StackMapped(focus, vw)
           /\ \A w : On(w, vw) = On(w, view)
<1>1. GoodViews(vw)
  BY DEF IInv, GoodViews, SamePlaces
<1>2. \A w : On(w, vw) = On(w, view)
  BY DEF On, SamePlaces
<1>3. LayoutsHold(layout, vw)
  BY <1>2 DEF IInv, LayoutsHold
<1>4. ToSet(focus.stack) \subseteq Views
  BY FocusedOf DEF IInv
<1>5. StackMapped(focus, vw)
  BY <1>4 DEF IInv, StackMapped, SamePlaces
<1>6. QED
  BY <1>1, <1>2, <1>3, <1>5

LEMMA ToggleFloatingStep ==
    ASSUME IInv, ToggleFloatingCommand
    PROVE  IInv' /\ SamePlaces(view')
<1> DEFINE l == layout[CurrentWs]
           r == ToggleFloating(l, Current)
<1>1. /\ UNCHANGED <<fullscreen, active, focus, failed>>
      /\ layout' = [layout EXCEPT ![CurrentWs] = r]
      /\ Current # NoView
      /\ \E p \in {"tile", "screen"} :
            \/ view' = [view EXCEPT ![Current].saved = p]
            \/ view' = [view EXCEPT ![Current].target = p]
  BY Zenon DEF ToggleFloatingCommand
<1>2. GoodLayout(Views, l, On(CurrentWs, view)) /\ Current \in On(CurrentWs, view)
  BY <1>1, CurrentLayout
<1>3. GoodLayout(Views, r, On(CurrentWs, view))
  BY <1>2, ViewToggled
<1>4. Current \in Views /\ CurrentWs \in Workspaces
  BY <1>1, CurrentMapped
<1>5. PICK p \in {"tile", "screen"} :
            \/ view' = [view EXCEPT ![Current].saved = p]
            \/ view' = [view EXCEPT ![Current].target = p]
  BY <1>1
<1>6. view \in [Views -> ViewFields] /\ GoodFullscreen(fullscreen, view)
  BY DEF IInv, GoodViews
<1>7. /\ SamePlaces(view')
      /\ \A v \in Views : /\ view'[v].expansion = view[v].expansion
                          /\ view'[v].saved = view[v].saved \/ view'[v].saved # "none"
  <2>1. CASE view' = [view EXCEPT ![Current].saved = p]
    BY <1>4, <1>6, <2>1 DEF ViewFields, SamePlaces
  <2>2. CASE view' = [view EXCEPT ![Current].target = p]
    BY <1>4, <1>6, <2>2 DEF ViewFields, SamePlaces
  <2>3. QED
    BY <1>5, <2>1, <2>2
<1>8. /\ GoodViews(view') /\ LayoutsHold(layout, view') /\ StackMapped(focus, view')
      /\ \A w : On(w, view') = On(w, view)
  BY <1>7, PlacesKept
<1>9. GoodFullscreen(fullscreen, view')
  BY <1>6, <1>7 DEF GoodFullscreen, SamePlaces
<1> HIDE DEF r
<1>10. LayoutsHold(layout', view')
  BY <1>1, <1>3, <1>4, <1>8, LayoutReplaced
<1>11. QED
  BY <1>1, <1>7, <1>8, <1>9, <1>10 DEF IInv

\* The first half of Workspace::set_fullscreen_view leaves w without a fullscreen
\* view.
LEMMA OldOneRecovers ==
    ASSUME IInv, NEW w \in Workspaces, NEW vw, vw = Recovering(w),
           NEW full, full = [fullscreen EXCEPT ![w] = NoView]
    PROVE  /\ SamePlaces(vw) /\ GoodFullscreen(full, vw)
           /\ \A v \in Views : v # fullscreen[w] => vw[v] = view[v]
           /\ \A v \in Views : vw[v].expansion = "fullscreen" => v # fullscreen[w]
<1> DEFINE f == fullscreen[w]
<1>1. GoodFullscreen(fullscreen, view) /\ view \in [Views -> ViewFields]
  BY DEF IInv, GoodViews
<1>2. fullscreen \in [Workspaces -> Views \cup {NoView}] /\ f \in Views \cup {NoView}
  BY <1>1 DEF GoodFullscreen
<1>3. NoView \notin Views
  BY ViewsAssumption
<1>4. full \in [Workspaces -> Views \cup {NoView}] /\ full[w] = NoView /\ \A u \in Workspaces : u # w => full[u] = fullscreen[u]
  BY <1>2
<1>5. /\ SamePlaces(vw)
      /\ \A v \in Views : v # f => vw[v] = view[v]
      /\ f \in Views => vw[f].expansion = "recovering" /\ f \in FullscreenViews
  <2>1. CASE f = NoView
    <3>1. vw = view
      BY <2>1 DEF Recovering
    <3>2. QED
      BY <1>1, <1>3, <2>1, <3>1 DEF SamePlaces
  <2>2. CASE f \in Views
    <3>1. vw = [view EXCEPT ![f].expansion = "recovering", ![f].target = view[f].saved, ![f].saved = "none"]
      BY <1>3, <2>2 DEF Recovering
    <3>2. view[f].expansion = "fullscreen" /\ view[f].saved # "none" /\ f \in FullscreenViews
      BY <1>1, <1>3, <2>2 DEF GoodFullscreen
    <3>3. view[f].saved \in {"tile", "screen"}
      BY <1>1, <2>2, <3>2 DEF ViewFields
    <3>4. QED
      BY <1>1, <2>2, <3>1, <3>2, <3>3 DEF SamePlaces, ViewFields
  <2>3. QED
    BY <1>2, <2>1, <2>2
<1> HIDE DEF f
<1>6. \A v \in Views : vw[v].expansion = "fullscreen" => v # f
  BY <1>5
<1>7. ASSUME NEW u \in Workspaces, full[u] # NoView
      PROVE  /\ vw[full[u]].status = "mapped" /\ vw[full[u]].ws = u
             /\ vw[full[u]].expansion = "fullscreen"
  <2>1. u # w /\ full[u] = fullscreen[u] /\ full[u] \in Views
    BY <1>4, <1>7
  <2>2. /\ view[full[u]].status = "mapped" /\ view[full[u]].ws = u
        /\ view[full[u]].expansion = "fullscreen"
    BY <1>1, <1>7, <2>1 DEF GoodFullscreen
  <2>3. full[u] # f
    <3>1. f # NoView => view[f].ws = w
      BY <1>1 DEF GoodFullscreen, f
    <3>2. QED
      BY <1>7, <2>1, <2>2, <3>1
  <2>4. QED
    BY <1>5, <2>1, <2>2, <2>3
<1>8. \A v \in Views : vw[v].expansion = "fullscreen" => vw[v].saved # "none"
  BY <1>1, <1>5, <1>6 DEF GoodFullscreen
<1>9. ASSUME NEW v \in Views, vw[v].expansion # "normal"
      PROVE  v \in FullscreenViews
  BY <1>1, <1>5, <1>9 DEF GoodFullscreen
<1>10. ASSUME NEW v \in Views \ Remapped, vw[v].expansion = "fullscreen"
       PROVE  /\ vw[v].status \notin {"absent", "new"}
              /\ vw[v].status = "mapped" => full[vw[v].ws] = v
  <2>1. v # f /\ vw[v] = view[v]
    BY <1>5, <1>6, <1>10
  <2>2. /\ view[v].status \notin {"absent", "new"}
        /\ view[v].status = "mapped" => fullscreen[view[v].ws] = v
    BY <1>1, <1>10, <2>1 DEF GoodFullscreen
  <2>3. ASSUME view[v].status = "mapped"
        PROVE  full[view[v].ws] = v
    <3>1. view[v].ws # w
      BY <2>1, <2>2, <2>3 DEF f
    <3>2. view[v].ws \in Workspaces
      BY <2>3 DEF IInv, GoodViews
    <3>3. QED
      BY <1>4, <2>2, <2>3, <3>1, <3>2
  <2>4. QED
    BY <2>1, <2>2, <2>3
<1>11. GoodFullscreen(full, vw)
  BY <1>4, <1>7, <1>8, <1>9, <1>10 DEF GoodFullscreen
<1>12. QED
  BY <1>5, <1>6, <1>11 DEF f

\* The steps that leave the layouts and the focus alone.
LEMMA StateOnly ==
    ASSUME IInv, UNCHANGED <<layout, active, focus>>, SamePlaces(view'),
           GoodFullscreen(fullscreen', view'), failed' \in {"none", "save_state", "columns.end()"}
    PROVE  IInv'
<1>1. GoodViews(view') /\ LayoutsHold(layout, view') /\ StackMapped(focus, view')
  BY PlacesKept
<1>2. QED
  BY <1>1 DEF IInv

LEMMA RequestUnfullscreenStep ==
    ASSUME IInv, NEW v \in Views, RequestUnfullscreen(v)
    PROVE  IInv' /\ SamePlaces(view')
<1> DEFINE w == view[v].ws
<1>1. /\ view' = Recovering(w) /\ fullscreen' = [fullscreen EXCEPT ![w] = NoView]
      /\ UNCHANGED <<layout, active, focus, failed>> /\ Mapped(v)
  BY DEF RequestUnfullscreen
<1>2. w \in Workspaces
  BY <1>1 DEF IInv, GoodViews, Mapped
<1> HIDE DEF w
<1>3. SamePlaces(view') /\ GoodFullscreen(fullscreen', view')
  BY <1>1, <1>2, OldOneRecovers
<1>4. failed' \in {"none", "save_state", "columns.end()"}
  BY <1>1 DEF IInv
<1>5. QED
  BY <1>1, <1>3, <1>4, StateOnly

LEMMA RequestFullscreenStep ==
    ASSUME IInv, NEW v \in Views, RequestFullscreen(v)
    PROVE  IInv' /\ SamePlaces(view')
<1> DEFINE w == view[v].ws
           vw == Recovering(w)
           full == [fullscreen EXCEPT ![w] = NoView]
<1>1. /\ UNCHANGED <<layout, active, focus>> /\ Mapped(v) /\ v \in FullscreenViews
      /\ \/ /\ vw[v].saved = "none" /\ vw[v].expansion = "normal"
            /\ view' = [vw EXCEPT ![v].saved = vw[v].size, ![v].expansion = "fullscreen",
                                  ![v].target = "screen"]
            /\ fullscreen' = [fullscreen EXCEPT ![w] = v]
            /\ UNCHANGED failed
         \/ failed' = "save_state" /\ UNCHANGED <<view, fullscreen>>
  BY DEF RequestFullscreen
<1>2. CASE failed' = "save_state" /\ UNCHANGED <<view, fullscreen>>
  BY <1>1, <1>2 DEF IInv, GoodViews, SamePlaces
<1>3. CASE /\ vw[v].saved = "none" /\ vw[v].expansion = "normal"
           /\ view' = [vw EXCEPT ![v].saved = vw[v].size, ![v].expansion = "fullscreen",
                                 ![v].target = "screen"]
           /\ fullscreen' = [fullscreen EXCEPT ![w] = v]
           /\ UNCHANGED failed
  <2>1. w \in Workspaces
    BY <1>1 DEF IInv, GoodViews, Mapped
  <2>2. /\ SamePlaces(vw) /\ GoodFullscreen(full, vw)
    BY <2>1, OldOneRecovers
  <2>3. vw \in [Views -> ViewFields] /\ vw[v].status = "mapped" /\ vw[v].ws = w
    BY <1>1, <2>2 DEF SamePlaces, Mapped
  <2> HIDE DEF vw
  <2>4. /\ view' \in [Views -> ViewFields]
        /\ view'[v].status = "mapped" /\ view'[v].ws = w
        /\ view'[v].expansion = "fullscreen" /\ view'[v].saved # "none"
        /\ \A x \in Views : x # v => view'[x] = vw[x]
    BY <1>3, <2>3 DEF ViewFields
  <2>5. SamePlaces(view')
    BY <1>1, <2>2, <2>3, <2>4 DEF SamePlaces, Mapped
  <2>6. fullscreen \in [Workspaces -> Views \cup {NoView}]
    BY DEF IInv, GoodFullscreen
  <2>7. /\ full \in [Workspaces -> Views \cup {NoView}] /\ full[w] = NoView
        /\ \A u \in Workspaces : u # w => full[u] = fullscreen[u]
    BY <2>1, <2>6
  <2>8. /\ fullscreen' \in [Workspaces -> Views \cup {NoView}]
        /\ fullscreen'[w] = v /\ \A u \in Workspaces : u # w => fullscreen'[u] = full[u]
    BY <1>3, <2>1, <2>6, <2>7
  <2> HIDE DEF full, w
  <2>9. ASSUME NEW u \in Workspaces, fullscreen'[u] # NoView
        PROVE  /\ view'[fullscreen'[u]].status = "mapped" /\ view'[fullscreen'[u]].ws = u
               /\ view'[fullscreen'[u]].expansion = "fullscreen"
    <3>1. CASE u = w
      BY <2>4, <2>8, <3>1
    <3>2. CASE u # w
      <4>1. fullscreen'[u] = full[u] /\ full[u] \in Views /\ full[u] # NoView
        BY <2>7, <2>8, <2>9, <3>2
      <4>2. vw[full[u]].status = "mapped" /\ vw[full[u]].ws = u /\ vw[full[u]].expansion = "fullscreen"
        BY <2>2, <4>1 DEF GoodFullscreen
      <4>3. full[u] # v
        BY <2>3, <3>2, <4>2
      <4>4. QED
        BY <2>4, <4>1, <4>2, <4>3
    <3>3. QED
      BY <3>1, <3>2
  <2>10. \A x \in Views : view'[x].expansion = "fullscreen" => view'[x].saved # "none"
    BY <2>2, <2>4 DEF GoodFullscreen
  <2>11. \A x \in Views : view'[x].expansion # "normal" => x \in FullscreenViews
    BY <1>1, <2>2, <2>4 DEF GoodFullscreen
  <2>12. ASSUME NEW x \in Views \ Remapped, view'[x].expansion = "fullscreen"
         PROVE  /\ view'[x].status \notin {"absent", "new"}
                /\ view'[x].status = "mapped" => fullscreen'[view'[x].ws] = x
    <3>1. CASE x = v
      BY <2>4, <2>8, <3>1
    <3>2. CASE x # v
      <4>1. view'[x] = vw[x]
        BY <2>4, <3>2
      <4>2. /\ vw[x].status \notin {"absent", "new"}
            /\ vw[x].status = "mapped" => full[vw[x].ws] = x
        BY <2>2, <2>12, <4>1 DEF GoodFullscreen
      <4>3. ASSUME vw[x].status = "mapped"
            PROVE  fullscreen'[vw[x].ws] = x
        <5>1. vw[x].ws \in Workspaces
          BY <2>2, <4>3 DEF IInv, GoodViews, SamePlaces
        <5>2. vw[x].ws # w
          BY <2>7, <4>2, <4>3, ViewsAssumption
        <5>3. QED
          BY <2>8, <4>2, <4>3, <5>1, <5>2
      <4>4. QED
        BY <4>1, <4>2, <4>3
    <3>3. QED
      BY <3>1, <3>2
  <2>13. GoodFullscreen(fullscreen', view')
    BY <2>8, <2>9, <2>10, <2>11, <2>12 DEF GoodFullscreen
  <2>14. failed' \in {"none", "save_state", "columns.end()"}
    BY <1>3 DEF IInv
  <2>15. QED
    BY <1>1, <2>5, <2>13, <2>14, StateOnly
<1>4. QED
  BY <1>1, <1>2, <1>3

LEMMA CommitSizeStep ==
    ASSUME IInv, NEW v \in Views, CommitSize(v)
    PROVE  IInv' /\ SamePlaces(view')
<1>1. /\ UNCHANGED <<layout, fullscreen, active, focus, failed>> /\ Mapped(v)
      /\ view' = [view EXCEPT
             ![v].size = IF @ = "tile" THEN "screen" ELSE "tile",
             ![v].expansion = IF @ = "recovering" THEN "normal" ELSE @]
  BY DEF CommitSize
<1>2. view \in [Views -> ViewFields] /\ GoodFullscreen(fullscreen, view)
  BY DEF IInv, GoodViews
<1> DEFINE z == IF view[v].size = "tile" THEN "screen" ELSE "tile"
           e == IF view[v].expansion = "recovering" THEN "normal" ELSE view[v].expansion
<1>a. view[v] \in ViewFields
  BY <1>2
<1>b. z \in {"tile", "screen"} /\ e \in {"normal", "recovering", "fullscreen"}
  BY <1>a DEF ViewFields
<1>c. view' = [view EXCEPT ![v] = [view[v] EXCEPT !.size = z, !.expansion = e]]
  BY <1>1, <1>2
<1>d. [view[v] EXCEPT !.size = z, !.expansion = e] \in ViewFields
  <2> HIDE DEF z, e
  <2>1. QED
    BY <1>a, <1>b DEF ViewFields
<1>3. view' \in [Views -> ViewFields]
  <2> HIDE DEF z, e
  <2>1. QED
    BY <1>2, <1>c, <1>d
<1>4. /\ \A x \in Views : x # v => view'[x] = view[x]
      /\ view'[v].status = view[v].status /\ view'[v].ws = view[v].ws
      /\ view'[v].saved = view[v].saved
      /\ view'[v].expansion = IF view[v].expansion = "recovering" THEN "normal" ELSE view[v].expansion
  BY <1>1, <1>2 DEF ViewFields
<1>5. \A x \in Views :
         /\ view'[x].status = view[x].status /\ view'[x].ws = view[x].ws
         /\ view'[x].saved = view[x].saved
         /\ view'[x].expansion = "fullscreen" <=> view[x].expansion = "fullscreen"
         /\ view[x].expansion = "normal" => view'[x].expansion = "normal"
  BY <1>4
<1>6. SamePlaces(view')
  BY <1>3, <1>5 DEF SamePlaces
<1>7. GoodFullscreen(fullscreen', view')
  BY <1>1, <1>2, <1>5 DEF GoodFullscreen
<1>8. failed' \in {"none", "save_state", "columns.end()"}
  BY <1>1 DEF IInv
<1>9. QED
  BY <1>1, <1>6, <1>7, <1>8, StateOnly

-----------------------------------------------------------------------------
(* The life of a view *)

\* In vw, v is not on the desktop, as in view, and the others are as they were.
StaysAway(v, vw) ==
    /\ vw \in [Views -> ViewFields] /\ \A x \in Views : x # v => vw[x] = view[x]
    /\ view[v].status # "mapped" /\ vw[v].status # "mapped"
    /\ vw[v].expansion # "normal" => vw[v].expansion = view[v].expansion /\ vw[v].saved = view[v].saved
    /\ v \notin Remapped /\ vw[v].expansion = "fullscreen" => vw[v].status \notin {"absent", "new"}

LEMMA AwayStep ==
    ASSUME IInv, UNCHANGED <<layout, fullscreen, active, failed>>, NEW v \in Views,
           StaysAway(v, view'), GoodFocus(focus'), focus'.stack = focus.stack
    PROVE  IInv'
<1> DEFINE vw == view'
<1>1. StaysAway(v, vw)
  OBVIOUS
<1> HIDE DEF vw
<1>2. /\ vw \in [Views -> ViewFields] /\ \A x \in Views : x # v => vw[x] = view[x]
      /\ view[v].status # "mapped" /\ vw[v].status # "mapped"
      /\ vw[v].expansion # "normal" => vw[v].expansion = view[v].expansion /\ vw[v].saved = view[v].saved
      /\ v \notin Remapped /\ vw[v].expansion = "fullscreen" => vw[v].status \notin {"absent", "new"}
  BY <1>1 DEF StaysAway
<1>3. \A x \in Views : vw[x].status = "mapped" <=> view[x].status = "mapped"
  BY <1>2
<1>4. \A x \in Views : vw[x].status = "mapped" => vw[x] = view[x]
  BY <1>2
<1>5. GoodViews(vw)
  BY <1>2, <1>3, <1>4 DEF IInv, GoodViews
<1>6. \A w : On(w, vw) = On(w, view)
  BY <1>3, <1>4 DEF On
<1>7. LayoutsHold(layout, vw)
  BY <1>6 DEF IInv, LayoutsHold
<1>8. StackMapped(focus', vw)
  <2>1. ToSet(focus.stack) \subseteq Views
    BY FocusedOf DEF IInv
  <2>2. QED
    BY <1>3, <2>1 DEF IInv, StackMapped
<1>9. GoodFullscreen(fullscreen, vw)
  <2>1. GoodFullscreen(fullscreen, view) /\ GoodViews(view)
    BY DEF IInv
  <2>2. ASSUME NEW w \in Workspaces, fullscreen[w] # NoView
        PROVE  /\ vw[fullscreen[w]].status = "mapped" /\ vw[fullscreen[w]].ws = w
               /\ vw[fullscreen[w]].expansion = "fullscreen"
    <3>1. fullscreen[w] \in Views
      BY <2>1, <2>2 DEF GoodFullscreen
    <3>2. /\ view[fullscreen[w]].status = "mapped" /\ view[fullscreen[w]].ws = w
          /\ view[fullscreen[w]].expansion = "fullscreen"
      BY <2>1, <2>2 DEF GoodFullscreen
    <3>3. vw[fullscreen[w]] = view[fullscreen[w]]
      BY <1>3, <1>4, <3>1, <3>2
    <3>4. QED
      BY <3>2, <3>3
  <2>3. \A x \in Views : vw[x].expansion # "normal" =>
                            vw[x].expansion = view[x].expansion /\ vw[x].saved = view[x].saved
    BY <1>2
  <2>4. ASSUME NEW x \in Views \ Remapped, vw[x].expansion = "fullscreen"
        PROVE  /\ vw[x].status \notin {"absent", "new"}
               /\ vw[x].status = "mapped" => fullscreen[vw[x].ws] = x
    <3>1. CASE x = v
      BY <1>2, <2>4, <3>1
    <3>2. CASE x # v
      BY <1>2, <2>1, <2>4, <3>2 DEF GoodFullscreen
    <3>3. QED
      BY <3>1, <3>2
  <2>5. \A x \in Views : vw[x].expansion = "fullscreen" => vw[x].saved # "none"
    BY <2>1, <2>3 DEF GoodFullscreen
  <2>6. \A x \in Views : vw[x].expansion # "normal" => x \in FullscreenViews
    BY <2>1, <2>3 DEF GoodFullscreen
  <2>7. QED
    BY <2>1, <2>2, <2>4, <2>5, <2>6 DEF GoodFullscreen
<1>10. QED
  BY <1>5, <1>7, <1>8, <1>9 DEF IInv, vw

LEMMA CreateViewStep ==
    ASSUME IInv, NEW v \in Views, CreateView(v)
    PROVE  IInv'
<1>1. /\ UNCHANGED <<layout, fullscreen, active, focus, failed>> /\ view[v].status = "absent"
      /\ view' = [view EXCEPT ![v].status = "new"]
  BY DEF CreateView
<1>2. GoodFullscreen(fullscreen, view) /\ view \in [Views -> ViewFields]
  BY DEF IInv, GoodViews
<1>3. /\ view' \in [Views -> ViewFields] /\ \A x \in Views : x # v => view'[x] = view[x]
      /\ view'[v].status = "new" /\ view'[v].expansion = view[v].expansion
      /\ view'[v].saved = view[v].saved
  BY <1>1, <1>2 DEF ViewFields
<1>4. v \notin Remapped => view[v].expansion # "fullscreen"
  BY <1>1, <1>2 DEF GoodFullscreen
<1>5. StaysAway(v, view')
  BY <1>1, <1>3, <1>4 DEF StaysAway
<1>6. GoodFocus(focus') /\ focus'.stack = focus.stack
  BY <1>1 DEF IInv
<1>7. QED
  BY <1>1, <1>5, <1>6, AwayStep

LEMMA DestroyViewStep ==
    ASSUME IInv, NEW v \in Views, DestroyView(v)
    PROVE  IInv'
<1>1. /\ UNCHANGED <<layout, fullscreen, active, failed>> /\ view[v].status # "mapped"
      /\ view' = [view EXCEPT ![v] = FreshView]
      /\ \E k \in {NoView, Foreign} :
            focus' = [focus EXCEPT !.keyboard = IF @ = v THEN k ELSE @]
  BY DEF DestroyView
<1>2. view \in [Views -> ViewFields] /\ GoodFocus(focus)
  BY DEF IInv, GoodViews
<1>3. FreshView \in ViewFields /\ FreshView.status = "absent" /\ FreshView.expansion = "normal"
  BY DEF FreshView, ViewFields
<1>4. /\ view' \in [Views -> ViewFields] /\ \A x \in Views : x # v => view'[x] = view[x]
      /\ view'[v] = FreshView
  BY <1>1, <1>2, <1>3
<1>5. StaysAway(v, view')
  BY <1>1, <1>3, <1>4 DEF StaysAway
<1>6. GoodFocus(focus') /\ focus'.stack = focus.stack
  <2>1. PICK k \in {NoView, Foreign} : focus' = [focus EXCEPT !.keyboard = IF @ = v THEN k ELSE @]
    BY <1>1
  <2>2. CASE focus.keyboard = v
    <3>1. focus' = [focus EXCEPT !.keyboard = k]
      BY <2>1, <2>2
    <3>2. /\ focus' \in [keyboard: Views \cup {NoView, Foreign}, stack: Seq(Views)]
          /\ focus'.keyboard = k /\ focus'.stack = focus.stack
      BY <1>2, <3>1 DEF GoodFocus
    <3>3. k \notin Views /\ k \notin ToSet(focus.stack)
      BY <1>2, FocusedOf, ViewsAssumption
    <3>4. QED
      BY <1>2, <3>2, <3>3 DEF GoodFocus
  <2>3. CASE focus.keyboard # v
    <3>1. focus' = focus
      BY <1>2, <2>1, <2>3 DEF GoodFocus
    <3>2. QED
      BY <1>2, <3>1
  <2>4. QED
    BY <2>2, <2>3
<1>7. QED
  BY <1>1, <1>5, <1>6, AwayStep

LEMMA LayoutChanged ==
    ASSUME NEW lay, NEW vw, LayoutsHold(lay, vw), NEW w \in Workspaces,
           NEW r, NEW new, GoodLayout(Views, r, On(w, new)),
           \A u \in Workspaces : u # w => On(u, new) = On(u, vw)
    PROVE  LayoutsHold([lay EXCEPT ![w] = r], new)
<1> DEFINE q == [lay EXCEPT ![w] = r]
<1>1. r \in [columns: Columns(Views), floats: Seq(Views)]
  BY DEF GoodLayout
<1>2. lay \in [Workspaces -> [columns: Columns(Views), floats: Seq(Views)]]
  BY DEF LayoutsHold
<1>3. q \in [Workspaces -> [columns: Columns(Views), floats: Seq(Views)]]
  BY <1>1, <1>2
<1>4. q[w] = r /\ \A u \in Workspaces : u # w => q[u] = lay[u]
  BY <1>2
<1> HIDE DEF q
<1>5. \A u \in Workspaces : GoodLayout(Views, q[u], On(u, new))
  BY <1>4 DEF LayoutsHold
<1>6. LayoutsHold(q, new)
  BY <1>3, <1>5 DEF LayoutsHold
<1>7. QED
  BY <1>6 DEF q

LEMMA MapViewStep ==
    ASSUME IInv, NEW v \in Views, MapView(v)
    PROVE  IInv'
<1> DEFINE r == AddView(layout[active], v, Focused(focus), FALSE)
<1>1. /\ UNCHANGED <<fullscreen, active, failed>> /\ Mappable(v)
      /\ view' = [view EXCEPT ![v].status = "mapped", ![v].ws = active]
      /\ layout' = [layout EXCEPT ![active] = r]
      /\ focus' = FocusView(focus, v, view', fullscreen)
  BY DEF MapView
<1>2. /\ GoodFullscreen(fullscreen, view) /\ GoodViews(view) /\ view \in [Views -> ViewFields]
      /\ LayoutsHold(layout, view) /\ GoodFocus(focus) /\ StackMapped(focus, view)
      /\ active \in Workspaces
  BY DEF IInv, GoodViews
<1>3. /\ view[v].status # "mapped"
      /\ v \notin Remapped => view[v].expansion # "fullscreen"
  BY <1>1, <1>2 DEF Mappable, GoodFullscreen
<1>4. /\ view' \in [Views -> ViewFields] /\ \A x \in Views : x # v => view'[x] = view[x]
      /\ view'[v].status = "mapped" /\ view'[v].ws = active
      /\ view'[v].expansion = view[v].expansion /\ view'[v].saved = view[v].saved
  BY <1>1, <1>2 DEF ViewFields
<1>5. GoodViews(view')
  BY <1>2, <1>4 DEF GoodViews
<1>6. /\ On(active, view') = On(active, view) \cup {v} /\ v \notin On(active, view)
      /\ \A u \in Workspaces : u # active => On(u, view') = On(u, view)
  BY <1>3, <1>4 DEF On
<1>7. LayoutsHold(layout', view')
  <2>1. GoodLayout(Views, layout[active], On(active, view))
    BY <1>2 DEF LayoutsHold
  <2>2. GoodLayout(Views, r, On(active, view) \cup {v})
    BY <1>6, <2>1, ViewAdded
  <2> HIDE DEF r
  <2>3. GoodLayout(Views, r, On(active, view'))
    BY <1>6, <2>2
  <2>4. LayoutsHold([layout EXCEPT ![active] = r], view')
    BY <1>2, <1>6, <2>3, LayoutChanged
  <2>5. QED
    BY <1>1, <2>4
<1>8. GoodFocus(focus') /\ StackMapped(focus', view')
  <2> DEFINE vw == view'
  <2>a. focus' = FocusView(focus, v, vw, fullscreen) /\ GoodFocus(focus) /\ v \in Views \cup {NoView}
    BY <1>1, <1>2
  <2> HIDE DEF vw
  <2>1. GoodFocus(focus') /\ \A x \in ToSet(focus'.stack) : x = v \/ x \in ToSet(focus.stack)
    BY <2>a, ViewFocused
  <2> USE DEF vw
  <2>2. ToSet(focus.stack) \subseteq Views
    BY <1>2, FocusedOf
  <2>3. QED
    BY <1>2, <1>4, <2>1, <2>2 DEF StackMapped
<1>9. GoodFullscreen(fullscreen', view')
  <2>1. fullscreen' = fullscreen /\ fullscreen \in [Workspaces -> Views \cup {NoView}]
    BY <1>1, <1>2 DEF GoodFullscreen
  <2>2. ASSUME NEW u \in Workspaces, fullscreen[u] # NoView
        PROVE  /\ view'[fullscreen[u]].status = "mapped" /\ view'[fullscreen[u]].ws = u
               /\ view'[fullscreen[u]].expansion = "fullscreen"
    <3>1. /\ fullscreen[u] \in Views
          /\ view[fullscreen[u]].status = "mapped" /\ view[fullscreen[u]].ws = u
          /\ view[fullscreen[u]].expansion = "fullscreen"
      BY <1>2, <2>2 DEF GoodFullscreen
    <3>2. view'[fullscreen[u]] = view[fullscreen[u]]
      BY <1>3, <1>4, <3>1
    <3>3. QED
      BY <3>1, <3>2
  <2>3. \A x \in Views : view'[x].expansion = view[x].expansion /\ view'[x].saved = view[x].saved
    BY <1>4
  <2>4. ASSUME NEW x \in Views \ Remapped, view'[x].expansion = "fullscreen"
        PROVE  /\ view'[x].status \notin {"absent", "new"}
               /\ view'[x].status = "mapped" => fullscreen[view'[x].ws] = x
    <3>1. x # v
      BY <1>3, <2>3, <2>4
    <3>2. QED
      BY <1>2, <1>4, <2>4, <3>1 DEF GoodFullscreen
  <2>5. /\ \A x \in Views : view'[x].expansion = "fullscreen" => view'[x].saved # "none"
        /\ \A x \in Views : view'[x].expansion # "normal" => x \in FullscreenViews
    BY <1>2, <2>3 DEF GoodFullscreen
  <2>6. QED
    BY <2>1, <2>2, <2>4, <2>5 DEF GoodFullscreen
<1>10. QED
  BY <1>1, <1>2, <1>5, <1>7, <1>8, <1>9 DEF IInv

LEMMA UnmapViewStep ==
    ASSUME IInv, NEW v \in Views, UnmapView(v)
    PROVE  IInv'
<1> DEFINE w == view[v].ws
           vw == [view EXCEPT ![v].status = "unmapped"]
           r == RemoveView(layout[w], v)
           full == LostFullscreen(fullscreen, w, v)
           h == HideView(focus, v, vw, full)
           g == RemoveFromFocusStack(h, v)
<1>1. /\ UNCHANGED <<active, failed>> /\ view[v].status = "mapped"
      /\ view' = vw /\ layout' = [layout EXCEPT ![w] = r]
      /\ fullscreen' = full /\ focus' = g
  BY DEF UnmapView, Mapped
<1>2. /\ GoodFullscreen(fullscreen, view) /\ GoodViews(view) /\ view \in [Views -> ViewFields]
      /\ LayoutsHold(layout, view) /\ GoodFocus(focus) /\ StackMapped(focus, view)
  BY DEF IInv, GoodViews
<1>3. w \in Workspaces
  BY <1>1, <1>2 DEF GoodViews
<1>4. /\ vw \in [Views -> ViewFields] /\ \A x \in Views : x # v => vw[x] = view[x]
      /\ vw[v].status = "unmapped" /\ vw[v].ws = w
      /\ vw[v].expansion = view[v].expansion /\ vw[v].saved = view[v].saved
  BY <1>2 DEF ViewFields
<1> HIDE DEF vw
<1>5. GoodViews(vw)
  BY <1>2, <1>4 DEF GoodViews
<1>6. /\ On(w, vw) = On(w, view) \ {v}
      /\ \A u \in Workspaces : u # w => On(u, vw) = On(u, view)
  BY <1>1, <1>4 DEF On
<1>7. LayoutsHold(layout', vw)
  <2>1. GoodLayout(Views, layout[w], On(w, view))
    BY <1>2, <1>3 DEF LayoutsHold
  <2>2. GoodLayout(Views, r, On(w, view) \ {v})
    BY <2>1, ViewRemoved
  <2> HIDE DEF r
  <2>3. GoodLayout(Views, r, On(w, vw))
    BY <1>6, <2>2
  <2>4. LayoutsHold([layout EXCEPT ![w] = r], vw)
    BY <1>2, <1>3, <1>6, <2>3, LayoutChanged
  <2>5. QED
    BY <1>1, <2>4
<1>8. /\ fullscreen \in [Workspaces -> Views \cup {NoView}]
      /\ full \in [Workspaces -> Views \cup {NoView}]
      /\ full[w] = IF fullscreen[w] = v THEN NoView ELSE fullscreen[w]
      /\ \A u \in Workspaces : u # w => full[u] = fullscreen[u]
  <2>1. fullscreen \in [Workspaces -> Views \cup {NoView}]
    BY <1>2 DEF GoodFullscreen
  <2>2. full = [fullscreen EXCEPT ![w] = IF fullscreen[w] = v THEN NoView ELSE fullscreen[w]]
    BY <1>3, <2>1 DEF LostFullscreen
  <2>3. (IF fullscreen[w] = v THEN NoView ELSE fullscreen[w]) \in Views \cup {NoView}
    BY <1>3, <2>1
  <2> HIDE DEF full, w
  <2>4. QED
    BY <1>3, <2>1, <2>2, <2>3
<1> HIDE DEF full, w
<1>9. \A u \in Workspaces : full[u] # NoView => full[u] = fullscreen[u] /\ full[u] # v /\ full[u] \in Views
  <2>1. SUFFICES ASSUME NEW u \in Workspaces, full[u] # NoView
                 PROVE  full[u] = fullscreen[u] /\ full[u] # v /\ full[u] \in Views
    OBVIOUS
  <2>2. full[u] = fullscreen[u] /\ full[u] \in Views
    BY <1>8, <2>1
  <2>3. view[full[u]].ws = u
    BY <1>2, <2>1, <2>2 DEF GoodFullscreen
  <2>4. full[u] # v
    <3>1. CASE u = w
      BY <1>8, <2>1, <3>1
    <3>2. CASE u # w
      BY <2>3, <3>2 DEF w
    <3>3. QED
      BY <3>1, <3>2
  <2>5. QED
    BY <2>2, <2>4
<1>10. GoodFullscreen(full, vw)
  <2>2. ASSUME NEW u \in Workspaces, full[u] # NoView
        PROVE  /\ vw[full[u]].status = "mapped" /\ vw[full[u]].ws = u
               /\ vw[full[u]].expansion = "fullscreen"
    <3>1. full[u] = fullscreen[u] /\ full[u] # v /\ full[u] \in Views
      BY <1>9, <2>2
    <3>2. /\ view[full[u]].status = "mapped" /\ view[full[u]].ws = u
          /\ view[full[u]].expansion = "fullscreen"
      BY <1>2, <2>2, <3>1 DEF GoodFullscreen
    <3>3. vw[full[u]] = view[full[u]]
      BY <1>4, <3>1
    <3>4. QED
      BY <3>2, <3>3
  <2>3. \A x \in Views : vw[x].expansion = view[x].expansion /\ vw[x].saved = view[x].saved
    BY <1>4
  <2>4. ASSUME NEW x \in Views \ Remapped, vw[x].expansion = "fullscreen"
        PROVE  /\ vw[x].status \notin {"absent", "new"}
               /\ vw[x].status = "mapped" => full[vw[x].ws] = x
    <3>1. CASE x = v
      BY <1>4, <3>1
    <3>2. CASE x # v
      <4>1. vw[x] = view[x] /\ view[x].expansion = "fullscreen"
        BY <1>4, <2>4, <3>2
      <4>2. /\ view[x].status \notin {"absent", "new"}
            /\ view[x].status = "mapped" => fullscreen[view[x].ws] = x /\ view[x].ws \in Workspaces
        BY <1>2, <4>1 DEF GoodFullscreen, GoodViews
      <4>3. view[x].status = "mapped" => full[view[x].ws] = x
        BY <1>8, <3>2, <4>2
      <4>4. QED
        BY <4>1, <4>2, <4>3
    <3>3. QED
      BY <3>1, <3>2
  <2>5. /\ \A x \in Views : vw[x].expansion = "fullscreen" => vw[x].saved # "none"
        /\ \A x \in Views : vw[x].expansion # "normal" => x \in FullscreenViews
    BY <1>2, <2>3 DEF GoodFullscreen
  <2>6. QED
    BY <1>8, <2>2, <2>4, <2>5 DEF GoodFullscreen
<1>11. GoodFocus(g) /\ StackMapped(g, vw)
  <2>1. GoodFocus(h) /\ ToSet(h.stack) = ToSet(focus.stack)
    BY <1>2, ViewHidden
  <2>2. ToSet(focus.stack) \subseteq Views
    BY <1>2, FocusedOf
  <2>3. ASSUME FullscreenViews = {}, h.keyboard = v
        PROVE  ToSet(h.stack) \subseteq {v}
    <3>1. ASSUME NEW u \in Workspaces
          PROVE  full[u] = NoView
      <4>1. SUFFICES ASSUME full[u] # NoView PROVE FALSE
        OBVIOUS
      <4>2. full[u] = fullscreen[u] /\ full[u] \in Views
        BY <1>9, <4>1
      <4>3. view[full[u]].expansion = "fullscreen"
        BY <1>2, <4>1, <4>2 DEF GoodFullscreen
      <4>4. full[u] \in FullscreenViews
        BY <1>2, <4>2, <4>3 DEF GoodFullscreen
      <4>5. QED
        BY <2>3, <4>4
    <3>2. ASSUME NEW x \in ToSet(focus.stack) \ {v}
          PROVE  vw[x].status = "mapped" /\ full[vw[x].ws] = NoView
      <4>1. x \in Views /\ view[x].status = "mapped"
        BY <1>2, <2>2 DEF StackMapped
      <4>2. vw[x] = view[x] /\ view[x].ws \in Workspaces
        BY <1>2, <1>4, <4>1 DEF GoodViews
      <4>3. QED
        BY <3>1, <4>1, <4>2
    <3>3. /\ HideView(focus, v, vw, full).keyboard = v /\ Free(focus, v, vw, full)
          /\ GoodFocus(focus)
      BY <1>2, <2>3, <3>2 DEF Free
    <3> HIDE DEF h
    <3>4. focus.keyboard = v /\ (v \in ToSet(focus.stack) => ToSet(focus.stack) \subseteq {v})
      BY <3>3, HiddenLosesKeyboard
    <3>5. CASE focus.stack = <<>>
      <4>1. ToSet(focus.stack) = {}
        BY <3>5 DEF ToSet
      <4>2. QED
        BY <2>1, <4>1
    <3>6. CASE focus.stack # <<>>
      <4>1. v = Head(focus.stack) /\ focus.stack \in Seq(Views)
        BY <1>2, <2>3, <3>4, <3>6 DEF GoodFocus
      <4>2. v \in ToSet(focus.stack)
        BY <3>6, <4>1, LenProperties DEF ToSet
      <4>3. QED
        BY <2>1, <3>4, <4>2
    <3>7. QED
      BY <3>5, <3>6
  <2> HIDE DEF h
  <2>4. GoodFocus(g) /\ ToSet(g.stack) = ToSet(h.stack) \ {v}
    BY <2>1, <2>3, TakenOff
  <2>5. StackMapped(g, vw)
    BY <1>2, <1>4, <2>1, <2>2, <2>4 DEF StackMapped
  <2>6. QED
    BY <2>4, <2>5
<1> HIDE DEF g
<1>12. QED
  BY <1>1, <1>5, <1>7, <1>10, <1>11 DEF IInv

\* change_view_workspace, for a mapped view that goes to another workspace.
LEMMA ChangeViewWorkspaceStep ==
    ASSUME IInv, NEW v \in Views, Mapped(v), NEW w \in Workspaces, ChangeViewWorkspace(v, w)
    PROVE  /\ IInv' /\ view'[v].ws = w
           /\ \A x \in Views : /\ view'[x].status = view[x].status
                               /\ x # v => view'[x].ws = view[x].ws
<1> DEFINE old == view[v].ws
           takes == view[v].expansion = "fullscreen"
           base == IF takes THEN Recovering(w) ELSE view
           vw == [base EXCEPT ![v].ws = w]
           up == [fullscreen EXCEPT ![w] = IF takes THEN v ELSE @]
           full == LostFullscreen(up, old, v)
           a == RemoveView(layout[old], v)
           b == AddView(layout[w], v, NoView, IsFloating(layout[old], v))
           n == LastFocused(focus, {x \in Views : view'[x].ws = old})
<1>1. /\ UNCHANGED <<active, failed>> /\ old # w
      /\ view' = vw /\ layout' = [layout EXCEPT ![old] = a, ![w] = b]
      /\ fullscreen' = full /\ focus' = FocusView(focus, n, view', fullscreen')
  BY DEF ChangeViewWorkspace
<1>2. /\ GoodFullscreen(fullscreen, view) /\ GoodViews(view) /\ view \in [Views -> ViewFields]
      /\ LayoutsHold(layout, view) /\ GoodFocus(focus) /\ StackMapped(focus, view)
  BY DEF IInv, GoodViews
<1>3. old \in Workspaces /\ view[v].status = "mapped"
  BY <1>2 DEF GoodViews, Mapped
<1>4. fullscreen \in [Workspaces -> Views \cup {NoView}] /\ NoView \notin Views
  BY <1>2, ViewsAssumption DEF GoodFullscreen
<1>5. fullscreen[w] # v
  <2>1. SUFFICES ASSUME fullscreen[w] = v PROVE FALSE
    OBVIOUS
  <2>2. view[v].ws = w
    BY <1>2, <1>4, <2>1 DEF GoodFullscreen
  <2>3. QED
    BY <1>1, <2>2
<1> DEFINE full0 == IF takes THEN [fullscreen EXCEPT ![w] = NoView] ELSE fullscreen
<1>6. /\ SamePlaces(base) /\ GoodFullscreen(full0, base) /\ base[v] = view[v]
      /\ base \in [Views -> ViewFields]
  <2>1. CASE takes
    <3>1. base = Recovering(w) /\ full0 = [fullscreen EXCEPT ![w] = NoView]
      BY <2>1
    <3> HIDE DEF base, full0
    <3>2. SamePlaces(base) /\ GoodFullscreen(full0, base) /\ \A x \in Views : x # fullscreen[w] => base[x] = view[x]
      BY <3>1, OldOneRecovers
    <3>3. QED
      BY <1>5, <3>2 DEF SamePlaces
  <2>2. CASE ~takes
    BY <1>2, <2>2 DEF SamePlaces
  <2>3. QED
    BY <2>1, <2>2
<1> HIDE DEF base
<1>7. /\ vw \in [Views -> ViewFields] /\ \A x \in Views : x # v => vw[x] = base[x]
      /\ vw[v].ws = w /\ vw[v].status = "mapped"
      /\ vw[v].expansion = view[v].expansion /\ vw[v].saved = view[v].saved
  BY <1>3, <1>6 DEF ViewFields
<1> HIDE DEF vw
<1>8. \A x \in Views : /\ vw[x].status = view[x].status
                       /\ x # v => vw[x].ws = view[x].ws
  BY <1>3, <1>6, <1>7 DEF SamePlaces
<1>9. GoodViews(vw)
  BY <1>2, <1>7, <1>8 DEF GoodViews
<1>10. /\ On(old, vw) = On(old, view) \ {v}
       /\ On(w, vw) = On(w, view) \cup {v} /\ v \notin On(w, view)
       /\ \A u \in Workspaces : u # w /\ u # old => On(u, vw) = On(u, view)
  BY <1>1, <1>3, <1>7, <1>8 DEF On
<1>11. LayoutsHold(layout', vw)
  <2>1. GoodLayout(Views, layout[old], On(old, view)) /\ GoodLayout(Views, layout[w], On(w, view))
    BY <1>2, <1>3 DEF LayoutsHold
  <2>2. GoodLayout(Views, a, On(old, vw))
    <3>1. GoodLayout(Views, a, On(old, view) \ {v})
      BY <2>1, ViewRemoved
    <3> HIDE DEF a
    <3>2. QED
      BY <1>10, <3>1
  <2>3. GoodLayout(Views, b, On(w, vw))
    <3>1. IsFloating(layout[old], v) \in BOOLEAN
      BY DEF IsFloating, Contains
    <3>2. GoodLayout(Views, b, On(w, view) \cup {v})
      BY <1>10, <2>1, <3>1, ViewAdded
    <3> HIDE DEF b
    <3>3. QED
      BY <1>10, <3>2
  <2> HIDE DEF a, b
  <2>4. a \in [columns: Columns(Views), floats: Seq(Views)] /\ b \in [columns: Columns(Views), floats: Seq(Views)]
    BY <2>2, <2>3 DEF GoodLayout
  <2>5. layout \in [Workspaces -> [columns: Columns(Views), floats: Seq(Views)]]
    BY <1>2 DEF LayoutsHold
  <2>6. /\ layout' \in [Workspaces -> [columns: Columns(Views), floats: Seq(Views)]]
        /\ layout'[old] = a /\ layout'[w] = b
        /\ \A u \in Workspaces : u # w /\ u # old => layout'[u] = layout[u]
    BY <1>1, <1>3, <2>4, <2>5
  <2>7. ASSUME NEW u \in Workspaces
        PROVE  GoodLayout(Views, layout'[u], On(u, vw))
    <3>1. CASE u = old
      BY <2>2, <2>6, <3>1
    <3>2. CASE u = w
      BY <2>3, <2>6, <3>2
    <3>3. CASE u # w /\ u # old
      BY <1>2, <1>10, <2>6, <3>3 DEF LayoutsHold
    <3>4. QED
      BY <3>1, <3>2, <3>3
  <2>8. QED
    BY <2>6, <2>7 DEF LayoutsHold
<1>12. GoodFocus(focus') /\ StackMapped(focus', vw)
  <2>1. n \in Views \cup {NoView} /\ (n # NoView => n \in ToSet(focus.stack))
    BY <1>2, LastFocusedOf
  <2>2. focus' = FocusView(focus, n, vw, full)
    BY <1>1
  <2> HIDE DEF n, full
  <2>3. GoodFocus(focus') /\ \A x \in ToSet(focus'.stack) : (x = n /\ n \in Views) \/ x \in ToSet(focus.stack)
    BY <1>2, <2>1, <2>2, ViewFocused
  <2>4. ToSet(focus.stack) \subseteq Views
    BY <1>2, FocusedOf
  <2>5. QED
    BY <1>2, <1>4, <1>8, <2>1, <2>3, <2>4 DEF StackMapped
<1>13. /\ full0 \in [Workspaces -> Views \cup {NoView}]
       /\ full0[w] = IF takes THEN NoView ELSE fullscreen[w]
       /\ \A u \in Workspaces : u # w => full0[u] = fullscreen[u]
  BY <1>4
<1>14. /\ full \in [Workspaces -> Views \cup {NoView}]
       /\ full[w] = IF takes THEN v ELSE full0[w]
       /\ full[old] = IF full0[old] = v THEN NoView ELSE full0[old]
       /\ \A u \in Workspaces : u # w /\ u # old => full[u] = full0[u]
  <2> DEFINE e == IF takes THEN v ELSE fullscreen[w]
             d == IF up[old] = v THEN NoView ELSE up[old]
  <2>1. up = [fullscreen EXCEPT ![w] = e] /\ e \in Views \cup {NoView}
    BY <1>4
  <2> HIDE DEF e, up, full0
  <2>2. /\ up \in [Workspaces -> Views \cup {NoView}] /\ up[w] = e
        /\ \A u \in Workspaces : u # w => up[u] = fullscreen[u]
    BY <1>4, <2>1
  <2>3. full = [up EXCEPT ![old] = d]
    BY <1>3, <2>2 DEF LostFullscreen
  <2>4. d \in Views \cup {NoView}
    BY <1>3, <2>2
  <2> HIDE DEF d, full, old, takes
  <2>5. /\ full \in [Workspaces -> Views \cup {NoView}] /\ full[old] = d
        /\ \A u \in Workspaces : u # old => full[u] = up[u]
    BY <1>3, <2>2, <2>3, <2>4
  <2>6. up[old] = full0[old]
    BY <1>1, <1>3, <1>13, <2>2
  <2>7. full[old] = IF full0[old] = v THEN NoView ELSE full0[old]
    BY <2>5, <2>6 DEF d
  <2>8. full[w] = IF takes THEN v ELSE full0[w]
    BY <1>1, <1>13, <2>2, <2>5 DEF e
  <2>9. \A u \in Workspaces : u # w /\ u # old => full[u] = full0[u]
    BY <1>13, <2>2, <2>5
  <2>10. QED
    BY <2>5, <2>7, <2>8, <2>9
<1> HIDE DEF full, full0
<1>15. GoodFullscreen(full, vw)
  <2>1. ASSUME NEW u \in Workspaces, full[u] # NoView
        PROVE  /\ vw[full[u]].status = "mapped" /\ vw[full[u]].ws = u
               /\ vw[full[u]].expansion = "fullscreen"
    <3>1. CASE u = w /\ takes
      BY <1>7, <1>14, <3>1
    <3>2. CASE ~(u = w /\ takes)
      <4>1. full[u] = full0[u] /\ full[u] \in Views /\ (u = old => full[u] # v)
        BY <1>14, <2>1, <3>2
      <4>2. /\ base[full[u]].status = "mapped" /\ base[full[u]].ws = u
            /\ base[full[u]].expansion = "fullscreen"
        BY <1>6, <2>1, <4>1 DEF GoodFullscreen
      <4>3. full[u] # v
        BY <1>6, <4>1, <4>2
      <4>4. vw[full[u]] = base[full[u]]
        BY <1>7, <4>1, <4>3
      <4>5. QED
        BY <4>2, <4>4
    <3>3. QED
      BY <3>1, <3>2
  <2>2. \A x \in Views : vw[x].expansion = base[x].expansion /\ vw[x].saved = base[x].saved
    BY <1>6, <1>7
  <2>3. /\ \A x \in Views : vw[x].expansion = "fullscreen" => vw[x].saved # "none"
        /\ \A x \in Views : vw[x].expansion # "normal" => x \in FullscreenViews
    BY <1>6, <2>2 DEF GoodFullscreen
  <2>4. ASSUME NEW x \in Views \ Remapped, vw[x].expansion = "fullscreen"
        PROVE  /\ vw[x].status \notin {"absent", "new"}
               /\ vw[x].status = "mapped" => full[vw[x].ws] = x
    <3>1. CASE x = v
      BY <1>7, <1>14, <2>4, <3>1
    <3>2. CASE x # v
      <4>1. vw[x] = base[x]
        BY <1>7, <3>2
      <4>2. /\ base[x].status \notin {"absent", "new"}
            /\ base[x].status = "mapped" => full0[base[x].ws] = x
        BY <1>6, <2>4, <4>1 DEF GoodFullscreen
      <4>3. ASSUME base[x].status = "mapped"
            PROVE  full[base[x].ws] = x
        <5>1. base[x].ws \in Workspaces /\ full0[base[x].ws] = x
          BY <1>9, <4>1, <4>2, <4>3 DEF GoodViews
        <5>2. CASE base[x].ws = w
          <6>1. ~takes
            BY <1>4, <1>13, <5>1, <5>2
          <6>2. QED
            BY <1>14, <5>1, <5>2, <6>1
        <5>3. CASE base[x].ws = old
          BY <1>14, <3>2, <5>1, <5>3
        <5>4. CASE base[x].ws # w /\ base[x].ws # old
          BY <1>14, <5>1, <5>4
        <5>5. QED
          BY <5>2, <5>3, <5>4
      <4>4. QED
        BY <4>1, <4>2, <4>3
    <3>3. QED
      BY <3>1, <3>2
  <2>5. QED
    BY <1>14, <2>1, <2>3, <2>4 DEF GoodFullscreen
<1>16. QED
  <2>1. IInv'
    BY <1>1, <1>2, <1>9, <1>11, <1>12, <1>15 DEF IInv
  <2>2. QED
    BY <1>1, <1>7, <1>8, <2>1

LEMMA DragFloatingStep ==
    ASSUME IInv, NEW v \in Views, NEW w \in Workspaces, DragFloating(v, w)
    PROVE  IInv'
<1>1. Mapped(v) /\ ChangeViewWorkspace(v, w)
  BY DEF DragFloating
<1>2. QED
  BY <1>1, ChangeViewWorkspaceStep

LEMMA MoveToWorkspaceStep ==
    ASSUME IInv, NEW w \in Workspaces, MoveToWorkspace(w)
    PROVE  IInv'
<1>1. Current # NoView /\ ChangeViewWorkspace(Current, w)
  BY DEF MoveToWorkspace
<1>2. Current \in Views /\ Mapped(Current)
  BY <1>1, CurrentMapped
<1>3. QED
  BY <1>1, <1>2, ChangeViewWorkspaceStep

-----------------------------------------------------------------------------
(* The theorems *)

LEMMA Initially == Init => IInv
<1> SUFFICES ASSUME Init PROVE IInv
  OBVIOUS
<1>1. /\ view = [v \in Views |-> FreshView] /\ layout = [w \in Workspaces |-> Empty]
      /\ fullscreen = [w \in Workspaces |-> NoView] /\ active \in Workspaces
      /\ focus = [keyboard |-> NoView, stack |-> <<>>] /\ failed = "none"
  BY DEF Init
<1>2. FreshView \in ViewFields /\ FreshView.status = "absent" /\ FreshView.expansion = "normal"
  BY DEF FreshView, ViewFields
<1>3. GoodViews(view)
  BY <1>1, <1>2 DEF GoodViews
<1>4. LayoutsHold(layout, view)
  <2>1. Empty = [columns |-> <<>>, floats |-> <<>>]
    BY DEF Empty
  <2>2. GoodLayout(Views, Empty, {})
    BY <2>1 DEF GoodLayout, GoodColumns, Tiled, Columns, IsInjective, ToSet
  <2>3. \A w : On(w, view) = {}
    BY <1>1, <1>2 DEF On
  <2>4. Empty \in [columns: Columns(Views), floats: Seq(Views)]
    BY <2>2 DEF GoodLayout
  <2>5. QED
    BY <1>1, <2>2, <2>3, <2>4 DEF LayoutsHold
<1>5. GoodFocus(focus) /\ StackMapped(focus, view)
  <2>1. focus.stack = <<>> /\ focus.keyboard = NoView /\ ToSet(<<>>) = {} /\ IsInjective(<<>>)
    BY <1>1 DEF ToSet, IsInjective
  <2>2. focus \in [keyboard: Views \cup {NoView, Foreign}, stack: Seq(Views)]
    BY <1>1
  <2>3. QED
    BY <2>1, <2>2 DEF GoodFocus, StackMapped
<1>6. GoodFullscreen(fullscreen, view)
  BY <1>1, <1>2 DEF GoodFullscreen
<1>7. QED
  BY <1>1, <1>3, <1>4, <1>5, <1>6 DEF IInv

LEMMA NextStep ==
    ASSUME IInv, [Next]_vars
    PROVE  IInv'
<1>1. ASSUME NEW v \in Views,
             \/ CreateView(v) \/ MapView(v) \/ UnmapView(v) \/ DestroyView(v)
             \/ RequestFullscreen(v) \/ RequestUnfullscreen(v) \/ CommitSize(v)
             \/ ClickView(v)
             \/ \E w \in Workspaces : DragFloating(v, w)
      PROVE  IInv'
  BY <1>1, CreateViewStep, MapViewStep, UnmapViewStep, DestroyViewStep, RequestFullscreenStep,
     RequestUnfullscreenStep, CommitSizeStep, ClickViewStep, DragFloatingStep
<1>2. ASSUME NEW w \in Workspaces, MoveCursor(w) \/ SwitchWorkspace(w) \/ MoveToWorkspace(w)
      PROVE  IInv'
  BY <1>2, MoveCursorStep, SwitchWorkspaceStep, MoveToWorkspaceStep
<1>3. CASE MapForeign \/ UnmapForeign
  BY <1>3, MapForeignStep, UnmapForeignStep
<1>4. ASSUME NEW d \in {-1, 1}, FocusSideways(d) \/ FocusVertically(d)
      PROVE  IInv'
  BY <1>4, FocusSidewaysStep, FocusVerticallyStep
<1>5. ASSUME NEW dx \in {-1, 0, 1}, NEW dy \in {-1, 0, 1}, MoveCommand(dx, dy)
      PROVE  IInv'
  BY <1>5, MoveCommandStep
<1>6. CASE FocusCycle \/ ToggleFloatingCommand \/ InsertCommand \/ PopCommand
  BY <1>6, FocusCycleStep, ToggleFloatingStep, InsertIntoColumnStep, PopFromColumnStep
<1>7. CASE UNCHANGED vars
  BY <1>7 DEF IInv, vars
<1>8. QED
  BY <1>1, <1>2, <1>3, <1>4, <1>5, <1>6, <1>7 DEF Next

\* No handler and no command breaks the invariant, in whatever order they come.
THEOREM Invariance == Spec => []IInv
<1>1. QED
  BY Initially, NextStep, PTL DEF Spec

\* Every field of every view, layout and list keeps its type.
THEOREM TypeCorrect == Spec => []TypeOK
<1>1. IInv => TypeOK
  BY DEF IInv, TypeOK, GoodViews, LayoutsHold, Columns, GoodFocus, GoodFullscreen
<1>2. QED
  BY <1>1, Invariance, PTL

\* mapped_and_normal_tiles() may read the first tile of any column: no edit of a
\* layout, by a command, a move or an unmap, leaves an empty one.
THEOREM ColumnsHaveTiles == Spec => []NoEmptyColumn
<1>1. IInv => NoEmptyColumn
  BY DEF IInv, LayoutsHold, GoodLayout, GoodColumns, NoEmptyColumn
<1>2. QED
  BY <1>1, Invariance, PTL

\* The raw pointers of Seat::focus_stack are to mapped views, and none is there
\* twice: whatever is focused next is on the desktop.
THEOREM StackOfMappedViews == Spec => []FocusStackSound
<1>1. IInv => FocusStackSound
  BY DEF IInv, GoodFocus, StackMapped, FocusStackSound, Mapped, ToSet
<1>2. QED
  BY <1>1, Invariance, PTL

\* The view that the commands act on has the keyboard, but for the one case in
\* which focus_view denied it to that view.
THEOREM CommandsFollowKeyboard == Spec => []FocusedHoldsKeyboard
<1>1. ASSUME IInv
      PROVE  FocusedHoldsKeyboard
  <2>1. SUFFICES ASSUME Current # NoView, focus.keyboard \in Views, focus.keyboard # Current
                 PROVE  FullscreenViews # {} /\ focus.keyboard \notin ToSet(focus.stack)
    BY DEF FocusedHoldsKeyboard
  <2>2. GoodFocus(focus)
    BY <1>1 DEF IInv
  <2>3. focus.stack # <<>> /\ Current = Head(focus.stack)
    BY <2>1, <2>2, FocusedOf DEF Current
  <2>4. QED
    BY <2>1, <2>2, <2>3 DEF GoodFocus
<1>2. QED
  BY <1>1, Invariance, PTL

\* The fullscreen view of a workspace is on it, fullscreen, and with a size to
\* return to: set_fullscreen_view and toggle_floating may dereference it.
THEOREM FullscreenIsSound == Spec => []FullscreenSound
<1>1. ASSUME IInv, NEW w \in Workspaces, fullscreen[w] # NoView
      PROVE  /\ Mapped(fullscreen[w]) /\ view[fullscreen[w]].ws = w
             /\ view[fullscreen[w]].expansion = "fullscreen"
             /\ view[fullscreen[w]].saved # "none"
  <2>1. GoodFullscreen(fullscreen, view)
    BY <1>1 DEF IInv
  <2>2. fullscreen[w] \in Views
    BY <1>1, <2>1 DEF GoodFullscreen
  <2>3. QED
    BY <1>1, <2>1, <2>2 DEF GoodFullscreen, Mapped
<1>2. IInv => FullscreenSound
  BY <1>1 DEF FullscreenSound
<1>3. QED
  BY <1>2, Invariance, PTL

\* A view that is mapped once is not fullscreen without its workspace knowing:
\* some request or command can always bring it back.
THEOREM FullscreenIsOwned == Spec => []FullscreenOwned
<1>1. IInv => FullscreenOwned
  BY DEF IInv, GoodFullscreen, FullscreenOwned, Mapped
<1>2. QED
  BY <1>1, Invariance, PTL

-----------------------------------------------------------------------------
(* Every view in its place *)

LEMMA SlotIs ==
    ASSUME NEW w, NEW v, NEW s
    PROVE  s \in Slots(w, v) <=>
               \/ \E k \in DOMAIN layout[w].floats : layout[w].floats[k] = v /\ s = <<0, k>>
               \/ \E i \in DOMAIN layout[w].columns : \E k \in DOMAIN layout[w].columns[i] :
                     layout[w].columns[i][k] = v /\ s = <<i, k>>
<1> DEFINE F == layout[w].floats
           C == layout[w].columns
<1>1. Slots(w, v) = {0} \X {k \in DOMAIN F : F[k] = v}
                    \cup UNION {{i} \X {k \in DOMAIN C[i] : C[i][k] = v} : i \in DOMAIN C}
  BY DEF Slots
<1> HIDE DEF F, C
<1>2. s \in {0} \X {k \in DOMAIN F : F[k] = v} <=> \E k \in DOMAIN F : F[k] = v /\ s = <<0, k>>
  OBVIOUS
<1>3. ASSUME NEW i
      PROVE  s \in {i} \X {k \in DOMAIN C[i] : C[i][k] = v}
               <=> \E k \in DOMAIN C[i] : C[i][k] = v /\ s = <<i, k>>
  OBVIOUS
<1>4. s \in UNION {{i} \X {k \in DOMAIN C[i] : C[i][k] = v} : i \in DOMAIN C}
        <=> \E i \in DOMAIN C : s \in {i} \X {k \in DOMAIN C[i] : C[i][k] = v}
  OBVIOUS
<1>5. QED
  BY <1>1, <1>2, <1>3, <1>4 DEF F, C

\* A layout that holds each of its views once has one slot for each of them.
LEMMA OneSlot ==
    ASSUME NEW w, NEW S, GoodLayout(Views, layout[w], S), NEW v
    PROVE  /\ v \in S => \E s : Slots(w, v) = {s}
           /\ v \notin S => Slots(w, v) = {}
<1> DEFINE F == layout[w].floats
           C == layout[w].columns
<1>1. /\ GoodColumns(Views, C) /\ IsInjective(F)
      /\ Tiled(C) \cap ToSet(F) = {} /\ Tiled(C) \cup ToSet(F) = S
  BY DEF GoodLayout
<1>2. \A s : s \in Slots(w, v) <=>
               \/ \E k \in DOMAIN F : F[k] = v /\ s = <<0, k>>
               \/ \E i \in DOMAIN C : \E k \in DOMAIN C[i] : C[i][k] = v /\ s = <<i, k>>
  BY SlotIs
<1> HIDE DEF F, C
<1>3. (\E k \in DOMAIN F : F[k] = v) <=> v \in ToSet(F)
  BY DEF ToSet
<1>4. \A i : (\E k \in DOMAIN C[i] : C[i][k] = v) <=> v \in ToSet(C[i])
  BY DEF ToSet
<1>5. (\E i \in DOMAIN C : \E k \in DOMAIN C[i] : C[i][k] = v) <=> v \in Tiled(C)
  BY <1>4, TilesOf
<1>6. CASE v \notin S
  BY <1>1, <1>2, <1>3, <1>5, <1>6
<1>7. CASE v \in ToSet(F)
  <2>1. v \in S /\ v \notin Tiled(C)
    BY <1>1, <1>7
  <2>2. PICK k \in DOMAIN F : F[k] = v
    BY <1>3, <1>7
  <2>3. \A m \in DOMAIN F : F[m] = v => m = k
    BY <1>1, <2>2 DEF IsInjective
  <2>4. \A s : s \in Slots(w, v) <=> s = <<0, k>>
    BY <1>2, <1>5, <2>1, <2>2, <2>3
  <2>5. Slots(w, v) = {<<0, k>>}
    BY <2>4
  <2>6. QED
    BY <2>1, <2>5
<1>8. CASE v \in Tiled(C)
  <2>1. v \in S /\ v \notin ToSet(F)
    BY <1>1, <1>8
  <2>2. PICK i \in DOMAIN C : v \in ToSet(C[i])
    BY <1>8, TilesOf
  <2>3. PICK k \in DOMAIN C[i] : C[i][k] = v
    BY <1>4, <2>2
  <2>4. \A j \in DOMAIN C : v \in ToSet(C[j]) => j = i
    BY <1>1, <2>2 DEF GoodColumns
  <2>5. \A m \in DOMAIN C[i] : C[i][m] = v => m = k
    BY <1>1, <2>3 DEF GoodColumns, IsInjective
  <2>6. \A j \in DOMAIN C : \A m \in DOMAIN C[j] : C[j][m] = v => j = i /\ m = k
    BY <1>4, <2>4, <2>5
  <2>7. \A s : s \in Slots(w, v) <=> s = <<i, k>>
    BY <1>2, <1>3, <2>1, <2>3, <2>6
  <2>8. Slots(w, v) = {<<i, k>>}
    BY <2>7
  <2>9. QED
    BY <2>1, <2>8
<1>9. QED
  BY <1>1, <1>6, <1>7, <1>8

LEMMA SlotsOf ==
    ASSUME IInv, NEW v \in Views, NEW w \in Workspaces
    PROVE  /\ Mapped(v) /\ view[v].ws = w => \E s : Slots(w, v) = {s}
           /\ ~(Mapped(v) /\ view[v].ws = w) => Slots(w, v) = {}
<1>1. GoodLayout(Views, layout[w], On(w, view))
  BY DEF IInv, LayoutsHold
<1>2. v \in On(w, view) <=> Mapped(v) /\ view[v].ws = w
  BY DEF On, Mapped
<1>3. QED
  BY <1>1, <1>2, OneSlot

\* Whatever maps, moves, floats and unmaps views, a mapped view is in one slot
\* of the workspace that its workspace_id names and in no other, and one that is
\* not mapped is in none.
THEOREM EachInItsPlace == Spec => []PlacedOnce
<1>1. ASSUME IInv, NEW v \in Views, NEW w \in Workspaces
      PROVE  Cardinality(Slots(w, v)) = IF Mapped(v) /\ view[v].ws = w THEN 1 ELSE 0
  <2>1. CASE Mapped(v) /\ view[v].ws = w
    <3>1. PICK s : Slots(w, v) = {s}
      BY <1>1, <2>1, SlotsOf
    <3>2. QED
      BY <2>1, <3>1, FS_Singleton
  <2>2. CASE ~(Mapped(v) /\ view[v].ws = w)
    <3>1. Slots(w, v) = {}
      BY <1>1, <2>2, SlotsOf
    <3>2. QED
      BY <2>2, <3>1, FS_EmptySet
  <2>3. QED
    BY <2>1, <2>2
<1>2. IInv => PlacedOnce
  BY <1>1 DEF PlacedOnce
<1>3. QED
  BY <1>2, Invariance, PTL

-----------------------------------------------------------------------------
(* The desktop implements Placement *)

\* The home that Placement is given: where the layouts hold the view.
PlacementHome ==
    [v \in Views |-> IF \E w \in Workspaces : Slots(w, v) # {}
                     THEN CHOOSE w \in Workspaces : Slots(w, v) # {}
                     ELSE NoWorkspace]

\* The home that each view itself names.
Home(vw) == [v \in Views |-> IF vw[v].status = "mapped" THEN vw[v].ws ELSE NoWorkspace]

\* They agree.
HomesAgree == PlacementHome = Home(view)

LEMMA HomeIs == IInv => PlacementHome = Home(view)
<1>1. ASSUME IInv, NEW v \in Views
      PROVE  PlacementHome[v] = Home(view)[v]
  <2>1. \A w \in Workspaces : Slots(w, v) # {} <=> view[v].status = "mapped" /\ view[v].ws = w
    BY <1>1, SlotsOf DEF Mapped
  <2>2. CASE view[v].status = "mapped"
    <3>1. view[v].ws \in Workspaces
      BY <1>1, <2>2 DEF IInv, GoodViews
    <3>2. \A w \in Workspaces : Slots(w, v) # {} <=> view[v].ws = w
      BY <2>1, <2>2
    <3>3. (CHOOSE w \in Workspaces : Slots(w, v) # {}) = view[v].ws
      BY <3>1, <3>2
    <3>4. PlacementHome[v] = view[v].ws
      BY <3>1, <3>2, <3>3 DEF PlacementHome
    <3>5. QED
      BY <2>2, <3>4 DEF Home
  <2>3. CASE view[v].status # "mapped"
    BY <2>1, <2>3 DEF PlacementHome, Home
  <2>4. QED
    BY <2>2, <2>3
<1>2. QED
  BY <1>1 DEF PlacementHome, Home

LEMMA HomeIsAfter == IInv' => PlacementHome' = Home(view')
<1>1. IInv => HomesAgree
  BY HomeIs DEF HomesAgree
<1>2. IInv' => HomesAgree'
  BY <1>1, PTL
<1>3. QED
  BY <1>2 DEF HomesAgree

\* One view changes home.
LEMMA HomeChanged ==
    ASSUME NEW vw, NEW new, NEW v \in Views,
           \A x \in Views \ {v} : new[x].status = vw[x].status /\ new[x].ws = vw[x].ws
    PROVE  Home(new) = [Home(vw) EXCEPT ![v] = Home(new)[v]]
BY DEF Home

LEMMA HomeKept ==
    ASSUME NEW vw, NEW new,
           \A x \in Views : \/ vw[x].status # "mapped" /\ new[x].status # "mapped"
                            \/ new[x].status = vw[x].status /\ new[x].ws = vw[x].ws
    PROVE  Home(new) = Home(vw)
BY DEF Home

LEMMA Appears ==
    ASSUME IInv, NEW v \in Views, MapView(v)
    PROVE  P!Appear(v)
<1>1. IInv' /\ view \in [Views -> ViewFields]
  BY MapViewStep DEF IInv, GoodViews
<1>2. /\ view[v].status # "mapped" /\ UNCHANGED active
      /\ view' = [view EXCEPT ![v].status = "mapped", ![v].ws = active]
  BY DEF MapView, Mappable
<1>3. /\ view'[v].status = "mapped" /\ view'[v].ws = active
      /\ \A x \in Views \ {v} : view'[x] = view[x]
  BY <1>1, <1>2 DEF ViewFields
<1>4. PlacementHome = Home(view) /\ PlacementHome' = Home(view')
  BY <1>1, HomeIs, HomeIsAfter
<1>5. Home(view') = [Home(view) EXCEPT ![v] = Home(view')[v]]
  BY <1>3, HomeChanged
<1>6. Home(view)[v] = NoWorkspace /\ Home(view')[v] = active
  BY <1>2, <1>3 DEF Home
<1>7. PlacementHome[v] = NoWorkspace /\ PlacementHome' = [PlacementHome EXCEPT ![v] = active]
  BY <1>4, <1>5, <1>6
<1>8. QED
  BY <1>2, <1>7 DEF P!Appear, PlacementHome

LEMMA Leaves ==
    ASSUME IInv, NEW v \in Views, UnmapView(v)
    PROVE  P!Leave(v)
<1>1. IInv' /\ view \in [Views -> ViewFields]
  BY UnmapViewStep DEF IInv, GoodViews
<1>2. UNCHANGED active /\ view' = [view EXCEPT ![v].status = "unmapped"]
  BY DEF UnmapView
<1>3. view'[v].status = "unmapped" /\ \A x \in Views \ {v} : view'[x] = view[x]
  BY <1>1, <1>2 DEF ViewFields
<1>4. PlacementHome = Home(view) /\ PlacementHome' = Home(view')
  BY <1>1, HomeIs, HomeIsAfter
<1>5. Home(view') = [Home(view) EXCEPT ![v] = Home(view')[v]]
  BY <1>3, HomeChanged
<1>6. Home(view')[v] = NoWorkspace
  BY <1>3 DEF Home
<1>7. PlacementHome' = [PlacementHome EXCEPT ![v] = NoWorkspace]
  BY <1>4, <1>5, <1>6
<1>8. QED
  BY <1>2, <1>7 DEF P!Leave, PlacementHome

LEMMA Moves ==
    ASSUME IInv, NEW v \in Views, Mapped(v), NEW w \in Workspaces, ChangeViewWorkspace(v, w)
    PROVE  P!Move(v, w)
<1>1. /\ IInv' /\ view'[v].ws = w /\ view'[v].status = view[v].status
      /\ \A x \in Views \ {v} : view'[x].status = view[x].status /\ view'[x].ws = view[x].ws
  BY ChangeViewWorkspaceStep
<1>2. UNCHANGED active
  BY DEF ChangeViewWorkspace
<1>3. view[v].status = "mapped" /\ view[v].ws \in Workspaces
  BY DEF IInv, GoodViews, Mapped
<1>4. PlacementHome = Home(view) /\ PlacementHome' = Home(view')
  BY <1>1, HomeIs, HomeIsAfter
<1>5. Home(view') = [Home(view) EXCEPT ![v] = Home(view')[v]]
  <2>1. \A x \in Views \ {v} : view'[x].status = view[x].status /\ view'[x].ws = view[x].ws
    BY <1>1
  <2>2. QED
    BY <2>1, HomeChanged
<1>6. Home(view)[v] # NoWorkspace /\ Home(view')[v] = w
  BY <1>1, <1>3, WorkspacesAssumption DEF Home
<1>7. PlacementHome[v] # NoWorkspace /\ PlacementHome' = [PlacementHome EXCEPT ![v] = w]
  BY <1>4, <1>5, <1>6
<1>8. QED
  BY <1>2, <1>7 DEF P!Move, PlacementHome

LEMMA Looks ==
    ASSUME IInv, NEW w \in Workspaces, MoveCursor(w) \/ SwitchWorkspace(w)
    PROVE  P!Look(w)
<1>1. IInv' /\ active' = w /\ UNCHANGED view
  BY MoveCursorStep, SwitchWorkspaceStep DEF MoveCursor, SwitchWorkspace
<1>2. PlacementHome = Home(view) /\ PlacementHome' = Home(view')
  BY <1>1, HomeIs, HomeIsAfter
<1>3. PlacementHome' = PlacementHome
  BY <1>1, <1>2
<1>4. QED
  BY <1>1, <1>3 DEF P!Look, PlacementHome

\* The steps that take no view anywhere.
LEMMA Stays ==
    ASSUME IInv, IInv', UNCHANGED active,
           \A x \in Views : \/ view[x].status # "mapped" /\ view'[x].status # "mapped"
                            \/ view'[x].status = view[x].status /\ view'[x].ws = view[x].ws
    PROVE  UNCHANGED <<PlacementHome, active>>
<1>1. PlacementHome = Home(view) /\ PlacementHome' = Home(view')
  BY HomeIs, HomeIsAfter
<1>2. Home(view') = Home(view)
  BY HomeKept
<1>3. QED
  BY <1>1, <1>2

LEMMA LifeStays ==
    ASSUME IInv, NEW v \in Views, CreateView(v) \/ DestroyView(v)
    PROVE  UNCHANGED <<PlacementHome, active>>
<1>1. IInv' /\ UNCHANGED active
  BY CreateViewStep, DestroyViewStep DEF CreateView, DestroyView
<1>2. view \in [Views -> ViewFields]
  BY DEF IInv, GoodViews
<1>3. view[v].status # "mapped" /\ view'[v].status # "mapped"
      /\ \A x \in Views \ {v} : view'[x] = view[x]
  <2>1. CASE CreateView(v)
    BY <1>2, <2>1 DEF CreateView, ViewFields
  <2>2. CASE DestroyView(v)
    BY <1>2, <2>2 DEF DestroyView, FreshView
  <2>3. QED
    BY <2>1, <2>2
<1>4. QED
  BY <1>1, <1>3, Stays

LEMMA SizeStays ==
    ASSUME IInv, NEW v \in Views,
           RequestFullscreen(v) \/ RequestUnfullscreen(v) \/ CommitSize(v)
    PROVE  UNCHANGED <<PlacementHome, active>>
<1>1. UNCHANGED active
  BY DEF RequestFullscreen, RequestUnfullscreen, CommitSize
<1>2. IInv' /\ SamePlaces(view')
  BY RequestFullscreenStep, RequestUnfullscreenStep, CommitSizeStep
<1>3. QED
  BY <1>1, <1>2, Stays DEF SamePlaces

LEMMA ViewsStay ==
    ASSUME IInv, IInv', UNCHANGED <<view, active>>
    PROVE  UNCHANGED <<PlacementHome, active>>
BY Stays

\* Each step of the desktop is one of Placement, or none of its business.
LEMMA PlacementStep ==
    ASSUME IInv, [Next]_vars
    PROVE  [P!Next]_<<PlacementHome, active>>
<1>0. IInv'
  BY NextStep
<1>1. ASSUME NEW v \in Views, MapView(v) \/ UnmapView(v)
      PROVE  P!Next
  BY <1>1, Appears, Leaves DEF P!Next
<1>2. ASSUME NEW v \in Views, NEW w \in Workspaces, Mapped(v), ChangeViewWorkspace(v, w)
      PROVE  P!Next
  BY <1>2, Moves DEF P!Next
<1>3. ASSUME NEW v \in Views, NEW w \in Workspaces, DragFloating(v, w)
      PROVE  P!Next
  BY <1>2, <1>3 DEF DragFloating
<1>4. ASSUME NEW w \in Workspaces, MoveToWorkspace(w)
      PROVE  P!Next
  <2>1. Current # NoView /\ ChangeViewWorkspace(Current, w)
    BY <1>4 DEF MoveToWorkspace
  <2>2. Current \in Views /\ Mapped(Current)
    BY <2>1, CurrentMapped
  <2>3. QED
    BY <1>2, <2>1, <2>2
<1>5. ASSUME NEW w \in Workspaces, MoveCursor(w) \/ SwitchWorkspace(w)
      PROVE  P!Next
  BY <1>5, Looks DEF P!Next
<1>6. ASSUME NEW v \in Views,
             \/ CreateView(v) \/ DestroyView(v)
             \/ RequestFullscreen(v) \/ RequestUnfullscreen(v) \/ CommitSize(v)
      PROVE  UNCHANGED <<PlacementHome, active>>
  BY <1>6, LifeStays, SizeStays
<1>7. ASSUME NEW v \in Views, ClickView(v)
      PROVE  UNCHANGED <<PlacementHome, active>>
  BY <1>0, <1>7, ViewsStay DEF ClickView
<1>8. ASSUME NEW d \in {-1, 1}, FocusSideways(d) \/ FocusVertically(d)
      PROVE  UNCHANGED <<PlacementHome, active>>
  BY <1>0, <1>8, ViewsStay DEF FocusSideways, FocusVertically
<1>9. ASSUME NEW dx, NEW dy, MoveCommand(dx, dy)
      PROVE  UNCHANGED <<PlacementHome, active>>
  BY <1>0, <1>9, ViewsStay DEF MoveCommand
<1>10. CASE MapForeign \/ UnmapForeign \/ FocusCycle \/ InsertCommand \/ PopCommand
  BY <1>0, <1>10, ViewsStay DEF MapForeign, UnmapForeign, FocusCycle, InsertCommand, PopCommand
<1>11. CASE ToggleFloatingCommand
  <2>1. UNCHANGED active /\ SamePlaces(view')
    BY <1>11, ToggleFloatingStep DEF ToggleFloatingCommand
  <2>2. QED
    BY <1>0, <2>1, Stays DEF SamePlaces
<1>12. CASE UNCHANGED vars
  BY <1>0, <1>12, ViewsStay DEF vars
<1>13. QED
  BY <1>1, <1>3, <1>4, <1>5, <1>6, <1>7, <1>8, <1>9, <1>10, <1>11, <1>12 DEF Next

\* Map, unmap, the drag and the commands together keep what Placement promises:
\* a view appears on the workspace under the cursor, and a step takes at most one
\* view from one workspace to another.
THEOREM DesktopImplementsPlacement == Spec => ImplementsPlacement
<1>1. Init => P!Init
  <2>1. ASSUME Init
        PROVE  PlacementHome = [v \in Views |-> NoWorkspace] /\ active \in Workspaces
    <3>1. PlacementHome = Home(view)
      BY <2>1, Initially, HomeIs
    <3>2. view = [v \in Views |-> FreshView] /\ FreshView.status = "absent" /\ active \in Workspaces
      BY <2>1 DEF Init, FreshView
    <3>3. QED
      BY <3>1, <3>2 DEF Home
  <2>2. QED
    BY <2>1 DEF P!Init, PlacementHome
<1>2. IInv /\ [Next]_vars => [P!Next]_<<PlacementHome, active>>
  BY PlacementStep
<1>3. QED
  BY <1>1, <1>2, Invariance, PTL DEF Spec, ImplementsPlacement, P!Spec, PlacementHome
=============================================================================
