------------------------------ MODULE Viewport ------------------------------
(***************************************************************************)
(* The plane of one workspace and the viewport that scrolls over it: where *)
(* Workspace::arrange_workspace puts the columns, how far                  *)
(* fit_view_on_screen scrolls to show a view, and which view               *)
(* find_dominant_view settles on after a swipe, while clients commit the   *)
(* widths they like and panels take parts of the output.                   *)
(*                                                                         *)
(* Positions are View::target_x, the animation towards it being left out;  *)
(* every change of the plane ends in arrange_workspace, so they are a      *)
(* function of the plane.  Heights and a change of the gap are left out.   *)
(* The workspace is alone, its output begins at the top of the layout of   *)
(* outputs, a view is mapped once, and a fullscreen view, which denies the *)
(* focus to others, has no dialogs: Desktop has all of these.              *)
(***************************************************************************)
EXTENDS Layout, FiniteSets, FiniteSetsExt, Functions

CONSTANTS
    Views,
    OutputX,       \* where the output begins in the layout of outputs
    OutputWidth,
    OutputHeight,
    Areas,         \* the usable areas that panels may leave: [x, width]
    Gap,           \* Config::gap
    Widths,        \* of the views, as their clients commit them
    Scrolls,       \* where a swipe or a drag leaves the viewport
    MaxEdits,      \* bounds the changes of the plane besides map and unmap
    None

ASSUME SizesAssumption ==
    /\ OutputX \in Nat /\ Gap \in Nat
    /\ OutputWidth \in 100..9999 /\ OutputHeight \in Nat \ {0}
    /\ Widths \subseteq Nat \ {0} /\ Scrolls \subseteq Int
    /\ MaxEdits \in Nat
    /\ Areas \subseteq [x: Nat, width: Nat] /\ Areas # {}

ASSUME NoneAssumption == None \notin Views

VARIABLES
    plane,     \* the workspace: layout, each view's status and the width of
               \* its geometry; and Output::usable_area
    scroll,    \* Workspace::scroll_x
    stack,     \* Seat::focus_stack; its first view has the focus
    fitted,    \* the view the step fitted on the screen last, or None
    stopped,   \* find_dominant_view has followed a null pointer
    edits      \* how often the plane has been changed so far

vars == <<plane, scroll, stack, fitted, stopped, edits>>

\* View::cycle_width: 1 - 1/phi, 1/2 and 1/phi, in 10000ths
Ratios == <<3819, 5000, 6181>>

CycleWidths == [i \in 1..3 |-> (OutputWidth * Ratios[i]) \div 10000]

MappedViews(p) == {v \in Views : p.status[v] \notin {"new", "gone"}}

\* is_mapped_and_normal is "normal"; "recovering" has left fullscreen and not
\* committed since.
TypeOK ==
    /\ plane.status \in [Views -> {"new", "normal", "fullscreen", "recovering", "gone"}]
    /\ plane.width \in [Views -> Widths \cup Range(CycleWidths) \cup {0}]
    /\ plane.area \in Areas
    /\ Held(plane.layout) = MappedViews(plane)
    /\ scroll \in Int
    /\ ToSet(stack) \subseteq MappedViews(plane) /\ IsInjective(stack)
    /\ fitted \in MappedViews(plane) \cup {None}
    /\ stopped \in BOOLEAN /\ edits \in 0..MaxEdits

Init ==
    /\ \E a \in Areas :
         plane = [layout |-> Empty, status |-> [v \in Views |-> "new"],
                  width |-> [v \in Views |-> 0], area |-> a]
    /\ scroll = 0 /\ stack = <<>> /\ fitted = None /\ stopped = FALSE /\ edits = 0

-----------------------------------------------------------------------------
\* Column::mapped_and_normal_tiles, the first and the last of them
Tiles(p, i) == {v \in ToSet(p.layout.columns[i]) : p.status[v] = "normal"}

TopTile(p, i) ==
    LET c == p.layout.columns[i] IN c[SelectInSeq(c, LAMBDA v : v \in Tiles(p, i))]

BottomTile(p, i) ==
    LET c == p.layout.columns[i] IN c[SelectLastInSeq(c, LAMBDA v : v \in Tiles(p, i))]

ColumnWidth(p, i) == Max({p.width[v] : v \in Tiles(p, i)} \cup {0})

Before(p, v) == 1..(FindColumn(p.layout, v) - 1)

\* What the two loops over the columns accumulate from the share s of each
Total(s) ==
    LET acc[i \in 0..Len(s)] == IF i = 0 THEN 0 ELSE acc[i - 1] + s[i]
    IN  acc[Len(s)]

\* Workspace::arrange_workspace: a column is as wide as its widest tile, and
\* one that shows no tile takes up its gap.
Arranged(p, v) == Total([i \in Before(p, v) |-> ColumnWidth(p, i) + Gap])

\* Mutant: the gaps are forgotten.
WxWithoutGaps(p, v) ==
    Total([i \in Before(p, v) |-> IF Tiles(p, i) = {} THEN 0 ELSE p.width[BottomTile(p, i)]])

\* Workspace::get_view_wx: a column is as wide as its last tile, and one that
\* shows no tile is not there.
Wx(p, v) ==
    Total([i \in Before(p, v) |->
             IF Tiles(p, i) = {} THEN 0 ELSE p.width[BottomTile(p, i)] + Gap])

\* View::target_x + geometry.x under scroll s
X(p, s, v) == OutputX + Arranged(p, v) - s

Fits(p, v) == p.status[v] = "normal" /\ FindColumn(p.layout, v) # 0

\* Mutant: a view that is flush with the right edge is scrolled, too.
OverflowsFlush(x, w, a) == x < 0 \/ x + w >= a.x + a.width

\* The left edge is compared in the layout of outputs, the right in the output.
Overflows(x, w, a) == x < 0 \/ x + w > a.x + a.width

\* Mutant: the view is aligned with the screen, panel or not.
AlignLeftOfScreen(p, wx) == wx - Gap \div 2

\* scroll_x that puts wx at the left end of the usable area
AlignLeft(p, wx) == wx - p.area.x - Gap \div 2

\* Workspace::fit_view_on_screen of a view that Fits: the new scroll_x.
Fit(p, s, v, condense) ==
    LET a == p.area
        w == p.width[v]
        x == X(p, s, v)
        i == FindColumn(p.layout, v)
        right == Wx(p, v) + w - (a.x + a.width) + Gap \div 2
    IN  CASE condense /\ i = 1 -> AlignLeft(p, 0)
          [] condense /\ i # 1 /\ i = Len(p.layout.columns) -> right
          [] OTHER ->
               CASE ~Overflows(x, w, a) -> s
                 [] Overflows(x, w, a) /\ x < OutputX + a.x -> AlignLeft(p, Wx(p, v))
                 [] Overflows(x, w, a) /\ x >= OutputX + a.x
                      /\ x + w >= OutputX + a.x + a.width -> right
                 [] OTHER -> s

FitView(p, s, v, condense) ==
    /\ plane' = p
    /\ scroll' = IF Fits(p, v) THEN Fit(p, s, v, condense) ELSE s
    /\ fitted' = IF Fits(p, v) THEN v ELSE None

OnlyArrange(p) == plane' = p /\ fitted' = None /\ UNCHANGED scroll

\* Mutant: a view that is in the focus stack is put there again.
FocusTwice(p, s, st, v, condense) == FitView(p, s, v, condense) /\ stack' = <<v>> \o st

\* Seat::focus_view, when the plane is p and the stack st: a fullscreen view
\* denies the focus to any other, unless the other has it already.
FocusView(p, s, st, v, condense) ==
    IF (st = <<>> \/ Head(st) # v) /\ \E u \in Views \ {v} : p.status[u] = "fullscreen"
    THEN plane' = p /\ scroll' = s /\ fitted' = None /\ stack' = st
    ELSE FitView(p, s, v, condense) /\ stack' = <<v>> \o RemoveFirst(st, v)

Edit == edits < MaxEdits /\ edits' = edits + 1

-----------------------------------------------------------------------------
\* SurfaceManager::map_view
MapView(v, w) ==
    LET next == IF stack = <<>> THEN None ELSE Head(stack)
    IN  /\ ~stopped /\ plane.status[v] = "new"
        /\ FocusView([plane EXCEPT !.layout = AddView(@, v, next, FALSE),
                                   !.status[v] = "normal", !.width[v] = w],
                     scroll, stack, v, FALSE)
        /\ UNCHANGED <<stopped, edits>>

\* SurfaceManager::unmap_view; hide_view brings the next view to the border.
UnmapView(v) ==
    LET p == [plane EXCEPT !.layout = RemoveView(@, v), !.status[v] = "gone", !.width[v] = 0]
        rest == RemoveFirst(stack, v)
    IN  /\ ~stopped /\ v \in MappedViews(plane)
        /\ IF stack # <<>> /\ Head(stack) = v /\ rest # <<>>
           THEN \/ /\ \A u \in Views \ {v, Head(rest)} : plane.status[u] # "fullscreen"
                   /\ FitView(p, scroll, Head(rest), TRUE)
                \/ /\ \E u \in Views \ {v, Head(rest)} : plane.status[u] = "fullscreen"
                   /\ OnlyArrange(p)
           ELSE OnlyArrange(p)
        /\ stack' = rest
        /\ UNCHANGED <<stopped, edits>>

\* Whatever gives the focus to a view: a click, a command, another window
Focus(v) ==
    /\ ~stopped /\ v \in MappedViews(plane)
    /\ FocusView(plane, scroll, stack, v, FALSE)
    /\ UNCHANGED <<stopped, edits>>

\* surface_commit_handler of a view whose geometry has changed
Commit(v, w) ==
    /\ ~stopped /\ v \in MappedViews(plane)
    /\ OnlyArrange([plane EXCEPT !.width[v] = w,
                       !.status[v] = IF @ = "recovering" THEN "normal" ELSE @])
    /\ Edit
    /\ UNCHANGED <<stack, stopped>>

\* set_fullscreen_view with v, if it is normal (save_state asserts it), and
\* with none
RequestFullscreen(v) ==
    /\ ~stopped /\ plane.status[v] = "normal"
    /\ OnlyArrange([plane EXCEPT !.status =
         [u \in Views |-> CASE u = v -> "fullscreen"
                            [] u # v /\ @[u] = "fullscreen" -> "recovering"
                            [] OTHER -> @[u]]])
    /\ Edit
    /\ UNCHANGED <<stack, stopped>>

RequestUnfullscreen(v) ==
    /\ ~stopped /\ plane.status[v] = "fullscreen"
    /\ OnlyArrange([plane EXCEPT !.status[v] = "recovering"])
    /\ Edit
    /\ UNCHANGED <<stack, stopped>>

\* commands::move of the focused view; what is fitted is its column's top tile.
MoveCommand(dx, dy) ==
    LET v == Head(stack)
        p == [plane EXCEPT !.layout = MoveTile(@, v, dx, dy)]
    IN  /\ ~stopped /\ stack # <<>> /\ FindColumn(plane.layout, v) # 0
        /\ FitView(p, scroll, Head(p.layout.columns[FindColumn(p.layout, v)]), FALSE)
        /\ Edit
        /\ UNCHANGED <<stack, stopped>>

\* commands::insert_into_column: the first tile of the next column joins the
\* focused view's and takes on its width.
InsertCommand ==
    LET v == Head(stack)
        i == FindColumn(plane.layout, v)
        u == TopTile(plane, i + 1)
    IN  /\ ~stopped /\ stack # <<>>
        /\ i # 0 /\ i < Len(plane.layout.columns) /\ Tiles(plane, i + 1) # {}
        /\ OnlyArrange([plane EXCEPT !.layout = InsertIntoColumn(@, u, v),
                                     !.width[u] = ColumnWidth(plane, i)])
        /\ Edit
        /\ UNCHANGED <<stack, stopped>>

\* commands::pop_from_column
PopCommand ==
    LET v == Head(stack)
        i == FindColumn(plane.layout, v)
    IN  /\ ~stopped /\ stack # <<>> /\ plane.status[v] = "normal" /\ i # 0
        /\ FitView([plane EXCEPT !.layout = PopFromColumn(@, i)], scroll, v, FALSE)
        /\ Edit
        /\ UNCHANGED <<stack, stopped>>

\* commands::toggle_floating: the view last focused before closes the hole.
ToggleFloatingCommand ==
    LET v == Head(stack)
        p == [plane EXCEPT !.layout = ToggleFloating(@, v)]
    IN  /\ ~stopped /\ stack # <<>>
        /\ CASE IsFloating(plane.layout, v) -> FitView(p, scroll, v, FALSE)
             [] ~IsFloating(plane.layout, v) /\ Len(stack) > 1 ->
                  FitView(p, scroll, stack[2], TRUE)
             [] OTHER -> OnlyArrange(p)
        /\ Edit
        /\ UNCHANGED <<stack, stopped>>

\* The ratios above that of w to the output's width
Above(w) == {k \in 1..3 : Ratios[k] * OutputWidth > w * 10000}

\* Mutant: a width close to one of the three is not taken for it.
CycledStrictly(w) == {CycleWidths[IF Above(w) = {} THEN 1 ELSE Min(Above(w))]}

\* The ratio of w to the output's width is within a hundredth of the k-th.
Near(w, k) ==
    LET d == w * 10000 - Ratios[k] * OutputWidth
    IN  d < 100 * OutputWidth /\ -d < 100 * OutputWidth

\* View::cycle_width from w: the next larger of the three, or the one after
\* that if w is near.  Past all three, the comparison reads ratios[3], which
\* may turn out either way.
Cycled(w) ==
    IF Above(w) = {}
    THEN {CycleWidths[1], CycleWidths[2]}
    ELSE LET i == Min(Above(w))
         IN  {CycleWidths[IF Near(w, i) THEN (i % 3) + 1 ELSE i]}

\* commands::cycle_width, which sets the geometry before the client does
CycleWidthCommand ==
    /\ ~stopped /\ stack # <<>>
    /\ \E w \in Cycled(plane.width[Head(stack)]) :
         FitView([plane EXCEPT !.width[Head(stack)] = w], scroll, Head(stack), TRUE)
    /\ Edit
    /\ UNCHANGED <<stack, stopped>>

\* arrange_layers, when a panel has come, gone or changed
ArrangeLayers(a) ==
    LET p == [plane EXCEPT !.area = a]
    IN  /\ ~stopped /\ plane.area # a
        /\ IF stack = <<>> THEN OnlyArrange(p) ELSE FitView(p, scroll, Head(stack), FALSE)
        /\ Edit
        /\ UNCHANGED <<stack, stopped>>

-----------------------------------------------------------------------------
AtLeast0(n) == Max({n, 0})

\* How much of a segment of the given width at x is in the usable area
Overlap(p, x, w) ==
    AtLeast0(Min({x + w, OutputX + p.area.x + p.area.width}) - Max({x, OutputX + p.area.x}))

\* Mutant: what is covered is not set in relation to the width.
CoveredPixels(p, s, i) ==
    LET v == TopTile(p, i)
    IN  IF Tiles(p, i) = {} THEN 0 ELSE Overlap(p, X(p, s, v), p.width[v])

\* The visibility of column i in find_dominant_view, in thousandths, rounded
\* up.  The box that stands for the column hangs at the y coordinate that is
\* the x coordinate of the usable area.
Coverage(p, s, i) ==
    LET v == TopTile(p, i)
        rows == AtLeast0(OutputHeight - (OutputX + p.area.x))
        share == (1000 * Overlap(p, X(p, s, v), p.width[v]) + p.width[v] - 1) \div p.width[v]
    IN  IF Tiles(p, i) = {} \/ p.width[v] = 0
        THEN 0
        ELSE (share * rows + OutputHeight - 1) \div OutputHeight

\* Workspace::find_dominant_view, if it returns: the focused view unless the
\* tiles of another column are better covered by more than a hundredth.
Dominant(p, s) ==
    LET columns == DOMAIN p.layout.columns
        most == Max({Coverage(p, s, i) : i \in columns} \cup {0})
        best == Min({i \in columns : Coverage(p, s, i) = most})
        mine == IF Fits(p, Head(stack)) THEN Coverage(p, s, FindColumn(p.layout, Head(stack))) ELSE 0
        k == SelectInSeq(stack, LAMBDA v : v \in Tiles(p, best))
    IN  CASE stack = <<>> -> None
          [] stack # <<>> /\ (most - mine <= 10 \/ k = 0) -> Head(stack)
          [] OTHER -> stack[k]

Lost(p, s) == stack = <<>> /\ \A i \in DOMAIN p.layout.columns : Coverage(p, s, i) = 0

\* A tile dragged with the mouse, or fingers that have not been lifted yet
Scroll(s) ==
    /\ ~stopped /\ scroll' = s /\ fitted' = None
    /\ UNCHANGED <<plane, stack, stopped, edits>>

\* The last frame of a swipe, in Seat::update_swipe
Swipe(s) ==
    /\ ~stopped
    /\ CASE Lost(plane, s) ->
              stopped' = TRUE /\ scroll' = s /\ fitted' = None /\ UNCHANGED <<plane, stack>>
         [] ~Lost(plane, s) /\ Dominant(plane, s) = None ->
              scroll' = s /\ fitted' = None /\ UNCHANGED <<plane, stack, stopped>>
         [] OTHER ->
              FocusView(plane, s, stack, Dominant(plane, s), FALSE) /\ UNCHANGED stopped
    /\ UNCHANGED edits

\* Nothing is said of what the program does then.
Stopped == stopped /\ UNCHANGED vars

Next ==
    \/ \E v \in Views, w \in Widths : MapView(v, w)
    \/ \E v \in Views : UnmapView(v)
    \/ \E v \in Views : Focus(v)
    \/ \E v \in Views, w \in Widths : Commit(v, w)
    \/ \E v \in Views : RequestFullscreen(v)
    \/ \E v \in Views : RequestUnfullscreen(v)
    \/ \E dx, dy \in {-1, 0, 1} : MoveCommand(dx, dy)
    \/ InsertCommand
    \/ PopCommand
    \/ ToggleFloatingCommand
    \/ CycleWidthCommand
    \/ \E a \in Areas : ArrangeLayers(a)
    \/ \E s \in Scrolls : Scroll(s)
    \/ \E s \in Scrolls : Swipe(s)
    \/ Stopped

Spec == Init /\ [][Next]_vars

-----------------------------------------------------------------------------
\* Where get_view_wx agrees with arrange_workspace: left of the view each
\* column shows a tile, and the bottom one is its widest.
Even(p, v) ==
    \A i \in Before(p, v) :
        /\ Tiles(p, i) # {}
        /\ p.width[BottomTile(p, i)] = ColumnWidth(p, i)

Room(p, v) == p.width[v] + Gap \div 2 <= p.area.width

(* FittedOnScreen: on the output at the origin, a view that has been fitted *)
(* (because it was focused, moved, popped, cycled, or is what is left of a  *)
(* hole, or a panel came) is all on the screen, "there are no off-screen    *)
(* parts of it" (Workspace.h:178), and not under a panel on the right, if   *)
(* there is room for it.  Under a panel on the left it may stay: 0 is what  *)
(* Workspace.cpp:269 compares its left edge with.                           *)
FittedOnScreen ==
    fitted # None /\ OutputX = 0 /\ Even(plane, fitted) /\ Room(plane, fitted) =>
        LET x == X(plane, scroll, fitted)
        IN  0 <= x /\ x + plane.width[fitted] <= plane.area.x + plane.area.width

\* FittedOnScreen without its provisos but the room.
FittedAnywhere ==
    fitted # None /\ Room(plane, fitted) =>
        LET x == X(plane, scroll, fitted) - OutputX
        IN  0 <= x /\ x + plane.width[fitted] <= plane.area.x + plane.area.width

(* ScrolledClear: if the viewport has been moved to fit a view, other than  *)
(* at the end of a swipe, the view is not under a panel on the left either. *)
ScrolledClear ==
    [][/\ fitted' # None /\ scroll' # scroll /\ \A s \in Scrolls : ~Swipe(s)
       /\ OutputX = 0 /\ Even(plane', fitted') /\ Room(plane', fitted')
       => plane'.area.x <= X(plane', scroll', fitted')]_vars

(* JustEnough: giving the focus to a view that is all inside the usable     *)
(* area does not scroll, flush with an edge or not: the viewport moves      *)
(* "just enough" (Workspace.h:177).                                         *)
JustEnough ==
    [][\A v \in Views :
         LET x == X(plane, scroll, v)
         IN  /\ fitted' = v /\ Focus(v) /\ OutputX = 0 /\ FindColumn(plane.layout, v) # 0
             /\ plane.area.x <= x
             /\ x + plane.width[v] <= plane.area.x + plane.area.width
             => scroll' = scroll]_vars

(* WidthsCycle: cycle_width, repeated, goes through the three widths, though *)
(* each is cut to whole pixels and then compared with the ratio again.       *)
WidthsCycle ==
    [][\A v \in Views, i \in 1..3 :
         /\ edits' # edits /\ CycleWidthCommand
         /\ Head(stack) = v /\ plane.width[v] = CycleWidths[i]
         => plane'.width[v] = CycleWidths[(i % 3) + 1]]_vars

\* The share of column i's width that is in the usable area, in thousandths.
Share(p, s, i) ==
    LET v == TopTile(p, i)
    IN  IF Tiles(p, i) = {} \/ p.width[v] = 0
        THEN 0
        ELSE (1000 * Overlap(p, X(p, s, v), p.width[v])) \div p.width[v]

(* SwipeSettles: after a swipe, no column shows much more of its width than *)
(* the one that has the focus then, when every view has had the focus       *)
(* before and none is fullscreen: find_dominant_view is to return the view  *)
(* "that has most coverage as a ratio of its width" (Workspace.h:185).      *)
SwipeSettles ==
    [][\A s \in Scrolls :
         /\ edits' = edits /\ plane' = plane /\ OutputX = 0
         /\ ToSet(stack) = MappedViews(plane)
         /\ \A v \in Views : plane.status[v] # "fullscreen"
         /\ Swipe(s)
         => LET f == FindColumn(plane.layout, Head(stack'))
                mine == IF stack' # <<>> /\ f # 0 THEN Share(plane, s, f) ELSE 0
            IN  \A i \in DOMAIN plane.layout.columns : Share(plane, s, i) <= mine + 15]_vars
=============================================================================
