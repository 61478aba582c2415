------------------------------ MODULE Desktop ------------------------------
(***************************************************************************)
(* The life of views on the desktop: mapping and unmapping                 *)
(* (SurfaceManager.cpp), the layouts of the workspaces (Workspace.cpp),    *)
(* fullscreen and its recovery (View.cpp, XDGView.cpp), keyboard focus and *)
(* the focus stack (Seat.cpp), moving between workspaces                   *)
(* (ViewOperations.cpp) and the commands (commands.h).                     *)
(*                                                                         *)
(* Each handler and command is one action: the compositor has one thread.  *)
(* Every workspace is taken to be on an output of its own, so a switch     *)
(* moves the cursor; WorkspaceSwitch models the hidden ones.  Coordinates, *)
(* scrolling, stacking order and the activated flag are left out; of a     *)
(* size only whether it is the tile's or the screen's is kept, because the *)
(* end of fullscreen depends on it.  No layer surface holds the keyboard   *)
(* and no client is exclusive here.                                        *)
(***************************************************************************)
EXTENDS Layout, FiniteSets

CONSTANTS
    Views,
    Workspaces,
    NoView,          \* the null OptionalRef<View>
    Foreign,         \* a surface that belongs to no view of `Views'
    Dialogs,         \* pairs <<d, p>>: is_transient_for(d, p)
    FullscreenViews, \* views whose clients ever ask for fullscreen
    Remapped         \* views that may be mapped again after an unmap

ASSUME ViewsAssumption ==
    /\ NoView \notin Views
    /\ Foreign \notin Views \cup {NoView}
    /\ FullscreenViews \subseteq Views
    /\ Dialogs \subseteq Views \X Views
    /\ Remapped \subseteq Views

NoWorkspace == -1
ASSUME WorkspacesAssumption == Workspaces # {} /\ NoWorkspace \notin Workspaces

VARIABLES
    view,         \* the fields of each View
    layout,       \* Workspace::columns and floating_views
    fullscreen,   \* Workspace::fullscreen_view
    active,       \* Seat::get_focused_workspace, the one under the cursor
    focus,        \* keyboard: the focused surface; stack: Seat::focus_stack
    failed        \* the assertion or dereference that ended the program

vars == <<view, layout, fullscreen, active, focus, failed>>

\* expansion and saved are expansion_state and saved_state, size is geometry,
\* target the size last asked for by entering or leaving fullscreen or the
\* floating state.
ViewFields ==
    [status: {"absent", "new", "mapped", "unmapped"},
     ws: Workspaces \cup {NoWorkspace},
     expansion: {"normal", "recovering", "fullscreen"},
     saved: {"none", "tile", "screen"},
     size: {"tile", "screen"},
     target: {"tile", "screen"}]

FreshView ==
    [status |-> "absent", ws |-> NoWorkspace, expansion |-> "normal",
     saved |-> "none", size |-> "tile", target |-> "tile"]

TypeOK ==
    /\ view \in [Views -> ViewFields]
    /\ layout \in [Workspaces -> [columns: Seq(Seq(Views)), floats: Seq(Views)]]
    /\ fullscreen \in [Workspaces -> Views \cup {NoView}]
    /\ active \in Workspaces
    /\ focus \in [keyboard: Views \cup {NoView, Foreign}, stack: Seq(Views)]
    /\ failed \in {"none", "save_state", "columns.end()"}

Running == failed = "none"
Mapped(v) == view[v].status = "mapped"
Mappable(v) == view[v].status = "new" \/ (view[v].status = "unmapped" /\ v \in Remapped)
MappedAndNormal(v) == Mapped(v) /\ view[v].expansion = "normal"

-----------------------------------------------------------------------------
(* Keyboard focus *)

\* Seat::get_focused_view
Focused(f) ==
    IF f.keyboard = NoView \/ f.stack = <<>> THEN NoView ELSE Head(f.stack)

\* The most recently focused view of the set vs, or none.
LastFocused(f, vs) ==
    LET k == SelectInSeq(f.stack, LAMBDA x : x \in vs)
    IN IF k = 0 THEN NoView ELSE f.stack[k]

\* Seat::focus_view denies a view hidden by the fullscreen view of its
\* workspace, unless it is a dialog of that view.
Denied(v, w, full) ==
    full[w] \notin {NoView, v} /\ <<v, full[w]>> \notin Dialogs

\* Mutant: the null view is not told apart.
FocusAnything(f, v, vw, full) ==
    IF v = Focused(f) THEN f
    ELSE [keyboard |-> v, stack |-> <<v>> \o RemoveFirst(f.stack, v)]

\* Seat::focus_view of a view, or of none, given the workspace of each view
\* and the fullscreen views at the time of the call.
FocusView(f, v, vw, full) ==
    IF v = Focused(f) THEN f
    ELSE IF v = NoView THEN [f EXCEPT !.keyboard = NoView]
    ELSE IF Denied(v, vw[v].ws, full) THEN f
    ELSE [keyboard |-> v, stack |-> <<v>> \o RemoveFirst(f.stack, v)]

\* Mutant: nothing is focused in the place of a hidden view.
HideOnly(f, v, vw, full) == f

\* Seat::hide_view
HideView(f, v, vw, full) ==
    LET next == LastFocused(f, {x \in Views \ {v} : vw[x].status = "mapped"})
    IN IF Focused(f) = v /\ next # NoView THEN FocusView(f, next, vw, full) ELSE f

\* Mutant: an unmapped view stays on the stack.
KeepInFocusStack(f, v) == f

\* Seat::remove_from_focus_stack
RemoveFromFocusStack(f, v) == [f EXCEPT !.stack = RemoveFirst(@, v)]

-----------------------------------------------------------------------------
(* Fullscreen *)

\* Mutant: a view that leaves its workspace stays its fullscreen view.
KeptFullscreen(full, w, v) == full

\* First step of Workspace::remove_view: w has v no longer for its fullscreen
\* view.
LostFullscreen(full, w, v) == [full EXCEPT ![w] = IF @ = v THEN NoView ELSE @]

\* Mutant: the old fullscreen view is not told.
RecoveringNobody(w) == view

\* First half of Workspace::set_fullscreen_view: the old fullscreen view of w
\* is told to leave and recovers.
Recovering(w) ==
    LET f == fullscreen[w]
    IN IF f = NoView THEN view
       ELSE [view EXCEPT ![f].expansion = "recovering",
                         ![f].target = view[f].saved,
                         ![f].saved = "none"]

\* XDGView::toplevel_request_fullscreen_handler with fullscreen set, and the
\* rest of set_fullscreen_view with the assertion of View::save_state.
RequestFullscreen(v) ==
    LET w == view[v].ws
        vw == Recovering(w)
    IN /\ Running
       /\ v \in FullscreenViews
       /\ Mapped(v)
       /\ IF vw[v].saved = "none" /\ vw[v].expansion = "normal"
          THEN /\ view' = [vw EXCEPT ![v].saved = vw[v].size,
                                     ![v].expansion = "fullscreen",
                                     ![v].target = "screen"]
               /\ fullscreen' = [fullscreen EXCEPT ![w] = v]
               /\ UNCHANGED failed
          ELSE /\ failed' = "save_state"
               /\ UNCHANGED <<view, fullscreen>>
       /\ UNCHANGED <<layout, active, focus>>

\* The same handler with fullscreen unset.
RequestUnfullscreen(v) ==
    /\ Running
    /\ v \in FullscreenViews
    /\ Mapped(v)
    /\ view' = Recovering(view[v].ws)
    /\ fullscreen' = [fullscreen EXCEPT ![view[v].ws] = NoView]
    /\ UNCHANGED <<layout, active, focus, failed>>

\* XDGView::surface_commit_handler when the geometry has changed.  Only views
\* that go fullscreen have two sizes.
CommitSize(v) ==
    /\ Running
    /\ v \in FullscreenViews
    /\ Mapped(v)
    /\ view' = [view EXCEPT
          ![v].size = IF @ = "tile" THEN "screen" ELSE "tile",
          ![v].expansion = IF @ = "recovering" THEN "normal" ELSE @]
    /\ UNCHANGED <<layout, fullscreen, active, focus, failed>>

-----------------------------------------------------------------------------
(* The life of a view *)

\* create_view
CreateView(v) ==
    /\ Running
    /\ view[v].status = "absent"
    /\ view' = [view EXCEPT ![v].status = "new"]
    /\ UNCHANGED <<layout, fullscreen, active, focus, failed>>

\* Mutant: the view goes where the focused view is, not where the cursor is.
MapBesideFocused(v) ==
    LET w == IF Focused(focus) = NoView THEN active ELSE view[Focused(focus)].ws
    IN /\ Running
       /\ Mappable(v)
       /\ view' = [view EXCEPT ![v].status = "mapped", ![v].ws = w]
       /\ layout' = [layout EXCEPT ![w] = AddView(@, v, Focused(focus), FALSE)]
       /\ focus' = FocusView(focus, v, view', fullscreen)
       /\ UNCHANGED <<fullscreen, active, failed>>

\* SurfaceManager::map_view: a new column right of the focused view's, on the
\* workspace under the cursor.
MapView(v) ==
    /\ Running
    /\ Mappable(v)
    /\ view' = [view EXCEPT ![v].status = "mapped", ![v].ws = active]
    /\ layout' = [layout EXCEPT ![active] = AddView(@, v, Focused(focus), FALSE)]
    /\ focus' = FocusView(focus, v, view', fullscreen)
    /\ UNCHANGED <<fullscreen, active, failed>>

\* SurfaceManager::unmap_view, with Workspace::remove_view, Seat::hide_view
\* and Seat::remove_from_focus_stack.
UnmapView(v) ==
    LET w == view[v].ws
    IN /\ Running
       /\ Mapped(v)
       /\ view' = [view EXCEPT ![v].status = "unmapped"]
       /\ layout' = [layout EXCEPT ![w] = RemoveView(@, v)]
       /\ fullscreen' = LostFullscreen(fullscreen, w, v)
       /\ focus' = RemoveFromFocusStack(HideView(focus, v, view', fullscreen'), v)
       /\ UNCHANGED <<active, failed>>

\* XDGView::surface_destroy_handler and SurfaceManager::remove_view.  A seat
\* drops a destroyed surface from its keyboard focus; the wl_surface may live
\* on without the view.
DestroyView(v) ==
    /\ Running
    /\ view[v].status \in {"new", "unmapped"}
    /\ view' = [view EXCEPT ![v] = FreshView]
    /\ \E k \in {NoView, Foreign} :
          focus' = [focus EXCEPT !.keyboard = IF @ = v THEN k ELSE @]
    /\ UNCHANGED <<layout, fullscreen, active, failed>>

\* change_view_workspace: a fullscreen view takes over the other workspace,
\* then the last focused view of the old workspace is focused.
ChangeViewWorkspace(v, w) ==
    LET old == view[v].ws
        takesOver == view[v].expansion = "fullscreen"
        vw == IF takesOver THEN Recovering(w) ELSE view
    IN /\ old # w
       /\ view' = [vw EXCEPT ![v].ws = w]
       /\ fullscreen' = LostFullscreen(
             [fullscreen EXCEPT ![w] = IF takesOver THEN v ELSE @], old, v)
       /\ layout' = [layout EXCEPT
             ![old] = RemoveView(@, v),
             ![w] = AddView(@, v, NoView, IsFloating(layout[old], v))]
       /\ focus' = FocusView(focus,
                             LastFocused(focus, {x \in Views : view'[x].ws = old}),
                             view', fullscreen')
       /\ UNCHANGED <<active, failed>>

\* update_view_workspace: a floating view was moved onto another output.
DragFloating(v, w) ==
    /\ Running
    /\ Mapped(v)
    /\ IsFloating(layout[view[v].ws], v)
    /\ ChangeViewWorkspace(v, w)

-----------------------------------------------------------------------------
(* The pointer, and surfaces that are not views *)

MoveCursor(w) ==
    /\ Running
    /\ active' = w
    /\ UNCHANGED <<view, layout, fullscreen, focus, failed>>

\* Seat::cursor_button_handler, a press without modifier on a view
ClickView(v) ==
    /\ Running
    /\ v \in Held(layout[active])
    /\ v # Focused(focus)
    /\ focus' = FocusView(focus, v, view, fullscreen)
    /\ UNCHANGED <<view, layout, fullscreen, active, failed>>

\* XwaylandORSurface::map, Seat::focus_surface
MapForeign ==
    /\ Running
    /\ focus' = [focus EXCEPT !.keyboard = Foreign]
    /\ UNCHANGED <<view, layout, fullscreen, active, failed>>

\* XwaylandORSurface::surface_unmap_handler
UnmapForeign ==
    /\ Running
    /\ focus.keyboard = Foreign
    /\ focus.stack # <<>>
    /\ focus' = FocusView(FocusView(focus, NoView, view, fullscreen),
                          Head(focus.stack), view, fullscreen)
    /\ UNCHANGED <<view, layout, fullscreen, active, failed>>

-----------------------------------------------------------------------------
(* Commands.  Each of them acts on the focused view. *)

Current == Focused(focus)
CurrentWs == view[Current].ws
CurrentColumn == FindColumn(layout[CurrentWs], Current)

\* Seat::focus, for a workspace that is on another output
SwitchWorkspace(w) ==
    /\ Running
    /\ w # active
    /\ active' = w
    /\ focus' = FocusView(focus, LastFocused(focus, {x \in Views : view[x].ws = w}),
                          view, fullscreen)
    /\ UNCHANGED <<view, layout, fullscreen, failed>>

\* commands::workspace_move
MoveToWorkspace(w) ==
    /\ Running
    /\ Current # NoView
    /\ ChangeViewWorkspace(Current, w)

\* commands::focus left and right, with Seat::focus_column
FocusSideways(dx) ==
    LET columns == layout[CurrentWs].columns
        j == CurrentColumn + dx
        next == LastFocused(focus,
                    {x \in ToSet(columns[j]) : MappedAndNormal(x)})
    IN /\ Running
       /\ Current # NoView
       /\ CurrentColumn # 0
       /\ j \in DOMAIN columns
       /\ next # NoView
       /\ focus' = FocusView(focus, next, view, fullscreen)
       /\ UNCHANGED <<view, layout, fullscreen, active, failed>>

\* commands::focus up (dy = -1) and down
FocusVertically(dy) ==
    LET column == layout[CurrentWs].columns[CurrentColumn]
        at == SelectInSeq(column, LAMBDA x : x = Current)
        beyond == {k \in DOMAIN column : (k - at) * dy > 0 /\ MappedAndNormal(column[k])}
    IN /\ Running
       /\ Current # NoView
       /\ CurrentColumn # 0
       /\ \E k \in beyond :
             /\ \A m \in beyond : (k - m) * dy <= 0
             /\ focus' = FocusView(focus, column[k], view, fullscreen)
       /\ UNCHANGED <<view, layout, fullscreen, active, failed>>

\* commands::focus_cycle: the view passed over goes to the bottom of the
\* stack, which is done even when the focus was denied.
FocusCycle ==
    LET others == {k \in 2 .. Len(focus.stack) : view[focus.stack[k]].ws = active}
    IN /\ Running
       /\ \E k \in others :
             /\ \A m \in others : k <= m
             /\ LET f == FocusView(focus, focus.stack[k], view, fullscreen)
                IN focus' = [f EXCEPT !.stack = Append(RemoveAt(@, 2), @[2])]
       /\ UNCHANGED <<view, layout, fullscreen, active, failed>>

\* commands::toggle_floating: the view is asked for the size it had in the other
\* state; a fullscreen view exchanges its saved size for that one instead.
ToggleFloatingCommand ==
    /\ Running
    /\ Current # NoView
    /\ layout' = [layout EXCEPT ![CurrentWs] = ToggleFloating(@, Current)]
    /\ \E previous \in IF Current \in FullscreenViews THEN {"tile", "screen"} ELSE {"tile"} :
          view' = IF fullscreen[CurrentWs] = Current
                  THEN [view EXCEPT ![Current].saved = previous]
                  ELSE [view EXCEPT ![Current].target = previous]
    /\ UNCHANGED <<fullscreen, active, focus, failed>>

\* commands::move on a tiled view
MoveCommand(dx, dy) ==
    /\ Running
    /\ Current # NoView
    /\ CurrentColumn # 0
    /\ layout' = [layout EXCEPT ![CurrentWs] = MoveTile(@, Current, dx, dy)]
    /\ UNCHANGED <<view, fullscreen, active, focus, failed>>

\* commands::insert_into_column takes the first normal view of the column on
\* the right.  A floating view has no column, and columns.end() is followed.
InsertCommand ==
    LET columns == layout[CurrentWs].columns
        i == CurrentColumn
        k == SelectInSeq(columns[i + 1], MappedAndNormal)
    IN /\ Running
       /\ Current # NoView
       /\ i < Len(columns)
       /\ IF i = 0
          THEN failed' = "columns.end()" /\ UNCHANGED layout
          ELSE /\ k # 0
               /\ layout' = [layout EXCEPT ![CurrentWs] =
                      InsertIntoColumn(@, columns[i + 1][k], Current)]
               /\ UNCHANGED failed
       /\ UNCHANGED <<view, fullscreen, active, focus>>

\* commands::pop_from_column
PopCommand ==
    /\ Running
    /\ Current # NoView
    /\ view[Current].expansion = "normal"
    /\ CurrentColumn # 0
    /\ layout' = [layout EXCEPT ![CurrentWs] = PopFromColumn(@, CurrentColumn)]
    /\ UNCHANGED <<view, fullscreen, active, focus, failed>>

-----------------------------------------------------------------------------
Init ==
    /\ view = [v \in Views |-> FreshView]
    /\ layout = [w \in Workspaces |-> Empty]
    /\ fullscreen = [w \in Workspaces |-> NoView]
    /\ active \in Workspaces
    /\ focus = [keyboard |-> NoView, stack |-> <<>>]
    /\ failed = "none"

Next ==
    \/ \E v \in Views :
          \/ CreateView(v) \/ MapView(v) \/ UnmapView(v) \/ DestroyView(v)
          \/ RequestFullscreen(v) \/ RequestUnfullscreen(v) \/ CommitSize(v)
          \/ ClickView(v)
          \/ \E w \in Workspaces : DragFloating(v, w)
    \/ \E w \in Workspaces : MoveCursor(w) \/ SwitchWorkspace(w) \/ MoveToWorkspace(w)
    \/ MapForeign \/ UnmapForeign
    \/ \E d \in {-1, 1} : FocusSideways(d) \/ FocusVertically(d)
    \/ \E dx, dy \in {-1, 0, 1} : MoveCommand(dx, dy)
    \/ FocusCycle \/ ToggleFloatingCommand \/ InsertCommand \/ PopCommand

Spec == Init /\ [][Next]_vars

\* Clients answer a configure event: they commit the size they were asked for.
Acknowledge(v) == view[v].size # view[v].target /\ CommitSize(v)
FairSpec == Spec /\ \A v \in Views : WF_vars(Acknowledge(v))

-----------------------------------------------------------------------------
(* Properties *)

\* The slots of workspace w that hold v: <<column, tile>>, or <<0, position>>
\* among the floating views.
Slots(w, v) ==
    LET columns == layout[w].columns
        floats == layout[w].floats
    IN {0} \X {k \in DOMAIN floats : floats[k] = v}
       \cup UNION {{i} \X {k \in DOMAIN columns[i] : columns[i][k] = v} :
                   i \in DOMAIN columns}

\* Whatever the order of map, unmap, moves between columns, workspaces and
\* the floating list, a mapped view sits in exactly one slot, on the workspace
\* that its workspace_id names, and an unmapped one in none.
PlacedOnce ==
    \A v \in Views, w \in Workspaces :
        Cardinality(Slots(w, v)) =
            IF Mapped(v) /\ view[v].ws = w THEN 1 ELSE 0

\* mapped_and_normal_tiles() reads tiles.front() unchecked, in every loop over
\* a column: no edit may leave an empty column behind.
NoEmptyColumn ==
    \A w \in Workspaces : \A i \in DOMAIN layout[w].columns :
        layout[w].columns[i] # <<>>

\* The focus stack holds raw View pointers and feeds every choice of a new
\* focus: each entry is a mapped view, and none is there twice.
FocusStackSound ==
    /\ \A i \in DOMAIN focus.stack : Mapped(focus.stack[i])
    /\ IsInjective(focus.stack)

\* The fullscreen view of a workspace is a mapped view of that workspace, in
\* the fullscreen state, with a saved size to return to (set_fullscreen_view
\* and toggle_floating dereference saved_state unchecked).
FullscreenSound ==
    \A w \in Workspaces :
        LET f == fullscreen[w]
        IN f # NoView => /\ Mapped(f)
                         /\ view[f].ws = w
                         /\ view[f].expansion = "fullscreen"
                         /\ view[f].saved # "none"

\* A mapped view in the fullscreen state is the fullscreen view of its
\* workspace: no view is left out of the tiling with nobody to bring it back.
\* (Unmapping forgets the workspace's fullscreen view and not the view's state,
\* so the claim is about views that are mapped once.)
FullscreenOwned ==
    \A v \in Views \ Remapped :
        Mapped(v) /\ view[v].expansion = "fullscreen" => fullscreen[view[v].ws] = v

\* "The currently focused View is defined as the View currently holding
\* keyboard focus": commands never act on one view while another has the keys.
\* But when the view to follow an unmapped one is denied the focus, hidden by a
\* fullscreen view, the keys stay with the unmapped one, which has left the stack.
FocusedHoldsKeyboard ==
    Current # NoView /\ focus.keyboard \in Views =>
        \/ focus.keyboard = Current
        \/ FullscreenViews # {} /\ focus.keyboard \notin ToSet(focus.stack)

\* View::save_state asserts that nothing is saved yet and that the view is in
\* the normal state: any legal sequence of requests has to respect that.
SaveStateHolds == failed # "save_state"

\* insert_into_column is given a column "from this workspace", never the end of
\* the list.
ColumnFound == failed # "columns.end()"

\* "For Views that have been un-fullscreened but didn't get the commit event
\* yet": while the program runs and clients answer, a view leaves that state.
RecoveryEnds ==
    \A v \in Views :
        view[v].expansion = "recovering" ~>
            view[v].expansion # "recovering" \/ ~Mapped(v) \/ ~Running

\* What map, unmap, the commands and the drag promise together: a step takes
\* at most one view to another workspace, and a view appears under the cursor.
P == INSTANCE Placement WITH
        home <- [v \in Views |-> IF \E w \in Workspaces : Slots(w, v) # {}
                                 THEN CHOOSE w \in Workspaces : Slots(w, v) # {}
                                 ELSE NoWorkspace]
ImplementsPlacement == P!Spec
=============================================================================
