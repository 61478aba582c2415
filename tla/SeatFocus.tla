----------------------------- MODULE SeatFocus -----------------------------
(***************************************************************************)
(* Who gets the input: the keyboard focus of a seat, which views, layer    *)
(* surfaces (panels, launchers, lockers: Layers.cpp) and a client with     *)
(* exclusive input (Seat::set_exclusive_client) compete for, and the       *)
(* pointer focus that cursor_rebase gives.  One handler is one action.     *)
(*                                                                         *)
(* The layer surfaces are on one output, under the cursor; it may be       *)
(* unplugged, and then another output, without layers, remains.  Of the    *)
(* geometry only what is under the cursor matters here, and it may be      *)
(* anything.  A surface keeps its layer once it is there.                  *)
(* Fullscreen views, which deny focus to others, are in Desktop.           *)
(***************************************************************************)
EXTENDS Naturals, Sequences, FiniteSets, SequencesExt

CONSTANTS
    Views,
    Surfaces,    \* layer surfaces
    Clients,
    ClientOf,    \* the client that owns each view and each layer surface
    LayersOf,    \* the layers each layer surface may ask for, of 0..3:
                 \* background, bottom, top and overlay
    None

ASSUME ClientsAssumption == ClientOf \in [Views \cup Surfaces -> Clients]

ASSUME NamesAssumption ==
    /\ Views \cap Surfaces = {}
    /\ None \notin Views \cup Surfaces \cup Clients
    /\ LayersOf \in [Surfaces -> SUBSET (0..3)]
    /\ IsFiniteSet(Surfaces)

TOP == 2
OVERLAY == 3

VARIABLES
    view,       \* which views are mapped
    surface,    \* each wlr_layer_surface_v1: "closed" once its output is gone
    layers,     \* SurfaceManager::layers
    focus,      \* the seat: who has the keyboard, focus_stack, focused_layer
                \* and exclusive_client
    pointer,    \* the surface that has pointer focus
    plugged,    \* the output of the layers is there
    stopped     \* "assertion": focus_layer's has failed; "freed": the focused
                \* layer is gone and the next change of focus would use it

vars == <<view, surface, layers, focus, pointer, plugged, stopped>>

Inputs == Views \cup Surfaces

\* Seat, LayerSurface and the state wlroots keeps for them.  No list has an
\* element twice, so that removing one (std::list::remove) is removing the first.
TypeOK ==
    /\ view \in [Views -> BOOLEAN]
    /\ surface \in [Surfaces -> [status: {"absent", "created", "mapped", "closed"},
                                 layer: 0..3, interactive: BOOLEAN]]
    /\ layers \in [0..3 -> Seq(Surfaces)]
    /\ focus \in [keyboard: Inputs \cup {None}, stack: Seq(Views),
                  layer: Surfaces \cup {None}, exclusive: Clients \cup {None}]
    /\ IsInjective(focus.stack) /\ \A l \in 0..3 : IsInjective(layers[l])
    /\ pointer \in Inputs \cup {None}
    /\ plugged \in BOOLEAN /\ stopped \in {"no", "assertion", "freed"}

Absent == [status |-> "absent", layer |-> 0, interactive |-> FALSE]

Init ==
    /\ view = [v \in Views |-> FALSE]
    /\ surface = [s \in Surfaces |-> Absent]
    /\ layers = [l \in 0..3 |-> <<>>]
    /\ focus = [keyboard |-> None, stack |-> <<>>, layer |-> None, exclusive |-> None]
    /\ pointer = None
    /\ plugged = TRUE /\ stopped = "no"

Mapped(s) == surface[s].status = "mapped"

\* Mutant: the exclusive client keeps nobody out.
AllowedAlways(x, client) == TRUE

\* Seat::is_input_allowed
InputAllowed(x, client) == client \in {None, ClientOf[x]}

\* Seat::get_focused_view
Focused(f) ==
    IF f.keyboard = None \/ f.stack = <<>> THEN None ELSE Head(f.stack)

-----------------------------------------------------------------------------
\* Mutant: the view is pushed to the front of the focus stack without a look.
PushPlainView(f, v) ==
    IF v \in {None, Focused(f)} THEN f
    ELSE [f EXCEPT !.keyboard = v, !.stack = <<v>> \o @]

\* Seat::focus_view when no layer has the focus.  A view that is not allowed
\* input still costs the previous one the keyboard.
FocusPlainView(f, v) ==
    LET cleared == IF Focused(f) = None THEN f ELSE [f EXCEPT !.keyboard = None]
    IN  CASE Focused(f) = v -> f
          [] Focused(f) # v /\ (v = None \/ ~InputAllowed(v, f.exclusive)) -> cleared
          [] OTHER -> [cleared EXCEPT !.keyboard = v, !.stack = <<v>> \o RemoveFirst(@, v)]

\* Mutant: the layer lets go, and no view is focused in its place.
ForgetLayer(f) == [f EXCEPT !.layer = None]

\* Seat::focus_layer of nothing: the layer lets the keyboard go to the view
\* in front, if there is one.
UnfocusLayer(f) ==
    LET free == [f EXCEPT !.layer = None]
    IN  IF f.layer = None \/ Focused(free) = None
        THEN free
        ELSE FocusPlainView(FocusPlainView(free, None), Focused(free))

\* Seat::focus_layer of s.
FocusLayer(f, s) ==
    IF f.layer = s
    THEN f
    ELSE [f EXCEPT !.keyboard = s,
                   !.layer = IF surface[s].layer >= TOP THEN s ELSE @]

\* Mutant: the view takes the keyboard from the layer.
FocusOverLayer(f, v) == FocusPlainView(f, v)

\* Seat::focus_view: a focused layer steps aside and comes back.
FocusView(f, v) ==
    IF f.layer = None
    THEN FocusPlainView(f, v)
    ELSE FocusLayer(FocusPlainView(UnfocusLayer(f), v), f.layer)

\* The assertion of focus_layer when it comes back: it is still mapped.
LayerAsserted(f) == f.layer # None => Mapped(f.layer)

-----------------------------------------------------------------------------
\* arrange_layers: the first mapped layer surface that wants the keyboard, in
\* the overlay and then in the top layer.
Topmost(srf, lists) ==
    LET Wants(s) == srf[s].interactive /\ srf[s].status = "mapped"
        above == lists[OVERLAY] \o lists[TOP]
        k == SelectInSeq(above, Wants)
    IN  IF k = 0 THEN None ELSE above[k]

\* arrange_layers gives that one the keyboard.
Arranged(f) ==
    LET top == Topmost(surface', layers')
    IN  CASE top # None -> FocusLayer(f, top)
          [] top = None /\ f.layer # None /\ ~surface'[f.layer].interactive -> UnfocusLayer(f)
          [] OTHER -> f

\* cursor_rebase with x under the cursor: it gets pointer focus if it may.
Rebased(x) == IF x # None /\ InputAllowed(x, focus.exclusive) THEN x ELSE None

\* What may be under the cursor.
Under == {v \in Views : view[v]} \cup {s \in Surfaces : surface'[s].status = "mapped"}
            \cup {None}

Running == stopped = "no"

\* Server::new_layer_surface_handler and create_layer
CreateLayer(s, l) ==
    /\ Running /\ plugged /\ surface[s].status = "absent"
    /\ surface' = [surface EXCEPT ![s] = [Absent EXCEPT !.status = "created", !.layer = l]]
    /\ layers' = [layers EXCEPT ![l] = Append(@, s)]
    /\ focus' = Arranged(focus)
    /\ UNCHANGED <<view, pointer, plugged, stopped>>

\* The commit of the first buffer: map_handler, then commit_handler.
MapLayer(s) ==
    /\ Running /\ surface[s].status = "created"
    /\ surface' = [surface EXCEPT ![s].status = "mapped"]
    /\ UNCHANGED <<view, layers, plugged, stopped>>
    /\ focus' = Arranged(focus)
    /\ \E x \in Under : pointer' = Rebased(x)

\* A commit that may change keyboard_interactive: commit_handler.
CommitLayer(s, interactive) ==
    /\ Running /\ surface[s].status \in {"created", "mapped"}
    /\ surface' = [surface EXCEPT ![s].interactive = interactive]
    /\ UNCHANGED <<view, layers, pointer, plugged, stopped>>
    /\ focus' = Arranged(focus)

\* Mutant: an unmapped layer keeps the focus.
KeepFocus(f, s) == f

\* LayerSurface::unmap_handler
LayerUnmapped(f, s) == IF f.layer = s THEN UnfocusLayer(f) ELSE f

\* A commit without a buffer: unmap_handler, then commit_handler.
UnmapLayer(s) ==
    /\ Running /\ Mapped(s)
    /\ surface' = [surface EXCEPT ![s].status = "created"]
    /\ UNCHANGED <<view, layers, pointer, plugged, stopped>>
    /\ focus' = Arranged(LayerUnmapped(focus, s))

\* unmap_handler when the surface is mapped, then destroy_handler.  One that
\* lost its output was unmapped without unmap_handler, and arranges nothing.
\* wlroots takes the focus away from a surface that goes.
DestroyLayer(s) ==
    LET f == CASE surface[s].status = "mapped" -> Arranged(LayerUnmapped(focus, s))
               [] surface[s].status = "closed" -> focus
               [] OTHER -> Arranged(focus)
    IN  /\ Running /\ surface[s].status # "absent"
        /\ surface' = [surface EXCEPT ![s] = Absent]
        /\ layers' = [layers EXCEPT ![surface[s].layer] = RemoveFirst(@, s)]
        /\ focus' = [f EXCEPT !.keyboard = IF @ = s THEN None ELSE @]
        /\ pointer' = IF pointer = s THEN None ELSE pointer
        /\ stopped' = IF f.layer = s THEN "freed" ELSE "no"
        /\ UNCHANGED <<view, plugged>>

\* LayerSurface::output_destroy_handler of s, when those of gone have run: a
\* surface of the exclusive client passes the focus to one that is still
\* mapped, the last of the lowest layer that has any.
PassedOn(f, s, gone) ==
    LET mine(l) == {i \in DOMAIN layers[l] : LET x == layers[l][i] IN
                       Mapped(x) /\ x \notin gone \cup {s} /\ ClientOf[x] = f.exclusive}
        full == {l \in 0..3 : mine(l) # {}}
        lowest == CHOOSE l \in full : \A k \in full : l <= k
        last == CHOOSE i \in mine(lowest) : \A k \in mine(lowest) : k <= i
    IN  IF ClientOf[s] = f.exclusive /\ full # {}
        THEN FocusLayer(f, layers[lowest][last])
        ELSE f

\* The output goes, and with it every layer surface, in the order in which they
\* were created, which may be any; their clients are asked to close them.
UnplugOutput ==
    LET there == {s \in Surfaces : surface[s].status # "absent"}
    IN  /\ Running /\ plugged
        /\ plugged' = FALSE
        /\ surface' = [s \in Surfaces |->
                          IF s \in there THEN [surface[s] EXCEPT !.status = "closed"]
                                         ELSE surface[s]]
        /\ \E order \in SetToSeqs(there) :
              LET passed[i \in 0..Len(order)] ==
                      IF i = 0 THEN focus
                      ELSE PassedOn(passed[i - 1], order[i], {order[k] : k \in 1..(i - 1)})
              IN  focus' = passed[Len(order)]
        /\ UNCHANGED <<view, layers, pointer, stopped>>

\* Output::mode_handler and commit_handler: another size, scale or transform.
ChangeOutput ==
    /\ Running
    /\ UNCHANGED <<view, surface, layers, pointer, plugged, stopped>>
    /\ focus' = Arranged(focus)

-----------------------------------------------------------------------------
\* Focuses view v, or stops at the assertion of focus_layer.
Focus(f, v) ==
    IF LayerAsserted(f)
    THEN focus' = FocusView(f, v) /\ UNCHANGED stopped
    ELSE stopped' = "assertion" /\ UNCHANGED focus

\* SurfaceManager::map_view
MapView(v) ==
    /\ Running /\ ~view[v]
    /\ view' = [view EXCEPT ![v] = TRUE]
    /\ UNCHANGED <<surface, layers, pointer, plugged>>
    /\ Focus(focus, v)

\* SurfaceManager::unmap_view: hide_view focuses the mapped view that was
\* focused before, if v is the focused one, and remove_from_focus_stack.
UnmapView(v) ==
    LET rest == RemoveFirst(focus.stack, v)
        hides == Focused(focus) = v /\ rest # <<>>
        f == IF hides THEN FocusView(focus, Head(rest)) ELSE focus
    IN  /\ Running /\ view[v]
        /\ view' = [view EXCEPT ![v] = FALSE]
        /\ UNCHANGED <<surface, layers, pointer, plugged>>
        /\ IF hides /\ ~LayerAsserted(focus)
           THEN stopped' = "assertion" /\ UNCHANGED focus
           ELSE focus' = [f EXCEPT !.stack = RemoveFirst(@, v)] /\ UNCHANGED stopped

\* The surface of an unmapped view goes, and the focus it has with it.
DestroyView(v) ==
    /\ Running /\ ~view[v] /\ v \in {focus.keyboard, pointer}
    /\ focus' = [focus EXCEPT !.keyboard = IF @ = v THEN None ELSE @]
    /\ pointer' = IF pointer = v THEN None ELSE pointer
    /\ UNCHANGED <<view, surface, layers, plugged, stopped>>

\* Seat::cursor_button_handler: a press on a view that is not the focused one.
ClickView(v) ==
    /\ Running /\ view[v] /\ v # Focused(focus)
    /\ UNCHANGED <<view, surface, layers, pointer, plugged>>
    /\ Focus(focus, v)

\* Seat::process_cursor_motion without a grab.
MoveCursor ==
    /\ Running
    /\ UNCHANGED <<view, surface, layers, focus, plugged, stopped>>
    /\ \E x \in Under : pointer' = Rebased(x)

\* Seat::set_exclusive_client of client c: others lose the focus they have.
Inhibit(c) ==
    LET free == IF focus.layer # None /\ ClientOf[focus.layer] # c
                THEN UnfocusLayer(focus) ELSE focus
        unfocus == Focused(free) # None /\ ClientOf[Focused(free)] # c
        f == IF unfocus THEN FocusView(free, None) ELSE free
    IN  /\ Running /\ focus.exclusive = None
        /\ UNCHANGED <<view, surface, layers, plugged>>
        /\ pointer' = IF pointer # None /\ ClientOf[pointer] # c THEN None ELSE pointer
        /\ IF unfocus /\ ~LayerAsserted(free)
           THEN stopped' = "assertion" /\ UNCHANGED focus
           ELSE focus' = [f EXCEPT !.exclusive = c] /\ UNCHANGED stopped

\* Mutant: the layers are not arranged when the client lets go.
Released(f) == [f EXCEPT !.exclusive = None]

\* Seat::set_exclusive_client of nothing: the layers under the cursor get what
\* they want.
Shared(f) == Arranged([f EXCEPT !.exclusive = None])

Uninhibit ==
    /\ Running /\ focus.exclusive # None
    /\ UNCHANGED <<view, surface, layers, pointer, plugged, stopped>>
    /\ focus' = Shared(focus)

\* Nothing is said of what the program does then.
Stopped == ~Running /\ UNCHANGED vars

Next ==
    \/ \E s \in Surfaces : \E l \in LayersOf[s] : CreateLayer(s, l)
    \/ \E s \in Surfaces : MapLayer(s)
    \/ \E s \in Surfaces, i \in BOOLEAN : CommitLayer(s, i)
    \/ \E s \in Surfaces : UnmapLayer(s)
    \/ \E s \in Surfaces : DestroyLayer(s)
    \/ UnplugOutput
    \/ ChangeOutput
    \/ \E v \in Views : MapView(v)
    \/ \E v \in Views : UnmapView(v)
    \/ \E v \in Views : DestroyView(v)
    \/ \E v \in Views : ClickView(v)
    \/ MoveCursor
    \/ \E c \in Clients : Inhibit(c)
    \/ Uninhibit
    \/ Stopped

Spec == Init /\ [][Next]_vars

-----------------------------------------------------------------------------
(* PROPERTIES *)

\* focused_layer is a layer surface above the views that is mapped, unless its
\* output took it: unmapping, destroying or lowering the interest of a surface
\* never leaves the seat with one that is not there.
FocusedLayerThere ==
    Running /\ focus.layer # None =>
        /\ surface[focus.layer].status \in {"mapped", "closed"}
        /\ surface[focus.layer].layer >= TOP

\* The focused layer has the keyboard while it is mapped, however views are
\* mapped, clicked, unmapped and destroyed under it and clients take exclusive
\* input.  (A surface below the views to which an unplugged one passes the
\* focus gets the keyboard, and focused_layer stays with the old one.)
FocusedLayerHoldsKeyboard ==
    Running /\ focus.layer # None /\ Mapped(focus.layer) => focus.keyboard = focus.layer

\* With no exclusive client, a mapped surface of the overlay or the top layer
\* that wants the keyboard has it, and the first of the overlay before others
\* (Layers.cpp:272-290): also after an exclusive client came and went.
TopmostHasFocus ==
    Running /\ focus.exclusive = None /\ Topmost(surface, layers) # None =>
        focus.layer = Topmost(surface, layers)

\* While a client has exclusive input no view in the focus stack of another
\* client gets the keyboard, nor any surface of another the pointer (Seat.h:137);
\* of layers arrange_layers gives the keyboard to any client's.
ExclusiveKeepsOut ==
    focus.exclusive # None =>
        /\ focus.keyboard \in ToSet(focus.stack) => ClientOf[focus.keyboard] = focus.exclusive
        /\ pointer # None => ClientOf[pointer] = focus.exclusive

\* When the layer with the keyboard has the focus no more, and no other layer has,
\* the view that was focused last has the keyboard, if it may (Seat.cpp:217-224).
KeyboardReturns ==
    [][focus.layer # None /\ focus.keyboard = focus.layer /\ focus'.layer = None /\ focus'.stack # <<>>
         /\ InputAllowed(Head(focus'.stack), focus'.exclusive)
       => focus'.keyboard = Head(focus'.stack)]_vars

\* focus_layer's assertion, Seat.cpp:228: what gets the focus is mapped.
LayerAssertionHolds == stopped # "assertion"
=============================================================================
