-------------------------------- MODULE Grab --------------------------------
(***************************************************************************)
(* The grab of a seat (Seat::GrabState): views moved and resized with the  *)
(* mouse, workspaces scrolled and switched with a touchpad, and what mouse *)
(* buttons, swipes, clients and frames do to one another's grabs.          *)
(*                                                                         *)
(* One handler is one action.  Every workspace is on an output of its own. *)
(* Positions are left out: what is under the cursor after an event may be  *)
(* anything, and a floating view that moves may come to lie on another     *)
(* output.  A speed is one of a few levels, down by one with each frame.   *)
(* Focus is only the view in front of the focus stack (SeatFocus has the   *)
(* rest); a switch of workspaces is in WorkspaceSwitch.                    *)
(***************************************************************************)
EXTENDS Naturals, FiniteSets

CONSTANTS
    Views,
    X11,          \* the Xwayland views among them
    Floating,     \* the views that float; the others are tiled
    Workspaces,
    MaxSpeed,     \* bounds the levels of the speed of a swipe
    None

ASSUME ViewsAssumption == X11 \subseteq Views /\ Floating \subseteq Views

ASSUME NamesAssumption == None \notin Views \cup Workspaces /\ MaxSpeed \in Nat \ {0}

Buttons == {"left", "right"}

WORKSPACE_SCROLL_FINGERS == 3
WORKSPACE_SWITCH_FINGERS == 4

VARIABLES
    view,       \* each view: "unmapped" (before, too), "mapped", "destroyed"
    home,       \* View::workspace_id
    suspended,  \* Workspace::suspend_animations
    grab,       \* Seat::grab_state
    pointer,    \* the view that has pointer focus
    focused,    \* Seat::get_focused_view
    held,       \* the mouse buttons that are down
    fingers,    \* of the swipe under way, 0 without one
    stopped     \* "grabbed": begin_move or begin_resize asserts that there is
                \* no grab; "unmapped": XwaylandView::resize asserts that the
                \* view is mapped; "freed": a destroyed view is used

vars == <<view, home, suspended, grab, pointer, focused, held, fingers, stopped>>

NoGrab == [kind |-> "none", view |-> None, workspace |-> None, old |-> FALSE,
           ready |-> FALSE, stop |-> FALSE, speed |-> 0, delta |-> 0]

\* Seat and the mice, touchpads and clients that act on it.  grab.view is the
\* dominant view of a scroll, grab.old the old_suspend_animations of a resize.
TypeOK ==
    /\ view \in [Views -> {"unmapped", "mapped", "destroyed"}]
    /\ home \in [Views -> Workspaces \cup {None}]
    /\ suspended \in [Workspaces -> BOOLEAN]
    /\ grab \in [kind: {"none", "move", "resize", "scroll", "switch"},
                 view: Views \cup {None}, workspace: Workspaces \cup {None},
                 old: BOOLEAN, ready: BOOLEAN, stop: BOOLEAN,
                 speed: 0..MaxSpeed, delta: 0..MaxSpeed]
    /\ grab.kind \in {"move", "resize"} => grab.view # None
    /\ grab.kind \in {"resize", "scroll", "switch"} => grab.workspace # None
    /\ pointer \in Views \cup {None} /\ focused \in Views \cup {None}
    /\ held \subseteq Buttons /\ fingers \in {0, 2, 3, 4}
    /\ stopped \in {"no", "grabbed", "unmapped", "freed"}

Init ==
    /\ view = [v \in Views |-> "unmapped"]
    /\ home = [v \in Views |-> None]
    /\ suspended = [w \in Workspaces |-> FALSE]
    /\ grab = NoGrab
    /\ pointer = None /\ focused = None
    /\ held = {} /\ fingers = 0
    /\ stopped = "no"

Running == stopped = "no"

Under == {v \in Views : view[v] = "mapped"} \cup {None}

-----------------------------------------------------------------------------
\* What Seat::end_interactive does to the workspace: a resize gives back the
\* animations it took.
Restored(g) ==
    IF g.kind = "resize" THEN [suspended EXCEPT ![g.workspace] = g.old] ELSE suspended

\* Seat::end_interactive.  The pointer goes to what is under the cursor.
EndInteractive ==
    IF grab.kind = "none"
    THEN UNCHANGED <<grab, suspended, pointer>>
    ELSE /\ grab' = NoGrab
         /\ suspended' = Restored(grab)
         /\ pointer' \in Under

\* Seat::end_touchpad_swipe
EndTouchpadSwipe ==
    IF grab.kind = "scroll" THEN EndInteractive ELSE UNCHANGED <<grab, suspended, pointer>>

\* Seat::begin_move of v, when there is no grab.
BeginMove(v) ==
    /\ grab' = IF pointer = v THEN [NoGrab EXCEPT !.kind = "move", !.view = v] ELSE grab
    /\ UNCHANGED suspended

\* Seat::begin_resize of v, when there is no grab.
BeginResize(v) ==
    IF pointer = v
    THEN /\ grab' = [NoGrab EXCEPT !.kind = "resize", !.view = v, !.workspace = home[v],
                                   !.old = suspended[home[v]]]
         /\ suspended' = [suspended EXCEPT ![home[v]] = TRUE]
    ELSE UNCHANGED <<grab, suspended>>

\* Seat::cursor_button_handler of a press on view v, or on none.  Without the
\* mouse modifiers the view is focused.
Press(b, v, mods) ==
    LET starts == v # None /\ mods
    IN  /\ Running /\ b \notin held /\ v \in Under
        /\ held' = held \cup {b}
        /\ UNCHANGED <<view, home, fingers>>
        /\ IF starts /\ grab.kind # "none"
           THEN stopped' = "grabbed" /\ UNCHANGED <<grab, suspended>>
           ELSE UNCHANGED stopped
        /\ starts /\ grab.kind = "none" => IF b = "left" THEN BeginMove(v) ELSE BeginResize(v)
        /\ ~starts => UNCHANGED <<grab, suspended>>
        /\ pointer' = IF starts THEN None ELSE pointer
        /\ focused' = IF v # None /\ ~mods THEN v ELSE focused

\* Seat::cursor_button_handler of a release.
Release(b) ==
    /\ Running /\ b \in held
    /\ held' = held \ {b}
    /\ EndInteractive
    /\ UNCHANGED <<view, home, focused, fingers, stopped>>

\* XDGView::toplevel_request_move_handler, which listens while v is mapped.
RequestMove(v) ==
    /\ Running /\ view[v] = "mapped" /\ v \notin X11
    /\ UNCHANGED <<view, home, pointer, focused, held, fingers>>
    /\ IF grab.kind = "none"
       THEN BeginMove(v) /\ UNCHANGED stopped
       ELSE stopped' = "grabbed" /\ UNCHANGED <<grab, suspended>>

\* XDGView::toplevel_request_resize_handler
RequestResize(v) ==
    /\ Running /\ view[v] = "mapped" /\ v \notin X11
    /\ UNCHANGED <<view, home, pointer, focused, held, fingers>>
    /\ IF grab.kind = "none"
       THEN BeginResize(v) /\ UNCHANGED stopped
       ELSE stopped' = "grabbed" /\ UNCHANGED <<grab, suspended>>

\* Seat::process_cursor_motion with grab g.  Moving a floating view may change
\* its workspace; an unmapped view is in no workspace, and is resized by itself.
Drag(g) ==
    CASE g.kind \notin {"move", "resize"} -> UNCHANGED <<home, stopped>>
      [] g.kind \in {"move", "resize"} /\ view[g.view] = "destroyed" ->
            stopped' = "freed" /\ UNCHANGED home
      [] g.kind = "resize" /\ view[g.view] = "unmapped" /\ g.view \in X11 ->
            stopped' = "unmapped" /\ UNCHANGED home
      [] OTHER ->
            /\ UNCHANGED stopped
            /\ IF g.view \in Floating /\ view[g.view] = "mapped"
               THEN \E w \in Workspaces : home' = [home EXCEPT ![g.view] = w]
               ELSE UNCHANGED home

\* Seat::cursor_motion_handler: a relative motion ends a scroll, and then the
\* pointer goes to what is under the cursor.
MoveCursor ==
    /\ Running
    /\ UNCHANGED <<view, focused, held, fingers>>
    /\ IF grab.kind \in {"none", "scroll"}
       THEN grab' = NoGrab /\ pointer' \in Under /\ UNCHANGED <<home, suspended, stopped>>
       ELSE Drag(grab) /\ UNCHANGED <<grab, suspended, pointer>>

\* Seat::cursor_motion_absolute_handler: nothing ends.
WarpCursor ==
    /\ Running
    /\ UNCHANGED <<view, focused, held, fingers, grab, suspended>>
    /\ Drag(grab)
    /\ IF grab.kind = "none" THEN pointer' \in Under ELSE UNCHANGED pointer

\* Seat::cursor_axis_handler
Axis ==
    /\ Running
    /\ EndTouchpadSwipe
    /\ UNCHANGED <<view, home, focused, held, fingers, stopped>>

-----------------------------------------------------------------------------
\* Mutant: the scroll takes the place of the grab there is.
ScrollOver(w) ==
    /\ grab' = [NoGrab EXCEPT !.kind = "scroll", !.workspace = w, !.view = focused]
    /\ UNCHANGED <<suspended, pointer>>

\* Seat::begin_workspace_scroll, which ends any grab.
BeginWorkspaceScroll(w) ==
    /\ grab' = [NoGrab EXCEPT !.kind = "scroll", !.workspace = w, !.view = focused]
    /\ suspended' = Restored(grab)
    /\ IF grab.kind = "none" THEN UNCHANGED pointer ELSE pointer' \in Under

\* Seat::process_swipe_begin with the cursor on workspace w, or on none.  Four
\* fingers end a scroll; any other grab is overwritten, not ended.
SwipeBegin(n, w) ==
    /\ Running /\ fingers = 0
    /\ fingers' = n
    /\ UNCHANGED <<view, home, focused, held, stopped>>
    /\ CASE n = WORKSPACE_SCROLL_FINGERS /\ w # None -> BeginWorkspaceScroll(w)
         [] n = WORKSPACE_SWITCH_FINGERS /\ w # None ->
               /\ grab' = [NoGrab EXCEPT !.kind = "switch", !.workspace = w]
               /\ UNCHANGED suspended
               /\ IF grab.kind = "scroll" THEN pointer' \in Under ELSE UNCHANGED pointer
         [] OTHER -> EndTouchpadSwipe

\* Mutant: the number of fingers is not looked at.
UpdateUnchecked(n, d) ==
    /\ Running /\ fingers # 0
    /\ fingers' = n /\ n \in 2..fingers
    /\ grab' = IF grab.kind = "scroll" THEN [grab EXCEPT !.ready = TRUE, !.delta = d] ELSE grab
    /\ UNCHANGED <<view, home, focused, held, stopped, suspended, pointer>>

\* Seat::process_swipe_update of n fingers.
SwipeUpdate(n, d) ==
    /\ Running /\ fingers # 0
    /\ fingers' = n /\ n \in 2..fingers
    /\ UNCHANGED <<view, home, focused, held, stopped>>
    /\ CASE grab.kind = "switch" /\ n < WORKSPACE_SWITCH_FINGERS ->
               grab' = NoGrab /\ UNCHANGED <<suspended, pointer>>
         [] grab.kind = "scroll" /\ n < WORKSPACE_SCROLL_FINGERS -> EndTouchpadSwipe
         [] grab.kind = "scroll" /\ n >= WORKSPACE_SCROLL_FINGERS ->
               /\ grab' = [grab EXCEPT !.ready = TRUE, !.delta = d]
               /\ UNCHANGED <<suspended, pointer>>
         [] OTHER -> UNCHANGED <<grab, suspended, pointer>>

\* Seat::process_swipe_end: a scroll runs on; the switch of workspaces leaves
\* its grab.
SwipeEnd ==
    /\ Running /\ fingers # 0
    /\ fingers' = 0
    /\ grab' = IF grab.kind = "scroll" THEN [grab EXCEPT !.stop = TRUE] ELSE grab
    /\ UNCHANGED <<view, home, suspended, pointer, focused, held, stopped>>

\* Mutant: a scroll that stands still slows down, too.
Slower(g) == IF g.delta # 0 THEN g.delta - 1 ELSE g.speed - 1

\* The speed that friction leaves of what the fingers gave, or of the last one.
Slowed(g) == CASE g.delta # 0 -> g.delta - 1
               [] g.delta = 0 /\ g.speed # 0 -> g.speed - 1
               [] OTHER -> 0

\* Seat::update_swipe, first in Output::frame_handler.  Any tiled view of the
\* workspace may be the dominant one; without one it stays who it was.
Frame ==
    LET tiles == {v \in Views \ Floating : view[v] = "mapped" /\ home[v] = grab.workspace}
        speed == Slowed(grab)
    IN  /\ Running /\ grab.kind = "scroll" /\ grab.ready
        /\ UNCHANGED <<view, home, held, fingers>>
        /\ \E d \in tiles \cup {grab.view} :
             CASE d # None /\ view[d] = "destroyed" ->
                    stopped' = "freed" /\ UNCHANGED <<grab, suspended, pointer, focused>>
               [] (d = None \/ view[d] # "destroyed") /\ grab.stop /\ speed = 0 ->
                    /\ focused' = d
                    /\ EndTouchpadSwipe
                    /\ UNCHANGED stopped
               [] OTHER ->
                    /\ grab' = [grab EXCEPT !.view = d, !.speed = speed, !.delta = 0]
                    /\ UNCHANGED <<suspended, pointer, focused, stopped>>

-----------------------------------------------------------------------------
\* SurfaceManager::map_view with the cursor on workspace w.
MapView(v, w) ==
    /\ Running /\ view[v] = "unmapped"
    /\ view' = [view EXCEPT ![v] = "mapped"]
    /\ home' = [home EXCEPT ![v] = w]
    /\ focused' = v
    /\ UNCHANGED <<suspended, grab, pointer, held, fingers, stopped>>

\* SurfaceManager::unmap_view: another mapped view, if there is one, is focused.
UnmapView(v) ==
    /\ Running /\ view[v] = "mapped"
    /\ view' = [view EXCEPT ![v] = "unmapped"]
    /\ IF focused = v
       THEN focused' \in {u \in Views : u # v /\ view[u] = "mapped"} \cup {None}
       ELSE UNCHANGED focused
    /\ UNCHANGED <<home, suspended, grab, pointer, held, fingers, stopped>>

\* Mutant: a resized view is not looked for.
MovedOnly(v) == grab.kind = "move" /\ grab.view = v

\* Seat::is_grabbing
IsGrabbing(v) == grab.kind \in {"move", "resize"} /\ grab.view = v

\* XDGView::surface_destroy_handler and XwaylandView::destroy
DestroyView(v) ==
    /\ Running /\ view[v] = "unmapped"
    /\ view' = [view EXCEPT ![v] = "destroyed"]
    /\ IF IsGrabbing(v)
       THEN grab' = NoGrab /\ suspended' = Restored(grab) /\ pointer' \in Under
       ELSE UNCHANGED <<grab, suspended>> /\ pointer' = IF pointer = v THEN None ELSE pointer
    /\ UNCHANGED <<home, focused, held, fingers, stopped>>

\* Nothing is said of what the program does then.
Stopped == ~Running /\ UNCHANGED vars

Next ==
    \/ \E b \in Buttons, v \in Views \cup {None}, mods \in BOOLEAN : Press(b, v, mods)
    \/ \E b \in Buttons : Release(b)
    \/ \E v \in Views : RequestMove(v)
    \/ \E v \in Views : RequestResize(v)
    \/ MoveCursor
    \/ WarpCursor
    \/ Axis
    \/ \E n \in {2, 3, 4}, w \in Workspaces \cup {None} : SwipeBegin(n, w)
    \/ \E n \in {2, 3, 4}, d \in 0..MaxSpeed : SwipeUpdate(n, d)
    \/ SwipeEnd
    \/ Frame
    \/ \E v \in Views, w \in Workspaces : MapView(v, w)
    \/ \E v \in Views : UnmapView(v)
    \/ \E v \in Views : DestroyView(v)
    \/ Stopped

Spec == Init /\ [][Next]_vars

-----------------------------------------------------------------------------
(* PROPERTIES *)

\* The view that is moved or resized is there, whenever its client destroys it
\* (Seat::is_grabbing, asked by both kinds of view).
GrabbedViewThere ==
    Running /\ grab.kind \in {"move", "resize"} => view[grab.view] # "destroyed"

\* While a view is resized its old workspace does not animate, and however the
\* resize ends (by a release, a scroll, or the view's end) that workspace then
\* animates as before, wherever the view went meanwhile; only the swipe to
\* another workspace takes the grab without ending it (Seat.cpp:421).
ResizeRestores ==
    [][grab.kind = "resize" /\ Running =>
        /\ suspended[grab.workspace]
        /\ grab'.kind \in {"none", "scroll"} => suspended'[grab.workspace] = grab.old]_vars

\* A workspace scrolls with three fingers or more on the touchpad, or until the
\* swipe has slowed down, in whatever order fingers are lifted and swipes, mouse
\* and scrolling events come (Seat.cpp:503-506).
ScrollHasFingers ==
    Running /\ grab.kind = "scroll" => grab.stop \/ fingers >= WORKSPACE_SCROLL_FINGERS

\* begin_move's and begin_resize's assertion, Seat.cpp:255 and :287: nothing is
\* grabbed when a view is about to be.
NothingGrabbed == stopped # "grabbed"
=============================================================================
