----------------------------- MODULE Grab_proof -----------------------------
(***************************************************************************)
(* Theorems about Grab, for any views, workspaces and levels of speed.     *)
(***************************************************************************)
EXTENDS Grab, TLAPS

\* A mapped view is in a workspace: it is this that a resize needs, which takes
\* the animations of the workspace its view is in.
MappedAtHome == \A v \in Views : view[v] = "mapped" => home[v] # None

\* The workspace of the view that is resized does not animate.
ResizeSuspends == grab.kind = "resize" => suspended[grab.workspace]

IInv == TypeOK /\ MappedAtHome /\ GrabbedViewThere /\ ResizeSuspends /\ ScrollHasFingers

-----------------------------------------------------------------------------
(* The steps that begin and end a grab *)

Grabs == [kind: {"none", "move", "resize", "scroll", "switch"},
          view: Views \cup {None}, workspace: Workspaces \cup {None},
          old: BOOLEAN, ready: BOOLEAN, stop: BOOLEAN,
          speed: 0..MaxSpeed, delta: 0..MaxSpeed]

\* What a grab is of, and the workspace a resize keeps from animating.
GoodGrab(g, s) ==
    /\ g \in Grabs
    /\ s \in [Workspaces -> BOOLEAN]
    /\ g.kind \in {"move", "resize"} => g.view # None /\ view'[g.view] # "destroyed"
    /\ g.kind \in {"resize", "scroll", "switch"} => g.workspace # None
    /\ g.kind = "resize" => s[g.workspace]

LEMMA NoGrabType == NoGrab \in Grabs /\ NoGrab.kind = "none"
BY NamesAssumption DEF NoGrab, Grabs

LEMMA NoSpeed == 0 \in 0..MaxSpeed
BY NamesAssumption

\* The grab there is, in a state of which the invariant holds.
LEMMA GrabIsGood ==
    ASSUME IInv, Running, view' = view
    PROVE  GoodGrab(grab, suspended)
<1>1. grab \in Grabs /\ suspended \in [Workspaces -> BOOLEAN]
  BY DEF IInv, TypeOK, Grabs
<1>2. /\ grab.kind \in {"move", "resize"} => grab.view # None /\ view[grab.view] # "destroyed"
      /\ grab.kind \in {"resize", "scroll", "switch"} => grab.workspace # None
      /\ grab.kind = "resize" => suspended[grab.workspace]
  BY DEF IInv, TypeOK, GrabbedViewThere, ResizeSuspends
<1>3. QED
  BY <1>1, <1>2 DEF GoodGrab

\* Seat::begin_move and Seat::begin_resize of a mapped view.
LEMMA BeginGrab ==
    ASSUME IInv, Running, NEW v \in Views, view[v] = "mapped", view' = view,
           grab.kind = "none", BeginMove(v) \/ BeginResize(v)
    PROVE  GoodGrab(grab', suspended') /\ grab'.kind # "scroll"
<1>1. /\ grab \in Grabs /\ suspended \in [Workspaces -> BOOLEAN]
      /\ v # None /\ view'[v] # "destroyed"
  <2>1. v # None /\ view'[v] # "destroyed"
    BY NamesAssumption
  <2>2. QED
    BY <2>1 DEF IInv, TypeOK, Grabs
<1>2. CASE grab' = grab /\ suspended' = suspended
  BY <1>1, <1>2 DEF GoodGrab
<1>3. CASE grab' = [NoGrab EXCEPT !.kind = "move", !.view = v] /\ suspended' = suspended
  <2>1. grab' \in Grabs /\ grab'.kind = "move" /\ grab'.view = v
    BY <1>3, NoSpeed DEF Grabs, NoGrab
  <2>2. QED
    BY <1>1, <1>3, <2>1 DEF GoodGrab
<1>4. CASE /\ grab' = [NoGrab EXCEPT !.kind = "resize", !.view = v, !.workspace = home[v],
                                     !.old = suspended[home[v]]]
           /\ suspended' = [suspended EXCEPT ![home[v]] = TRUE]
  <2>1. home[v] \in Workspaces /\ home[v] # None
    BY NamesAssumption DEF IInv, TypeOK, MappedAtHome
  <2>2. suspended[home[v]] \in BOOLEAN
    BY <1>1, <2>1
  <2>3. suspended' \in [Workspaces -> BOOLEAN] /\ suspended'[home[v]]
    BY <1>1, <1>4, <2>1
  <2>4. grab' \in Grabs /\ grab'.kind = "resize" /\ grab'.view = v /\ grab'.workspace = home[v]
    <3>1. PICK w \in Workspaces, o \in BOOLEAN : w = home[v] /\ o = suspended[home[v]]
      BY <2>1, <2>2
    <3>2. grab' = [NoGrab EXCEPT !.kind = "resize", !.view = v, !.workspace = w, !.old = o]
      BY <1>4, <3>1
    <3>3. QED
      BY <3>1, <3>2, NoSpeed DEF Grabs, NoGrab
  <2>5. QED
    BY <1>1, <2>1, <2>3, <2>4 DEF GoodGrab
<1>5. QED
  BY <1>2, <1>3, <1>4 DEF BeginMove, BeginResize

\* A resize that ends gives the workspace back what it took.
LEMMA RestoredType ==
    ASSUME IInv
    PROVE  Restored(grab) \in [Workspaces -> BOOLEAN]
<1>1. suspended \in [Workspaces -> BOOLEAN] /\ grab.old \in BOOLEAN
  BY DEF IInv, TypeOK
<1>2. QED
  BY <1>1 DEF Restored

\* Whatever ends leaves no grab, and its workspace as it was.
LEMMA EndGrab ==
    ASSUME IInv, Running, EndInteractive \/ EndTouchpadSwipe, view' = view
    PROVE  /\ GoodGrab(grab', suspended')
           /\ pointer' \in Views \cup {None}
           /\ grab' = grab \/ grab' = NoGrab
<1>1. CASE grab' = grab /\ suspended' = suspended /\ pointer' = pointer
  <2>1. pointer \in Views \cup {None}
    BY DEF IInv, TypeOK
  <2>2. QED
    BY <1>1, <2>1, GrabIsGood
<1>2. CASE grab' = NoGrab /\ suspended' = Restored(grab) /\ pointer' \in Under
  BY <1>2, NoGrabType, RestoredType DEF GoodGrab, Under
<1>3. QED
  BY <1>1, <1>2 DEF EndInteractive, EndTouchpadSwipe

-----------------------------------------------------------------------------
(* Each action keeps the invariant *)

\* All but the grab and the workspaces it suspends.
RestOK ==
    /\ view \in [Views -> {"unmapped", "mapped", "destroyed"}]
    /\ home \in [Views -> Workspaces \cup {None}]
    /\ pointer \in Views \cup {None} /\ focused \in Views \cup {None}
    /\ held \subseteq Buttons /\ fingers \in {0, 2, 3, 4}
    /\ stopped \in {"no", "grabbed", "unmapped", "freed"}
    /\ MappedAtHome

LEMMA Together ==
    ASSUME GoodGrab(grab', suspended'), RestOK', ScrollHasFingers'
    PROVE  IInv'
<1>1. TypeOK'
  BY DEF GoodGrab, Grabs, RestOK, TypeOK
<1>2. GrabbedViewThere' /\ ResizeSuspends'
  BY DEF GoodGrab, GrabbedViewThere, ResizeSuspends
<1>3. QED
  BY <1>1, <1>2 DEF IInv, RestOK

LEMMA RestIsOK == IInv => RestOK
BY DEF IInv, TypeOK, RestOK

\* Moving the cursor drags what is grabbed along; to a destroyed view it would
\* do so too, and the invariant says that there is none.
LEMMA MotionSteps ==
    ASSUME IInv, MoveCursor \/ WarpCursor
    PROVE  IInv'
<1>1. Running /\ UNCHANGED <<view, focused, held, fingers>>
  BY DEF MoveCursor, WarpCursor
<1>2. CASE Drag(grab) /\ UNCHANGED <<grab, suspended>> /\ pointer' \in Views \cup {None}
  <2>1. stopped' \in {stopped, "freed", "unmapped"}
    BY <1>2 DEF Drag
  <2>2. home' = home \/ \E v \in Views, w \in Workspaces : home' = [home EXCEPT ![v] = w]
    BY <1>2, ViewsAssumption DEF Drag
  <2>3. home' \in [Views -> Workspaces \cup {None}] /\ MappedAtHome'
    BY <1>1, <2>2, NamesAssumption DEF IInv, TypeOK, MappedAtHome
  <2>4. RestOK'
    BY <1>1, <1>2, <2>1, <2>3, RestIsOK DEF RestOK
  <2>5. GoodGrab(grab', suspended')
    BY <1>1, <1>2, GrabIsGood
  <2>6. ScrollHasFingers'
    BY <1>1, <1>2 DEF IInv, ScrollHasFingers
  <2>7. QED
    BY <2>4, <2>5, <2>6, Together
<1>3. CASE grab' = NoGrab /\ UNCHANGED <<home, suspended, stopped>> /\ pointer' \in Under
  <2>1. GoodGrab(grab', suspended') /\ ScrollHasFingers'
    BY <1>3, NoGrabType DEF GoodGrab, ScrollHasFingers, IInv, TypeOK
  <2>2. QED
    BY <1>1, <1>3, <2>1, RestIsOK, Together DEF RestOK, MappedAtHome, Under
<1>4. pointer \in Views \cup {None}
  BY DEF IInv, TypeOK
<1>5. QED
  BY <1>2, <1>3, <1>4 DEF MoveCursor, WarpCursor, Under

\* The mouse: buttons, motion and scrolling.
LEMMA MouseSteps ==
    ASSUME IInv,
           \/ \E b \in Buttons, v \in Views \cup {None}, mods \in BOOLEAN : Press(b, v, mods)
           \/ \E b \in Buttons : Release(b)
           \/ MoveCursor \/ WarpCursor \/ Axis
    PROVE  IInv'
<1>1. ASSUME NEW b \in Buttons, NEW v \in Views \cup {None}, NEW mods \in BOOLEAN,
             Press(b, v, mods)
      PROVE  IInv'
  <2>1. Running /\ view' = view /\ home' = home /\ fingers' = fingers
    BY <1>1 DEF Press
  <2>2. RestOK'
    BY <1>1, <2>1, RestIsOK, NamesAssumption DEF RestOK, Press, MappedAtHome
  <2>3. CASE v # None /\ mods /\ grab.kind = "none"
    <3>1. v \in Views /\ view[v] = "mapped"
      BY <1>1, <2>3 DEF Press, Under
    <3>2. BeginMove(v) \/ BeginResize(v)
      BY <1>1, <2>3 DEF Press
    <3>3. GoodGrab(grab', suspended') /\ grab'.kind # "scroll"
      BY <2>1, <2>3, <3>1, <3>2, BeginGrab
    <3>4. QED
      BY <2>2, <3>3, Together DEF ScrollHasFingers
  <2>4. CASE ~(v # None /\ mods /\ grab.kind = "none")
    <3>1. grab' = grab /\ suspended' = suspended
      BY <1>1, <2>4 DEF Press
    <3>2. GoodGrab(grab', suspended')
      BY <2>1, <3>1, GrabIsGood
    <3>3. ScrollHasFingers'
      BY <2>1, <3>1 DEF IInv, ScrollHasFingers
    <3>4. QED
      BY <2>2, <3>2, <3>3, Together
  <2>5. QED
    BY <2>3, <2>4
<1>2. ASSUME NEW b \in Buttons, Release(b)
      PROVE  IInv'
  <2>1. Running /\ EndInteractive
        /\ UNCHANGED <<view, home, focused, fingers, stopped>> /\ held' \subseteq held
    BY <1>2 DEF Release
  <2>2. QED
    BY <2>1, EndGrab, RestIsOK, Together, NoGrabType
       DEF RestOK, MappedAtHome, IInv, ScrollHasFingers, Running
<1>3. CASE Axis
  <2>1. Running /\ EndTouchpadSwipe /\ UNCHANGED <<view, home, focused, held, fingers, stopped>>
    BY <1>3 DEF Axis
  <2>2. QED
    BY <2>1, EndGrab, RestIsOK, Together, NoGrabType
       DEF RestOK, MappedAtHome, IInv, ScrollHasFingers, Running
<1>4. CASE MoveCursor \/ WarpCursor
  BY <1>4, MotionSteps
<1>5. QED
  BY <1>1, <1>2, <1>3, <1>4

\* Touchpad swipes, from the fingers that touch it to the last frame.
LEMMA SwipeSteps ==
    ASSUME IInv,
           \/ \E n \in {2, 3, 4}, w \in Workspaces \cup {None} : SwipeBegin(n, w)
           \/ \E n \in {2, 3, 4}, d \in 0..MaxSpeed : SwipeUpdate(n, d)
           \/ SwipeEnd
    PROVE  IInv'
<1>1. ASSUME NEW n \in {2, 3, 4}, NEW w \in Workspaces \cup {None}, SwipeBegin(n, w)
      PROVE  IInv'
  <2>1. /\ Running /\ fingers = 0 /\ fingers' = n
        /\ UNCHANGED <<view, home, focused, held, stopped>>
    BY <1>1 DEF SwipeBegin
  <2>2. CASE n = WORKSPACE_SCROLL_FINGERS /\ w # None
    <3>1. /\ grab' = [NoGrab EXCEPT !.kind = "scroll", !.workspace = w, !.view = focused]
          /\ suspended' = Restored(grab)
          /\ pointer' = pointer \/ pointer' \in Under
      <4>1. n # WORKSPACE_SWITCH_FINGERS
        BY <2>2 DEF WORKSPACE_SCROLL_FINGERS, WORKSPACE_SWITCH_FINGERS
      <4>2. BeginWorkspaceScroll(w)
        BY <1>1, <2>2, <4>1, Zenon DEF SwipeBegin
      <4>3. QED
        BY <4>2, Zenon DEF BeginWorkspaceScroll
    <3>2. focused \in Views \cup {None}
      BY DEF IInv, TypeOK
    <3>3. grab' \in Grabs /\ grab'.kind = "scroll" /\ grab'.workspace = w
      BY <2>2, <3>1, <3>2, NoSpeed DEF Grabs, NoGrab
    <3>4. GoodGrab(grab', suspended')
      BY <2>2, <3>1, <3>3, RestoredType DEF GoodGrab
    <3>5. ScrollHasFingers'
      BY <2>1, <2>2 DEF ScrollHasFingers
    <3>6. RestOK'
      BY <2>1, <3>1, RestIsOK DEF RestOK, MappedAtHome, Under
    <3>7. QED
      BY <3>4, <3>5, <3>6, Together
  <2>3. CASE n = WORKSPACE_SWITCH_FINGERS /\ w # None
    <3>1. /\ grab' = [NoGrab EXCEPT !.kind = "switch", !.workspace = w]
          /\ suspended' = suspended
          /\ pointer' = pointer \/ pointer' \in Under
      <4>1. n # WORKSPACE_SCROLL_FINGERS
        BY <2>3 DEF WORKSPACE_SCROLL_FINGERS, WORKSPACE_SWITCH_FINGERS
      <4>2. QED
        BY <1>1, <2>3, <4>1, Zenon DEF SwipeBegin
    <3>2. grab' \in Grabs /\ grab'.kind = "switch" /\ grab'.workspace = w
      BY <2>3, <3>1, NoSpeed DEF Grabs, NoGrab
    <3>3. suspended \in [Workspaces -> BOOLEAN]
      BY DEF IInv, TypeOK
    <3>4. GoodGrab(grab', suspended') /\ ScrollHasFingers'
      BY <2>3, <3>1, <3>2, <3>3 DEF GoodGrab, ScrollHasFingers
    <3>5. RestOK'
      BY <2>1, <3>1, RestIsOK DEF RestOK, MappedAtHome, Under
    <3>6. QED
      BY <3>4, <3>5, Together
  <2>4. CASE ~(n \in {WORKSPACE_SCROLL_FINGERS, WORKSPACE_SWITCH_FINGERS} /\ w # None)
    <3>1. EndTouchpadSwipe
      BY <1>1, <2>4 DEF SwipeBegin, WORKSPACE_SCROLL_FINGERS, WORKSPACE_SWITCH_FINGERS
    <3>2. GoodGrab(grab', suspended') /\ pointer' \in Views \cup {None}
      BY <2>1, <3>1, EndGrab
    <3>3. RestOK'
      BY <2>1, <3>2, RestIsOK DEF RestOK, MappedAtHome
    <3>4. grab'.kind = "scroll" => FALSE
      BY <3>1, NoGrabType DEF EndTouchpadSwipe, EndInteractive
    <3>5. QED
      BY <3>2, <3>3, <3>4, Together DEF ScrollHasFingers
  <2>5. QED
    BY <2>2, <2>3, <2>4
<1>2. ASSUME NEW n \in {2, 3, 4}, NEW d \in 0..MaxSpeed, SwipeUpdate(n, d)
      PROVE  IInv'
  <2>1. /\ Running /\ fingers' = n
        /\ UNCHANGED <<view, home, focused, held, stopped>>
    BY <1>2 DEF SwipeUpdate
  <2>2. CASE grab' = grab /\ suspended' = suspended /\ pointer' = pointer /\ grab.kind # "scroll"
    BY <2>1, <2>2, GrabIsGood, RestIsOK, Together DEF RestOK, MappedAtHome, ScrollHasFingers
  <2>3. CASE grab' = NoGrab /\ suspended' = suspended /\ pointer' = pointer /\ grab.kind = "switch"
    <3>1. GoodGrab(grab', suspended')
      BY <2>3, NoGrabType DEF GoodGrab, IInv, TypeOK
    <3>2. QED
      BY <2>1, <2>3, <3>1, NoGrabType, RestIsOK, Together DEF RestOK, MappedAtHome, ScrollHasFingers
  <2>4. CASE EndTouchpadSwipe /\ grab.kind = "scroll"
    <3>1. grab' = NoGrab
      BY <2>4 DEF EndTouchpadSwipe, EndInteractive
    <3>2. QED
      BY <2>1, <2>4, <3>1, EndGrab, NoGrabType, RestIsOK, Together
         DEF RestOK, MappedAtHome, ScrollHasFingers
  <2>5. CASE /\ grab.kind = "scroll" /\ n >= WORKSPACE_SCROLL_FINGERS
             /\ grab' = [grab EXCEPT !.ready = TRUE, !.delta = d]
             /\ suspended' = suspended /\ pointer' = pointer
    <3>1. GoodGrab(grab, suspended)
      BY <2>1, GrabIsGood
    <3>2. /\ grab' \in Grabs /\ grab'.kind = "scroll"
          /\ grab'.workspace = grab.workspace
      BY <2>5, <3>1 DEF GoodGrab, Grabs
    <3>3. GoodGrab(grab', suspended')
      BY <2>5, <3>1, <3>2 DEF GoodGrab
    <3>4. ScrollHasFingers'
      BY <2>1, <2>5 DEF ScrollHasFingers
    <3>5. pointer' = pointer
      BY <2>5
    <3>6. RestOK'
      BY <2>1, <3>5, RestIsOK DEF RestOK, MappedAtHome
    <3>7. QED
      BY <3>3, <3>4, <3>6, Together
  <2>6. QED
    <3>1. CASE grab.kind = "switch" /\ n < WORKSPACE_SWITCH_FINGERS
      BY <1>2, <2>3, <3>1, Zenon DEF SwipeUpdate
    <3>2. CASE grab.kind = "scroll" /\ n < WORKSPACE_SCROLL_FINGERS
      <4>1. ~(n >= WORKSPACE_SCROLL_FINGERS)
        BY <3>2 DEF WORKSPACE_SCROLL_FINGERS
      <4>2. QED
        BY <1>2, <2>4, <3>2, <4>1, Zenon DEF SwipeUpdate
    <3>3. CASE grab.kind = "scroll" /\ n >= WORKSPACE_SCROLL_FINGERS
      <4>1. ~(n < WORKSPACE_SCROLL_FINGERS)
        BY <3>3 DEF WORKSPACE_SCROLL_FINGERS
      <4>2. QED
        BY <1>2, <2>5, <3>3, <4>1, Zenon DEF SwipeUpdate
    <3>4. CASE grab.kind # "scroll" /\ ~(grab.kind = "switch" /\ n < WORKSPACE_SWITCH_FINGERS)
      BY <1>2, <2>2, <3>4, Zenon DEF SwipeUpdate
    <3>5. n < WORKSPACE_SCROLL_FINGERS \/ n >= WORKSPACE_SCROLL_FINGERS
      BY DEF WORKSPACE_SCROLL_FINGERS
    <3>6. QED
      BY <3>1, <3>2, <3>3, <3>4, <3>5, Zenon
<1>3. CASE SwipeEnd
  <2>1. /\ Running /\ fingers' = 0
        /\ UNCHANGED <<view, home, suspended, pointer, focused, held, stopped>>
        /\ grab' = IF grab.kind = "scroll" THEN [grab EXCEPT !.stop = TRUE] ELSE grab
    BY <1>3 DEF SwipeEnd
  <2>2. GoodGrab(grab, suspended)
    BY <2>1, GrabIsGood
  <2>3. GoodGrab(grab', suspended')
    BY <2>1, <2>2 DEF GoodGrab, Grabs
  <2>4. ScrollHasFingers'
    BY <2>1, <2>2 DEF ScrollHasFingers, GoodGrab, Grabs
  <2>5. QED
    BY <2>1, <2>3, <2>4, RestIsOK, Together DEF RestOK, MappedAtHome
<1>4. QED
  BY <1>1, <1>2, <1>3

\* A frame of a scroll changes the speed, the dominant view, or ends it.
LEMMA FrameStep ==
    ASSUME IInv, Frame
    PROVE  IInv'
<1>1. /\ Running /\ grab.kind = "scroll"
      /\ UNCHANGED <<view, home, held, fingers>>
  BY DEF Frame
<1>2. GoodGrab(grab, suspended)
  BY <1>1, GrabIsGood
<1>3. grab.view \in Views \cup {None} /\ pointer \in Views \cup {None} /\ focused \in Views \cup {None}
  BY DEF IInv, TypeOK
<1>4. PICK d \in Views \cup {None} :
         CASE d # None /\ view[d] = "destroyed" ->
                stopped' = "freed" /\ UNCHANGED <<grab, suspended, pointer, focused>>
           [] (d = None \/ view[d] # "destroyed") /\ grab.stop /\ Slowed(grab) = 0 ->
                /\ focused' = d
                /\ EndTouchpadSwipe
                /\ UNCHANGED stopped
           [] OTHER ->
                /\ grab' = [grab EXCEPT !.view = d, !.speed = Slowed(grab), !.delta = 0]
                /\ UNCHANGED <<suspended, pointer, focused, stopped>>
  BY <1>3, Zenon DEF Frame
<1>5. CASE stopped' = "freed" /\ UNCHANGED <<grab, suspended, pointer, focused>>
  <2>1. RestOK'
    BY <1>1, <1>5, RestIsOK DEF RestOK, MappedAtHome
  <2>2. QED
    BY <1>1, <1>2, <1>5, <2>1, Together DEF GoodGrab, ScrollHasFingers, Running
<1>6. CASE focused' = d /\ EndTouchpadSwipe /\ UNCHANGED stopped
  <2>1. grab' = NoGrab /\ pointer' \in Under
    BY <1>1, <1>6 DEF EndTouchpadSwipe, EndInteractive
  <2>2. GoodGrab(grab', suspended')
    BY <1>1, <1>6, EndGrab
  <2>3. RestOK'
    BY <1>1, <1>6, <2>1, RestIsOK DEF RestOK, MappedAtHome, Under
  <2>4. QED
    BY <2>1, <2>2, <2>3, NoGrabType, Together DEF ScrollHasFingers
<1>7. CASE /\ grab' = [grab EXCEPT !.view = d, !.speed = Slowed(grab), !.delta = 0]
           /\ UNCHANGED <<suspended, pointer, focused, stopped>>
  <2>1. Slowed(grab) \in 0..MaxSpeed
    <3>1. grab.delta \in 0..MaxSpeed /\ grab.speed \in 0..MaxSpeed
      BY <1>2 DEF GoodGrab, Grabs
    <3>2. QED
      BY <3>1, NamesAssumption DEF Slowed
  <2>2. grab' \in Grabs
    BY <1>2, <1>7, <2>1, NoSpeed DEF GoodGrab, Grabs
  <2>3. /\ grab'.kind = "scroll" /\ grab'.workspace = grab.workspace
        /\ grab'.stop = grab.stop /\ suspended' = suspended
    BY <1>1, <1>2, <1>7 DEF GoodGrab, Grabs
  <2>4. GoodGrab(grab', suspended')
    BY <1>1, <1>2, <2>2, <2>3 DEF GoodGrab
  <2>5. ScrollHasFingers'
    BY <1>1, <1>7, <2>3 DEF IInv, ScrollHasFingers, Running
  <2>6. UNCHANGED <<pointer, focused, stopped>>
    BY <1>7
  <2>7. RestOK'
    BY <1>1, <2>6, RestIsOK DEF RestOK, MappedAtHome
  <2>8. QED
    BY <2>4, <2>5, <2>7, Together
<1>8. QED
  BY <1>4, <1>5, <1>6, <1>7, Zenon

\* What clients do: they map, unmap and destroy views, and ask for grabs.
LEMMA ViewSteps ==
    ASSUME IInv, NEW v \in Views,
           \/ RequestMove(v) \/ RequestResize(v)
           \/ \E w \in Workspaces : MapView(v, w)
           \/ UnmapView(v) \/ DestroyView(v)
    PROVE  IInv'
<1>1. CASE RequestMove(v) \/ RequestResize(v)
  <2>1. /\ Running /\ view[v] = "mapped"
        /\ UNCHANGED <<view, home, pointer, focused, held, fingers>>
        /\ stopped' \in {stopped, "grabbed"}
    BY <1>1 DEF RequestMove, RequestResize
  <2>2. RestOK'
    BY <2>1, RestIsOK DEF RestOK, MappedAtHome
  <2>3. CASE grab.kind = "none"
    <3>1. BeginMove(v) \/ BeginResize(v)
      BY <1>1, <2>3 DEF RequestMove, RequestResize
    <3>2. GoodGrab(grab', suspended') /\ grab'.kind # "scroll"
      BY <2>1, <2>3, <3>1, BeginGrab
    <3>3. QED
      BY <2>2, <3>2, Together DEF ScrollHasFingers
  <2>4. CASE grab.kind # "none"
    <3>1. UNCHANGED <<grab, suspended>>
      BY <1>1, <2>4 DEF RequestMove, RequestResize
    <3>2. QED
      BY <2>1, <2>2, <3>1, GrabIsGood, Together DEF IInv, ScrollHasFingers
  <2>5. QED
    BY <2>3, <2>4
<1>2. CASE UnmapView(v) \/ \E w \in Workspaces : MapView(v, w)
  <2>1. /\ Running /\ UNCHANGED <<suspended, grab, pointer, held, fingers, stopped>>
        /\ \/ view[v] = "mapped" /\ view' = [view EXCEPT ![v] = "unmapped"] /\ home' = home
           \/ /\ view[v] = "unmapped" /\ view' = [view EXCEPT ![v] = "mapped"]
              /\ \E w \in Workspaces : home' = [home EXCEPT ![v] = w]
        /\ focused' \in Views \cup {None, focused}
    BY <1>2 DEF UnmapView, MapView
  <2>2. RestOK'
    BY <2>1, RestIsOK, NamesAssumption DEF RestOK, MappedAtHome
  <2>3. GoodGrab(grab', suspended')
    BY <2>1 DEF IInv, TypeOK, GrabbedViewThere, ResizeSuspends, GoodGrab, Grabs
  <2>4. ScrollHasFingers'
    BY <2>1 DEF IInv, ScrollHasFingers, Running
  <2>5. QED
    BY <2>2, <2>3, <2>4, Together
<1>3. CASE DestroyView(v)
  <2>1. /\ Running /\ UNCHANGED <<home, focused, held, fingers, stopped>>
        /\ view[v] = "unmapped" /\ view' = [view EXCEPT ![v] = "destroyed"]
        /\ pointer' \in Views \cup {None, pointer}
    BY <1>3 DEF DestroyView, Under
  <2>2. RestOK'
    BY <2>1, RestIsOK DEF RestOK, MappedAtHome
  <2>3. CASE IsGrabbing(v)
    <3>1. grab' = NoGrab /\ suspended' = Restored(grab)
      BY <1>3, <2>3 DEF DestroyView
    <3>2. QED
      BY <2>2, <3>1, NoGrabType, RestoredType, Together DEF GoodGrab, ScrollHasFingers
  <2>4. CASE ~IsGrabbing(v)
    <3>1. UNCHANGED <<grab, suspended>>
      BY <1>3, <2>4 DEF DestroyView
    <3>2. GoodGrab(grab', suspended')
      BY <2>1, <2>4, <3>1
         DEF IInv, TypeOK, GrabbedViewThere, ResizeSuspends, GoodGrab, Grabs, IsGrabbing
    <3>3. QED
      BY <2>1, <2>2, <3>1, <3>2, Together DEF IInv, ScrollHasFingers, Running
  <2>5. QED
    BY <2>3, <2>4
<1>4. QED
  BY <1>1, <1>2, <1>3

-----------------------------------------------------------------------------
(* The theorems *)

LEMMA InitIInv == Init => IInv
<1>1. Init => TypeOK
  BY NoGrabType, NamesAssumption DEF Init, TypeOK, Grabs, NoGrab
<1>2. Init => MappedAtHome /\ GrabbedViewThere /\ ResizeSuspends /\ ScrollHasFingers
  BY NoGrabType DEF Init, MappedAtHome, GrabbedViewThere, ResizeSuspends, ScrollHasFingers
<1>3. QED
  BY <1>1, <1>2 DEF IInv

LEMMA NextIInv == IInv /\ [Next]_vars => IInv'
<1>1. SUFFICES ASSUME IInv, [Next]_vars
               PROVE  IInv'
  OBVIOUS
<1>2. CASE UNCHANGED vars
  BY <1>1, <1>2 DEF vars, IInv, TypeOK, MappedAtHome, GrabbedViewThere, ResizeSuspends,
                    ScrollHasFingers, Running
<1>3. CASE Next
  BY <1>1, <1>2, <1>3, MouseSteps, SwipeSteps, FrameStep, ViewSteps, Zenon DEF Next, Stopped
<1>4. QED
  BY <1>1, <1>2, <1>3

\* The invariant that all of Grab rests on.
THEOREM Invariance == Spec => []IInv
BY InitIInv, NextIInv, PTL DEF Spec

\* The variables of a seat's grab keep their types; that a resize always has a
\* workspace is the part which needs more, that mapped views are at home.
THEOREM TypeCorrect == Spec => []TypeOK
<1>1. IInv => TypeOK
  BY DEF IInv
<1>2. QED
  BY <1>1, Invariance, PTL

\* No cursor motion moves or resizes a view that its client has destroyed
\* (Seat::is_grabbing in both destroy handlers), for any number of views.
THEOREM GrabbedViewIsThere == Spec => []GrabbedViewThere
<1>1. IInv => GrabbedViewThere
  BY DEF IInv
<1>2. QED
  BY <1>1, Invariance, PTL

\* No workspace scrolls without fingers or the speed they left
\* (Seat::process_swipe_begin, _update and _end).
THEOREM ScrollNeedsFingers == Spec => []ScrollHasFingers
<1>1. IInv => ScrollHasFingers
  BY DEF IInv
<1>2. QED
  BY <1>1, Invariance, PTL

\* What a step does to the workspace of a resize that it ends.
LEMMA ResizeEnds ==
    ASSUME IInv, Next, grab.kind = "resize", grab'.kind \in {"none", "scroll"}
    PROVE  suspended' = Restored(grab)
<1>1. CASE grab' = grab
  BY <1>1
<1>2. ASSUME NEW b \in Buttons, Release(b)
      PROVE  suspended' = Restored(grab)
  BY <1>2 DEF Release, EndInteractive
<1>3. ASSUME NEW b \in Buttons, NEW v \in Views \cup {None}, NEW mods \in BOOLEAN,
             Press(b, v, mods)
      PROVE  grab' = grab
  BY <1>3 DEF Press
<1>4. ASSUME NEW v \in Views, RequestMove(v) \/ RequestResize(v)
      PROVE  grab' = grab
  BY <1>4 DEF RequestMove, RequestResize
<1>5. ASSUME MoveCursor \/ WarpCursor \/ Axis
      PROVE  grab' = grab
  BY <1>5 DEF MoveCursor, WarpCursor, Axis, EndTouchpadSwipe
<1>6. ASSUME NEW n \in {2, 3, 4}, NEW w \in Workspaces \cup {None}, SwipeBegin(n, w)
      PROVE  suspended' = Restored(grab)
  <2>1. CASE n = WORKSPACE_SCROLL_FINGERS /\ w # None
    <3>1. n # WORKSPACE_SWITCH_FINGERS
      BY <2>1 DEF WORKSPACE_SCROLL_FINGERS, WORKSPACE_SWITCH_FINGERS
    <3>2. QED
      BY <1>6, <2>1, <3>1, Zenon DEF SwipeBegin, BeginWorkspaceScroll
  <2>2. CASE n = WORKSPACE_SWITCH_FINGERS /\ w # None
    <3>1. n # WORKSPACE_SCROLL_FINGERS
      BY <2>2 DEF WORKSPACE_SCROLL_FINGERS, WORKSPACE_SWITCH_FINGERS
    <3>2. grab' = [NoGrab EXCEPT !.kind = "switch", !.workspace = w]
      BY <1>6, <2>2, <3>1, Zenon DEF SwipeBegin
    <3>3. grab'.kind = "switch"
      BY <3>2 DEF NoGrab
    <3>4. QED
      BY <3>3
  <2>3. CASE ~(n \in {WORKSPACE_SCROLL_FINGERS, WORKSPACE_SWITCH_FINGERS} /\ w # None)
    <3>1. EndTouchpadSwipe
      BY <1>6, <2>3 DEF SwipeBegin, WORKSPACE_SCROLL_FINGERS, WORKSPACE_SWITCH_FINGERS
    <3>2. QED
      BY <3>1 DEF EndTouchpadSwipe
  <2>4. QED
    BY <2>1, <2>2, <2>3
<1>7. ASSUME NEW n \in {2, 3, 4}, NEW d \in 0..MaxSpeed, SwipeUpdate(n, d)
      PROVE  grab' = grab
  BY <1>7, Zenon DEF SwipeUpdate
<1>8. ASSUME SwipeEnd
      PROVE  grab' = grab
  BY <1>8 DEF SwipeEnd
<1>9. ASSUME NEW v \in Views, UnmapView(v) \/ \E w \in Workspaces : MapView(v, w)
      PROVE  grab' = grab
  BY <1>9 DEF MapView, UnmapView
<1>10. ASSUME NEW v \in Views, DestroyView(v)
       PROVE  suspended' = Restored(grab)
  <2>1. CASE IsGrabbing(v)
    BY <1>10, <2>1 DEF DestroyView
  <2>2. CASE ~IsGrabbing(v)
    BY <1>10, <2>2 DEF DestroyView
  <2>3. QED
    BY <2>1, <2>2
<1>11. ~Frame
  BY DEF Frame
<1>12. Stopped => grab' = grab
  BY DEF Stopped, vars
<1>13. QED
  BY <1>1, <1>2, <1>3, <1>4, <1>5, <1>6, <1>7, <1>8, <1>9, <1>10, <1>11, <1>12, Zenon
     DEF Next

\* While a view is resized its old workspace does not animate, and then it does
\* as before (Seat::end_interactive), however the resize ends but by a swipe to
\* another workspace.
THEOREM ResizeGivesBack == Spec => ResizeRestores
<1>1. ASSUME IInv, [Next]_vars, grab.kind = "resize", Running
      PROVE  /\ suspended[grab.workspace]
             /\ grab'.kind \in {"none", "scroll"} => suspended'[grab.workspace] = grab.old
  <2>1. /\ suspended \in [Workspaces -> BOOLEAN]
        /\ grab.workspace \in Workspaces
    BY <1>1 DEF IInv, TypeOK
  <2>2. suspended[grab.workspace]
    BY <1>1 DEF IInv, ResizeSuspends
  <2>3. ASSUME grab'.kind \in {"none", "scroll"}
        PROVE  suspended'[grab.workspace] = grab.old
    <3>1. Next
      BY <1>1, <2>3 DEF vars
    <3>2. suspended' = [suspended EXCEPT ![grab.workspace] = grab.old]
      BY <1>1, <2>3, <3>1, ResizeEnds DEF Restored
    <3>3. QED
      BY <2>1, <3>2
  <2>4. QED
    BY <2>2, <2>3
<1>2. QED
  BY <1>1, Invariance, PTL DEF ResizeRestores, Spec
=============================================================================
