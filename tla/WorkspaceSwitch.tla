-------------------------- MODULE WorkspaceSwitch --------------------------
(***************************************************************************)
(* Workspaces, outputs and the animated switch between workspaces:         *)
(* OutputManager.cpp, the activation part of Workspace.cpp, Seat::focus,   *)
(* ViewAnimation.cpp and Output::destroy_handler.                          *)
(*                                                                         *)
(* The compositor runs one event loop, so every handler is one action and  *)
(* concurrency is the order of events: a switch enqueues animation tasks,  *)
(* and what the switch still has to do is done by the callback of its last *)
(* task, 100 ms of events later.                                           *)
(*                                                                         *)
(* Abstracted: coordinates and time.  Tasks without a callback only move   *)
(* pixels and are left out of `tasks', and so are the columns (Desktop)    *)
(* and the keyboard focus (Desktop): a view is only tiled or floating.     *)
(* Every task lasts equally long, so the tasks with callbacks finish in    *)
(* the order in which they were enqueued.                                  *)
(***************************************************************************)
EXTENDS Integers, Sequences, FiniteSets

CONSTANTS
    Outputs,        \* identities of Output objects, each plugged in once
    Views,          \* identities of View objects
    WorkspaceNr,    \* number of workspaces made at start-up (4 in the code)
    MaxWorkspaces,  \* bound: how far create_workspace may grow the vector
    MaxTasks,       \* bound: length of the queue of tasks with callbacks
    Unplugging,     \* may outputs disappear while the compositor runs?
    Rushed,         \* may a switch start before the last one has finished?
    Disturbed,      \* may views be destroyed or grabbed, or outputs removed,
                    \* while a switch is under way?
    NoOutput        \* the null OptionalRef<Output>

ASSUME NumbersAssumption ==
    /\ WorkspaceNr \in Nat \ {0}
    /\ MaxWorkspaces \in Nat
    /\ WorkspaceNr <= MaxWorkspaces
    /\ MaxTasks \in Nat
ASSUME EnvironmentAssumption == {Unplugging, Rushed, Disturbed} \subseteq BOOLEAN
ASSUME NullAssumption == NoOutput \notin Outputs

VARIABLES
    outputs,     \* live outputs (OutputManager::outputs)
    unplugged,   \* outputs whose object has been freed
    wsNr,        \* size of OutputManager::workspaces
    wsOutput,    \* Workspace::output
    cursor,      \* the output under the cursor
    status,      \* View: "absent", "unmapped" or "mapped"
    viewWs,      \* View::workspace_id
    floating,    \* views that are on a list floating_views
    tasks        \* ViewAnimation::tasks, those with a callback

vars == <<outputs, unplugged, wsNr, wsOutput, cursor, status, viewWs, floating,
          tasks>>

NoWorkspace == -1
WorkspaceIds == 0 .. MaxWorkspaces - 1
workspaces == 0 .. wsNr - 1

Task == [view: Views, kind: {"arrive", "leave"}, ws: WorkspaceIds,
         out: Outputs, cancelled: BOOLEAN]

TypeOK ==
    /\ outputs \subseteq Outputs
    /\ unplugged \subseteq Outputs
    /\ wsNr \in WorkspaceNr .. MaxWorkspaces
    /\ wsOutput \in [WorkspaceIds -> Outputs \cup {NoOutput}]
    /\ cursor \in Outputs \cup {NoOutput}
    /\ status \in [Views -> {"absent", "unmapped", "mapped"}]
    /\ viewWs \in [Views -> WorkspaceIds \cup {NoWorkspace}]
    /\ floating \subseteq Views
    /\ tasks \in Seq(Task)

-----------------------------------------------------------------------------
(* What the handlers read. *)

\* Workspaces that are drawn on output o.
ShownOn(o) == {w \in workspaces : wsOutput[w] = o}

\* Mutant: a workspace number counted from one is taken for an index.
FocusedOneFurther ==
    IF cursor = NoOutput \/ ShownOn(cursor) = {}
    THEN NoWorkspace
    ELSE 1 + CHOOSE w \in ShownOn(cursor) : \A x \in ShownOn(cursor) : w <= x

\* Seat::get_focused_workspace: the FIRST workspace, by index, whose output
\* is under the cursor.
FocusedWorkspace ==
    IF cursor = NoOutput \/ ShownOn(cursor) = {}
    THEN NoWorkspace
    ELSE CHOOSE w \in ShownOn(cursor) : \A x \in ShownOn(cursor) : w <= x

\* The views of the columns of w, and those of its floating_views.
TilesOf(w) == {v \in Views : status[v] = "mapped" /\ viewWs[v] = w} \ floating
FloatingOf(w) == {v \in floating : status[v] = "mapped" /\ viewWs[v] = w}

\* The last element of the tasks built from tiles and then from floats is the
\* one that gets the callback.
Carriers(tiles, floats) == IF floats # {} THEN floats ELSE tiles

\* No callback is outstanding: the last switch is over.
Quiet == \A i \in 1 .. Len(tasks) : tasks[i].cancelled

\* A freed Output is still referenced.  What the code does from then on is
\* undefined, so every run in which outputs disappear checks that this state
\* is not reached.
DanglingOutput ==
    \/ \E w \in workspaces : wsOutput[w] \in unplugged
    \/ \E i \in 1 .. Len(tasks) :
          /\ ~tasks[i].cancelled
          /\ tasks[i].kind = "arrive"
          /\ tasks[i].out \in unplugged

-----------------------------------------------------------------------------
(* Building blocks of the handlers. *)

\* Mutants: deactivating forgets the output; deactivating clears the whole
\* output.
DeactivatedNot(w) == wsOutput
DeactivatedOutput(w) ==
    [x \in WorkspaceIds |-> IF wsOutput[x] = wsOutput[w] THEN NoOutput ELSE wsOutput[x]]

\* Workspace::activate, Workspace::deactivate
Activated(w, o) == [wsOutput EXCEPT ![w] = o]
Deactivated(w) == [wsOutput EXCEPT ![w] = NoOutput]

\* Mutant: only the oldest task of the views is cancelled.
CancelFirstTask(vs) ==
    [i \in 1 .. Len(tasks) |->
        [tasks[i] EXCEPT !.cancelled =
            @ \/ (tasks[i].view \in vs /\ \A j \in 1 .. i - 1 : tasks[j].view \notin vs)]]

\* ViewAnimation::cancel_tasks for each view of vs
CancelTasks(vs) ==
    [i \in 1 .. Len(tasks) |->
        [tasks[i] EXCEPT !.cancelled = @ \/ tasks[i].view \in vs]]

\* Mutant: the callback is set on every task of the batch.
CallbackOnEach(vs, kind, w, o) ==
    LET Orders == {f \in [1 .. Cardinality(vs) -> vs] :
                      \A v \in vs : \E i \in DOMAIN f : f[i] = v}
    IN {[i \in 1 .. Cardinality(vs) |->
           [view |-> order[i], kind |-> kind, ws |-> w, out |-> o,
            cancelled |-> FALSE]] : order \in Orders}

\* What a batch of tasks leaves in the queue: the one task that carries the
\* callback, which belongs to one of the views vs, or nothing if there is none.
CallbackTask(vs, kind, w, o) ==
    IF vs = {} THEN {<<>>}
    ELSE {<<[view |-> v, kind |-> kind, ws |-> w, out |-> o,
             cancelled |-> FALSE]>> : v \in vs}

-----------------------------------------------------------------------------
(* Outputs *)

\* OutputManager::output_layout_add_handler: the first workspace without an
\* output is put on the new one; if there is none, one is created.
PlugOutput(o) ==
    /\ o \notin outputs \cup unplugged
    /\ outputs' = outputs \cup {o}
    /\ LET free == {w \in workspaces : wsOutput[w] = NoOutput}
           first == CHOOSE w \in free : \A x \in free : w <= x
           assigned == IF free # {} THEN first ELSE wsNr
       IN /\ free # {} \/ wsNr < MaxWorkspaces
          /\ wsNr' = IF free # {} THEN wsNr ELSE wsNr + 1
          /\ wsOutput' = Activated(assigned, o)
    /\ cursor' = IF cursor = NoOutput THEN o ELSE cursor
    /\ UNCHANGED <<unplugged, status, viewWs, floating, tasks>>

\* Output::destroy_handler: only the first workspace found on the output is
\* deactivated.  The cursor may be left outside of every output.
UnplugOutput(o) ==
    /\ o \in outputs
    /\ Unplugging
    /\ Disturbed \/ Quiet
    /\ outputs' = outputs \ {o}
    /\ unplugged' = unplugged \cup {o}
    /\ wsOutput' = IF ShownOn(o) = {} THEN wsOutput
                   ELSE Deactivated(CHOOSE w \in ShownOn(o) :
                                        \A x \in ShownOn(o) : w <= x)
    /\ cursor' \in IF cursor = o THEN outputs' \cup {NoOutput} ELSE {cursor}
    /\ UNCHANGED <<wsNr, status, viewWs, floating, tasks>>

\* Seat::cursor_motion_handler, as far as it decides the output under it.
MoveCursor(o) ==
    /\ o \in outputs \ {cursor}
    /\ cursor' = o
    /\ UNCHANGED <<outputs, unplugged, wsNr, wsOutput, status, viewWs, floating,
                   tasks>>

-----------------------------------------------------------------------------
(* Views *)

\* create_view
CreateView(v) ==
    /\ status[v] = "absent"
    /\ status' = [status EXCEPT ![v] = "unmapped"]
    /\ viewWs' = [viewWs EXCEPT ![v] = NoWorkspace]
    /\ UNCHANGED <<outputs, unplugged, wsNr, wsOutput, cursor, floating, tasks>>

\* SurfaceManager::map_view: the view becomes a tile of the focused workspace.
\* With no focused workspace the code goes on to read workspaces[-1].
MapView(v) ==
    /\ status[v] = "unmapped"
    /\ FocusedWorkspace # NoWorkspace
    /\ status' = [status EXCEPT ![v] = "mapped"]
    /\ viewWs' = [viewWs EXCEPT ![v] = FocusedWorkspace]
    /\ UNCHANGED <<outputs, unplugged, wsNr, wsOutput, cursor, floating, tasks>>

\* SurfaceManager::unmap_view: off its workspace's lists; workspace_id stays,
\* and so do the tasks.
UnmapView(v) ==
    /\ status[v] = "mapped"
    /\ status' = [status EXCEPT ![v] = "unmapped"]
    /\ floating' = floating \ {v}
    /\ UNCHANGED <<outputs, unplugged, wsNr, wsOutput, cursor, viewWs, tasks>>

\* XDGView::surface_destroy_handler and SurfaceManager::remove_view
DestroyView(v) ==
    /\ status[v] = "unmapped"
    /\ Disturbed \/ Quiet
    /\ status' = [status EXCEPT ![v] = "absent"]
    /\ tasks' = CancelTasks({v})
    /\ UNCHANGED <<outputs, unplugged, wsNr, wsOutput, cursor, viewWs, floating>>

\* commands::toggle_floating
ToggleFloating(v) ==
    /\ status[v] = "mapped"
    /\ floating' = IF v \in floating THEN floating \ {v} ELSE floating \cup {v}
    /\ UNCHANGED <<outputs, unplugged, wsNr, wsOutput, cursor, status, viewWs,
                   tasks>>

\* change_view_workspace, by `workspace move' or by dragging a floating view
ChangeViewWorkspace(v, w) ==
    /\ status[v] = "mapped"
    /\ viewWs[v] # w
    /\ viewWs' = [viewWs EXCEPT ![v] = w]
    /\ UNCHANGED <<outputs, unplugged, wsNr, wsOutput, cursor, status, floating,
                   tasks>>

\* Seat::begin_move and begin_resize on a tiled view: the tasks of all tiles
\* of its workspace are cancelled (the grab itself is left to another module).
GrabTile(v) ==
    /\ status[v] = "mapped"
    /\ v \notin floating
    /\ Disturbed \/ Quiet
    /\ tasks' = CancelTasks(TilesOf(viewWs[v]))
    /\ UNCHANGED <<outputs, unplugged, wsNr, wsOutput, cursor, status, viewWs,
                   floating>>

-----------------------------------------------------------------------------
(* Seat::focus, called by `workspace switch' *)

\* The workspace under the cursor: nothing to do.
SwitchToFocused(w) ==
    /\ w = FocusedWorkspace
    /\ UNCHANGED <<outputs, unplugged, wsNr, wsOutput, cursor, status, viewWs,
                   floating, tasks>>

\* A workspace that already has an output: the cursor is warped there.
SwitchToShown(w) ==
    /\ w # FocusedWorkspace
    /\ wsOutput[w] # NoOutput
    /\ cursor' = wsOutput[w]
    /\ UNCHANGED <<outputs, unplugged, wsNr, wsOutput, status, viewWs, floating,
                   tasks>>

\* A hidden workspace: it is activated at once on the output of the focused
\* one.  The last task of the arriving views will warp the cursor, the last of
\* the leaving views will deactivate the previous workspace; with no leaving
\* view that is done now; with no arriving one the cursor is warped at once,
\* within the output it is on already.  (The code takes the floating views of
\* the previous workspace, not those of the arriving one, for both.)  With no
\* focused workspace the code unwraps the reference to it all the same
\* (Seat.cpp:648), where its assertion ends the program: no step here.
SwitchToHidden(w) ==
    LET prev == FocusedWorkspace
        out == wsOutput[prev]
        arriving == Carriers(TilesOf(w), FloatingOf(prev))
        leaving == Carriers(TilesOf(prev), FloatingOf(prev))
    IN /\ prev # NoWorkspace
       /\ wsOutput[w] = NoOutput
       /\ Len(tasks) + 2 <= MaxTasks
       /\ wsOutput' = IF leaving = {}
                      THEN [Activated(w, out) EXCEPT ![prev] = NoOutput]
                      ELSE Activated(w, out)
       /\ \E a \in CallbackTask(arriving, "arrive", w, out),
             l \in CallbackTask(leaving, "leave", prev, out) :
             tasks' = tasks \o a \o l
       /\ UNCHANGED <<outputs, unplugged, wsNr, cursor, status, viewWs, floating>>

SwitchWorkspace(w) ==
    /\ Rushed \/ Quiet
    /\ SwitchToFocused(w) \/ SwitchToShown(w) \/ SwitchToHidden(w)

-----------------------------------------------------------------------------
(* The animation timer *)

\* Mutant: of two tasks that are due in one pass only the first is run.
RunFirstOfTwo ==
    /\ tasks # <<>>
    /\ tasks' = IF Len(tasks) > 1 THEN Tail(Tail(tasks)) ELSE <<>>
    /\ LET t == Head(tasks)
       IN /\ cursor' = IF ~t.cancelled /\ t.kind = "arrive" THEN t.out ELSE cursor
          /\ wsOutput' = IF ~t.cancelled /\ t.kind = "leave"
                         THEN Deactivated(t.ws) ELSE wsOutput
    /\ UNCHANGED <<outputs, unplugged, wsNr, status, viewWs, floating>>

\* Mutant: the callback deactivates the workspace focused by then.
RunTaskOnFocused ==
    /\ tasks # <<>>
    /\ tasks' = Tail(tasks)
    /\ LET t == Head(tasks)
       IN /\ cursor' = IF ~t.cancelled /\ t.kind = "arrive" THEN t.out ELSE cursor
          /\ wsOutput' = IF ~t.cancelled /\ t.kind = "leave"
                         THEN Deactivated(FocusedWorkspace) ELSE wsOutput
    /\ UNCHANGED <<outputs, unplugged, wsNr, status, viewWs, floating>>

\* ViewAnimation::timer_callback handles every task that is due, oldest first:
\* a pass that finishes n callbacks is n of these steps.
RunTask ==
    /\ tasks # <<>>
    /\ tasks' = Tail(tasks)
    /\ LET t == Head(tasks)
       IN /\ cursor' = IF ~t.cancelled /\ t.kind = "arrive" THEN t.out ELSE cursor
          /\ wsOutput' = IF ~t.cancelled /\ t.kind = "leave"
                         THEN Deactivated(t.ws) ELSE wsOutput
    /\ UNCHANGED <<outputs, unplugged, wsNr, status, viewWs, floating>>

-----------------------------------------------------------------------------
Init ==
    /\ outputs = {}
    /\ unplugged = {}
    /\ wsNr = WorkspaceNr
    /\ wsOutput = [w \in WorkspaceIds |-> NoOutput]
    /\ cursor = NoOutput
    /\ status = [v \in Views |-> "absent"]
    /\ viewWs = [v \in Views |-> NoWorkspace]
    /\ floating = {}
    /\ tasks = <<>>

\* The environment: outputs, the pointer and the clients.
Surroundings ==
    \/ \E o \in Outputs : PlugOutput(o) \/ UnplugOutput(o) \/ MoveCursor(o)
    \/ \E v \in Views :
          \/ CreateView(v) \/ MapView(v) \/ UnmapView(v) \/ DestroyView(v)
          \/ ToggleFloating(v) \/ GrabTile(v)
          \/ \E w \in workspaces : ChangeViewWorkspace(v, w)

Next ==
    \/ Surroundings
    \/ \E w \in workspaces : SwitchWorkspace(w)
    \/ RunTask

Spec == Init /\ [][Next]_vars

\* The timer is re-armed at the end of every callback.
FairSpec == Spec /\ WF_vars(RunTask)
-----------------------------------------------------------------------------
(* Properties *)

\* ViewAnimation keeps raw View pointers.  A task that will still be run must
\* never point to a destroyed view: whatever the order of switch, unmap,
\* destroy and timer, timer_callback would move a freed View.
TaskViewsAlive ==
    \A i \in 1 .. Len(tasks) :
        ~tasks[i].cancelled => status[tasks[i].view] # "absent"

\* Every output shows a workspace, through any sequence of half-finished
\* switches (arrange_layers asserts it, get_focused_workspace relies on it).
OutputKept == \A o \in outputs : ShownOn(o) # {}

\* Why OutputKept holds with one output: each outstanding callback that will
\* take a workspace away is covered by a workspace activated for it.
LeavesIn(queue) ==
    {i \in 1 .. Len(queue) : queue[i].kind = "leave" /\ ~queue[i].cancelled}
LeavesCovered ==
    \A o \in outputs : Cardinality(LeavesIn(tasks)) < Cardinality(ShownOn(o))

\* "Each output has its own active workspace": once every switch is over, no
\* two workspaces are left on one output.
OneWorkspaceShown ==
    Quiet => \A o \in outputs : Cardinality(ShownOn(o)) <= 1

\* No workspace keeps a reference to an Output that has been freed.
NoDanglingOutput == ~DanglingOutput

\* A workspace goes off an output only when another one stays there, or the
\* output itself goes away: the screen is never blank in between.
HandsOver ==
    [][\A w \in workspaces :
          wsOutput[w] # NoOutput /\ wsOutput'[w] # wsOutput[w]
          => \/ \E x \in workspaces' \ {w} : wsOutput'[x] = wsOutput[w]
             \/ wsOutput[w] \notin outputs']_vars

\* A workspace that has been switched away from is taken off its output in
\* the end, so its views stop being drawn.
Leaving(w) ==
    \E i \in 1 .. Len(tasks) :
        tasks[i].kind = "leave" /\ tasks[i].ws = w /\ ~tasks[i].cancelled
LeaveCompletes ==
    \A w \in WorkspaceIds : Leaving(w) ~> wsOutput[w] = NoOutput
=============================================================================
