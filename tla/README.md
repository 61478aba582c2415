# Cardboard, verified: TLA+ models of a scrollable tiling compositor

Cardboard is a Wayland compositor on top of wlroots. Its views are tiles in
columns on workspaces wider than the screen; outputs show workspaces; it is
commanded through a Unix socket by `cutter`, which packs its arguments with the
library `libcardboard`. Everything in the compositor runs in one event loop, so
no two handlers ever overlap. What is hard is the order of events: client
requests that are answered later, animations whose callbacks finish a command
100 ms after it was given, devices and clients that go away in between.

This directory holds TLA+ modules of that logic, the TLC configurations that
model-check them on small instances, and TLAPS proofs. Paths below are relative
to the repository root; `PROJECT.json` maps every definition to its lines.

    tlc  -config switch_rushed.cfg MCWorkspaceSwitch.tla     # one run
    tlapm WorkspaceSwitch_proof.tla                           # the proofs

## 1. Inventory

One line per component: the state it keeps, its operations, who it talks to,
what is hard about it, and what makes it correct.

### Outputs and workspaces (`Output`, `OutputManager`, `Workspace`)
*State.* The list of live outputs; a vector of workspaces, indexed by number and
never shrunk; for each workspace its columns of tiles, its floating views, its
fullscreen view, its scroll position and an optional reference to its output.
*Operations.* An output appears (the first workspace without an output goes on
it, or a new one is made), changes its mode, disappears; a workspace is
activated on an output and deactivated; views are added, removed, stacked in one
column or popped out of it; a view becomes the fullscreen one; the workspace is
arranged and scrolled.
*Interactions.* Called by the commands, the seat and the surface manager;
enqueues into the animation queue; reads layer-shell exclusive zones.
*Hard.* References to freed outputs; two workspaces on one output while a switch
is animated; columns that become empty; the fullscreen view leaving by several
routes.
*Correct when* every output shows a workspace, and exactly one when nothing is
animated; no workspace refers to a freed output; a view is in one slot of the
workspace it names; no column is empty; the fullscreen view is a mapped view of
its workspace.

### Seat: keyboard focus, focus stack, switching (`Seat`)
*State.* The focus stack of views, the keyboard focus kept by wlroots, the
focused layer, the exclusive client, the grab state, the swipe state, the
keyboards and the input-inhibition manager.
*Operations.* Focus a view, a surface, a layer, by direction, by column, by
cycling; hide a view; drop it from the stack; switch workspace; begin, update
and end a move, a resize or a swipe; take and give up exclusiveness.
*Interactions.* Reads the cursor to decide the focused workspace; uses the
workspaces; enqueues callbacks.
*Hard.* The focused view is *derived* (front of the stack, if the keyboard has
any focus) and can disagree with the surface that has the keys; a switch goes on
after the command has returned; grabs outlive the view they grabbed.
*Correct when* the stack holds only mapped views, each once; the focused view
has the keyboard; a switch ends on the workspace asked for.

### View animation queue (`ViewAnimation`)
*State.* A queue of tasks: raw view pointer, start, target, begin time, cancelled
flag, optional callback. *Operations.* Enqueue, cancel the tasks of a view, the
timer callback (finishes due tasks in order, runs their callbacks, re-arms).
*Hard.* Raw pointers over 100 ms; a cancelled task takes its callback with it.
*Correct when* no task that will run points to a destroyed view, and a callback
that must run is run.

### Views and surfaces (`View`, `XDGView`, `XwaylandView`, `SurfaceManager`, `ViewOperations`)
*State.* Mapped or not, workspace id, geometry, expansion state (normal,
fullscreen, recovering) and the state saved on entering fullscreen; the surface
manager's lists. *Operations.* create, map, unmap, destroy, commit, the client's
requests for fullscreen, move and resize, change of workspace, recovery.
*Hard.* Configure and commit are a round trip: the compositor changes its mind
in between. *Correct when* the state is saved once and restored once, a
recovering view gets back into the tiling, and a view removed from its workspace
is not its fullscreen view any longer.

### Commands (`commands/commands.h`)
Stateless functions on the focused view; their preconditions (a column, a
focused workspace) are what can be wrong.

### Layer shell (`Layers`)
*State.* Four lists of layer surfaces, the usable area of each output, the
focused layer and the exclusive client of the seat. *Operations.* create, map,
commit, unmap, destroy, arrange (exclusive zones shrink the usable area, the
first surface above the views that wants the keyboard gets it), an output goes
away; a client takes and gives up exclusive input. *Hard.* An output freed with
surfaces on it; views, layers and an exclusive client that all want the
keyboard. *Correct when* the layer that should have the keyboard has it, an
exclusive client shares it with nobody's view, and the keyboard goes back to a
view.

### IPC server (`IPC`) and client (`libcardboard`)
*State.* Per client: the descriptor, the state of the connection (waiting for a
header, for a payload, ready to write), the size announced, the reply.
*Operations.* accept, read header, read payload, run the command, write the
reply, remove. *Hard.* A command in pieces, clients killed between them, events
collected for a connection that another callback removes, a compositor that
quits while programs wait. *Correct when* only whole commands run, each once,
and a program that waits is let go.

### `cutter`, commands, key bindings (`parse_arguments.h`, `dispatch_command.cpp`, `Keyboard`)
*State.* The table from modifiers and key to commands; the configuration; the
keyboards and what is held on each. *Operations.* parse a line, dispatch a
command, bind, configure, a key goes down, a keyboard comes and goes. *Hard.*
Two programs each have their own idea of what a modifier is; a bind in a bind;
keys while the screen is locked. *Correct when* what the parser accepts the
dispatcher can carry out, and a chord means the same however it is spelled.

### Viewport (`Workspace::arrange_workspace`, `fit_view_on_screen`, `find_dominant_view`, `View::cycle_width`)
*State.* Columns, widths, the scroll position and the usable area. *Hard.* Two
functions compute where a column is, in two systems of coordinates, from
different views of the column; ratios are compared after they were cut to
pixels. *Correct when* a view that has been fitted is on the screen, and the
viewport has moved no further than that took.

### Cursor, Server, listeners
The cursor decides the focused workspace (it may be on no output at all) and,
with `cursor_rebase`, who has the pointer; the server wires the parts together,
starts the configuration script and reaps it; `Listeners` and `OptionalRef` are
plumbing whose hazards appear where they are used.

Not modelled at all: build files, protocol XML, man pages, logging, rendering
(`Output.cpp` frame code), the spawned processes.

## 2. Modules

| module | models | extends / instantiates |
|---|---|---|
| `WorkspaceSwitch` | outputs, activation of workspaces, `Seat::focus`, the animation queue, removal of outputs | |
| `SwitchHistory` | `WorkspaceSwitch` with a record of the workspace last asked for | `WorkspaceSwitch` |
| `WorkspaceSwitch_proof` | types, dangling views and outputs, which workspaces are shown | `SwitchHistory`, TLAPS |
| `Layout` | the layout of one workspace as a value, and its edits | |
| `Lemmas` | the edits of a sequence and of a layout, recursion, greatest and least numbers | `Layout`, TLAPS |
| `Desktop` | views, layouts, fullscreen, keyboard focus, commands | `Layout`, `Placement` |
| `Desktop_proof` | its invariants and the refinement of `Placement` | `Desktop`, `Lemmas` |
| `Placement` | abstract: the workspace each view is at home on | |
| `Viewport` | columns in pixels, fitting, panels, width cycling, swipes | `Layout` |
| `Viewport_proof` | what is fitted is on the screen; the widths cycle; a swipe settles | `Viewport`, `Lemmas` |
| `SeatFocus` | layer surfaces, views and an exclusive client want the keyboard | |
| `SeatFocus_proof` | who has the keyboard and the pointer | `SeatFocus`, `Lemmas` |
| `Grab` | move, resize and swipe grabs | |
| `Grab_proof` | its invariants, and what a resize gives back | `Grab`, TLAPS |
| `IpcConnection` | the command socket, both ends, and the event loop | `IpcRequest` |
| `IpcRequest` | abstract: what a program that sends one command is promised | |
| `IpcConnection_proof` | types, whole commands, the refinement, for all constants | `IpcConnection`, TLAPS |
| `CommandLine` | `cutter`'s parser and `dispatch_command`, as functions | |
| `KeyBindings` | the binding table, keyboards and the lock | `CommandLine`, `Chords` |
| `Chords` | abstract: a table from sets of modifiers and a key to commands | |
| `KeyBindings_proof` | nothing is thrown, the lock, the refinement of `Chords` | `KeyBindings`, `Lemmas` |
| `MC...` | values of constants, and symmetry, for TLC | the module of that name |

### WorkspaceSwitch
| state | code |
|---|---|
| `outputs`, `unplugged` | `OutputManager::outputs`, and the objects freed by `destroy_handler` |
| `wsNr`, `wsOutput` | `OutputManager::workspaces` and `Workspace::output` |
| `cursor` | the output `get_output_at` finds under the pointer |
| `status`, `viewWs`, `floating` | mapped flag, `View::workspace_id`, `floating_views` |
| `tasks` | `ViewAnimation::tasks`, only those with a callback |

A switch (`Seat::focus`, `SwitchToHidden`) activates the new workspace at once,
beside the old one, and enqueues two batches of tasks; the last task of the
arriving batch warps the cursor, the last of the leaving batch deactivates the
old workspace. `RunTask` is one finished task of `timer_callback`. Which view is
last in a batch depends on columns that this module leaves out, so any view of
the batch may carry the callback. All tasks last equally long, so they finish in
queue order; tasks without a callback are left out because they change pixels
only. Views in the fullscreen state are not counted as carriers: the module has
no fullscreen (`Desktop` has). Where the code takes the floating views of the
*previous* workspace for the arriving batch, so does the model.

A state in which a workspace or a live callback refers to a freed output is
`DanglingOutput`; from there the behaviour of the code is undefined. The run in
which outputs go away between switches checks that it is not reached; if they may
go away during one it is, which section 3 lists among what is stated and not run.
With no focused workspace `SwitchToHidden` has no step: the code unwraps a null
reference there (`Seat.cpp:648`).

### Desktop
| state | code |
|---|---|
| `view[v]` | mapped state, `workspace_id`, `expansion_state`, `saved_state`, and whether the geometry is the tile's or the screen's; `target` is what was last configured |
| `layout[w]` | `columns` and `floating_views` |
| `fullscreen[w]` | `fullscreen_view` |
| `active` | the workspace under the cursor |
| `focus.keyboard`, `focus.stack` | the seat's focused surface and `focus_stack` |
| `failed` | the assertion or dereference that ended the program |

Each handler and each command is one action, with the refocusing it does at its
end. `FocusView` and `LastFocused` take the views and the fullscreen views as
they are *when the code calls them*: `UnmapView` clears the mapped flag, then the
layout, then the fullscreen view, and only then looks for another view to focus.
`Foreign` stands for surfaces that take the keyboard without being views
(override-redirect X11 surfaces), and for the surface of a destroyed view.
Two simplifications are worth knowing: every workspace is on an output of its
own, so `workspace switch` moves the cursor and nothing is animated; and no layer
surface or exclusive client takes the keyboard.

`Layout` has the pure edits (`AddView`, `RemoveView`, `InsertIntoColumn`,
`PopFromColumn`, `MoveTile`, `ToggleFloating`), which both `Desktop` and
`Viewport` are built from.

`Placement` is the abstract specification that `Desktop` implements: a view
appears on the workspace under the cursor, leaves, or moves, one at a time; the
mapping takes the home of a view to be the workspace whose layout holds it.
It says that no command or event displaces a view other than the one it is
about, in spite of the removal and insertion in two layouts each of them does.

### Viewport
| state | code |
|---|---|
| `plane` | `Workspace::columns` and `floating_views`, each view's `expansion_state` and `geometry.width`, `Output::usable_area` |
| `scroll` | `Workspace::scroll_x` |
| `stack` | `Seat::focus_stack`, the keyboard being with its front |
| `fitted` | the view that the step has given to `fit_view_on_screen`, to state what it achieved |
| `stopped` | `find_dominant_view` has followed a null pointer |

`arrange_workspace` runs at the end of every change, so the positions of the
views are a function of the plane (`X`), not state. `Arranged` and `Wx` are the
two computations of a column's place, kept apart as in the code: the first takes
the widest tile, the second the last; `Total` is the loop that adds the columns
up. `Coverage` is in thousandths, rounded up, where the code has a `double`; the
rounding can hide a difference of a thousandth, which `SwipeSettles` allows for.
`Ratios` are in 10000ths where the code has the golden ratio as a `double`.

### SeatFocus
| state | code |
|---|---|
| `view`, `surface`, `layers` | which views are mapped; each `wlr_layer_surface_v1`; `SurfaceManager::layers` |
| `focus` | the focused surface wlroots keeps, `focus_stack`, `focused_layer`, `exclusive_client` |
| `pointer` | the surface with the pointer, from `cursor_rebase` |
| `stopped` | the assertion of `focus_layer` has failed, or `focused_layer` is freed memory |

A handler that arranges the layers does so in the same step (`Arranged`), and
one that rebases the cursor lets the pointer be on anything that is there then
(`Rebased`). When an output goes away its surfaces are closed one by one, each
passing the focus on (`PassedOn`).

### Grab
`grab` is the variant `Seat::grab_state` with the workspace whose animations a
resize has suspended; `suspended` those flags; `fingers` and `held` what is on
the touchpad and the mouse. Every event handler of the seat that touches the grab
is an action; positions are left out, so what is under the cursor may be
anything, and the speed of a swipe is one of a few levels. A program that ends in
an assertion (`begin_move` under a grab, `XwaylandView::resize` of an unmapped
view) stops.

### IpcConnection
A program is `open_client`, one `send_command`, one `wait_response`; a stream is
a count of bytes, since a command can only be wrong by where it is cut. `Poll` is
`epoll_wait`: it takes a snapshot of the events (`pending`), and `Dispatch` runs
one callback at a time on it, so clients write, die and are removed in between.
The reply is `message` bytes of which the code writes `HeaderSize`, over the
header (`Answer`, `WrittenReply`).

`IpcRequest` is the promise: a command that a client has begun to send is run at
most once, and a malformed one never. The mapping takes what was sent, what ran,
and which clients have hung up.

### CommandLine, KeyBindings
An argument is the sequence of what its `+` signs separate, a line a sequence of
arguments. A bind may hold a bind, to any depth, which the code parses and
dispatches by recursion; a line is therefore taken as the chords of its binds, in
order, and the command at the end. `ParseArguments` returns these two, or
`Refused` or `Aborted` (an uncaught exception of `std::stoi`) for the command;
`DispatchChord` and `DispatchCommand` what the compositor makes of each, or
`Thrown`. Modifiers are added up as bits, with a table of their own on
either side. `KeyBindings` is the table `map` from mask and key. The code's array
has a row for each mask but the last (`Rows`, `Keyboard.h:81`): a bind or a key
press with all eight modifiers at once runs past it. Of such a step the model
keeps only that it happened (`overrun`, set in `Settles`), and stops, since
nothing says what the program does then.

`Chords` is the promise: a chord is a set of modifiers and a key, and a bind
registers its command, in the place of an older one. The code's `insert` keeps the
older one, so `KeyBindings` implements `Chords` only while nobody binds a chord to
a second command; the constant `Rebinding` says whether users do.

## 3. Runs

Passing runs:

| run | instance | shows |
|---|---|---|
| `switch_rushed` | 1 output, 3 workspaces, 2 views, 4 callbacks; switches at any time, views destroyed and grabbed half way; the history variable is hidden from the `VIEW` | `TypeOK`, `TaskViewsAlive`, `LeavesCovered`, which implies that the output is never blank |
| `switch_patient` | up to 3 outputs that come and go, 2 workspaces to start with and a third made on demand, 2 views; one switch at a time, nothing removed during it; with the history variable | `SwitchHonoured`, `OneWorkspaceShown`, `OutputKept`, `NoDanglingOutput`, and under fairness `LeaveCompletes` |
| `desktop_tiling` | 3 views that are mapped and unmapped again, 2 workspaces, no fullscreen | `TypeOK`, `PlacedOnce`, `NoEmptyColumn`, `FocusStackSound`, `FocusedHoldsKeyboard`, `ImplementsPlacement` |
| `desktop_fullscreen` | 2 views that go fullscreen, one a dialog of the other and mapped again at any time, 2 workspaces | `FullscreenSound`, `FullscreenOwned` |
| `ipc_served` | 2 programs, each with any of four commands: without a reply, with one longer than a header, malformed, and quit | `TypeOK`, `RunsWhole`, `ImplementsRequest`, and under fairness `ClientReturns` |
| `keys` | 16 lines, 2 keyboards that come and go and hold no modifier, one, two or all eight, keys that stand for two keysyms; no chord is bound to a second command | `TypeOK`, `NeverThrows`, `LockHolds`, `ImplementsChords` |
| `layers` | 2 views and 3 layer surfaces of 2 clients, an output that is unplugged | `TypeOK`, `FocusedLayerThere`, `FocusedLayerHoldsKeyboard`, `TopmostHasFocus`, `ExclusiveKeepsOut`, `KeyboardReturns` |
| `grab` | a floating X11 view and a tiled one, 2 workspaces, 2 buttons, 2 levels of speed | `TypeOK`, `GrabbedViewThere`, `ScrollHasFingers`, `ResizeRestores` |
| `viewport` | 3 views of 2 widths to begin with on an output of 1920 pixels, with a panel on each side or none, 2 scrolls, 2 edits | `TypeOK`, `FittedOnScreen`, `ScrolledClear`, `JustEnough`, `WidthsCycle`, `SwipeSettles` |

Runs that find a disagreement with what the code's own docs say (each is a
finding in `PROJECT.json`):

| run | violated | what happens |
|---|---|---|
| `switch_back_lost` | `SwitchHonoured` | switching there and back within 100 ms hides the workspace asked for |
| `ipc_reply_lost` | `ReplyDelivered` | four characters of the reply arrive in the place of its header, and nothing else |
| `viewport_second_output` | `FittedAnywhere` | on an output at x = 1920 a view that is scrolled off the left edge is left there |

Further disagreements are stated as properties and not run. Each shows with a
`.cfg` that differs from the one named as said:

| property | start from | change | what happens |
|---|---|---|---|
| `OneWorkspaceShown` | `switch_rushed` | `Rushed = FALSE` | the view that carries the callback closes; nobody deactivates the old workspace |
| `NoDanglingOutput` | `switch_rushed` | `Rushed = FALSE`, `Unplugging = TRUE`, two outputs | an output removed during a switch leaves a workspace that refers to it |
| `SaveStateHolds`, `RecoveryEnds` | `desktop_fullscreen` | for `RecoveryEnds`, `FairSpec` | a second fullscreen request fails `save_state`; a view that leaves fullscreen before its client resized never recovers |
| `ColumnFound` | `desktop_tiling` | none | `insert_into_column` of a floating view follows `columns.end()` |
| `BindingRegistered` | `keys` | `Rebinding = TRUE` | a chord that is bound again keeps its first command, though `man/cutter.1.md:25` says that bind registers the new one |
| `EachCombinationHasMap` | `keys` | none | a bind or a key press with all eight modifiers indexes the array one past its end, though `Keyboard.h:65` says that there is a map for each combination |
| `LayerAssertionHolds` | `layers` | none | a focused surface whose output is gone is passed the focus again |
| `NothingGrabbed` | `grab` | none | a second button starts a move during a resize |

`switch_back_lost` has two relatives with the same cause, a second switch while
the first one's callbacks are queued. They show by checking other invariants on
the same instance: `OneWorkspaceShown` (two workspaces stay on the output) and,
with two outputs and four workspaces, `OutputKept` (an output is left with none).

### Bounds
`Rushed` (a switch may start before the last one is over) and `Disturbed` (views
may be destroyed or grabbed, outputs removed, during a switch) are constants of
`WorkspaceSwitch`. The passing run with several outputs has both off because the
code does break then. `Rebinding` (a chord may be bound to a second command) is off
in `keys` for the same reason.

`MaxTasks` bounds the callbacks in the queue: 4 is two overlapping switches,
which is what each counterexample needs, and 2 is one switch. `MaxWorkspaces`
bounds the growth of the vector of workspaces (the code starts with four); 3 are
needed to switch from a to b and on to c, and a workspace to be hidden while each
of two outputs has one. Two views are enough for each of two workspaces to have
one, or one to have a tile and a floating view. Three views make a column of two
beside a column of one, and let the focus pass over a view that is neither the
old nor the new focus.

`MaxFds` is how many connections the compositor accepts at all, since it never
closes one: both programs get theirs. Payloads are one and two bytes, replies
none, fewer than the header's four and more: no other length changes a branch.
The two clients of `layers` have surfaces on both sides of the views and two that
compete in the top layer and the overlay. `MaxSpeed` is the number of frames a
swipe goes on for. `MaxEdits` bounds the changes of a plane besides map and
unmap: with 2, a column can get a second tile and the widths can then become
uneven, or a width be cycled twice. `cycle_width` sets 733, 960 or 1186 on an
output of 1920 pixels; clients of `viewport` take the first or the last, so two
cycles meet all three and the wrap from the widest. 733 and 1186 side by side, with
a gap, fill the screen but for a few pixels: 9 is the scroll that puts the second
of them flush with the right edge, and 900 is in the middle of the plane. A panel
of 40 pixels on each side makes both edges of the usable area differ from the
screen's.

The lines of the `keys` run spell a chord in two orders, with a modifier twice and
in capitals, have no key or two, an unknown modifier, a bind in a bind, and all
eight modifiers, at once and in a bind that a key runs. Between the empty set and
all of them, the keyboards hold two sets of modifiers, one inside the other: an
index that is added up wrongly meets the row of another one.

Views, clients and keyboards are interchangeable, and `SYMMETRY` over them is
used in runs without liveness. `CHECK_DEADLOCK FALSE` stands in the runs of
`Desktop`, whose program stops after a failed assertion, and of `IpcConnection`,
whose programs return and whose compositor may quit.

### Fairness
`WF(RunTask)`: the timer is armed at start and re-armed at the end of every
callback (`ViewAnimation.cpp:83`), so a due task is finished eventually.
`WF(Acknowledge(v))`: a live client answers a configure by committing the size
asked for; it may commit other sizes as well, only not for ever. `WF(Poll)`,
`WF(Dispatch)`, `WF(Stop)`: `wl_display_run` polls and dispatches until it is
told to terminate, and then `Server::stop` runs. `WF(ClientStep(c))`: a program
inside `send_command` or `wait_response` is scheduled, and a system call that can
return does. Nothing else is fair: users, clients and devices may stop at any
time, and nobody has to be killed.

## 4. Proofs

Each theorem below holds for every value of the constants that the named
`ASSUME`s of its module allow (TLC evaluates those in every run): any views,
workspaces, clients, sizes and bounds, not the few of section 3. Its name is
followed by the property of section 3 that it states. Each `_proof` module ends
in theorems of the form `Spec => []Property` that rest on one inductive
invariant, with a lemma for each action under it.

### Sequences and layouts (`Lemmas`)
The edits of the code are edits of sequences, by the index that a search returns.
The first part of `Lemmas` says what they leave: removing the first occurrence
(`RemoveFirstProperties`), putting an element in front, behind or at a place
(`PutInFront`, `PutAtEnd`, `PutAtKeeps`), and where a search ends (`FirstPlace`,
`LastPlace`). Induction over data is done by hand: a set of naturals has a least
element (`LeastNatural`, from the well-foundedness of `<`), so what holds at 0
and is kept by each step holds up to n (`UpTo`), and a recursive function over
`0..n` exists (`RecursionExists`, by the least counterexample).

The second part says that each edit of `Layout` takes a layout that holds each view
of a set once (`GoodLayout`: no empty column, no view in two places) to another
one, and of which set: `ViewAdded`, `ViewRemoved`, `ViewInserted`, `ViewPopped`,
`ViewToggled`, `TileMoved`. Both `Desktop_proof` and `Viewport_proof` rest on it.

### Desktop
The invariant `IInv` is: views, layouts, focus and fullscreen records are typed
(`GoodViews`, `GoodFocus`); each workspace holds the mapped views that name it,
each once (`LayoutsHold`); the focus stack is of mapped views (`StackMapped`); the
fullscreen view of a workspace is one of its mapped views, fullscreen, and saved,
and a view mapped once that is fullscreen is its workspace's (`GoodFullscreen`).
None of these is inductive alone: what is focused next comes from a layout, what
leaves fullscreen comes from a workspace. From it follow

* `TypeCorrect` (`TypeOK`), `ColumnsHaveTiles` (`NoEmptyColumn`),
  `StackOfMappedViews` (`FocusStackSound`), `FullscreenIsSound`
  (`FullscreenSound`), `FullscreenIsOwned` (`FullscreenOwned`);
* `CommandsFollowKeyboard` (`FocusedHoldsKeyboard`), with the fullscreen views
  that the run leaves out;
* `EachInItsPlace` (`PlacedOnce`), which needs that a view once in a layout has
  one slot (`OneSlot`), as a cardinality;
* `DesktopImplementsPlacement` (`ImplementsPlacement`): the home that the mapping
  chooses is the workspace the view names (`HomeIs`), so `MapView` appears,
  `UnmapView` leaves, `ChangeViewWorkspace`, the drag and the command move,
  `MoveCursor` and `SwitchWorkspace` look elsewhere, and the rest stutters.

### Viewport
The invariant `IInv` is: the layout of the plane holds the mapped views, each once
(`GoodPlane`); the stack is of mapped views (`GoodStack`); and `FittedThere`: the
viewport is where `fit_view_on_screen` put it, from *some* position, for the view
fitted last. The last is what the scroll position alone does not show.

* `TypeCorrect` (`TypeOK`).
* `FittedIsShown` (`FittedOnScreen`), on an output at the origin: `FitShows` is the
  arithmetic of `fit_view_on_screen`, for any start, column, panel and gap;
  `PlacesAreNatural` gives the places of columns, as sums over those before
  (`TotalType`), and that the two sums agree where the property claims it (`Even`).
  The view is on the screen and not under a panel on the right. It may be under
  one on the left: that it overflows there is decided by its left edge being
  negative (`Workspace.cpp:269`).
* `ScrolledIsClear` (`ScrolledClear`), under the same provisos: once the viewport is
  moved for the view, it is moved clear of a panel on the left as well
  (`FitClears`). A swipe is left out, since it moves the viewport itself first.
* `NoFurtherThanNeeded` (`JustEnough`).
* `WidthsCycleInTurn` (`WidthsCycle`), on outputs 100 to 9999 pixels wide. The
  heart is `CycledToTheNext`. The first and the third width always lose a
  fraction of a pixel (`FirstIsCut`, `ThirdIsCut`: 3819 and 6181 are prime to
  10000), so they compare below their ratio and near it. The second may be exact,
  as it is on every even output; then it compares as *past* its ratio and the
  next above is the third, which is right as well. (On an output narrower than
  100 pixels a pixel is more than a hundredth and the comparison goes wrong.)
* `SwipesSettle` (`SwipeSettles`), if a panel on the left takes no more of the
  width than 4/15 of the output's height (`NarrowPanels`; a panel of 288 pixels on
  1080 rows). The condition is the code's: `find_dominant_view` scales the coverage of
  every column by the share of the rows that lie below the *x* of the usable area
  (`Workspace.cpp:315`), so with a panel as wide as the output is high all columns
  look alike and the focus stays where it was. With 11 rows of 15 left, columns
  that are within a hundredth of each other in coverage are within 15 thousandths
  in share, both roundings included (`CloseCoverage`, `ShareFollowsCoverage`);
  `DominantIsBest` says which column `find_dominant_view` settles on, and that the
  search in the focus stack finds a tile of it.

### SeatFocus
Assumed: finitely many surfaces. `IInv` is `TypeOK` with: each surface is in the
list of its layer and output, once, or in none (`Listed`); a closed one is on an
output that is gone (`ClosedWhenGone`); the keyboard of a view is the stack's
front (`KeyboardInFront`); what an exclusive client keeps out (`KeptOut`,
`PointerAllowed`); and the three invariants of the focused layer. The loop that
closes the surfaces of an unplugged output one by one and passes the focus on each
time is a recursive function; `PassedInTurn` carries the invariant through it.

* `TypeCorrect` (`TypeOK`), `LayerIsThere` (`FocusedLayerThere`),
  `LayerKeepsKeyboard` (`FocusedLayerHoldsKeyboard`), `TopmostWins`
  (`TopmostHasFocus`), `OthersAreKeptOut` (`ExclusiveKeepsOut`);
* `KeyboardGoesBack` (`KeyboardReturns`), an action property from the same
  invariant.

### Grab
`IInv` is `TypeOK` with `MappedAtHome` (a mapped view is on a workspace; a resize
takes the workspace of its view), `ResizeSuspends` (the workspace of a resized
view does not animate), `GrabbedViewThere` and `ScrollHasFingers`.

* `TypeCorrect` (`TypeOK`), `GrabbedViewIsThere` (`GrabbedViewThere`),
  `ScrollNeedsFingers` (`ScrollHasFingers`);
* `ResizeGivesBack` (`ResizeRestores`), an action property.

### WorkspaceSwitch
However switches overlap, for any number of outputs:

* `TypeCorrect` (`TypeOK`). Inductive as it stands. The delicate leaves are that
  `FocusedWorkspace` is a workspace (`FirstWorkspace`) and that every batch of the
  queue is a sequence of tasks (`CallbackTaskType`, `CancelKeepsTasks`).
* `NoTaskOfADeadView` (`TaskViewsAlive`). With `TypeOK` it is inductive: a task is
  only enqueued for a mapped view (`SwitchAlive`), a view is destroyed only with
  its tasks cancelled (`ViewsAlive`), and the timer only shortens the queue.

However switches overlap, with one output:

* `LeavesAreCovered` (`LeavesCovered`). That the output shows a workspace is not
  inductive: a callback may take the last one away unless one counts the
  callbacks. `Covered` says that those that will take a workspace away are fewer
  than the workspaces on the output, and that before the output is plugged in
  nothing is queued. A switch adds one on both sides (`SwitchCovered`), running a
  callback takes at most one from each (`RunTaskCovered`), and cancelling only
  lowers the left side (`LeavesOfCancelled`).
* `OutputIsKept` (`OutputKept`) and `SwitchHandsOver` follow; the latter is
  `HandsOver`, the step form of the former: a workspace goes off the output only
  when another one stays there.

With two outputs that count fails, since a callback may take a workspace off
another output than the one it was enqueued for; rushed switches then violate
`OutputKept`. Patient ones (`~Rushed`, `~Disturbed`) do not, with any number of
outputs that come and go between them. Their invariant `Settled` says that no task
is cancelled and each is for a live output, that at most one workspace is leaving
and still has its output, that workspaces refer to live outputs only, and that on
each output *exactly one* workspace stays (`OneStays`), leaving ones not counted.

* `OneIsShown` (`OneWorkspaceShown`), `NothingDangles` (`NoDanglingOutput`),
  `EachOutputIsKept` (`OutputKept`);
* `SwitchIsHonoured` (`SwitchHonoured`), with the history variable: the workspace
  asked for last is among those that stay (`WantedStays`).

### IpcConnection
* `TypeCorrect` (`TypeOK`), `CommandsRunWhole` (`RunsWhole`): neither is inductive.
  The strengthening `ReadInStep` says what has been read in each state of a
  connection: nothing before the header, the header only before the payload, and
  that `payload_size` is then the size of the very command the client sends. With
  it goes that a client writes no more than it announced, so that what has been
  read whole is the command.
* `ConnectionImplementsRequest` (`ImplementsRequest`): from the same invariant; a
  callback that reads a payload is `Run` of the request, a client that opens a
  connection is `Ask`, one that returns or is killed is `End`, everything else
  stutters.

### KeyBindings
Assumed: numerals stand for integers, lower case is text, the empty key is not a
keysym (`WordsAssumption`); lines and presses are sequences of words, and the
modifiers that keyboards hold are ones that the parser knows (`InputAssumption`).
Which lines, keysyms and keys, and how many, is open.

`IInv` is: `map` takes rows and keysyms to *dispatched* commands, `config` is one
that can be configured, what has run was dispatched, and the compositor has not
crashed. That is stronger than `TypeOK` and `NeverThrows`, which it has to be: a key
press runs what the map holds, and a bind that was put there unchecked would throw
only then.

* `TypeCorrect` (`TypeOK`), from `LineType`, the type of what the parser returns. A
  mask that has no row gets nowhere: the step that comes with it is an overrun.
* `NothingThrown` (`NeverThrows`): `LineDispatched` goes through the table of
  modifiers on either side of the socket. The parser's has no name that the
  compositor's lacks.
* `LockKept` (`LockHolds`), an action property.
* `ChordsImplemented` (`ImplementsChords`), assumed `~Rebinding`: with chords bound
  again the code breaks it. After an overrun nothing is claimed, since the model has
  stopped. A mask and the set of its modifiers determine each other (`MaskOfMods`,
  `ModsOfMask`), so the map *is* a table of chords (`MeaningOfMap`). If the commands
  of a step together bind no chord to a second command and stay in the array, so
  does each of them (`CleanBefore`), and then inserting, executing and configuring
  commute with that reading (`MeaningOfInsert`, `MeaningOfExecute`, `ConfigMeans`).
  A press tries the keysyms in turn, and each may change the map under the next:
  both sides are recursive functions over the keysyms, related place by place
  (`BindingsRun`, `TryMeans`, `PressMeans`). `LineMeans` is the round trip of a line
  through parser, socket and dispatch. `StepMeans` collects the actions.

### Model-checked only
Liveness (`LeaveCompletes`, `ClientReturns`): fairness and ENABLED are out of the
prover's reach. Each safety and action property that a passing run checks is a
theorem, those of `WorkspaceSwitch`, `SwipesSettle` and `ChordsImplemented` under
the conditions named above.

## 5. Plan

1. *Done*: the modules of section 2, their runs, and the proofs of section 4: every
   safety property that a passing run checks.
2. `LayerGeometry`: `arrange_layer` and `apply_exclusive_zone` as functions; the
   usable area stays within the output.
3. The composition of `Desktop` with `WorkspaceSwitch` (focus while a workspace is
   hidden, mapping a view with the cursor on no output), and of `SeatFocus` with
   fullscreen views.

## 6. Limits

Pixels of height, stacking order, hit testing and rendering are left out, and so
are popups. Where a doc or an assertion of the code states what must hold, the
model stops at the failure and reports it instead of guessing what follows.
`FullscreenOwned` is claimed of the views that are mapped once: a fullscreen view
that is unmapped and mapped again comes back in the fullscreen state without
being anybody's fullscreen view, which is listed among the hazards.
`WorkspaceSwitch` lets no view be mapped while the cursor is on no output, where
the code would index the vector of workspaces with -1, and no switch to a hidden
workspace, where the code would unwrap a null reference; both are hazards. A
pointer grab of a tile is taken for the cancellation of the tasks only
(`GrabTile`) there; `Grab` has the rest, with every workspace on an output of its
own. `Viewport` has one workspace, on an output at the top of the layout, and its
claims are made of an output at the origin, since elsewhere the code mixes two
systems of coordinates. `KeyBindings` stops where the array of maps is overrun:
what its theorems say of lines and keys with all eight modifiers is that much.
A surface of a layer below the views to which an unplugged output passes the
focus gets the keyboard without being the focused layer (`Layers.cpp:391`).
