----------------------- MODULE WorkspaceSwitch_proof -----------------------
(***************************************************************************)
(* Theorems about WorkspaceSwitch and SwitchHistory, for any number of     *)
(* outputs, views and workspaces and any length of the task queue.         *)
(*                                                                         *)
(* Types hold, and no callback points to a view that is gone.              *)
(*                                                                         *)
(* With one output, the screen is never blank: however many switches       *)
(* overlap and whatever is cancelled half way, the output keeps a          *)
(* workspace.  The argument counts: every callback that will take a        *)
(* workspace away was enqueued together with one that was put there.       *)
(*                                                                         *)
(* With any number of outputs, if the user lets a switch end before the    *)
(* next one and nothing interferes with it, each output ends up with one   *)
(* workspace, and the one asked for is among them.                         *)
(***************************************************************************)
EXTENDS SwitchHistory, SequenceTheorems, WellFoundedInduction, FiniteSetTheorems, TLAPS

-----------------------------------------------------------------------------
(* Lemmas about the operators *)

\* A non-empty set of workspaces has a first one, so what the handlers find by
\* scanning the vector of workspaces is one of them.
LEMMA FirstWorkspace ==
    ASSUME NEW S, S \subseteq Nat, S # {}
    PROVE  (CHOOSE w \in S : \A x \in S : w <= x) \in S
<1>1. PICK w \in S : \A x \in S : ~ (<<x, w>> \in OpToRel(<, Nat))
  BY NatLessThanWellFounded, WFMin
<1>2. \A x, y \in Nat : x < y => <<x, y>> \in OpToRel(<, Nat)
  BY Zenon DEF OpToRel
<1>3. \A x \in S : x \in Nat /\ w \in Nat /\ ~ (x < w)
  BY Zenon, <1>1, <1>2
<1>4. \A x \in S : w <= x
  BY <1>3
<1>5. QED
  BY <1>4

\* The workspaces of the vector are among the ids, whose least is 0.
LEMMA WorkspacesAreIds == TypeOK => workspaces \subseteq WorkspaceIds /\ workspaces \subseteq Nat
BY NumbersAssumption DEF TypeOK, workspaces, WorkspaceIds

\* The focused workspace, if there is one, is drawn on the output under the
\* cursor.
LEMMA FocusedIsShown ==
    ASSUME TypeOK, FocusedWorkspace # NoWorkspace
    PROVE  /\ FocusedWorkspace \in WorkspaceIds
           /\ FocusedWorkspace \in workspaces
           /\ wsOutput[FocusedWorkspace] = cursor
           /\ cursor \in Outputs
<1>1. cursor # NoOutput /\ ShownOn(cursor) # {}
  BY DEF FocusedWorkspace
<1>2. ShownOn(cursor) \subseteq Nat
  BY WorkspacesAreIds DEF ShownOn
<1>3. FocusedWorkspace \in ShownOn(cursor)
  BY <1>1, <1>2, FirstWorkspace DEF FocusedWorkspace
<1>4. QED
  BY <1>1, <1>3, WorkspacesAreIds DEF ShownOn, TypeOK

\* Cancelling keeps the queue: the same tasks, some of them cancelled.
LEMMA CancelKeepsTasks ==
    ASSUME NEW vs, tasks \in Seq(Task)
    PROVE  /\ CancelTasks(vs) \in Seq(Task)
           /\ Len(CancelTasks(vs)) = Len(tasks)
           /\ \A i \in 1 .. Len(tasks) :
                 CancelTasks(vs)[i] =
                    [tasks[i] EXCEPT !.cancelled = @ \/ tasks[i].view \in vs]
<1>1. Len(tasks) \in Nat /\ \A i \in 1 .. Len(tasks) : tasks[i] \in Task
  BY LenProperties, ElementOfSeq
<1>2. \A i \in 1 .. Len(tasks) :
         [tasks[i] EXCEPT !.cancelled = @ \/ tasks[i].view \in vs] \in Task
  <2> SUFFICES ASSUME NEW i \in 1 .. Len(tasks)
               PROVE  [tasks[i] EXCEPT !.cancelled = @ \/ tasks[i].view \in vs] \in Task
    OBVIOUS
  <2> DEFINE b == tasks[i].cancelled \/ tasks[i].view \in vs
  <2>1. b \in BOOLEAN
    OBVIOUS
  <2> HIDE DEF b
  <2>2. [tasks[i] EXCEPT !.cancelled = b] \in Task
    BY <1>1, <2>1 DEF Task
  <2>3. QED
    BY <2>2 DEF b
<1>3. CancelTasks(vs) \in [1 .. Len(tasks) -> Task]
  BY <1>2 DEF CancelTasks
<1>4. QED
  BY <1>1, <1>3 DEF CancelTasks

\* What a batch leaves in the queue is at most one task, not cancelled, of a
\* view of the batch.
LEMMA CallbackTaskType ==
    ASSUME NEW vs \in SUBSET Views, NEW kind \in {"arrive", "leave"},
           NEW w \in WorkspaceIds, NEW o \in Outputs,
           NEW t \in CallbackTask(vs, kind, w, o)
    PROVE  /\ t \in Seq(Task)
           /\ \A i \in 1 .. Len(t) : t[i].view \in vs
<1>1. CASE vs = {}
  BY <1>1 DEF CallbackTask
<1>2. CASE vs # {}
  <2>1. PICK v \in vs : t = <<[view |-> v, kind |-> kind, ws |-> w, out |-> o,
                               cancelled |-> FALSE]>>
    BY <1>2 DEF CallbackTask
  <2>2. [view |-> v, kind |-> kind, ws |-> w, out |-> o, cancelled |-> FALSE] \in Task
    BY DEF Task
  <2>3. Len(t) = 1 /\ t[1].view = v
    BY <2>1
  <2>4. QED
    BY <2>1, <2>2, <2>3
<1>3. QED
  BY <1>1, <1>2

-----------------------------------------------------------------------------
(* Type correctness *)

\* Type correctness at start-up: no output yet, every view absent.
LEMMA InitType == Init => TypeOK
BY NumbersAssumption, NullAssumption DEF Init, TypeOK, WorkspaceIds

\* Outputs and the pointer: the workspace found or created is in the vector.
LEMMA OutputsType ==
    ASSUME TypeOK, NEW o \in Outputs, PlugOutput(o) \/ UnplugOutput(o) \/ MoveCursor(o)
    PROVE  TypeOK'
<1>1. CASE PlugOutput(o)
  <2>1. wsNr' \in WorkspaceNr .. MaxWorkspaces
    BY <1>1, NumbersAssumption DEF PlugOutput, TypeOK
  <2>2. wsOutput' \in [WorkspaceIds -> Outputs \cup {NoOutput}]
    BY <1>1 DEF PlugOutput, TypeOK, Activated
  <2>3. QED
    BY <1>1, <2>1, <2>2 DEF PlugOutput, TypeOK
<1>2. CASE UnplugOutput(o)
  <2>1. wsOutput' \in [WorkspaceIds -> Outputs \cup {NoOutput}]
    BY <1>2 DEF UnplugOutput, TypeOK, Deactivated
  <2>2. QED
    BY <1>2, <2>1 DEF UnplugOutput, TypeOK
<1>3. CASE MoveCursor(o)
  BY <1>3 DEF MoveCursor, TypeOK
<1>4. QED
  BY <1>1, <1>2, <1>3

\* The handlers and commands of one view.
LEMMA ViewsType ==
    ASSUME TypeOK, NEW v \in Views,
           \/ CreateView(v) \/ MapView(v) \/ UnmapView(v) \/ DestroyView(v)
           \/ ToggleFloating(v) \/ GrabTile(v)
           \/ \E w \in workspaces : ChangeViewWorkspace(v, w)
    PROVE  TypeOK'
<1>1. CASE CreateView(v)
  BY <1>1 DEF CreateView, TypeOK
<1>2. CASE MapView(v)
  BY <1>2, FocusedIsShown DEF MapView, TypeOK
<1>3. CASE UnmapView(v)
  BY <1>3 DEF UnmapView, TypeOK
<1>4. CASE DestroyView(v)
  BY <1>4, CancelKeepsTasks DEF DestroyView, TypeOK
<1>5. CASE ToggleFloating(v)
  BY <1>5 DEF ToggleFloating, TypeOK
<1>6. CASE GrabTile(v)
  BY <1>6, CancelKeepsTasks DEF GrabTile, TypeOK
<1>7. CASE \E w \in workspaces : ChangeViewWorkspace(v, w)
  BY <1>7, WorkspacesAreIds DEF ChangeViewWorkspace, TypeOK
<1>8. QED
  BY <1>1, <1>2, <1>3, <1>4, <1>5, <1>6, <1>7

\* Seat::focus: what it reads of the focused workspace exists.
LEMMA SwitchType ==
    ASSUME TypeOK, NEW w \in workspaces, SwitchWorkspace(w)
    PROVE  TypeOK'
<1>1. CASE SwitchToFocused(w)
  BY <1>1 DEF SwitchToFocused, TypeOK
<1>2. CASE SwitchToShown(w)
  BY <1>2, WorkspacesAreIds DEF SwitchToShown, TypeOK
<1>3. CASE SwitchToHidden(w)
  <2> DEFINE prev == FocusedWorkspace
             out == wsOutput[prev]
             arriving == Carriers(TilesOf(w), FloatingOf(prev))
             leaving == Carriers(TilesOf(prev), FloatingOf(prev))
  <2>1. prev \in WorkspaceIds /\ out \in Outputs /\ w \in WorkspaceIds
    BY <1>3, FocusedIsShown, WorkspacesAreIds DEF SwitchToHidden
  <2>2. arriving \subseteq Views /\ leaving \subseteq Views
    BY DEF Carriers, TilesOf, FloatingOf, TypeOK
  <2>3. wsOutput' \in [WorkspaceIds -> Outputs \cup {NoOutput}]
    BY <1>3, <2>1 DEF SwitchToHidden, Activated, TypeOK
  <2>4. PICK a \in CallbackTask(arriving, "arrive", w, out),
             l \in CallbackTask(leaving, "leave", prev, out) : tasks' = tasks \o a \o l
    BY <1>3 DEF SwitchToHidden
  <2>5. a \in Seq(Task) /\ l \in Seq(Task)
    BY <2>1, <2>2, <2>4, CallbackTaskType
  <2>6. tasks' \in Seq(Task)
    BY <2>4, <2>5, ConcatProperties DEF TypeOK
  <2>7. QED
    BY <1>3, <2>3, <2>6 DEF SwitchToHidden, TypeOK
<1>4. QED
  BY <1>1, <1>2, <1>3 DEF SwitchWorkspace

\* timer_callback: the head of the queue is a task, and so is the rest.
LEMMA RunTaskType == TypeOK /\ RunTask => TypeOK'
<1> SUFFICES ASSUME TypeOK, RunTask PROVE TypeOK'
  OBVIOUS
<1>1. Head(tasks) \in Task /\ tasks' \in Seq(Task)
  BY HeadTailProperties DEF RunTask, TypeOK
<1>2. wsOutput' \in [WorkspaceIds -> Outputs \cup {NoOutput}]
  BY DEF RunTask, TypeOK, Deactivated
<1>3. cursor' \in Outputs \cup {NoOutput}
  BY <1>1 DEF RunTask, TypeOK, Task
<1>4. QED
  BY <1>1, <1>2, <1>3 DEF RunTask, TypeOK

\* Every variable keeps its type; in particular no index of the workspaces
\* vector that a handler computes is out of it, and no task is enqueued for an
\* output that does not exist.
THEOREM TypeCorrect == Spec => []TypeOK
<1>1. TypeOK /\ [Next]_vars => TypeOK'
  <2> SUFFICES ASSUME TypeOK, [Next]_vars PROVE TypeOK'
    OBVIOUS
  <2>1. CASE Surroundings
    BY <2>1, OutputsType, ViewsType DEF Surroundings
  <2>2. CASE \E w \in workspaces : SwitchWorkspace(w)
    BY <2>2, SwitchType
  <2>3. CASE RunTask
    BY <2>3, RunTaskType
  <2>4. CASE UNCHANGED vars
    BY <2>4 DEF vars, TypeOK
  <2>5. QED
    BY <2>1, <2>2, <2>3, <2>4 DEF Next
<1>2. QED
  BY InitType, <1>1, PTL DEF Spec

-----------------------------------------------------------------------------
(* No task that will be run belongs to a destroyed view *)

\* An edit of the queue that leaves tasks to views that were alive before keeps
\* TaskViewsAlive as long as no view is destroyed.
LEMMA AliveKept ==
    ASSUME TypeOK, TaskViewsAlive,
           \A v \in Views : status[v] # "absent" => status'[v] # "absent",
           \A i \in 1 .. Len(tasks') :
              \/ status[tasks'[i].view] # "absent" /\ tasks'[i].view \in Views
              \/ tasks'[i].cancelled
    PROVE  TaskViewsAlive'
BY DEF TaskViewsAlive

\* Every task queued is of a view, which is alive unless the task is cancelled.
LEMMA QueuedAlive ==
    ASSUME TypeOK, TaskViewsAlive
    PROVE  \A i \in 1 .. Len(tasks) :
              \/ status[tasks[i].view] # "absent" /\ tasks[i].view \in Views
              \/ tasks[i].cancelled
<1>1. \A i \in 1 .. Len(tasks) : tasks[i] \in Task
  BY ElementOfSeq DEF TypeOK
<1>2. \A t \in Task : t.view \in Views
  BY DEF Task
<1>3. QED
  BY <1>1, <1>2 DEF TaskViewsAlive

\* A view is destroyed only together with the cancellation of its tasks.
LEMMA ViewsAlive ==
    ASSUME TypeOK, TaskViewsAlive, NEW v \in Views,
           \/ CreateView(v) \/ MapView(v) \/ UnmapView(v) \/ DestroyView(v)
           \/ ToggleFloating(v) \/ GrabTile(v)
           \/ \E w \in workspaces : ChangeViewWorkspace(v, w)
    PROVE  TaskViewsAlive'
<1>1. CASE CreateView(v) \/ MapView(v) \/ UnmapView(v)
  <2>1. tasks' = tasks /\ \A x \in Views : status[x] # "absent" => status'[x] # "absent"
    BY <1>1 DEF CreateView, MapView, UnmapView, TypeOK
  <2>2. QED
    BY <2>1, QueuedAlive, AliveKept
<1>2. CASE DestroyView(v)
  <2> SUFFICES ASSUME NEW i \in 1 .. Len(tasks'), ~ tasks'[i].cancelled
               PROVE  status'[tasks'[i].view] # "absent"
    BY DEF TaskViewsAlive
  <2>1. /\ i \in 1 .. Len(tasks)
        /\ tasks'[i] = [tasks[i] EXCEPT !.cancelled = @ \/ tasks[i].view \in {v}]
    BY <1>2, CancelKeepsTasks DEF DestroyView, TypeOK
  <2>2. tasks[i] \in Task
    BY <2>1, ElementOfSeq DEF TypeOK
  <2>3. /\ tasks'[i].view = tasks[i].view
        /\ ~ tasks[i].cancelled
        /\ tasks[i].view # v
    BY <2>1, <2>2, Zenon DEF Task
  <2>4. QED
    BY <1>2, <2>1, <2>2, <2>3 DEF DestroyView, TypeOK, TaskViewsAlive, Task
<1>3. CASE GrabTile(v)
  <2>1. status' = status /\ tasks' = CancelTasks(TilesOf(viewWs[v]))
    BY <1>3 DEF GrabTile
  <2> SUFFICES ASSUME NEW i \in 1 .. Len(tasks'), ~ tasks'[i].cancelled
               PROVE  status'[tasks'[i].view] # "absent"
    BY DEF TaskViewsAlive
  <2>2. /\ i \in 1 .. Len(tasks)
        /\ tasks'[i] = [tasks[i] EXCEPT !.cancelled = @ \/ tasks[i].view \in TilesOf(viewWs[v])]
    BY <2>1, CancelKeepsTasks DEF TypeOK
  <2>3. tasks[i] \in Task
    BY <2>2, ElementOfSeq DEF TypeOK
  <2>4. tasks'[i].view = tasks[i].view /\ ~ tasks[i].cancelled
    BY <2>2, <2>3, Zenon DEF Task
  <2>5. QED
    BY <2>1, <2>2, <2>4 DEF TaskViewsAlive
<1>4. CASE ToggleFloating(v) \/ \E w \in workspaces : ChangeViewWorkspace(v, w)
  BY <1>4 DEF ToggleFloating, ChangeViewWorkspace, TaskViewsAlive
<1>5. QED
  BY <1>1, <1>2, <1>3, <1>4

\* A switch enqueues callbacks for views that are mapped.
LEMMA SwitchAlive ==
    ASSUME TypeOK, TaskViewsAlive, NEW w \in workspaces, SwitchToHidden(w)
    PROVE  TaskViewsAlive'
<1> DEFINE prev == FocusedWorkspace
           out == wsOutput[prev]
           arriving == Carriers(TilesOf(w), FloatingOf(prev))
           leaving == Carriers(TilesOf(prev), FloatingOf(prev))
<1>1. prev \in WorkspaceIds /\ out \in Outputs /\ w \in WorkspaceIds
  BY FocusedIsShown, WorkspacesAreIds DEF SwitchToHidden
<1>2. /\ arriving \subseteq {v \in Views : status[v] # "absent"}
      /\ leaving \subseteq {v \in Views : status[v] # "absent"}
  BY DEF Carriers, TilesOf, FloatingOf, TypeOK
<1>3. PICK a \in CallbackTask(arriving, "arrive", w, out),
           l \in CallbackTask(leaving, "leave", prev, out) : tasks' = tasks \o a \o l
  BY DEF SwitchToHidden
<1>4. /\ a \in Seq(Task) /\ \A i \in 1 .. Len(a) : a[i].view \in arriving
      /\ l \in Seq(Task) /\ \A i \in 1 .. Len(l) : l[i].view \in leaving
  BY <1>1, <1>2, <1>3, CallbackTaskType
<1>5. /\ Len(tasks') = Len(tasks) + Len(a) + Len(l)
      /\ \A i \in 1 .. Len(tasks') :
            tasks'[i] = IF i <= Len(tasks) THEN tasks[i]
                        ELSE IF i <= Len(tasks) + Len(a) THEN a[i - Len(tasks)]
                        ELSE l[i - (Len(tasks) + Len(a))]
  BY <1>3, <1>4 DEF TypeOK
<1>6. \A i \in 1 .. Len(tasks') :
         \/ status[tasks'[i].view] # "absent" /\ tasks'[i].view \in Views
         \/ tasks'[i].cancelled
  <2> SUFFICES ASSUME NEW i \in 1 .. Len(tasks')
               PROVE  \/ status[tasks'[i].view] # "absent" /\ tasks'[i].view \in Views
                      \/ tasks'[i].cancelled
    OBVIOUS
  <2>1. Len(tasks) \in Nat /\ Len(a) \in Nat /\ Len(l) \in Nat
    BY <1>4 DEF TypeOK
  <2>2. CASE i <= Len(tasks)
    BY <1>5, <2>1, <2>2, QueuedAlive
  <2>3. CASE i > Len(tasks) /\ i <= Len(tasks) + Len(a)
    <3>1. tasks'[i] = a[i - Len(tasks)] /\ i - Len(tasks) \in 1 .. Len(a)
      BY <1>5, <2>1, <2>3
    <3>2. QED
      BY <3>1, <1>4, <1>2
  <2>4. CASE i > Len(tasks) + Len(a)
    <3>1. /\ tasks'[i] = l[i - (Len(tasks) + Len(a))]
          /\ i - (Len(tasks) + Len(a)) \in 1 .. Len(l)
      BY <1>5, <2>1, <2>4
    <3>2. QED
      BY <3>1, <1>4, <1>2
  <2>5. QED
    BY <2>1, <2>2, <2>3, <2>4
<1>7. status' = status
  BY DEF SwitchToHidden
<1>8. QED
  BY <1>6, <1>7, AliveKept

\* timer_callback only shortens the queue.
LEMMA RunTaskAlive ==
    ASSUME TypeOK, TaskViewsAlive, RunTask
    PROVE  TaskViewsAlive'
<1>1. /\ Len(tasks') = Len(tasks) - 1 /\ Len(tasks) \in Nat
      /\ \A i \in 1 .. Len(tasks') : tasks'[i] = tasks[i + 1]
  BY HeadTailProperties, LenProperties DEF RunTask, TypeOK
<1>2. status' = status
  BY DEF RunTask
<1>3. \A i \in 1 .. Len(tasks') : i + 1 \in 1 .. Len(tasks)
  BY <1>1
<1>4. QED
  BY <1>1, <1>2, <1>3 DEF TaskViewsAlive

\* timer_callback never moves a freed View: however switches, grabs, unmaps,
\* destructions and timer passes are ordered, a task that has not been
\* cancelled belongs to a view that still exists.
THEOREM NoTaskOfADeadView == Spec => []TaskViewsAlive
<1>1. Init => TaskViewsAlive
  BY DEF Init, TaskViewsAlive
<1>2. TypeOK /\ TaskViewsAlive /\ [Next]_vars => TaskViewsAlive'
  <2> SUFFICES ASSUME TypeOK, TaskViewsAlive, [Next]_vars PROVE TaskViewsAlive'
    OBVIOUS
  <2>1. CASE Surroundings
    <3>1. ASSUME NEW o \in Outputs, PlugOutput(o) \/ UnplugOutput(o) \/ MoveCursor(o)
          PROVE  TaskViewsAlive'
      BY <3>1 DEF PlugOutput, UnplugOutput, MoveCursor, TaskViewsAlive
    <3>2. QED
      BY <2>1, <3>1, ViewsAlive DEF Surroundings
  <2>2. CASE \E w \in workspaces : SwitchWorkspace(w)
    <3>1. PICK w \in workspaces : SwitchWorkspace(w)
      BY <2>2
    <3>2. CASE SwitchToFocused(w) \/ SwitchToShown(w)
      BY <3>2 DEF SwitchToFocused, SwitchToShown, TaskViewsAlive
    <3>3. CASE SwitchToHidden(w)
      BY <3>3, SwitchAlive
    <3>4. QED
      BY <3>1, <3>2, <3>3 DEF SwitchWorkspace
  <2>3. CASE RunTask
    BY <2>3, RunTaskAlive
  <2>4. CASE UNCHANGED vars
    BY <2>4 DEF vars, TaskViewsAlive
  <2>5. QED
    BY <2>1, <2>2, <2>3, <2>4 DEF Next
<1>3. QED
  BY <1>1, <1>2, TypeCorrect, PTL DEF Spec
-----------------------------------------------------------------------------
(* One output is never blank *)

\* Before the output is plugged in nothing is shown, queued or pointed at.
NothingBefore ==
    outputs \cup unplugged = {} =>
        /\ tasks = <<>>
        /\ cursor = NoOutput
        /\ \A w \in WorkspaceIds : wsOutput[w] = NoOutput

Covered == LeavesCovered /\ NothingBefore

-----------------------------------------------------------------------------
(* Counting *)

\* The leave callbacks of a queue are finitely many.
LEMMA LeavesFinite ==
    ASSUME NEW q \in Seq(Task)
    PROVE  IsFiniteSet(LeavesIn(q)) /\ Cardinality(LeavesIn(q)) \in Nat
<1>1. Len(q) \in Nat
  BY LenProperties
<1>2. IsFiniteSet(1 .. Len(q)) /\ LeavesIn(q) \in SUBSET (1 .. Len(q))
  BY <1>1, FS_Interval DEF LeavesIn
<1>3. QED
  BY <1>2, FS_Subset, FS_CardinalityType

\* So are the workspaces on an output.
LEMMA ShownFinite ==
    ASSUME TypeOK, NEW o
    PROVE  IsFiniteSet(ShownOn(o)) /\ Cardinality(ShownOn(o)) \in Nat
<1>1. wsNr \in Nat
  BY NumbersAssumption DEF TypeOK
<1>2. IsFiniteSet(workspaces) /\ ShownOn(o) \in SUBSET workspaces
  BY <1>1, FS_Interval DEF workspaces, ShownOn
<1>3. QED
  BY <1>2, FS_Subset, FS_CardinalityType

\* A queue with no other leave callbacks than another has no more of them.
LEMMA FewerLeaves ==
    ASSUME NEW q \in Seq(Task), NEW r \in Seq(Task), LeavesIn(r) \subseteq LeavesIn(q)
    PROVE  Cardinality(LeavesIn(r)) <= Cardinality(LeavesIn(q))
BY LeavesFinite, FS_Subset

\* Taking the first task off drops its leave callback, if it has one.
LEMMA LeavesOfTail ==
    ASSUME NEW q \in Seq(Task), q # <<>>
    PROVE  /\ Cardinality(LeavesIn(Tail(q))) <= Cardinality(LeavesIn(q))
           /\ 1 \in LeavesIn(q) =>
                 Cardinality(LeavesIn(Tail(q))) <= Cardinality(LeavesIn(q)) - 1
<1> DEFINE rest == LeavesIn(q) \ {1}
           next == [i \in LeavesIn(Tail(q)) |-> i + 1]
<1>1. /\ Tail(q) \in Seq(Task) /\ Len(q) \in Nat \ {0}
      /\ Len(Tail(q)) = Len(q) - 1
      /\ \A i \in 1 .. Len(Tail(q)) : Tail(q)[i] = q[i + 1]
  BY HeadTailProperties, LenProperties
<1>2. \A i \in LeavesIn(Tail(q)) : i \in Nat /\ i + 1 \in rest
  BY <1>1 DEF LeavesIn
<1>3. next \in Injection(LeavesIn(Tail(q)), rest)
  BY <1>2 DEF Injection, IsInjective
<1>4. /\ IsFiniteSet(rest)
      /\ Cardinality(rest) = IF 1 \in LeavesIn(q) THEN Cardinality(LeavesIn(q)) - 1
                             ELSE Cardinality(LeavesIn(q))
  BY LeavesFinite, FS_RemoveElement
<1> HIDE DEF rest, next
<1>5. Cardinality(LeavesIn(Tail(q))) <= Cardinality(rest)
  BY <1>3, <1>4, FS_Injection
<1>6. /\ Cardinality(LeavesIn(q)) \in Nat
      /\ Cardinality(LeavesIn(Tail(q))) \in Nat
  BY <1>1, LeavesFinite
<1>7. QED
  BY <1>4, <1>5, <1>6

\* Cancelling adds no leave callback.
LEMMA LeavesOfCancelled ==
    ASSUME NEW vs, tasks \in Seq(Task)
    PROVE  LeavesIn(CancelTasks(vs)) \subseteq LeavesIn(tasks)
<1> SUFFICES ASSUME NEW i \in LeavesIn(CancelTasks(vs))
             PROVE  i \in LeavesIn(tasks)
  OBVIOUS
<1>1. /\ i \in 1 .. Len(tasks)
      /\ CancelTasks(vs)[i] = [tasks[i] EXCEPT !.cancelled = @ \/ tasks[i].view \in vs]
      /\ CancelTasks(vs)[i].kind = "leave"
      /\ ~ CancelTasks(vs)[i].cancelled
  BY CancelKeepsTasks DEF LeavesIn
<1>2. tasks[i] \in Task
  BY <1>1, ElementOfSeq
<1>3. tasks[i].kind = "leave" /\ ~ tasks[i].cancelled
  BY <1>1, <1>2, Zenon DEF Task
<1>4. QED
  BY <1>1, <1>3 DEF LeavesIn

\* The arriving batch of a switch brings no leave callback, the leaving batch
\* at most one, and none when no view leaves.
LEMMA LeavesOfBatches ==
    ASSUME NEW q \in Seq(Task),
           NEW as \in SUBSET Views, NEW ls \in SUBSET Views,
           NEW w \in WorkspaceIds, NEW p \in WorkspaceIds, NEW o \in Outputs,
           NEW a \in CallbackTask(as, "arrive", w, o),
           NEW l \in CallbackTask(ls, "leave", p, o)
    PROVE  /\ q \o a \o l \in Seq(Task)
           /\ Cardinality(LeavesIn(q \o a \o l)) <= Cardinality(LeavesIn(q)) + 1
           /\ ls = {} => Cardinality(LeavesIn(q \o a \o l)) <= Cardinality(LeavesIn(q))
<1> DEFINE r == q \o a \o l
           n == Len(q) + Len(a)
<1>1. a \in Seq(Task) /\ l \in Seq(Task)
  BY CallbackTaskType
<1>2. /\ r \in Seq(Task)
      /\ Len(q) \in Nat /\ Len(a) \in Nat /\ Len(l) \in Nat
      /\ Len(r) = n + Len(l)
      /\ \A i \in 1 .. Len(r) :
            r[i] = IF i <= Len(q) THEN q[i]
                   ELSE IF i <= n THEN a[i - Len(q)] ELSE l[i - n]
  BY <1>1
<1>3. \A i \in 1 .. Len(a) : a[i].kind = "arrive"
  <2>1. CASE as = {}
    BY <2>1 DEF CallbackTask
  <2>2. CASE as # {}
    <3>1. PICK v \in as : a = <<[view |-> v, kind |-> "arrive", ws |-> w, out |-> o,
                                 cancelled |-> FALSE]>>
      BY <2>2 DEF CallbackTask
    <3>2. Len(a) = 1 /\ a[1].kind = "arrive"
      BY <3>1
    <3>3. QED
      BY <3>2
  <2>3. QED
    BY <2>1, <2>2
<1>4. Len(l) <= 1 /\ (ls = {} => Len(l) = 0)
  <2>1. CASE ls = {}
    BY <2>1 DEF CallbackTask
  <2>2. CASE ls # {}
    <3>1. PICK v \in ls : l = <<[view |-> v, kind |-> "leave", ws |-> p, out |-> o,
                                 cancelled |-> FALSE]>>
      BY <2>2 DEF CallbackTask
    <3>2. Len(l) = 1
      BY <3>1
    <3>3. QED
      BY <2>2, <3>2
  <2>3. QED
    BY <2>1, <2>2
<1> HIDE DEF r
<1>5. LeavesIn(r) \subseteq LeavesIn(q) \cup {n + 1}
  <2> SUFFICES ASSUME NEW i \in LeavesIn(r), i # n + 1
               PROVE  i \in LeavesIn(q)
    OBVIOUS
  <2>1. i \in 1 .. Len(r) /\ r[i].kind = "leave" /\ ~ r[i].cancelled
    BY DEF LeavesIn
  <2>2. i <= n
    BY <1>2, <1>4, <2>1
  <2>3. i <= Len(q)
    <3> SUFFICES ASSUME i > Len(q) PROVE FALSE
      BY <1>2, <2>1
    <3>1. i - Len(q) \in 1 .. Len(a) /\ r[i] = a[i - Len(q)]
      BY <1>2, <2>1, <2>2
    <3>2. QED
      BY <1>3, <2>1, <3>1
  <2>4. QED
    BY <1>2, <2>1, <2>3 DEF LeavesIn
<1>6. ls = {} => LeavesIn(r) \subseteq LeavesIn(q)
  BY <1>2, <1>4, <1>5 DEF LeavesIn
<1>7. /\ IsFiniteSet(LeavesIn(q) \cup {n + 1})
      /\ Cardinality(LeavesIn(q) \cup {n + 1}) <= Cardinality(LeavesIn(q)) + 1
  <2>1. IsFiniteSet(LeavesIn(q)) /\ Cardinality(LeavesIn(q)) \in Nat
    BY LeavesFinite
  <2> HIDE DEF n
  <2>2. /\ IsFiniteSet(LeavesIn(q) \cup {n + 1})
        /\ Cardinality(LeavesIn(q) \cup {n + 1}) =
              IF n + 1 \in LeavesIn(q) THEN Cardinality(LeavesIn(q))
              ELSE Cardinality(LeavesIn(q)) + 1
    BY <2>1, FS_AddElement
  <2>3. QED
    BY <2>1, <2>2
<1>8. Cardinality(LeavesIn(r)) <= Cardinality(LeavesIn(q) \cup {n + 1})
  BY <1>5, <1>7, FS_Subset
<1>9. /\ Cardinality(LeavesIn(r)) \in Nat
      /\ Cardinality(LeavesIn(q)) \in Nat
      /\ Cardinality(LeavesIn(q) \cup {n + 1}) \in Nat
  BY <1>2, <1>7, LeavesFinite, FS_CardinalityType
<1>10. ls = {} => Cardinality(LeavesIn(r)) <= Cardinality(LeavesIn(q))
  BY <1>2, <1>6, FewerLeaves
<1>11. QED
  BY <1>2, <1>7, <1>8, <1>9, <1>10 DEF r
-----------------------------------------------------------------------------
(* The steps *)

\* Covered is about the queue, the cursor and who is on the output: a step that
\* adds no leave callback and leaves the rest alone keeps it.
LEMMA CoveredKept ==
    ASSUME TypeOK, Covered, UNCHANGED <<outputs, unplugged, wsNr, wsOutput, cursor>>,
           tasks' \in Seq(Task), LeavesIn(tasks') \subseteq LeavesIn(tasks),
           Len(tasks') = Len(tasks)
    PROVE  Covered'
<1>1. ShownOn(cursor)' = ShownOn(cursor) /\ \A o \in outputs : ShownOn(o)' = ShownOn(o)
  BY DEF ShownOn, workspaces
<1>2. Cardinality(LeavesIn(tasks')) <= Cardinality(LeavesIn(tasks))
  BY FewerLeaves DEF TypeOK
<1>3. /\ Cardinality(LeavesIn(tasks')) \in Nat
      /\ Cardinality(LeavesIn(tasks)) \in Nat
      /\ \A o \in outputs : Cardinality(ShownOn(o)) \in Nat
  BY LeavesFinite, ShownFinite DEF TypeOK
<1>4. LeavesCovered'
  BY <1>1, <1>2, <1>3 DEF Covered, LeavesCovered
<1>5. tasks = <<>> => tasks' = <<>>
  BY EmptySeq, LenProperties DEF TypeOK
<1>6. NothingBefore'
  BY <1>5 DEF Covered, NothingBefore
<1>7. QED
  BY <1>4, <1>6 DEF Covered

\* Clients, the commands on one view and grabs cancel tasks at the most.
LEMMA ViewsCovered ==
    ASSUME TypeOK, Covered, NEW v \in Views,
           \/ CreateView(v) \/ MapView(v) \/ UnmapView(v) \/ DestroyView(v)
           \/ ToggleFloating(v) \/ GrabTile(v)
           \/ \E w \in workspaces : ChangeViewWorkspace(v, w)
    PROVE  Covered'
<1>1. UNCHANGED <<outputs, unplugged, wsNr, wsOutput, cursor>>
  BY DEF CreateView, MapView, UnmapView, DestroyView, ToggleFloating, GrabTile,
         ChangeViewWorkspace
<1>2. tasks' = tasks \/ \E vs : tasks' = CancelTasks(vs)
  BY DEF CreateView, MapView, UnmapView, DestroyView, ToggleFloating, GrabTile,
         ChangeViewWorkspace
<1>3. CASE tasks' = tasks
  BY <1>1, <1>3, CoveredKept DEF TypeOK
<1>4. CASE \E vs : tasks' = CancelTasks(vs)
  <2>1. PICK vs : tasks' = CancelTasks(vs)
    BY <1>4
  <2>2. QED
    BY <1>1, <2>1, CoveredKept, CancelKeepsTasks, LeavesOfCancelled DEF TypeOK
<1>5. QED
  BY <1>2, <1>3, <1>4

\* Plugging the output in: nothing was queued, and a workspace is put on it.
LEMMA PlugCovered ==
    ASSUME NEW only, Outputs = {only}, TypeOK, Covered, PlugOutput(only)
    PROVE  Covered'
<1>1. outputs \cup unplugged = {} /\ outputs' = {only}
  BY DEF PlugOutput, TypeOK
<1>2. tasks' = <<>>
  BY <1>1 DEF Covered, NothingBefore, PlugOutput
<1>3. PICK w : w \in workspaces' /\ wsOutput'[w] = only
  <2> DEFINE free == {w \in workspaces : wsOutput[w] = NoOutput}
             first == CHOOSE w \in free : \A x \in free : w <= x
  <2>1. wsNr \in Nat
    BY NumbersAssumption DEF TypeOK
  <2>2. CASE free # {}
    <3>1. first \in free
      BY <2>2, WorkspacesAreIds, FirstWorkspace
    <3>2. wsNr' = wsNr /\ wsOutput' = Activated(first, only)
      BY <2>2 DEF PlugOutput
    <3>3. QED
      BY <3>1, <3>2, WorkspacesAreIds DEF workspaces, Activated, TypeOK
  <2>3. CASE free = {}
    <3>1. wsNr' = wsNr + 1 /\ wsOutput' = Activated(wsNr, only) /\ wsNr < MaxWorkspaces
      BY <2>3 DEF PlugOutput
    <3>2. wsNr \in WorkspaceIds
      BY <2>1, <3>1, NumbersAssumption DEF WorkspaceIds
    <3>3. QED
      BY <2>1, <3>1, <3>2 DEF workspaces, Activated, TypeOK
  <2>4. QED
    BY <2>2, <2>3
<1>4. TypeOK'
  BY OutputsType
<1>5. /\ IsFiniteSet(ShownOn(only)') /\ Cardinality(ShownOn(only)') \in Nat
      /\ ShownOn(only)' # {}
  <2>1. IsFiniteSet(ShownOn(only)') /\ Cardinality(ShownOn(only)') \in Nat
    <3>1. wsNr' \in Nat
      BY <1>4, NumbersAssumption DEF TypeOK
    <3>2. IsFiniteSet(0 .. (wsNr' - 1))
      BY <3>1, FS_Interval
    <3>3. ShownOn(only)' \in SUBSET (0 .. (wsNr' - 1))
      BY DEF workspaces, ShownOn
    <3>4. QED
      BY <3>2, <3>3, FS_Subset, FS_CardinalityType
  <2>2. QED
    BY <1>3, <2>1 DEF ShownOn
<1>6. Cardinality(ShownOn(only)') # 0
  BY <1>5, FS_EmptySet
<1>7. LeavesIn(tasks') = {}
  BY <1>2 DEF LeavesIn
<1>8. Cardinality(LeavesIn(tasks')) = 0
  BY <1>7, FS_EmptySet
<1>9. LeavesCovered'
  BY <1>1, <1>5, <1>6, <1>8 DEF LeavesCovered
<1>10. NothingBefore'
  BY <1>1 DEF NothingBefore
<1>11. QED
  BY <1>9, <1>10 DEF Covered

\* Unplugging it leaves no output to cover; the pointer moves on it only.
LEMMA UnplugCovered ==
    ASSUME NEW only, Outputs = {only}, TypeOK, Covered,
           UnplugOutput(only) \/ MoveCursor(only)
    PROVE  Covered'
<1>1. CASE UnplugOutput(only)
  <2>1. outputs' = {} /\ unplugged' # {}
    BY <1>1 DEF UnplugOutput, TypeOK
  <2>2. QED
    BY <2>1 DEF Covered, LeavesCovered, NothingBefore
<1>2. CASE MoveCursor(only)
  BY <1>2 DEF MoveCursor, Covered, LeavesCovered, NothingBefore, ShownOn, workspaces
<1>3. QED
  BY <1>1, <1>2

\* A switch to a hidden workspace puts it beside the focused one; either the
\* focused one goes at once, or one leave callback is enqueued.
LEMMA SwitchCovered ==
    ASSUME NEW only, Outputs = {only}, TypeOK, Covered,
           NEW w \in workspaces, SwitchToHidden(w)
    PROVE  Covered'
<1> DEFINE prev == FocusedWorkspace
           arriving == Carriers(TilesOf(w), FloatingOf(prev))
           leaving == Carriers(TilesOf(prev), FloatingOf(prev))
           S == ShownOn(only)
<1>1. /\ prev \in WorkspaceIds /\ prev \in S /\ cursor = only
      /\ wsOutput[prev] = only
      /\ w \in WorkspaceIds /\ w \notin S /\ w # prev
  BY FocusedIsShown, WorkspacesAreIds, NullAssumption DEF SwitchToHidden, ShownOn
<1>2. arriving \subseteq Views /\ leaving \subseteq Views
  BY DEF Carriers, TilesOf, FloatingOf, TypeOK
<1>3. PICK a \in CallbackTask(arriving, "arrive", w, only),
           l \in CallbackTask(leaving, "leave", prev, only) : tasks' = tasks \o a \o l
  BY <1>1 DEF SwitchToHidden
<1>4. /\ tasks \in Seq(Task) /\ tasks' \in Seq(Task)
      /\ Cardinality(LeavesIn(tasks')) <= Cardinality(LeavesIn(tasks)) + 1
      /\ leaving = {} => Cardinality(LeavesIn(tasks')) <= Cardinality(LeavesIn(tasks))
  BY <1>1, <1>2, <1>3, LeavesOfBatches DEF TypeOK
<1>5. /\ wsNr' = wsNr /\ outputs' = outputs /\ unplugged' = unplugged
      /\ wsOutput' = IF leaving = {}
                     THEN [wsOutput EXCEPT ![w] = only, ![prev] = NoOutput]
                     ELSE [wsOutput EXCEPT ![w] = only]
  BY <1>1 DEF SwitchToHidden, Activated
<1>6. IsFiniteSet(S) /\ Cardinality(S) \in Nat
  BY ShownFinite
<1>7. ShownOn(only)' = IF leaving = {} THEN (S \cup {w}) \ {prev} ELSE S \cup {w}
  BY <1>1, <1>5, NullAssumption, WorkspacesAreIds DEF ShownOn, workspaces, TypeOK
<1> HIDE DEF S, leaving, arriving
<1>8. IsFiniteSet(S \cup {w}) /\ Cardinality(S \cup {w}) = Cardinality(S) + 1
  BY <1>1, <1>6, FS_AddElement
<1>9. Cardinality((S \cup {w}) \ {prev}) = Cardinality(S)
  <2> DEFINE T == S \cup {w}
  <2>1. IsFiniteSet(T) /\ Cardinality(T) = Cardinality(S) + 1 /\ prev \in T
    BY <1>1, <1>8 DEF S
  <2> HIDE DEF T
  <2>2. Cardinality(T \ {prev}) = Cardinality(T) - 1
    BY <2>1, FS_RemoveElement
  <2>3. Cardinality(T \ {prev}) = Cardinality(S)
    BY <1>6, <2>1, <2>2
  <2>4. QED
    BY <2>3 DEF T
<1>10. /\ Cardinality(LeavesIn(tasks)) \in Nat
       /\ Cardinality(LeavesIn(tasks')) \in Nat
  BY <1>4, LeavesFinite
<1>11. outputs \subseteq {only}
  BY DEF TypeOK
<1>12. outputs # {} => Cardinality(LeavesIn(tasks)) < Cardinality(S)
  BY <1>11 DEF Covered, LeavesCovered, S
<1>13. outputs # {} => Cardinality(LeavesIn(tasks')) < Cardinality(ShownOn(only)')
  <2>1. CASE leaving = {}
    BY <2>1, <1>4, <1>6, <1>7, <1>9, <1>10, <1>12
  <2>2. CASE leaving # {}
    BY <2>2, <1>4, <1>6, <1>7, <1>8, <1>10, <1>12
  <2>3. QED
    BY <2>1, <2>2
<1>14. LeavesCovered'
  BY <1>5, <1>11, <1>13 DEF LeavesCovered
<1>15. outputs \cup unplugged # {}
  BY <1>1, NullAssumption DEF Covered, NothingBefore
<1>16. QED
  BY <1>5, <1>14, <1>15 DEF Covered, NothingBefore

\* A callback that takes a workspace away is itself one of those counted.
LEMMA RunTaskCovered ==
    ASSUME NEW only, Outputs = {only}, TypeOK, Covered, RunTask
    PROVE  Covered'
<1> DEFINE t == Head(tasks)
           S == ShownOn(only)
           leaves == ~ t.cancelled /\ t.kind = "leave"
<1>1. /\ tasks \in Seq(Task) /\ tasks # <<>> /\ tasks' = Tail(tasks)
      /\ tasks' \in Seq(Task) /\ t = tasks[1] /\ t \in Task /\ Len(tasks) \in Nat \ {0}
  BY HeadTailProperties, EmptySeq DEF RunTask, TypeOK
<1>2. /\ wsNr' = wsNr /\ outputs' = outputs /\ unplugged' = unplugged
      /\ wsOutput' = IF leaves THEN [wsOutput EXCEPT ![t.ws] = NoOutput] ELSE wsOutput
  BY DEF RunTask, Deactivated
<1>3. /\ Cardinality(LeavesIn(tasks)) \in Nat
      /\ Cardinality(LeavesIn(tasks')) \in Nat
      /\ IsFiniteSet(S) /\ Cardinality(S) \in Nat
  BY <1>1, LeavesFinite, ShownFinite
<1>4. leaves => 1 \in LeavesIn(tasks)
  BY <1>1 DEF LeavesIn
<1>5. /\ Cardinality(LeavesIn(tasks')) <= Cardinality(LeavesIn(tasks))
      /\ leaves => Cardinality(LeavesIn(tasks')) <= Cardinality(LeavesIn(tasks)) - 1
  BY <1>1, <1>4, LeavesOfTail
<1>6. ShownOn(only)' = IF leaves THEN S \ {t.ws} ELSE S
  BY <1>1, <1>2, NullAssumption, WorkspacesAreIds DEF ShownOn, workspaces, TypeOK, Task
<1> HIDE DEF S, leaves, t
<1>7. /\ Cardinality(S \ {t.ws}) = IF t.ws \in S THEN Cardinality(S) - 1 ELSE Cardinality(S)
  BY <1>3, FS_RemoveElement
<1>8. outputs \subseteq {only}
  BY DEF TypeOK
<1>9. outputs # {} => Cardinality(LeavesIn(tasks)) < Cardinality(S)
  BY <1>8 DEF Covered, LeavesCovered, S
<1>10. outputs # {} => Cardinality(LeavesIn(tasks')) < Cardinality(ShownOn(only)')
  <2>1. CASE leaves
    BY <2>1, <1>3, <1>5, <1>6, <1>7, <1>9
  <2>2. CASE ~ leaves
    BY <2>2, <1>3, <1>5, <1>6, <1>9
  <2>3. QED
    BY <2>1, <2>2
<1>11. LeavesCovered'
  BY <1>2, <1>8, <1>10 DEF LeavesCovered
<1>12. outputs \cup unplugged # {}
  BY <1>1 DEF Covered, NothingBefore
<1>13. QED
  BY <1>2, <1>11, <1>12 DEF Covered, NothingBefore

-----------------------------------------------------------------------------
(* The theorems *)

\* Nothing is plugged in at start-up.
LEMMA InitCovered == Init => Covered
BY DEF Init, Covered, LeavesCovered, NothingBefore

\* Every action keeps the count.
LEMMA StepCovered ==
    ASSUME NEW only, Outputs = {only}, TypeOK, Covered, [Next]_vars
    PROVE  Covered'
<1>1. CASE Surroundings
  <2>1. ASSUME NEW o \in Outputs, PlugOutput(o) \/ UnplugOutput(o) \/ MoveCursor(o)
        PROVE  Covered'
    BY <2>1, PlugCovered, UnplugCovered
  <2>2. QED
    BY <1>1, <2>1, ViewsCovered DEF Surroundings
<1>2. CASE \E w \in workspaces : SwitchWorkspace(w)
  <2>1. PICK w \in workspaces : SwitchWorkspace(w)
    BY <1>2
  <2>2. CASE SwitchToFocused(w)
    BY <2>2 DEF SwitchToFocused, Covered, LeavesCovered, NothingBefore, ShownOn, workspaces
  <2>3. CASE SwitchToShown(w)
    <3>1. outputs \cup unplugged # {}
      BY <2>3, WorkspacesAreIds DEF SwitchToShown, Covered, NothingBefore
    <3>2. QED
      BY <2>3, <3>1
      DEF SwitchToShown, Covered, LeavesCovered, NothingBefore, ShownOn, workspaces
  <2>4. CASE SwitchToHidden(w)
    BY <2>4, SwitchCovered
  <2>5. QED
    BY <2>1, <2>2, <2>3, <2>4 DEF SwitchWorkspace
<1>3. CASE RunTask
  BY <1>3, RunTaskCovered
<1>4. CASE UNCHANGED vars
  BY <1>4 DEF vars, Covered, LeavesCovered, NothingBefore, ShownOn, workspaces
<1>5. QED
  BY <1>1, <1>2, <1>3, <1>4 DEF Next

\* With one output, each outstanding callback that will take a workspace off it
\* is covered by a workspace that is there besides: Seat::focus enqueues the one
\* when it activates the other, whatever is cancelled afterwards.
THEOREM LeavesAreCovered ==
    ASSUME NEW CONSTANT only, Outputs = {only}
    PROVE  Spec => []LeavesCovered
<1>1. TypeOK /\ Covered /\ [Next]_vars => Covered'
  BY StepCovered
<1>2. Covered => LeavesCovered
  BY DEF Covered
<1>3. QED
  BY InitCovered, <1>1, <1>2, TypeCorrect, PTL DEF Spec

\* An output with more workspaces than callbacks against it has one.
LEMMA CoveredIsKept == TypeOK /\ LeavesCovered => OutputKept
<1> SUFFICES ASSUME TypeOK, LeavesCovered, NEW o \in outputs, ShownOn(o) = {}
             PROVE  FALSE
  BY DEF OutputKept
<1>1. Cardinality(LeavesIn(tasks)) \in Nat
  BY LeavesFinite DEF TypeOK
<1>2. Cardinality(LeavesIn(tasks)) < Cardinality(ShownOn(o))
  BY DEF LeavesCovered
<1>3. Cardinality(ShownOn(o)) = 0
  BY FS_EmptySet
<1>4. QED
  BY <1>1, <1>2, <1>3

\* With one output, the output always shows a workspace: what arrange_layers
\* asserts of every output, and get_focused_workspace relies on.
THEOREM OutputIsKept ==
    ASSUME NEW CONSTANT only, Outputs = {only}
    PROVE  Spec => []OutputKept
BY LeavesAreCovered, CoveredIsKept, TypeCorrect, PTL

\* With one output, a workspace goes off it only when another one stays, or
\* when the output itself goes away: no step of a switch blanks the screen.
THEOREM SwitchHandsOver ==
    ASSUME NEW CONSTANT only, Outputs = {only}
    PROVE  Spec => HandsOver
<1>1. ASSUME TypeOK, TypeOK', OutputKept', NEW w \in workspaces,
             wsOutput[w] # NoOutput, wsOutput'[w] # wsOutput[w]
      PROVE  \/ \E x \in workspaces' \ {w} : wsOutput'[x] = wsOutput[w]
             \/ wsOutput[w] \notin outputs'
  <2>1. wsOutput[w] = only
    BY <1>1, WorkspacesAreIds DEF TypeOK
  <2>2. CASE only \in outputs'
    BY <1>1, <2>1, <2>2 DEF OutputKept, ShownOn
  <2>3. QED
    BY <2>1, <2>2
<1>2. TypeOK /\ TypeOK' /\ OutputKept' /\ [Next]_vars =>
        [\A w \in workspaces :
            wsOutput[w] # NoOutput /\ wsOutput'[w] # wsOutput[w]
            => \/ \E x \in workspaces' \ {w} : wsOutput'[x] = wsOutput[w]
               \/ wsOutput[w] \notin outputs']_vars
  BY <1>1
<1>3. QED
  BY <1>2, TypeCorrect, OutputIsKept, PTL DEF Spec, HandsOver

-----------------------------------------------------------------------------
(* Switches that are left alone *)

\* One workspace stays on output o when the callbacks have been run.
OneStays(o) ==
    \E w \in workspaces : \A x \in workspaces : wsOutput[x] = o /\ ~Leaving(x) <=> x = w

\* No callback is cancelled or will find its output gone, at most one of them
\* takes a workspace away, which is still there, and each output will have a
\* workspace to itself.
Settled ==
    /\ \A i \in 1 .. Len(tasks) : ~tasks[i].cancelled /\ tasks[i].out \in outputs
    /\ \A i \in 1 .. Len(tasks) : \A j \in 1 .. Len(tasks) :
          tasks[i].kind = "leave" /\ tasks[j].kind = "leave" => i = j
    /\ \A w \in WorkspaceIds : Leaving(w) => wsOutput[w] # NoOutput
    /\ outputs \cap unplugged = {} /\ cursor \in outputs \cup {NoOutput}
    /\ \A w \in WorkspaceIds : /\ wsOutput[w] \in outputs \cup {NoOutput}
                               /\ wsOutput[w] # NoOutput => w \in workspaces
    /\ \A o \in outputs : OneStays(o)

\* The workspace asked for last is among those that stay.
WantedStays ==
    wanted # NoWorkspace =>
        wanted \in workspaces /\ wsOutput[wanted] # NoOutput /\ ~Leaving(wanted)

\* When every switch is over, the queue is empty.
LEMMA QuietIsEmpty ==
    ASSUME TypeOK, Settled, Quiet
    PROVE  tasks = <<>> /\ \A w : ~Leaving(w)
<1>1. Len(tasks) \in Nat
  BY LenProperties DEF TypeOK
<1>2. \A i \in 1 .. Len(tasks) : FALSE
  BY DEF Settled, Quiet
<1>3. Len(tasks) = 0
  BY <1>1, <1>2
<1>4. tasks = <<>>
  BY <1>3, EmptySeq DEF TypeOK
<1>5. \A w : ~Leaving(w)
  BY <1>2 DEF Leaving
<1>6. QED
  BY <1>4, <1>5

\* Handlers that leave the queue and the outputs alone.
LEMMA SettledKept ==
    ASSUME TypeOK, Settled, UNCHANGED <<outputs, unplugged, wsNr, wsOutput, tasks>>,
           cursor' \in outputs \cup {NoOutput}
    PROVE  Settled' /\ \A w : Leaving(w)' <=> Leaving(w)
<1>1. \A w : Leaving(w)' <=> Leaving(w)
  BY DEF Leaving
<1>2. workspaces' = workspaces
  BY DEF workspaces
<1>3. \A o \in outputs : OneStays(o)'
  BY <1>1, <1>2 DEF Settled, OneStays
<1>4. QED
  BY <1>1, <1>2, <1>3 DEF Settled

LEMMA ViewsSettled ==
    ASSUME ~Disturbed, TypeOK, Settled, NEW v \in Views,
           \/ CreateView(v) \/ MapView(v) \/ UnmapView(v) \/ DestroyView(v)
           \/ ToggleFloating(v) \/ GrabTile(v)
           \/ \E w \in workspaces : ChangeViewWorkspace(v, w)
    PROVE  /\ Settled' /\ UNCHANGED <<wsNr, wsOutput>>
           /\ \A w : Leaving(w)' <=> Leaving(w)
<1>1. UNCHANGED <<outputs, unplugged, wsNr, wsOutput, cursor>>
  BY DEF CreateView, MapView, UnmapView, DestroyView, ToggleFloating, GrabTile,
         ChangeViewWorkspace
<1>2. tasks' = tasks \/ (Quiet /\ \E vs : tasks' = CancelTasks(vs))
  BY DEF CreateView, MapView, UnmapView, DestroyView, ToggleFloating, GrabTile,
         ChangeViewWorkspace
<1>3. ASSUME Quiet, NEW vs, tasks' = CancelTasks(vs)
      PROVE  tasks' = tasks
  <2>1. tasks = <<>>
    BY <1>3, QuietIsEmpty
  <2>2. tasks' \in Seq(Task) /\ Len(tasks') = 0
    BY <1>3, <2>1, CancelKeepsTasks DEF TypeOK
  <2>3. QED
    BY <2>1, <2>2, EmptySeq
<1>4. tasks' = tasks
  BY <1>2, <1>3
<1>5. cursor' \in outputs \cup {NoOutput}
  BY <1>1 DEF Settled
<1>6. QED
  BY <1>1, <1>4, <1>5, SettledKept

\* A new output gets a workspace that is on no other.
LEMMA PlugSettled ==
    ASSUME TypeOK, Settled, NEW o \in Outputs, PlugOutput(o)
    PROVE  /\ Settled' /\ \A w : Leaving(w)' <=> Leaving(w)
           /\ workspaces \subseteq workspaces'
           /\ \A w \in workspaces : wsOutput[w] # NoOutput => wsOutput'[w] # NoOutput
<1> DEFINE free == {w \in workspaces : wsOutput[w] = NoOutput}
           first == CHOOSE w \in free : \A x \in free : w <= x
           assigned == IF free # {} THEN first ELSE wsNr
<1>1. /\ o \notin outputs \cup unplugged /\ outputs' = outputs \cup {o}
      /\ free # {} \/ wsNr < MaxWorkspaces
      /\ wsNr' = IF free # {} THEN wsNr ELSE wsNr + 1
      /\ wsOutput' = [wsOutput EXCEPT ![assigned] = o]
      /\ cursor' = IF cursor = NoOutput THEN o ELSE cursor
      /\ UNCHANGED <<unplugged, tasks>>
  BY DEF PlugOutput, Activated
<1>2. wsNr \in Nat /\ workspaces \subseteq Nat /\ workspaces \subseteq WorkspaceIds
  BY WorkspacesAreIds, NumbersAssumption DEF TypeOK
<1>3. free # {} => first \in free
  BY <1>2, FirstWorkspace
<1> HIDE DEF first
<1>4. /\ assigned \in WorkspaceIds /\ wsOutput[assigned] = NoOutput
      /\ workspaces' = workspaces \cup {assigned}
  <2>1. CASE free # {}
    BY <1>1, <1>2, <1>3, <2>1 DEF workspaces
  <2>2. CASE free = {}
    <3>1. assigned = wsNr /\ wsNr' = wsNr + 1 /\ wsNr \in WorkspaceIds
      BY <1>1, <1>2, <2>2, NumbersAssumption DEF WorkspaceIds
    <3>2. wsNr \notin workspaces
      BY <1>2 DEF workspaces
    <3>3. wsOutput[wsNr] = NoOutput
      BY <3>1, <3>2 DEF Settled
    <3>4. workspaces' = workspaces \cup {wsNr}
      BY <1>2, <3>1 DEF workspaces
    <3>5. QED
      BY <3>1, <3>3, <3>4
  <2>3. QED
    BY <2>1, <2>2
<1> HIDE DEF assigned, free
<1>5. \A w : Leaving(w)' <=> Leaving(w)
  BY <1>1 DEF Leaving
<1>6. /\ wsOutput'[assigned] = o
      /\ \A w \in WorkspaceIds : w # assigned => wsOutput'[w] = wsOutput[w]
  BY <1>1, <1>4 DEF TypeOK
<1>7. o # NoOutput /\ \A w \in WorkspaceIds : wsOutput[w] # o
  BY <1>1, NullAssumption DEF Settled
<1>8. ~Leaving(assigned)
  BY <1>4 DEF Settled
<1>9. OneStays(o)'
  <2>1. \A x \in workspaces' : wsOutput'[x] = o /\ ~Leaving(x)' <=> x = assigned
    BY <1>2, <1>4, <1>5, <1>6, <1>7, <1>8
  <2>2. QED
    BY <1>4, <2>1 DEF OneStays
<1>10. ASSUME NEW u \in outputs
       PROVE  OneStays(u)'
  <2>1. u # o /\ u # NoOutput
    BY <1>1, <1>10, NullAssumption DEF TypeOK
  <2>2. PICK w \in workspaces : \A x \in workspaces : wsOutput[x] = u /\ ~Leaving(x) <=> x = w
    BY <1>10 DEF Settled, OneStays
  <2>3. w # assigned
    BY <1>4, <2>1, <2>2
  <2>4. \A x \in workspaces' : wsOutput'[x] = u /\ ~Leaving(x)' <=> x = w
    BY <1>2, <1>4, <1>5, <1>6, <2>1, <2>2, <2>3
  <2>5. QED
    BY <1>4, <2>4 DEF OneStays
<1>11. Settled'
  <2>1. \A i \in 1 .. Len(tasks') : ~tasks'[i].cancelled /\ tasks'[i].out \in outputs'
    BY <1>1 DEF Settled
  <2>2. \A i \in 1 .. Len(tasks') : \A j \in 1 .. Len(tasks') :
           tasks'[i].kind = "leave" /\ tasks'[j].kind = "leave" => i = j
    BY <1>1 DEF Settled
  <2>3. outputs' \cap unplugged' = {} /\ cursor' \in outputs' \cup {NoOutput}
    BY <1>1 DEF Settled
  <2>4. \A w \in WorkspaceIds : Leaving(w)' => wsOutput'[w] # NoOutput
    BY <1>5, <1>6, <1>7 DEF Settled
  <2>5. \A w \in WorkspaceIds : /\ wsOutput'[w] \in outputs' \cup {NoOutput}
                                /\ wsOutput'[w] # NoOutput => w \in workspaces'
    BY <1>1, <1>4, <1>6 DEF Settled
  <2>6. \A u \in outputs' : OneStays(u)'
    BY <1>1, <1>9, <1>10
  <2>7. QED
    BY <2>1, <2>2, <2>3, <2>4, <2>5, <2>6 DEF Settled
<1>12. \A w \in workspaces : wsOutput[w] # NoOutput => wsOutput'[w] # NoOutput
  BY <1>2, <1>4, <1>6
<1>13. QED
  BY <1>4, <1>5, <1>11, <1>12

\* An output goes away between two switches, with its one workspace.
LEMMA UnplugSettled ==
    ASSUME ~Disturbed, TypeOK, Settled, NEW o \in Outputs, UnplugOutput(o)
    PROVE  Settled'
<1> DEFINE first == CHOOSE w \in ShownOn(o) : \A x \in ShownOn(o) : w <= x
<1>1. /\ o \in outputs /\ Quiet
      /\ outputs' = outputs \ {o} /\ unplugged' = unplugged \cup {o}
      /\ wsOutput' = IF ShownOn(o) = {} THEN wsOutput ELSE [wsOutput EXCEPT ![first] = NoOutput]
      /\ cursor' \in IF cursor = o THEN outputs' \cup {NoOutput} ELSE {cursor}
      /\ UNCHANGED <<wsNr, tasks>>
  BY DEF UnplugOutput, Deactivated
<1>2. workspaces' = workspaces /\ workspaces \subseteq WorkspaceIds /\ workspaces \subseteq Nat
  BY <1>1, WorkspacesAreIds DEF workspaces
<1>3. tasks' = <<>> /\ (\A w : ~Leaving(w)) /\ \A w : ~Leaving(w)'
  BY <1>1, QuietIsEmpty DEF Leaving
<1>4. PICK w \in workspaces : \A x \in workspaces : wsOutput[x] = o <=> x = w
  BY <1>1, <1>3 DEF Settled, OneStays
<1>5. ShownOn(o) = {w}
  BY <1>4 DEF ShownOn
<1>6. first = w
  BY <1>2, <1>4, <1>5, FirstWorkspace
<1> HIDE DEF first
<1>7. /\ wsOutput'[w] = NoOutput
      /\ \A x \in WorkspaceIds : x # w => wsOutput'[x] = wsOutput[x]
  BY <1>1, <1>2, <1>5, <1>6 DEF TypeOK
<1>8. \A x \in WorkspaceIds : /\ wsOutput'[x] \in outputs' \cup {NoOutput}
                              /\ wsOutput'[x] # NoOutput => x \in workspaces
  <2>1. ASSUME NEW x \in WorkspaceIds, x # w
        PROVE  wsOutput[x] # o
    BY <1>1, <1>4, <2>1, NullAssumption DEF Settled, TypeOK
  <2>2. QED
    BY <1>1, <1>7, <2>1 DEF Settled
<1>9. ASSUME NEW u \in outputs'
      PROVE  OneStays(u)'
  <2>1. u \in outputs /\ u # o /\ u # NoOutput
    BY <1>1, <1>9, NullAssumption DEF TypeOK
  <2>2. PICK y \in workspaces : \A x \in workspaces : wsOutput[x] = u <=> x = y
    BY <1>3, <2>1 DEF Settled, OneStays
  <2>3. \A x \in workspaces' : wsOutput'[x] = u /\ ~Leaving(x)' <=> x = y
    BY <1>2, <1>3, <1>4, <1>7, <2>1, <2>2
  <2>4. QED
    BY <1>2, <2>2, <2>3 DEF OneStays
<1>10. outputs' \cap unplugged' = {} /\ cursor' \in outputs' \cup {NoOutput}
  BY <1>1 DEF Settled
<1>11. \A i \in 1 .. Len(tasks') : FALSE
  BY <1>3
<1>12. QED
  BY <1>2, <1>3, <1>8, <1>9, <1>10, <1>11 DEF Settled

\* a and l are what is enqueued for the arriving and the leaving views.
Batches(as, ls, w, p, o, a, l) ==
    /\ as \in SUBSET Views /\ ls \in SUBSET Views
    /\ w \in WorkspaceIds /\ p \in WorkspaceIds /\ o \in Outputs
    /\ a \in CallbackTask(as, "arrive", w, o) /\ l \in CallbackTask(ls, "leave", p, o)

\* The only leave callback of queue r, if there are views in ls to carry it, is
\* the one after n: it takes workspace p off.
OneLeave(r, ls, p, o, n) ==
    /\ \A i \in 1 .. Len(r) :
          /\ ~r[i].cancelled /\ r[i].out = o
          /\ r[i].kind = "leave" => r[i].ws = p /\ i = n + 1 /\ ls # {}
    /\ ls # {} => \E i \in 1 .. Len(r) : r[i].kind = "leave" /\ r[i].ws = p

\* What a switch leaves in an empty queue: at most one leave callback, the last.
LEMMA BatchesOnEmpty ==
    ASSUME NEW as, NEW ls, NEW w, NEW p, NEW o, NEW a, NEW l,
           Batches(as, ls, w, p, o, a, l), NEW r, r = <<>> \o a \o l
    PROVE  OneLeave(r, ls, p, o, Len(a))
<1>0. /\ as \in SUBSET Views /\ ls \in SUBSET Views
      /\ w \in WorkspaceIds /\ p \in WorkspaceIds /\ o \in Outputs
      /\ a \in CallbackTask(as, "arrive", w, o) /\ l \in CallbackTask(ls, "leave", p, o)
  BY DEF Batches
<1>1. a \in Seq(Task) /\ l \in Seq(Task)
  BY <1>0, CallbackTaskType
<1>2. /\ Len(a) \in Nat /\ Len(l) \in Nat /\ Len(r) = Len(a) + Len(l)
      /\ \A i \in 1 .. Len(r) : r[i] = IF i <= Len(a) THEN a[i] ELSE l[i - Len(a)]
  BY <1>1
<1>3. \A i \in 1 .. Len(a) : a[i].kind = "arrive" /\ ~a[i].cancelled /\ a[i].out = o
  <2>1. CASE as = {}
    BY <1>0, <2>1 DEF CallbackTask
  <2>2. CASE as # {}
    <3>1. PICK v \in as : a = <<[view |-> v, kind |-> "arrive", ws |-> w, out |-> o,
                                 cancelled |-> FALSE]>>
      BY <1>0, <2>2 DEF CallbackTask
    <3>2. Len(a) = 1 /\ a[1].kind = "arrive" /\ ~a[1].cancelled /\ a[1].out = o
      BY <3>1
    <3>3. QED
      BY <3>2
  <2>3. QED
    BY <2>1, <2>2
<1>4. /\ ls = {} => Len(l) = 0
      /\ ls # {} => /\ Len(l) = 1 /\ l[1].kind = "leave" /\ l[1].ws = p
                    /\ ~l[1].cancelled /\ l[1].out = o
  <2>1. CASE ls = {}
    BY <1>0, <2>1 DEF CallbackTask
  <2>2. CASE ls # {}
    <3>1. PICK v \in ls : l = <<[view |-> v, kind |-> "leave", ws |-> p, out |-> o,
                                 cancelled |-> FALSE]>>
      BY <1>0, <2>2 DEF CallbackTask
    <3>2. QED
      BY <2>2, <3>1
  <2>3. QED
    BY <2>1, <2>2
<1>5. ASSUME NEW i \in 1 .. Len(r)
      PROVE  /\ ~r[i].cancelled /\ r[i].out = o
             /\ r[i].kind = "leave" => r[i].ws = p /\ i = Len(a) + 1 /\ ls # {}
  <2>1. CASE i <= Len(a)
    <3>1. i \in 1 .. Len(a) /\ r[i] = a[i]
      BY <1>2, <2>1
    <3>2. QED
      BY <1>3, <3>1
  <2>2. CASE i > Len(a)
    <3>1. ls # {} /\ i = Len(a) + 1 /\ r[i] = l[1]
      BY <1>2, <1>4, <2>2
    <3>2. QED
      BY <1>4, <3>1
  <2>3. QED
    BY <1>2, <2>1, <2>2
<1>6. ASSUME ls # {}
      PROVE  r[Len(a) + 1] = l[1] /\ Len(a) + 1 \in 1 .. Len(r)
  BY <1>2, <1>4, <1>6
<1>7. QED
  BY <1>4, <1>5, <1>6 DEF OneLeave

\* A switch to a hidden workspace, when no other is under way: it stays and the
\* focused one goes, at once or with the callback.
LEMMA HiddenSettled ==
    ASSUME TypeOK, Settled, Quiet, NEW w \in workspaces, SwitchToHidden(w)
    PROVE  Settled' /\ w \in workspaces' /\ wsOutput'[w] # NoOutput /\ ~Leaving(w)'
<1> DEFINE prev == FocusedWorkspace
           out == wsOutput[prev]
           arriving == Carriers(TilesOf(w), FloatingOf(prev))
           leaving == Carriers(TilesOf(prev), FloatingOf(prev))
<1>1. /\ prev \in workspaces /\ prev \in WorkspaceIds /\ out \in Outputs /\ out = cursor
      /\ w \in WorkspaceIds /\ wsOutput[w] = NoOutput /\ w # prev
  BY FocusedIsShown, WorkspacesAreIds, NullAssumption DEF SwitchToHidden
<1>2. arriving \in SUBSET Views /\ leaving \in SUBSET Views
  BY DEF Carriers, TilesOf, FloatingOf, TypeOK
<1>3. PICK a \in CallbackTask(arriving, "arrive", w, out),
           l \in CallbackTask(leaving, "leave", prev, out) : tasks' = tasks \o a \o l
  BY DEF SwitchToHidden
<1>4. tasks = <<>> /\ \A x : ~Leaving(x)
  BY QuietIsEmpty
<1>5. /\ UNCHANGED <<outputs, unplugged, wsNr, cursor>> /\ workspaces' = workspaces
      /\ wsOutput' = IF leaving = {} THEN [wsOutput EXCEPT ![w] = out, ![prev] = NoOutput]
                     ELSE [wsOutput EXCEPT ![w] = out]
  BY DEF SwitchToHidden, Activated, workspaces
<1> HIDE DEF arriving, leaving, prev, out
<1>6. OneLeave(tasks', leaving, prev, out, Len(a))
  <2> DEFINE r == tasks'
  <2>1. r = <<>> \o a \o l
    BY <1>3, <1>4
  <2> HIDE DEF r
  <2>2. Batches(arriving, leaving, w, prev, out, a, l)
    BY <1>1, <1>2, <1>3 DEF Batches
  <2>3. OneLeave(r, leaving, prev, out, Len(a))
    BY <2>1, <2>2, BatchesOnEmpty
  <2>4. QED
    BY <2>3 DEF r
<1>7. \A x : Leaving(x)' <=> x = prev /\ leaving # {}
  BY <1>6 DEF Leaving, OneLeave
<1>8. out \in outputs /\ out # NoOutput
  BY <1>1, NullAssumption DEF Settled
<1>9. /\ wsOutput'[w] = out
      /\ wsOutput'[prev] = IF leaving = {} THEN NoOutput ELSE out
      /\ \A x \in WorkspaceIds : x # w /\ x # prev => wsOutput'[x] = wsOutput[x]
  <2>1. wsOutput[prev] = out /\ wsOutput \in [WorkspaceIds -> Outputs \cup {NoOutput}]
    BY DEF out, TypeOK
  <2>2. QED
    BY <1>1, <1>5, <2>1
<1>10. workspaces \subseteq WorkspaceIds
  BY WorkspacesAreIds
<1>11. \A x \in workspaces : wsOutput[x] = out <=> x = prev
  <2>1. PICK y \in workspaces : \A x \in workspaces : wsOutput[x] = out <=> x = y
    BY <1>4, <1>8 DEF Settled, OneStays
  <2>2. y = prev
    BY <1>1, <2>1 DEF out
  <2>3. QED
    BY <2>1, <2>2
<1>12. ASSUME NEW u \in outputs, u = out
       PROVE  \E y \in workspaces' : \A x \in workspaces' : wsOutput'[x] = u /\ ~Leaving(x)' <=> x = y
  <2>1. \A x \in workspaces' : wsOutput'[x] = out /\ ~Leaving(x)' <=> x = w
    BY <1>1, <1>5, <1>7, <1>8, <1>9, <1>10, <1>11
  <2>2. QED
    BY <1>5, <1>12, <2>1
<1>13. ASSUME NEW u \in outputs, u # out
       PROVE  \E y \in workspaces' : \A x \in workspaces' : wsOutput'[x] = u /\ ~Leaving(x)' <=> x = y
  <2>1. PICK y \in workspaces : \A x \in workspaces : wsOutput[x] = u <=> x = y
    BY <1>4, <1>13 DEF Settled, OneStays
  <2>2. u # NoOutput
    BY <1>13, NullAssumption DEF TypeOK
  <2>3. y # w /\ y # prev
    BY <1>1, <1>11, <1>13, <2>1, <2>2
  <2>4. \A x \in workspaces' : wsOutput'[x] = u /\ ~Leaving(x)' <=> x = y
    BY <1>1, <1>5, <1>7, <1>9, <1>10, <1>11, <1>13, <2>1, <2>2, <2>3
  <2>5. QED
    BY <1>5, <2>4
<1>14. \A u \in outputs' : OneStays(u)'
  BY <1>5, <1>12, <1>13 DEF OneStays
<1>15. \A x \in WorkspaceIds : /\ wsOutput'[x] \in outputs' \cup {NoOutput}
                               /\ wsOutput'[x] # NoOutput => x \in workspaces'
  BY <1>1, <1>5, <1>8, <1>9 DEF Settled
<1>16. \A x \in WorkspaceIds : Leaving(x)' => wsOutput'[x] # NoOutput
  BY <1>7, <1>8, <1>9
<1>17. /\ \A i \in 1 .. Len(tasks') : ~tasks'[i].cancelled /\ tasks'[i].out \in outputs'
       /\ \A i \in 1 .. Len(tasks') : \A j \in 1 .. Len(tasks') :
             tasks'[i].kind = "leave" /\ tasks'[j].kind = "leave" => i = j
  BY <1>5, <1>6, <1>8 DEF OneLeave
<1>18. outputs' \cap unplugged' = {} /\ cursor' \in outputs' \cup {NoOutput}
  BY <1>5 DEF Settled
<1>19. Settled'
  BY <1>14, <1>15, <1>16, <1>17, <1>18 DEF Settled
<1>20. QED
  BY <1>1, <1>5, <1>7, <1>8, <1>9, <1>19

\* timer_callback takes a workspace away that does not count as staying.
LEMMA RunTaskSettled ==
    ASSUME TypeOK, Settled, RunTask
    PROVE  /\ Settled' /\ workspaces' = workspaces
           /\ \A w \in workspaces : wsOutput[w] # NoOutput /\ ~Leaving(w) =>
                 wsOutput'[w] # NoOutput /\ ~Leaving(w)'
<1> DEFINE t == Head(tasks)
<1>1. /\ tasks # <<>> /\ tasks' = Tail(tasks)
      /\ UNCHANGED <<outputs, unplugged, wsNr>> /\ workspaces' = workspaces
      /\ cursor' = IF ~t.cancelled /\ t.kind = "arrive" THEN t.out ELSE cursor
      /\ wsOutput' = IF ~t.cancelled /\ t.kind = "leave"
                     THEN [wsOutput EXCEPT ![t.ws] = NoOutput] ELSE wsOutput
  BY DEF RunTask, Deactivated, workspaces
<1>2. /\ Len(tasks) \in Nat \ {0} /\ t = tasks[1] /\ t \in Task
      /\ Len(tasks') = Len(tasks) - 1
      /\ \A i \in 1 .. Len(tasks') : tasks'[i] = tasks[i + 1] /\ i + 1 \in 2 .. Len(tasks)
  BY <1>1, HeadTailProperties, LenProperties DEF TypeOK
<1> HIDE DEF t
<1>3. 1 \in 1 .. Len(tasks) /\ ~t.cancelled /\ t.out \in outputs /\ t.ws \in WorkspaceIds
  BY <1>2 DEF Settled, Task
<1>4. ASSUME NEW w
      PROVE  Leaving(w) <=> Leaving(w)' \/ (t.kind = "leave" /\ t.ws = w)
  <2>1. ASSUME Leaving(w)'
        PROVE  Leaving(w)
    <3>1. PICK i \in 1 .. Len(tasks') : tasks'[i].kind = "leave" /\ tasks'[i].ws = w /\ ~tasks'[i].cancelled
      BY <2>1 DEF Leaving
    <3>2. i + 1 \in 1 .. Len(tasks) /\ tasks'[i] = tasks[i + 1]
      BY <1>2
    <3>3. QED
      BY <3>1, <3>2 DEF Leaving
  <2>2. ASSUME t.kind = "leave", t.ws = w
        PROVE  Leaving(w)
    BY <1>2, <1>3, <2>2 DEF Leaving
  <2>3. ASSUME Leaving(w), ~(t.kind = "leave" /\ t.ws = w)
        PROVE  Leaving(w)'
    <3>1. PICK i \in 1 .. Len(tasks) : tasks[i].kind = "leave" /\ tasks[i].ws = w /\ ~tasks[i].cancelled
      BY <2>3 DEF Leaving
    <3>2. i # 1
      BY <1>2, <2>3, <3>1
    <3>3. i - 1 \in 1 .. Len(tasks') /\ (i - 1) + 1 = i
      BY <1>2, <3>2
    <3>4. tasks'[i - 1] = tasks[i]
      BY <1>2, <3>3
    <3>5. QED
      BY <3>1, <3>3, <3>4 DEF Leaving
  <2>4. QED
    BY <2>1, <2>2, <2>3
<1>5. t.kind = "leave" => \A w : ~Leaving(w)'
  <2>1. SUFFICES ASSUME t.kind = "leave", NEW w, Leaving(w)'
                 PROVE  FALSE
    OBVIOUS
  <2>2. PICK i \in 1 .. Len(tasks') : tasks'[i].kind = "leave"
    BY <2>1 DEF Leaving
  <2>3. i + 1 \in 1 .. Len(tasks) /\ tasks[i + 1].kind = "leave" /\ i + 1 # 1
    BY <1>2, <2>2
  <2>4. i + 1 = 1
    BY <1>2, <1>3, <2>1, <2>3 DEF Settled
  <2>5. QED
    BY <2>3, <2>4
<1>6. \A x \in WorkspaceIds : wsOutput'[x] = IF t.kind = "leave" /\ t.ws = x THEN NoOutput ELSE wsOutput[x]
  BY <1>1, <1>3 DEF TypeOK
<1>7. workspaces \subseteq WorkspaceIds
  BY WorkspacesAreIds
<1>8. ASSUME NEW o \in outputs
      PROVE  OneStays(o)'
  <2>1. o # NoOutput
    BY <1>8, NullAssumption DEF TypeOK
  <2>2. PICK w \in workspaces : \A x \in workspaces : wsOutput[x] = o /\ ~Leaving(x) <=> x = w
    BY <1>8 DEF Settled, OneStays
  <2>3. \A x \in workspaces : wsOutput'[x] = o /\ ~Leaving(x)' <=> x = w
    BY <1>4, <1>6, <1>7, <2>1, <2>2
  <2>4. QED
    BY <1>1, <2>3 DEF OneStays
<1>9. Settled'
  <2>1. \A i \in 1 .. Len(tasks') : ~tasks'[i].cancelled /\ tasks'[i].out \in outputs'
    BY <1>1, <1>2 DEF Settled
  <2>2. ASSUME NEW i \in 1 .. Len(tasks'), NEW j \in 1 .. Len(tasks'),
               tasks'[i].kind = "leave", tasks'[j].kind = "leave"
        PROVE  i = j
    <3>1. /\ i + 1 \in 1 .. Len(tasks) /\ j + 1 \in 1 .. Len(tasks)
          /\ tasks[i + 1].kind = "leave" /\ tasks[j + 1].kind = "leave"
      BY <1>2, <2>2
    <3>2. i + 1 = j + 1
      BY <3>1 DEF Settled
    <3>3. QED
      BY <3>2
  <2>3. outputs' \cap unplugged' = {} /\ cursor' \in outputs' \cup {NoOutput}
    BY <1>1, <1>3 DEF Settled
  <2>4. \A w \in WorkspaceIds : Leaving(w)' => wsOutput'[w] # NoOutput
    BY <1>4, <1>5, <1>6 DEF Settled
  <2>5. \A w \in WorkspaceIds : /\ wsOutput'[w] \in outputs' \cup {NoOutput}
                                /\ wsOutput'[w] # NoOutput => w \in workspaces'
    BY <1>1, <1>6 DEF Settled
  <2>6. \A o \in outputs' : OneStays(o)'
    BY <1>1, <1>8
  <2>7. QED
    BY <2>1, <2>2, <2>3, <2>4, <2>5, <2>6 DEF Settled
<1>10. QED
  BY <1>1, <1>4, <1>6, <1>7, <1>9

\* The switch itself, when the user has waited.
LEMMA SwitchSettled ==
    ASSUME ~Rushed, TypeOK, Settled, NEW w \in workspaces, SwitchWorkspace(w)
    PROVE  Settled' /\ w \in workspaces' /\ wsOutput'[w] # NoOutput /\ ~Leaving(w)'
<1>1. Quiet
  BY DEF SwitchWorkspace
<1>2. \A x : ~Leaving(x)
  BY <1>1, QuietIsEmpty
<1>3. w \in WorkspaceIds
  BY WorkspacesAreIds
<1>4. CASE SwitchToFocused(w)
  <2>1. w = FocusedWorkspace /\ UNCHANGED <<outputs, unplugged, wsNr, wsOutput, cursor, tasks>>
    BY <1>4 DEF SwitchToFocused
  <2>2. FocusedWorkspace # NoWorkspace
    BY <1>3, <2>1, NumbersAssumption DEF WorkspaceIds, NoWorkspace
  <2>3. wsOutput[w] \in Outputs /\ wsOutput[w] # NoOutput
    BY <2>1, <2>2, FocusedIsShown, NullAssumption
  <2>4. Settled' /\ ~Leaving(w)'
    BY <1>2, <2>1, SettledKept DEF Settled
  <2>5. QED
    BY <2>1, <2>3, <2>4 DEF workspaces
<1>5. CASE SwitchToShown(w)
  <2>1. /\ wsOutput[w] # NoOutput /\ cursor' = wsOutput[w]
        /\ UNCHANGED <<outputs, unplugged, wsNr, wsOutput, tasks>>
    BY <1>5 DEF SwitchToShown
  <2>2. cursor' \in outputs \cup {NoOutput}
    BY <1>3, <2>1 DEF Settled
  <2>3. Settled' /\ ~Leaving(w)'
    BY <1>2, <2>1, <2>2, SettledKept
  <2>4. QED
    BY <2>1, <2>3 DEF workspaces
<1>6. CASE SwitchToHidden(w)
  BY <1>1, <1>6, HiddenSettled
<1>7. QED
  BY <1>4, <1>5, <1>6 DEF SwitchWorkspace

LEMMA InitSettled == Init => Settled
<1> SUFFICES ASSUME Init PROVE Settled
  OBVIOUS
<1>1. tasks = <<>> /\ outputs = {} /\ unplugged = {} /\ cursor = NoOutput
      /\ \A w \in WorkspaceIds : wsOutput[w] = NoOutput
  BY DEF Init
<1>2. \A i \in 1 .. Len(tasks) : FALSE
  BY <1>1
<1>3. QED
  BY <1>1, <1>2 DEF Settled, Leaving

LEMMA SettledStep ==
    ASSUME ~Rushed, ~Disturbed, TypeOK, Settled, [Next]_vars
    PROVE  Settled'
<1>1. CASE Surroundings
  <2>1. ASSUME NEW o \in Outputs, MoveCursor(o)
        PROVE  Settled'
    <3>1. cursor' \in outputs \cup {NoOutput} /\ UNCHANGED <<outputs, unplugged, wsNr, wsOutput, tasks>>
      BY <2>1 DEF MoveCursor
    <3>2. QED
      BY <3>1, SettledKept
  <2>2. QED
    BY <1>1, <2>1, PlugSettled, UnplugSettled, ViewsSettled DEF Surroundings
<1>2. CASE \E w \in workspaces : SwitchWorkspace(w)
  BY <1>2, SwitchSettled
<1>3. CASE RunTask
  BY <1>3, RunTaskSettled
<1>4. CASE UNCHANGED vars
  <2>1. cursor' \in outputs \cup {NoOutput} /\ UNCHANGED <<outputs, unplugged, wsNr, wsOutput, tasks>>
    BY <1>4 DEF vars, Settled
  <2>2. QED
    BY <2>1, SettledKept
<1>5. QED
  BY <1>1, <1>2, <1>3, <1>4 DEF Next

LEMMA SettledAlways ==
    ASSUME ~Rushed, ~Disturbed
    PROVE  Spec => []Settled
<1>1. TypeOK /\ Settled /\ [Next]_vars => Settled'
  BY SettledStep
<1>2. QED
  BY InitSettled, <1>1, TypeCorrect, PTL DEF Spec

\* When nothing interferes with a switch and no switch with another, no two
\* workspaces are left on one output, whatever outputs come and go in between.
THEOREM OneIsShown ==
    ASSUME ~Rushed, ~Disturbed
    PROVE  Spec => []OneWorkspaceShown
<1>1. TypeOK /\ Settled => OneWorkspaceShown
  <2>1. SUFFICES ASSUME TypeOK, Settled, Quiet, NEW o \in outputs
                 PROVE  Cardinality(ShownOn(o)) <= 1
    BY DEF OneWorkspaceShown
  <2>2. PICK w \in workspaces : \A x \in workspaces : wsOutput[x] = o <=> x = w
    BY <2>1, QuietIsEmpty DEF Settled, OneStays
  <2>3. ShownOn(o) = {w}
    BY <2>2 DEF ShownOn
  <2>4. Cardinality(ShownOn(o)) = 1
    BY <2>3, FS_Singleton
  <2>5. QED
    BY <2>4
<1>2. QED
  BY <1>1, SettledAlways, TypeCorrect, PTL

\* Under the same conditions, no workspace and no callback is left with an
\* Output that has been freed.
THEOREM NothingDangles ==
    ASSUME ~Rushed, ~Disturbed
    PROVE  Spec => []NoDanglingOutput
<1>1. TypeOK /\ Settled => NoDanglingOutput
  <2>1. SUFFICES ASSUME TypeOK, Settled
                 PROVE  ~DanglingOutput
    BY DEF NoDanglingOutput
  <2>2. NoOutput \notin unplugged
    BY <2>1, NullAssumption DEF TypeOK
  <2>3. \A w \in workspaces : wsOutput[w] \notin unplugged
    BY <2>1, <2>2, WorkspacesAreIds DEF Settled
  <2>4. \A i \in 1 .. Len(tasks) : tasks[i].out \notin unplugged
    BY <2>1 DEF Settled
  <2>5. QED
    BY <2>3, <2>4 DEF DanglingOutput
<1>2. QED
  BY <1>1, SettledAlways, TypeCorrect, PTL

\* And every output keeps a workspace, with any number of outputs.
THEOREM EachOutputIsKept ==
    ASSUME ~Rushed, ~Disturbed
    PROVE  Spec => []OutputKept
<1>1. Settled => OutputKept
  BY DEF Settled, OneStays, OutputKept, ShownOn
<1>2. QED
  BY <1>1, SettledAlways, PTL

-----------------------------------------------------------------------------
(* What the user asked for *)

LEMMA HistoryIsNext == [HistoryNext]_<<vars, wanted>> => [Next]_vars
BY DEF HistoryNext, Next, Surroundings, vars

LEMMA WantedStep ==
    ASSUME ~Rushed, ~Disturbed, TypeOK, Settled, WantedStays, [HistoryNext]_<<vars, wanted>>
    PROVE  WantedStays'
<1>1. ASSUME NEW w \in workspaces, SwitchWorkspace(w), wanted' = w
      PROVE  WantedStays'
  BY <1>1, SwitchSettled DEF WantedStays
<1>2. CASE wanted' = NoWorkspace
  BY <1>2 DEF WantedStays
<1>3. ASSUME UNCHANGED wanted, NEW o \in Outputs, PlugOutput(o)
      PROVE  WantedStays'
  BY <1>3, PlugSettled DEF WantedStays
<1>4. ASSUME UNCHANGED <<wanted, wsNr, wsOutput, tasks>>
      PROVE  WantedStays'
  BY <1>4 DEF WantedStays, Leaving, workspaces
<1>5. ASSUME UNCHANGED wanted, NEW v \in Views,
             \/ CreateView(v) \/ MapView(v) \/ UnmapView(v) \/ DestroyView(v)
             \/ ToggleFloating(v) \/ GrabTile(v)
             \/ \E w \in workspaces : ChangeViewWorkspace(v, w)
      PROVE  WantedStays'
  <2>1. UNCHANGED <<wsNr, wsOutput>> /\ \A w : Leaving(w)' <=> Leaving(w)
    BY <1>5, ViewsSettled
  <2>2. QED
    BY <1>5, <2>1 DEF WantedStays, workspaces
<1>6. CASE UNCHANGED wanted /\ RunTask
  BY <1>6, RunTaskSettled DEF WantedStays
<1>7. ASSUME UNCHANGED wanted, NEW o \in Outputs, MoveCursor(o)
      PROVE  WantedStays'
  BY <1>4, <1>7 DEF MoveCursor
<1>8. CASE UNCHANGED <<vars, wanted>>
  BY <1>4, <1>8 DEF vars
<1>9. QED
  BY <1>1, <1>2, <1>3, <1>5, <1>6, <1>7, <1>8 DEF HistoryNext

\* The workspace the user asked for last is on an output once every switch is
\* over, and the callbacks of no earlier switch take it away again: when the
\* user lets each switch end before the next.
THEOREM SwitchIsHonoured ==
    ASSUME ~Rushed, ~Disturbed
    PROVE  HistorySpec => []SwitchHonoured
<1>1. HistorySpec => Spec
  BY HistoryIsNext, PTL DEF HistorySpec, HistoryInit, Spec
<1>2. HistoryInit => WantedStays
  BY DEF HistoryInit, WantedStays
<1>3. TypeOK /\ Settled /\ WantedStays /\ [HistoryNext]_<<vars, wanted>> => WantedStays'
  BY WantedStep
<1>4. WantedStays => SwitchHonoured
  BY DEF WantedStays, SwitchHonoured
<1>5. QED
  BY <1>1, <1>2, <1>3, <1>4, SettledAlways, TypeCorrect, PTL DEF HistorySpec
=============================================================================
