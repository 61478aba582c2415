--------------------------- MODULE SwitchHistory ---------------------------
(***************************************************************************)
(* WorkspaceSwitch with a history variable that remembers what the user    *)
(* asked for, to say that a switch is honoured.                            *)
(***************************************************************************)
EXTENDS WorkspaceSwitch

VARIABLE wanted    \* the workspace the last `workspace switch' asked for

HistoryInit == Init /\ wanted = NoWorkspace

\* Nothing is owed any more when an output goes away.
HistoryNext ==
    \/ \E w \in workspaces : SwitchWorkspace(w) /\ wanted' = w
    \/ \E o \in Outputs : UnplugOutput(o) /\ wanted' = NoWorkspace
    \/ UNCHANGED wanted /\ \E o \in Outputs : PlugOutput(o) \/ MoveCursor(o)
    \/ UNCHANGED wanted /\ \E v \in Views :
          \/ CreateView(v) \/ MapView(v) \/ UnmapView(v) \/ DestroyView(v)
          \/ ToggleFloating(v) \/ GrabTile(v)
          \/ \E w \in workspaces : ChangeViewWorkspace(v, w)
    \/ UNCHANGED wanted /\ RunTask

HistorySpec == HistoryInit /\ [][HistoryNext]_<<vars, wanted>>

\* The timer is re-armed at the end of every callback.
FairHistorySpec == HistorySpec /\ WF_vars(RunTask)

\* `workspace switch N' makes N the active workspace: once every switch is
\* over, the workspace last asked for is on an output (Seat::focus and the two
\* callbacks it leaves in the animation queue).
SwitchHonoured ==
    Quiet /\ wanted # NoWorkspace => wsOutput[wanted] # NoOutput
=============================================================================
