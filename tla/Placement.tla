----------------------------- MODULE Placement -----------------------------
(***************************************************************************)
(* What the layouts of all workspaces promise together: a view is at home  *)
(* on one workspace or on none, it appears on the workspace under the      *)
(* cursor, and it changes home alone.                                      *)
(***************************************************************************)
CONSTANTS Views, Workspaces, NoWorkspace

VARIABLES
    home,      \* the workspace whose layout holds the view
    active     \* the workspace under the cursor

Init ==
    /\ home = [v \in Views |-> NoWorkspace]
    /\ active \in Workspaces

Appear(v) ==
    /\ home[v] = NoWorkspace
    /\ home' = [home EXCEPT ![v] = active]
    /\ UNCHANGED active

Leave(v) ==
    /\ home' = [home EXCEPT ![v] = NoWorkspace]
    /\ UNCHANGED active

Move(v, w) ==
    /\ home[v] # NoWorkspace
    /\ home' = [home EXCEPT ![v] = w]
    /\ UNCHANGED active

Look(w) ==
    /\ active' = w
    /\ UNCHANGED home

Next ==
    \/ \E v \in Views : Appear(v) \/ Leave(v) \/ \E w \in Workspaces : Move(v, w)
    \/ \E w \in Workspaces : Look(w)

Spec == Init /\ [][Next]_<<home, active>>
=============================================================================
