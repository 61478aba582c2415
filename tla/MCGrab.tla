------------------------------- MODULE MCGrab -------------------------------
(***************************************************************************)
(* A floating Xwayland view and a tiled one, and two workspaces.           *)
(***************************************************************************)
EXTENDS Grab, TLC

CONSTANTS v1, v2, w1, w2

MCViews == {v1, v2}
MCX11 == {v1}
MCFloating == {v1}
MCWorkspaces == {w1, w2}
=============================================================================
