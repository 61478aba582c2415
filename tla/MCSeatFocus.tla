---------------------------- MODULE MCSeatFocus ----------------------------
(***************************************************************************)
(* A client with a view and two layer surfaces, and one with a view and a  *)
(* layer surface: surfaces of one client pass the focus on, one of them    *)
(* below the views, and both clients compete in the top layer and between  *)
(* it and the overlay.                                                     *)
(***************************************************************************)
EXTENDS SeatFocus, TLC

CONSTANTS v1, v2, s1, s2, s3, c1, c2

MCViews == {v1, v2}
MCSurfaces == {s1, s2, s3}
MCClients == {c1, c2}
MCClientOf == (v1 :> c1) @@ (s1 :> c1) @@ (s3 :> c1) @@ (v2 :> c2) @@ (s2 :> c2)
MCLayersOf == (s1 :> {1, 3}) @@ (s2 :> {2, 3}) @@ (s3 :> {2})
=============================================================================
