----------------------------- MODULE MCViewport -----------------------------
(* Bounds for Viewport: an output with a panel on each side or with none;   *)
(* the smallest and the largest of the widths that cycle_width gives on it, *)
(* so that two edits go past the largest; Scrolls has the middle of the     *)
(* plane and, with 9, a scroll that puts a second column, of these widths,  *)
(* flush with the right edge.                                               *)
EXTENDS Viewport, TLC

CONSTANTS v1, v2, v3

MCViews == {v1, v2, v3}
MCAreas == {[x |-> 0, width |-> 1920], [x |-> 40, width |-> 1840]}
MCWidths == {733, 1186}
MCScrolls == {9, 900}

Symmetry == Permutations(MCViews)
=============================================================================
