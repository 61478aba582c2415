------------------------- MODULE MCWorkspaceSwitch -------------------------
(* The symmetry of view identities, for the runs that check safety only.   *)
(* Their VIEW is vars: what was asked for decides about no step, and none  *)
(* of their properties is about it.                                        *)
EXTENDS SwitchHistory, TLC

ViewSymmetry == Permutations(Views)
=============================================================================
