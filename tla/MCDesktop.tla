----------------------------- MODULE MCDesktop -----------------------------
(* Dialog relations for Desktop. *)
EXTENDS Desktop

CONSTANTS v1, v2

NoDialogs == {}
OneDialog == {<<v2, v1>>}
=============================================================================
