--------------------------- MODULE MCKeyBindings ---------------------------
(***************************************************************************)
(* Chords typed in two orders, with a modifier twice, with capitals, with  *)
(* no key or two; lines that cutter refuses and that end it; binds in a    *)
(* bind; a bound virtual-terminal key; chords of all modifiers, typed,     *)
(* bound by a key, and held.                                               *)
(***************************************************************************)
EXTENDS KeyBindings, TLC

MCNumerals == ("1" :> 1) @@ ("5" :> 5)
MCLowerCase == ("X" :> "x")
MCKeysyms == {"x", "y", "vt"}
MCHeldModifiers == {{}, {"alt"}, {"alt", "shift"}, ModKeys}
MCPresses == {<<"x">>, <<"X">>, <<"y", "x">>, <<"vt">>}
MCVTKeys == {"vt"}

Symmetry == Permutations(Keyboards)

W(word) == <<word>>
AllModifiers == <<"shift", "caps", "ctrl", "alt", "mod2", "mod3", "super", "mod5">>

MCLines == {
    <<W("bind"), <<"alt", "x">>, W("close")>>,
    <<W("bind"), <<"X", "alt", "alt">>, W("focus"), W("left")>>,
    <<W("bind"), <<"alt", "shift", "x">>, W("workspace"), W("switch"), W("1")>>,
    <<W("bind"), <<"alt", "y">>, W("bind"), <<"alt", "x">>, W("quit")>>,
    <<W("bind"), AllModifiers \o W("x"), W("close")>>,
    <<W("bind"), <<"alt", "shift", "y">>, W("bind"), AllModifiers \o W("y"), W("close")>>,
    <<W("bind"), <<"vt">>, W("exec"), W("locker")>>,
    <<W("bind"), <<"alt">>, W("cycle_width")>>,
    <<W("bind"), <<"hyper", "x">>, W("move"), W("1")>>,
    <<W("bind"), W("x")>>,
    <<W("bind"), W("x"), W("resize"), W("5"), W("x")>>,
    <<W("config"), W("mouse_mod"), <<"mod5", "caps">>>>,
    <<W("config"), W("mouse_mod"), <<"alt", "hyper">>>>,
    <<W("config"), W("gap"), W("x")>>,
    <<W("quit"), W("1")>>,
    <<>> }
=============================================================================
