------------------------------- MODULE Chords -------------------------------
(***************************************************************************)
(* What key bindings promise (Keyboard.h:43-60): a table from chords, that *)
(* is sets of modifiers with one key, to commands.  Pressing a bound chord *)
(* does what telling its command to the compositor would.  To bind a chord *)
(* registers the command, in the place of an older one if there is one.  A *)
(* locked seat, one that a client has to itself, runs nothing.             *)
(***************************************************************************)
EXTENDS Integers, Sequences

CONSTANTS Commands,  \* the commands a user may tell, with the chords that are
                     \* bound, each to bind the next, before the command runs:
                     \* [chords |-> <<...>>, command |-> ...]
          ModSets,   \* the sets of modifiers that can be held
          Presses    \* the sequences of keys one physical key may stand for

VARIABLES table, locked, ran
vars == <<table, locked, ran>>

Chord(mods, key) == [mods |-> mods, key |-> key]

After(tbl, c) ==
    IF c.chords # <<>>
    THEN [chord \in DOMAIN tbl \cup {Head(c.chords)} |->
             IF chord = Head(c.chords) THEN [c EXCEPT !.chords = Tail(@)] ELSE tbl[chord]]
    ELSE tbl

(* Pressing a key that stands for several keys runs what each is bound to, *)
(* and what an earlier one has bound counts for a later one.               *)
Pressed(mods, keys) ==
    LET Try(s, key) == IF Chord(mods, key) \in DOMAIN s.table
                       THEN LET c == s.table[Chord(mods, key)]
                            IN  [table |-> After(s.table, c), ran |-> Append(s.ran, c)]
                       ELSE s
        after[i \in 0..Len(keys)] ==
            IF i = 0 THEN [table |-> table, ran |-> <<>>] ELSE Try(after[i - 1], keys[i])
    IN  after[Len(keys)]

Init == table = <<>> /\ locked = FALSE /\ ran = <<>>

Tell(c) ==
    /\ ran' = <<c>>
    /\ table' = After(table, c)
    /\ UNCHANGED locked

Press(mods, keys) ==
    /\ ~locked
    /\ LET after == Pressed(mods, keys)
       IN  table' = after.table /\ ran' = after.ran
    /\ UNCHANGED locked

Lock ==
    /\ locked' \in BOOLEAN
    /\ ran' = <<>>
    /\ UNCHANGED table

Idle == ran' = <<>> /\ UNCHANGED <<table, locked>>

Next == \/ Idle \/ Lock
        \/ \E c \in Commands : Tell(c)
        \/ \E mods \in ModSets, keys \in Presses : Press(mods, keys)

Spec == Init /\ [][Next]_vars
=============================================================================
