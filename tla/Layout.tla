------------------------------- MODULE Layout -------------------------------
(***************************************************************************)
(* The layout of one workspace as a value, and the edits that Workspace.cpp *)
(* and the commands make to it.  A layout is a record of                   *)
(*   columns : Workspace::columns, a sequence of non-empty sequences of    *)
(*             views, left to right and top to bottom;                     *)
(*   floats  : Workspace::floating_views.                                  *)
(* Positions and sizes are left out: which view is where is what the       *)
(* properties are about.                                                   *)
(***************************************************************************)
EXTENDS Integers, Sequences, SequencesExt

Empty == [columns |-> <<>>, floats |-> <<>>]

\* Workspace::find_column, 0 standing for columns.end()
FindColumn(l, v) ==
    IF \E i \in DOMAIN l.columns : Contains(l.columns[i], v)
    THEN CHOOSE i \in DOMAIN l.columns : Contains(l.columns[i], v)
    ELSE 0

\* Workspace::is_view_floating, find_floating(v) != floating_views.end()
IsFloating(l, v) == Contains(l.floats, v)

\* The views a layout holds.
Held(l) == ToSet(l.floats) \cup UNION {ToSet(c) : c \in ToSet(l.columns)}

\* Workspace::add_view: a new column right of nextTo's, or right of all; a
\* floating view after nextTo among the floating ones, or after all.
AddView(l, v, nextTo, floating) ==
    LET after(s, i, x) == IF i = 0 THEN Append(s, x) ELSE InsertAt(s, i + 1, x)
        place == SelectInSeq(l.floats, LAMBDA x : x = nextTo)
    IN IF floating
       THEN [l EXCEPT !.floats = after(@, place, v)]
       ELSE [l EXCEPT !.columns = after(@, FindColumn(l, nextTo), <<v>>)]

\* Mutant: the column that has lost its last view is kept.
RemoveKeepingColumn(l, v) ==
    [columns |-> [i \in DOMAIN l.columns |-> Remove(l.columns[i], v)],
     floats  |-> Remove(l.floats, v)]

\* Workspace::remove_view: a column that loses its last view goes too.  No list
\* of a layout holds a view twice.
RemoveView(l, v) ==
    LET i == FindColumn(l, v)
        rest == RemoveFirst(l.columns[i], v)
    IN [columns |-> CASE i = 0 -> l.columns
                      [] i # 0 /\ rest = <<>> -> RemoveAt(l.columns, i)
                      [] OTHER -> [l.columns EXCEPT ![i] = rest],
        floats  |-> RemoveFirst(l.floats, v)]

\* Workspace::insert_into_column: v leaves its column for the end of the one
\* that holds `anchor'.
InsertIntoColumn(l, v, anchor) ==
    LET rest == RemoveView(l, v)
        i == FindColumn(rest, anchor)
    IN [rest EXCEPT !.columns[i] = Append(@, v)]

\* Workspace::pop_from_column: the bottom view of column i gets a column of
\* its own on the right; a column of one view stays as it is.
PopFromColumn(l, i) ==
    LET column == l.columns[i]
    IN IF Len(column) < 2 THEN l
       ELSE AddView(RemoveView(l, Last(column)), Last(column), Head(column), FALSE)

Swapped(s, i, j) == [s EXCEPT ![i] = s[j], ![j] = s[i]]

\* commands::move on a tiled view, dx and dy reduced to their signs: columns
\* are swapped only with an existing neighbour, tiles wrap around.
MoveTile(l, v, dx, dy) ==
    LET i == FindColumn(l, v)
        j == i + dx
        swap == dx # 0 /\ j \in DOMAIN l.columns
        cols == IF swap THEN Swapped(l.columns, i, j) ELSE l.columns
        at == IF swap THEN j ELSE i
        n == Len(cols[at])
        k == SelectInSeq(cols[at], LAMBDA x : x = v)
        other == ((k - 1 - dy + n) % n) + 1
    IN [l EXCEPT !.columns =
           IF dy # 0 /\ n > 1
           THEN [cols EXCEPT ![at] = Swapped(@, k, other)] ELSE cols]

\* Mutant: a view that starts to float leaves its tile behind.
FloatAndTile(l, v) ==
    IF IsFloating(l, v)
    THEN [RemoveView(l, v) EXCEPT !.columns = Append(@, <<v>>)]
    ELSE [l EXCEPT !.floats = Append(@, v)]

\* The part of commands::toggle_floating that moves the view.
ToggleFloating(l, v) ==
    LET rest == RemoveView(l, v)
    IN IF IsFloating(l, v)
       THEN [rest EXCEPT !.columns = Append(@, <<v>>)]
       ELSE [rest EXCEPT !.floats = Append(@, v)]
=============================================================================
