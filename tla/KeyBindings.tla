---------------------------- MODULE KeyBindings ----------------------------
(***************************************************************************)
(* Key bindings, from the line a user types after cutter to the command    *)
(* that a key runs: cutter parses (CommandLine), the compositor dispatches *)
(* and executes, bind fills KeybindingsConfig::map, and                    *)
(* KeyboardHandleData::key_handler looks keys up in it.  The transport in  *)
(* between is the subject of IpcConnection.                                *)
(***************************************************************************)
EXTENDS CommandLine

CONSTANTS Keyboards,
          Lines,          \* the argument lists that users type
          HeldModifiers,  \* the sets of modifiers that a keyboard may have down
          Presses,        \* the keysyms one key press may stand for, in sequences
          VTKeys,         \* the keysyms XF86Switch_VT_1 ... 12
          Rebinding,      \* FALSE: users bind no chord to a second command
          None

ASSUME InputAssumption ==
    /\ Lines \subseteq Seq(Seq(STRING))
    /\ Presses \subseteq Seq(STRING)
    /\ HeldModifiers \subseteq SUBSET ModKeys /\ {} \in HeldModifiers
    /\ Rebinding \in BOOLEAN

VARIABLES
    map,           \* KeybindingsConfig::map: from <<mask, keysym>> to commands
    config,        \* Server::config
    running,       \* FALSE once teardown has ended the event loop
    crashed,       \* an exception has left the compositor
    overrun,       \* KeybindingsConfig::map was indexed past its last row; what
                   \* the program does from then on nothing says
    keyboards,     \* Seat::keyboards
    held,          \* the modifiers pressed on each keyboard
    seatKeyboard,  \* the keyboard the wlr_seat has current
    exclusive,     \* Seat::exclusive_client is set
    ran,           \* the commands that the last step executed
    out            \* where the last key event went: "client", "vt", "command" or ""

vars == <<map, config, running, crashed, overrun, keyboards, held, seatKeyboard, exclusive,
          ran, out>>
kbdVars == <<keyboards, held, seatKeyboard, exclusive>>

Masks == 0..255

(* The rows of map[(1 << WLR_MODIFIER_COUNT) - 1]: one fewer than masks. *)
Rows == 0..254

(* Server::init sets mouse_mods to WLR_MODIFIER_LOGO, Config.h the rest;   *)
(* colours are in 255ths, as cutter takes them.                            *)
Init ==
    /\ map = <<>>
    /\ config = [mouse_mod |-> ModTable["super"], gap |-> 10, focus_color |-> <<0, 0, 178, 127>>]
    /\ running = TRUE /\ crashed = FALSE /\ overrun = FALSE
    /\ keyboards = {} /\ held = [k \in Keyboards |-> {}]
    /\ seatKeyboard = None /\ exclusive = FALSE
    /\ ran = <<>> /\ out = ""

-----------------------------------------------------------------------------
(* std::unordered_map::insert keeps the value that is there already. *)
Insert(m, key, value) ==
    IF key \in DOMAIN m
    THEN m
    ELSE [k \in DOMAIN m \cup {key} |-> IF k = key THEN value ELSE m[k]]

Live == running /\ ~crashed /\ ~overrun

(* The row and the keysym that a bind adds to, and the command it adds. *)
BoundChord(c) == <<Head(c.chords).mask, Head(c.chords).sym>>
BoundCommand(c) == [c EXCEPT !.chords = Tail(@)]

(* commands.h: what executing a dispatched command does to this state.  A  *)
(* bind of all modifiers at once has no row to add to, see Settles.        *)
Bind(s, c) ==
    IF BoundChord(c)[1] \in Rows
    THEN [s EXCEPT !.map = Insert(@, BoundChord(c), BoundCommand(c))]
    ELSE s

Configure(s, c) ==
    CASE c.name = "mouse_mod"   -> [s EXCEPT !.config.mouse_mod = c.mask]
      [] c.name = "gap"         -> [s EXCEPT !.config.gap = c.gap]
      [] c.name = "focus_color" -> [s EXCEPT !.config.focus_color = c.rgba]

Quit(s) == [s EXCEPT !.running = FALSE]

Execute(s, c) ==
    LET done == [s EXCEPT !.ran = Append(@, c)]
        name == c.command.name
    IN  CASE c.chords # <<>> -> Bind(done, c)
          [] c.chords = <<>> /\ name = "quit" -> Quit(done)
          [] c.chords = <<>> /\ name \in {"mouse_mod", "gap", "focus_color"} ->
                Configure(done, c.command)
          [] OTHER -> done

State == [map |-> map, config |-> config, running |-> running, ran |-> <<>>]

Becomes(s) ==
    /\ map' = s.map /\ config' = s.config /\ running' = s.running /\ ran' = s.ran

(* The rows in which the commands that have run bind. *)
BoundRows(s) == {BoundChord(s.ran[i])[1] : i \in {j \in DOMAIN s.ran : s.ran[j].chords # <<>>}}

(* One of the commands binds a chord that has another command. *)
Rebinds(s) ==
    \E i \in DOMAIN s.ran :
        /\ s.ran[i].chords # <<>>
        /\ BoundChord(s.ran[i]) \in DOMAIN s.map
        /\ s.map[BoundChord(s.ran[i])] # BoundCommand(s.ran[i])

(* The commands have run and the lookups in these rows are done, unless     *)
(* the array was overrun: of such a step that is all that is kept, and the  *)
(* model stops.                                                             *)
Settles(s, lookups) ==
    /\ overrun' = ~(BoundRows(s) \cup lookups \subseteq Rows)
    /\ Rebinding \/ ~Rebinds(s)
    /\ Becomes(IF overrun' THEN State ELSE s)

(* A user types a line; cutter sends what it could parse. *)
Cutter(line) ==
    LET parsed == ParseArguments(line)
        c == DispatchCommand(parsed)
    IN  /\ Live
        /\ out' = ""
        /\ IF parsed \in {Refused, Aborted}
           THEN Becomes(State) /\ UNCHANGED <<crashed, overrun>>
           ELSE IF c = Thrown
                THEN crashed' = TRUE /\ Becomes(State) /\ UNCHANGED overrun
                ELSE Settles(Execute(State, c), {}) /\ UNCHANGED crashed
        /\ UNCHANGED kbdVars

-----------------------------------------------------------------------------
(* key_handler for a pressed key: every keysym of the key that is bound    *)
(* under the keyboard's own modifiers runs, one after the other.           *)
RunBindings(k, syms) ==
    LET mask == MaskOf(held[k])
        Try(s, sym) == IF <<mask, sym>> \in DOMAIN s.map
                       THEN Execute(s, s.map[<<mask, sym>>])
                       ELSE s
        after[i \in 0..Len(syms)] ==
            IF i = 0 THEN State ELSE Try(after[i - 1], Lowered(syms[i]))
    IN  after[Len(syms)]

(* Mutant: bindings work under an exclusive client as well. *)
BindingsAlways == TRUE

BindingsWork == ~exclusive

PressKey(k, syms) ==
    LET after == IF BindingsWork THEN RunBindings(k, syms) ELSE State
        lookups == IF BindingsWork /\ syms # <<>> THEN {MaskOf(held[k])} ELSE {}
        vt == Range(syms) \cap VTKeys # {}
    IN  /\ Live /\ k \in keyboards
        /\ Settles(after, lookups)
        /\ out' = CASE overrun' -> ""
                    [] ~overrun' /\ ran' # <<>> -> "command"
                    [] ~overrun' /\ ran' = <<>> /\ vt -> "vt"
                    [] OTHER -> "client"
        /\ seatKeyboard' = IF out' = "client" THEN k ELSE seatKeyboard
        /\ UNCHANGED <<crashed, keyboards, held, exclusive>>

ReleaseKey(k) ==
    /\ Live /\ k \in keyboards
    /\ Becomes(State)
    /\ out' = "client" /\ seatKeyboard' = k
    /\ UNCHANGED <<crashed, overrun, keyboards, held, exclusive>>

(* modifiers_handler; wlroots updates the keyboard's state before it. *)
ChangeModifiers(k, mods) ==
    /\ Live /\ k \in keyboards /\ mods # held[k]
    /\ held' = [held EXCEPT ![k] = mods]
    /\ seatKeyboard' = k
    /\ Becomes(State) /\ out' = ""
    /\ UNCHANGED <<crashed, overrun, keyboards, exclusive>>

AddKeyboard(k) ==
    /\ Live /\ k \notin keyboards
    /\ keyboards' = keyboards \cup {k}
    /\ seatKeyboard' = k
    /\ Becomes(State) /\ out' = ""
    /\ UNCHANGED <<crashed, overrun, held, exclusive>>

(* destroy_handler; the wlr_seat drops a keyboard of its own that goes. *)
RemoveKeyboard(k) ==
    /\ Live /\ k \in keyboards
    /\ keyboards' = keyboards \ {k}
    /\ held' = [held EXCEPT ![k] = {}]
    /\ seatKeyboard' = IF seatKeyboard = k THEN None ELSE seatKeyboard
    /\ Becomes(State) /\ out' = ""
    /\ UNCHANGED <<crashed, overrun, exclusive>>

(* set_exclusive_client, of which SeatFocus says more *)
Inhibit ==
    /\ Live
    /\ exclusive' = ~exclusive
    /\ Becomes(State) /\ out' = ""
    /\ UNCHANGED <<crashed, overrun, keyboards, held, seatKeyboard>>

(* The compositor has stopped. *)
Stopped == ~Live /\ UNCHANGED vars

Next ==
    \/ \E line \in Lines : Cutter(line)
    \/ \E k \in Keyboards, syms \in Presses : PressKey(k, syms)
    \/ \E k \in Keyboards : ReleaseKey(k)
    \/ \E k \in Keyboards, mods \in HeldModifiers : ChangeModifiers(k, mods)
    \/ \E k \in Keyboards : AddKeyboard(k)
    \/ \E k \in Keyboards : RemoveKeyboard(k)
    \/ Inhibit
    \/ Stopped

Spec == Init /\ [][Next]_vars

-----------------------------------------------------------------------------
(* TypeOK: every binding is in a row of the map and under a keysym that    *)
(* exists, mouse_mod is a set of WLR_MODIFIER bits, and the seat's         *)
(* keyboard is one that is plugged in.                                     *)
TypeOK ==
    /\ \A chord \in DOMAIN map : chord[1] \in Rows /\ chord[2] \in Keysyms
    /\ config.mouse_mod \in Masks /\ config.gap \in Int
    /\ running \in BOOLEAN /\ crashed \in BOOLEAN /\ overrun \in BOOLEAN /\ exclusive \in BOOLEAN
    /\ keyboards \subseteq Keyboards
    /\ held \in [Keyboards -> HeldModifiers]
    /\ seatKeyboard \in keyboards \cup {None}

(* NeverThrows: whatever cutter accepts, nested binds and all, names only  *)
(* modifiers that the compositor's own table has; otherwise                *)
(* std::unordered_map::at (dispatch_command.cpp:39) would end the          *)
(* compositor, and the session with it.                                    *)
NeverThrows == ~crashed

(* LockHolds: while a client has the seat to itself (a screen locker), a   *)
(* key runs no command, even one that is bound on a virtual-terminal key,  *)
(* and the virtual-terminal keys work, "to avoid getting locked out"       *)
(* (Keyboard.cpp:72).                                                      *)
LockHolds ==
    [][\A k \in Keyboards, syms \in Presses :
          exclusive /\ PressKey(k, syms) =>
              /\ ran' = <<>> /\ map' = map /\ config' = config
              /\ out' = "vt" <=> Range(syms) \cap VTKeys # {}]_vars

(* Executed commands and typed lines in the terms of Chords, along two     *)
(* roads: from the masks and keysyms of the compositor, and from the words *)
(* of the line.                                                            *)
ModsOf == [mask \in Masks |-> {m \in DOMAIN ModTable : (mask \div ModTable[m]) % 2 = 1}]

ChordOf(mask, sym) == [mods |-> ModsOf[mask], key |-> sym]

Meaning(c) ==
    [chords |-> [i \in DOMAIN c.chords |-> ChordOf(c.chords[i].mask, c.chords[i].sym)],
     command |-> IF c.command.name = "mouse_mod"
                 THEN [name |-> "mouse_mod", mods |-> ModsOf[c.command.mask]]
                 ELSE c.command]

Typed(c) ==
    LET unknown == {i \in DOMAIN c.chords : c.chords[i].key \notin Keysyms}
        n == IF unknown = {} THEN Len(c.chords) ELSE Min(unknown) - 1
    IN  [chords |-> [i \in 1..n |-> [mods |-> Range(c.chords[i].modifiers), key |-> c.chords[i].key]],
         command |->
            CASE unknown # {} -> [name |-> "invalid_keysym", key |-> c.chords[n + 1].key]
              [] unknown = {} /\ c.command.name = "mouse_mod" ->
                    [name |-> "mouse_mod", mods |-> Range(c.command.modifiers)]
              [] OTHER -> c.command]

MapMeaning ==
    [chord \in {ChordOf(key[1], key[2]) : key \in DOMAIN map} |->
        Meaning(map[CHOOSE key \in DOMAIN map : ChordOf(key[1], key[2]) = chord])]

TypedCommands ==
    {Typed(ParseArguments(line)) :
        line \in {l \in Lines : ParseArguments(l) \notin {Refused, Aborted}}}

Promised == INSTANCE Chords WITH
    table <- MapMeaning,
    locked <- exclusive,
    ran <- [i \in DOMAIN ran |-> Meaning(ran[i])],
    Commands <- TypedCommands,
    ModSets <- HeldModifiers,
    Presses <- {[i \in DOMAIN syms |-> Lowered(syms[i])] : syms \in Presses}

(* ImplementsChords: the order, the repetition and the case in which a     *)
(* chord is typed make no difference, each chord keeps to its own command, *)
(* and a pressed chord runs what the line that bound it says               *)
(* (Keyboard.h:43-60).  It is claimed while no chord is bound to a second  *)
(* command (Rebinding is FALSE) and up to the first overrun.               *)
ImplementsChords == Promised!Spec

-----------------------------------------------------------------------------
(* BindingRegistered, what src/man/cutter.1.md says of bind, "Registers    *)
(* KEYBIND to execute COMMAND when the key binding is activated": once     *)
(* such a command has run the chord has its command.  insert               *)
(* (commands.h:120) keeps an older one.                                    *)
BindingRegistered ==
    \A i \in DOMAIN ran :
        ran[i].chords # <<>> => map[BoundChord(ran[i])] = BoundCommand(ran[i])

(* EachCombinationHasMap, what Keyboard.h:65 says of the array, "An array  *)
(* of key binding maps, for each modifier combination": no line and no key *)
(* looks for the map of a combination that has none.  With all eight       *)
(* modifiers the index is the array's length.                              *)
EachCombinationHasMap == ~overrun
=============================================================================
