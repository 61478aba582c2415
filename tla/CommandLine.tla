---------------------------- MODULE CommandLine ----------------------------
(***************************************************************************)
(* How cutter reads its arguments (src/cutter/parse_arguments.h) and what  *)
(* the compositor makes of the command it is sent                          *)
(* (commands/dispatch_command.cpp).  An argument is the sequence of the    *)
(* parts that its '+' signs separate: "alt+x" is <<"alt", "x">>, and an    *)
(* argument without '+' has one part.                                      *)
(***************************************************************************)
EXTENDS Integers, FiniteSetsExt, SequencesExt, Functions

CONSTANTS Numerals,   \* what std::stoi makes of the parts that it can read
          LowerCase,  \* the lower-case form of the parts that have capitals
          Keysyms     \* the lower-case key names that xkbcommon knows

NoKey == ""   \* the key of a chord of modifiers alone

ASSUME WordsAssumption ==
    /\ NoKey \notin Keysyms
    /\ \A part \in DOMAIN Numerals : Numerals[part] \in Int
    /\ \A part \in DOMAIN LowerCase : LowerCase[part] \in STRING

Refused == [name |-> "refused"]   \* tl::unexpected: cutter exits with a message
Aborted == [name |-> "aborted"]   \* std::stoi throws and nobody catches it

ModKeys == {"shift", "ctrl", "alt", "super", "caps", "mod2", "mod3", "mod5"}

IsNumber(arg) == arg # <<>> /\ Head(arg) \in DOMAIN Numerals

Number(arg) == Numerals[Head(arg)]

Lowered(part) == IF part \in DOMAIN LowerCase THEN LowerCase[part] ELSE part

Parameterless == {"close", "toggle_floating", "insert_into_column",
                  "pop_from_column", "cycle_width"}

ParseQuit(args) ==
    IF args = <<>>
    THEN [name |-> "quit", code |-> 0]
    ELSE IF IsNumber(args[1]) THEN [name |-> "quit", code |-> Number(args[1])] ELSE Refused

ParseFocus(args) ==
    IF args # <<>> /\ args[1] \in {<<"left">>, <<"right">>, <<"up">>, <<"down">>, <<"cycle">>}
    THEN [name |-> "focus", direction |-> args[1][1]]
    ELSE Refused

ParseExec(args) == [name |-> "exec", argv |-> args]

ParseWorkspace(args) ==
    IF Len(args) < 2 \/ args[1] \notin {<<"switch">>, <<"move">>}
    THEN Refused
    ELSE IF IsNumber(args[2])
         THEN [name |-> "workspace", sub |-> args[1][1], n |-> Number(args[2])]
         ELSE Aborted

ParseMove(args) ==
    IF args = <<>>
    THEN Refused
    ELSE IF \A i \in DOMAIN args : i <= 2 => IsNumber(args[i])
         THEN [name |-> "move", dx |-> Number(args[1]),
               dy |-> IF Len(args) = 1 THEN 0 ELSE Number(args[2])]
         ELSE Aborted

ParseResize(args) ==
    IF Len(args) < 2
    THEN Refused
    ELSE IF IsNumber(args[1]) /\ IsNumber(args[2])
         THEN [name |-> "resize", width |-> Number(args[1]), height |-> Number(args[2])]
         ELSE Aborted

ParseMouseMod(args) ==
    IF Len(args) = 1 /\ Range(args[1]) \subseteq ModKeys
    THEN [name |-> "mouse_mod", modifiers |-> args[1]]
    ELSE Refused

ParseGap(args) ==
    IF Len(args) # 1
    THEN Refused
    ELSE IF IsNumber(args[1]) THEN [name |-> "gap", gap |-> Number(args[1])] ELSE Aborted

ParseFocusColor(args) ==
    IF Len(args) # 4
    THEN Refused
    ELSE IF \A i \in 1..4 : IsNumber(args[i])
         THEN [name |-> "focus_color", rgba |-> [i \in 1..4 |-> Number(args[i])]]
         ELSE Aborted

ParseConfig(args) ==
    IF args = <<>>
    THEN Refused
    ELSE CASE args[1] = <<"mouse_mod">>    -> ParseMouseMod(Tail(args))
           [] args[1] = <<"focus_color">>  -> ParseFocusColor(Tail(args))
           [] args[1] = <<"gap">>          -> ParseGap(Tail(args))
           [] OTHER                        -> Refused

ParseCommand(args) ==
    IF args = <<>>
    THEN Refused
    ELSE CASE args[1] = <<"quit">>       -> ParseQuit(Tail(args))
           [] args[1] = <<"focus">>      -> ParseFocus(Tail(args))
           [] args[1] = <<"exec">>       -> ParseExec(Tail(args))
           [] args[1] = <<"workspace">>  -> ParseWorkspace(Tail(args))
           [] args[1] = <<"move">>       -> ParseMove(Tail(args))
           [] args[1] = <<"resize">>     -> ParseResize(Tail(args))
           [] args[1] = <<"config">>     -> ParseConfig(Tail(args))
           [] \E w \in Parameterless : args[1] = <<w>> -> [name |-> args[1][1]]
           [] OTHER                      -> Refused

(* The modifiers of a chord are those of its parts that name one, in any   *)
(* place; the last of the other parts is the key, and earlier ones are     *)
(* dropped without a word.                                                 *)
ChordModifiers(arg) == Restrict(arg, {i \in DOMAIN arg : arg[i] \in ModKeys})

ChordKey(arg) ==
    LET others == {i \in DOMAIN arg : arg[i] \notin ModKeys}
    IN  IF others = {} THEN NoKey ELSE Lowered(arg[Max(others)])

ParseChord(arg) == [modifiers |-> ChordModifiers(arg), key |-> ChordKey(arg)]

(* What bind binds is a command, which may be a bind again: a line is a    *)
(* number of times "bind" and a chord, and the command in the end.  The    *)
(* data that the parser makes is nested in the same way, and is kept as    *)
(* the sequence of the chords with that command.                           *)
Binds(line) ==
    Min({n \in 0..Len(line) : Len(line) < 2 * n + 1 \/ line[2 * n + 1] # <<"bind">>})

ParseArguments(line) ==
    LET n == Binds(line)
        command == ParseCommand(SubSeq(line, 2 * n + 1, Len(line)))
    IN  IF command \in {Refused, Aborted}
        THEN command
        ELSE [chords |-> [i \in 1..n |-> ParseChord(line[2 * i])], command |-> command]

-----------------------------------------------------------------------------
(* Mutant: one of cutter's modifiers is missing from the table. *)
ModTableShort == [shift |-> 1, caps |-> 2, ctrl |-> 4, alt |-> 8,
                  mod2 |-> 16, mod3 |-> 32, super |-> 64]

(* WLR_MODIFIER_*: one bit for each modifier *)
ModTable == [shift |-> 1, caps |-> 2, ctrl |-> 4, alt |-> 8,
             mod2 |-> 16, mod3 |-> 32, super |-> 64, mod5 |-> 128]

(* The mask that has the bits of the modifiers mods. *)
MaskOf(mods) ==
    LET Bit(m) == IF m \in mods THEN ModTable[m] ELSE 0
    IN  Bit("shift") + Bit("caps") + Bit("ctrl") + Bit("alt")
            + Bit("mod2") + Bit("mod3") + Bit("super") + Bit("mod5")

(* Mutant: += for |=, so that a modifier named twice is another one. *)
ModifierArrayAdded(modifiers) ==
    MapThenSumSet(LAMBDA i : ModTable[modifiers[i]], DOMAIN modifiers) % 256

ModifierArrayToMask(modifiers) == MaskOf(Range(modifiers))

(* std::unordered_map::at throws for a modifier that the table lacks, and  *)
(* nothing in the compositor catches it.                                   *)
Thrown == [name |-> "thrown"]

TableHas(modifiers) == Range(modifiers) \subseteq DOMAIN ModTable

DispatchConfig(c) ==
    IF c.name # "mouse_mod"
    THEN c
    ELSE IF TableHas(c.modifiers)
         THEN [name |-> "mouse_mod", mask |-> ModifierArrayToMask(c.modifiers)]
         ELSE Thrown

DispatchChord(chord) == [mask |-> ModifierArrayToMask(chord.modifiers), sym |-> chord.key]

(* Mutant: the keysym is not checked. *)
DispatchUnchecked(c) ==
    [chords |-> [i \in DOMAIN c.chords |-> DispatchChord(c.chords[i])],
     command |-> DispatchConfig(c.command)]

(* A bind whose chord has no keysym becomes a command that says so, and    *)
(* what it binds is not looked at.                                         *)
DispatchCommand(c) ==
    LET Sound(i) == TableHas(c.chords[i].modifiers) /\ c.chords[i].key \in Keysyms
        unsound == {i \in DOMAIN c.chords : ~Sound(i)}
        first == Min(unsound)
        command == DispatchConfig(c.command)
    IN  CASE unsound = {} /\ command = Thrown -> Thrown
          [] unsound = {} /\ command # Thrown ->
                [chords |-> [i \in DOMAIN c.chords |-> DispatchChord(c.chords[i])],
                 command |-> command]
          [] unsound # {} /\ ~TableHas(c.chords[first].modifiers) -> Thrown
          [] OTHER ->
                [chords |-> [i \in 1..(first - 1) |-> DispatchChord(c.chords[i])],
                 command |-> [name |-> "invalid_keysym", key |-> c.chords[first].key]]
=============================================================================
