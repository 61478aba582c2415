------------------------- MODULE KeyBindings_proof -------------------------
(***************************************************************************)
(* Theorems about KeyBindings, for any words that name numbers and keys,   *)
(* any lines, keyboards and presses.                                       *)
(***************************************************************************)
EXTENDS KeyBindings, Lemmas

-----------------------------------------------------------------------------
(* Masks and the sets of modifiers that they stand for *)

LEMMA MaskIsSum ==
    ASSUME NEW mods
    PROVE  MaskOf(mods) =
                (IF "shift" \in mods THEN 1 ELSE 0) + (IF "caps" \in mods THEN 2 ELSE 0)
              + (IF "ctrl" \in mods THEN 4 ELSE 0) + (IF "alt" \in mods THEN 8 ELSE 0)
              + (IF "mod2" \in mods THEN 16 ELSE 0) + (IF "mod3" \in mods THEN 32 ELSE 0)
              + (IF "super" \in mods THEN 64 ELSE 0) + (IF "mod5" \in mods THEN 128 ELSE 0)
BY DEF MaskOf, ModTable

LEMMA MaskInRange ==
    ASSUME NEW mods
    PROVE  MaskOf(mods) \in Masks
BY MaskIsSum DEF Masks

\* A modifier is in the set of a mask if the mask has its bit.
LEMMA BitOfMask ==
    ASSUME NEW mask \in Masks, NEW m \in ModKeys
    PROVE  m \in ModsOf[mask] <=> (mask \div ModTable[m]) % 2 = 1
BY DEF ModsOf, ModTable, ModKeys

LEMMA ModsOfMask ==
    ASSUME NEW mods \in SUBSET ModKeys
    PROVE  ModsOf[MaskOf(mods)] = mods
<1> DEFINE mask == MaskOf(mods)
<1>1. mask \in Masks
  BY MaskInRange
<1>2. \A m \in ModKeys : (mask \div ModTable[m]) % 2 = 1 <=> m \in mods
  <2>1. PICK b0 \in 0..1, b1 \in 0..1, b2 \in 0..1, b3 \in 0..1,
             b4 \in 0..1, b5 \in 0..1, b6 \in 0..1, b7 \in 0..1 :
         /\ mask = b0 + 2 * b1 + 4 * b2 + 8 * b3 + 16 * b4 + 32 * b5 + 64 * b6 + 128 * b7
         /\ (b0 = 1 <=> "shift" \in mods) /\ (b1 = 1 <=> "caps" \in mods)
         /\ (b2 = 1 <=> "ctrl" \in mods)  /\ (b3 = 1 <=> "alt" \in mods)
         /\ (b4 = 1 <=> "mod2" \in mods)  /\ (b5 = 1 <=> "mod3" \in mods)
         /\ (b6 = 1 <=> "super" \in mods) /\ (b7 = 1 <=> "mod5" \in mods)
    <3> DEFINE B(m) == IF m \in mods THEN 1 ELSE 0
    <3>1. mask = B("shift") + 2 * B("caps") + 4 * B("ctrl") + 8 * B("alt")
                    + 16 * B("mod2") + 32 * B("mod3") + 64 * B("super") + 128 * B("mod5")
      BY MaskIsSum
    <3>2. \A m : B(m) \in 0..1 /\ (B(m) = 1 <=> m \in mods)
      OBVIOUS
    <3> HIDE DEF B, mask
    <3>3. QED
      BY <3>1, <3>2
  <2> HIDE DEF mask
  <2>2. (mask \div 1) % 2 = b0 /\ (mask \div 2) % 2 = b1
    BY <2>1
  <2>3. (mask \div 4) % 2 = b2 /\ (mask \div 8) % 2 = b3
    BY <2>1
  <2>4. (mask \div 16) % 2 = b4 /\ (mask \div 32) % 2 = b5
    BY <2>1
  <2>5. (mask \div 64) % 2 = b6 /\ (mask \div 128) % 2 = b7
    BY <2>1
  <2>6. QED
    BY <2>1, <2>2, <2>3, <2>4, <2>5 DEF ModKeys, ModTable
<1>3. ModsOf[mask] \subseteq ModKeys
  BY <1>1 DEF ModsOf, ModTable, ModKeys
<1>4. \A m \in ModKeys : m \in ModsOf[mask] <=> m \in mods
  <2> HIDE DEF mask
  <2>1. QED
    BY <1>1, <1>2, BitOfMask
<1>5. QED
  BY <1>3, <1>4

LEMMA MaskOfMods ==
    ASSUME NEW mask \in Masks
    PROVE  ModsOf[mask] \in SUBSET ModKeys /\ MaskOf(ModsOf[mask]) = mask
<1>1. ModsOf[mask] \in SUBSET ModKeys
  BY DEF ModsOf, ModTable, ModKeys
<1> DEFINE mods == ModsOf[mask]
<1>2. /\ "shift" \in mods <=> (mask \div 1) % 2 = 1
      /\ "caps" \in mods <=> (mask \div 2) % 2 = 1
      /\ "ctrl" \in mods <=> (mask \div 4) % 2 = 1
      /\ "alt" \in mods <=> (mask \div 8) % 2 = 1
      /\ "mod2" \in mods <=> (mask \div 16) % 2 = 1
      /\ "mod3" \in mods <=> (mask \div 32) % 2 = 1
      /\ "super" \in mods <=> (mask \div 64) % 2 = 1
      /\ "mod5" \in mods <=> (mask \div 128) % 2 = 1
  BY BitOfMask DEF ModTable, ModKeys
<1> HIDE DEF mods
<1>3. mask \in 0..255
  BY DEF Masks
<1>4. mask = ((mask \div 1) % 2) + 2 * ((mask \div 2) % 2) + 4 * ((mask \div 4) % 2) + 8 * ((mask \div 8) % 2)
               + 16 * ((mask \div 16) % 2) + 32 * ((mask \div 32) % 2)
               + 64 * ((mask \div 64) % 2) + 128 * ((mask \div 128) % 2)
  BY <1>3
<1>5. MaskOf(mods) = mask
  BY <1>2, <1>3, <1>4, MaskIsSum
<1>6. QED
  BY <1>1, <1>5 DEF mods

-----------------------------------------------------------------------------
(* What the parser makes of a line *)

Words == Seq(STRING)

\* The commands that the compositor takes as the parser made them.
Common ==
         [name: {"quit"}, code: Int]
    \cup [name: {"focus"}, direction: STRING]
    \cup [name: {"exec"}, argv: Seq(Words)]
    \cup [name: {"workspace"}, sub: STRING, n: Int]
    \cup [name: {"move"}, dx: Int, dy: Int]
    \cup [name: {"resize"}, width: Int, height: Int]
    \cup [name: {"gap"}, gap: Int]
    \cup [name: {"focus_color"}, rgba: [1..4 -> Int]]
    \cup [name: Parameterless]

\* Vectors of modifiers, each with the place it had among the words.
ModifierArrays == UNION {[D -> ModKeys] : D \in SUBSET Nat}

ParsedCommands == Common \cup [name: {"mouse_mod"}, modifiers: ModifierArrays]

Keys == STRING \cup {NoKey}

ParsedChords == [modifiers: ModifierArrays, key: Keys]

ParsedLines == [chords: Seq(ParsedChords), command: ParsedCommands]

LEMMA NumberIsInt ==
    ASSUME NEW arg, IsNumber(arg)
    PROVE  Number(arg) \in Int
BY WordsAssumption DEF IsNumber, Number

LEMMA LoweredIsString ==
    ASSUME NEW part \in STRING
    PROVE  Lowered(part) \in STRING
BY WordsAssumption DEF Lowered

LEMMA TailArgs ==
    ASSUME NEW args \in Seq(Words), args # <<>>
    PROVE  /\ Tail(args) \in Seq(Words) /\ args[1] \in Words
           /\ Len(args) \in Nat /\ Len(args) >= 1 /\ DOMAIN args = 1..Len(args)
OBVIOUS

LEMMA MouseModType ==
    ASSUME NEW args \in Seq(Words)
    PROVE  ParseMouseMod(args) \in ParsedCommands \cup {Refused}
<1>1. CASE Len(args) = 1 /\ Range(args[1]) \subseteq ModKeys
  <2> DEFINE mods == args[1]
  <2>1. mods \in Words /\ DOMAIN mods \in SUBSET Nat
    <3>1. args # <<>>
      BY <1>1
    <3>2. mods \in Words
      BY <3>1, TailArgs
    <3>3. QED
      BY <3>2, LenProperties DEF Words
  <2>2. \A i \in DOMAIN mods : mods[i] \in ModKeys
    BY <1>1 DEF Range
  <2>3. mods \in [DOMAIN mods -> ModKeys]
    BY <2>1, <2>2 DEF Words
  <2>4. mods \in ModifierArrays
    BY <2>1, <2>3 DEF ModifierArrays
  <2>5. QED
    BY <1>1, <2>4 DEF ParseMouseMod, ParsedCommands
<1>2. QED
  BY <1>1 DEF ParseMouseMod

LEMMA ConfigType ==
    ASSUME NEW args \in Seq(Words)
    PROVE  ParseConfig(args) \in ParsedCommands \cup {Refused, Aborted}
<1>1. CASE args = <<>>
  BY <1>1 DEF ParseConfig
<1>2. CASE args # <<>>
  <2> DEFINE rest == Tail(args)
  <2>1. rest \in Seq(Words)
    BY <1>2, TailArgs
  <2> HIDE DEF rest
  <2>2. ParseMouseMod(rest) \in ParsedCommands \cup {Refused}
    BY <2>1, MouseModType
  <2>3. ParseGap(rest) \in ParsedCommands \cup {Refused, Aborted}
    BY NumberIsInt DEF ParseGap, ParsedCommands, Common
  <2>4. ParseFocusColor(rest) \in ParsedCommands \cup {Refused, Aborted}
    BY NumberIsInt DEF ParseFocusColor, ParsedCommands, Common
  <2>5. QED
    BY <1>2, <2>2, <2>3, <2>4 DEF ParseConfig, rest
<1>3. QED
  BY <1>1, <1>2

LEMMA CommandType ==
    ASSUME NEW args \in Seq(Words)
    PROVE  ParseCommand(args) \in ParsedCommands \cup {Refused, Aborted}
<1>1. CASE args = <<>>
  BY <1>1 DEF ParseCommand
<1>2. CASE args # <<>>
  <2> DEFINE rest == Tail(args)
  <2>1. rest \in Seq(Words)
    BY <1>2, TailArgs
  <2> HIDE DEF rest
  <2>2. ParseQuit(rest) \in ParsedCommands \cup {Refused}
    BY NumberIsInt DEF ParseQuit, ParsedCommands, Common
  <2>3. ParseFocus(rest) \in ParsedCommands \cup {Refused}
    <3>1. rest # <<>> /\ rest[1] \in {<<"left">>, <<"right">>, <<"up">>, <<"down">>, <<"cycle">>} =>
             rest[1][1] \in STRING
      BY <2>1 DEF Words
    <3>2. QED
      BY <3>1 DEF ParseFocus, ParsedCommands, Common
  <2>4. ParseExec(rest) \in ParsedCommands
    BY <2>1 DEF ParseExec, ParsedCommands, Common
  <2>5. ParseWorkspace(rest) \in ParsedCommands \cup {Refused, Aborted}
    <3>1. Len(rest) >= 2 /\ rest[1] \in {<<"switch">>, <<"move">>} => rest[1][1] \in STRING
      BY <2>1 DEF Words
    <3>2. QED
      BY <2>1, <3>1, NumberIsInt, LenProperties DEF ParseWorkspace, ParsedCommands, Common
  <2>6. ParseMove(rest) \in ParsedCommands \cup {Refused, Aborted}
    <3>1. ASSUME rest # <<>>, \A i \in DOMAIN rest : i <= 2 => IsNumber(rest[i])
          PROVE  Number(rest[1]) \in Int /\ (Len(rest) # 1 => Number(rest[2]) \in Int)
      <4>1. 1 \in DOMAIN rest /\ (Len(rest) # 1 => 2 \in DOMAIN rest)
        <5>1. Len(rest) \in Nat /\ Len(rest) >= 1 /\ DOMAIN rest = 1..Len(rest)
          BY <2>1, <3>1, TailArgs
        <5>2. QED
          BY <5>1
      <4>2. QED
        BY <3>1, <4>1, NumberIsInt
    <3>2. QED
      BY <3>1 DEF ParseMove, ParsedCommands, Common
  <2>7. ParseResize(rest) \in ParsedCommands \cup {Refused, Aborted}
    BY NumberIsInt DEF ParseResize, ParsedCommands, Common
  <2>8. ParseConfig(rest) \in ParsedCommands \cup {Refused, Aborted}
    BY <2>1, ConfigType
  <2>9. ASSUME NEW w \in Parameterless, args[1] = <<w>>
        PROVE  [name |-> args[1][1]] \in ParsedCommands
    BY <2>9 DEF ParsedCommands, Common
  <2>10. QED
    BY <1>2, <2>2, <2>3, <2>4, <2>5, <2>6, <2>7, <2>8, <2>9 DEF ParseCommand, rest
<1>3. QED
  BY <1>1, <1>2

LEMMA ChordType ==
    ASSUME NEW arg \in Words
    PROVE  ParseChord(arg) \in ParsedChords
<1>1. Len(arg) \in Nat /\ DOMAIN arg = 1..Len(arg) /\ \A i \in DOMAIN arg : arg[i] \in STRING
  BY LenProperties, ElementOfSeq DEF Words
<1> DEFINE D == {i \in DOMAIN arg : arg[i] \in ModKeys}
           others == {i \in DOMAIN arg : arg[i] \notin ModKeys}
<1>2. ChordModifiers(arg) \in [D -> ModKeys] /\ D \in SUBSET Nat
  BY <1>1 DEF ChordModifiers, Restrict
<1>3. ChordModifiers(arg) \in ModifierArrays
  BY <1>2 DEF ModifierArrays
<1>4. ChordKey(arg) \in Keys
  <2>1. ChordKey(arg) = IF others = {} THEN NoKey ELSE Lowered(arg[Max(others)])
    BY DEF ChordKey
  <2>2. /\ others \in SUBSET Nat /\ others \in SUBSET DOMAIN arg
        /\ \A x \in others : x <= Len(arg)
    BY <1>1
  <2> HIDE DEF others
  <2>3. ASSUME others # {}
        PROVE  Lowered(arg[Max(others)]) \in STRING
    <3>1. Max(others) \in others
      BY <1>1, <2>2, <2>3, MaxIsGreatest
    <3>2. QED
      BY <1>1, <2>2, <3>1, LoweredIsString
  <2>4. QED
    BY <2>1, <2>3 DEF Keys
<1>5. QED
  BY <1>3, <1>4 DEF ParseChord, ParsedChords

\* The binds of a line are followed by a command, or the line is refused.
LEMMA BindsBefore ==
    ASSUME NEW line \in Seq(Words)
    PROVE  /\ Binds(line) \in Nat
           /\ Len(line) >= 2 * Binds(line) + 1 \/ SubSeq(line, 2 * Binds(line) + 1, Len(line)) = <<>>
           /\ SubSeq(line, 2 * Binds(line) + 1, Len(line)) \in Seq(Words)
<1> DEFINE N == {n \in 0..Len(line) : Len(line) < 2 * n + 1 \/ line[2 * n + 1] # <<"bind">>}
           n == Binds(line)
<1>1. Len(line) \in Nat
  BY LenProperties
<1>2. N \in SUBSET Nat /\ Len(line) \in N
  BY <1>1
<1>3. Binds(line) \in N
  BY <1>2, MinIsLeast DEF Binds
<1>4. n \in Nat
  BY <1>3
<1> HIDE DEF n
<1>5. Len(line) >= 2 * n + 1 \/ SubSeq(line, 2 * n + 1, Len(line)) = <<>>
  BY <1>1, <1>4
<1>6. SubSeq(line, 2 * n + 1, Len(line)) \in Seq(Words)
  BY <1>1, <1>4
<1>7. QED
  BY <1>4, <1>5, <1>6 DEF n

LEMMA LineType ==
    ASSUME NEW line \in Seq(Words)
    PROVE  ParseArguments(line) \in ParsedLines \cup {Refused, Aborted}
<1> DEFINE n == Binds(line)
           command == ParseCommand(SubSeq(line, 2 * n + 1, Len(line)))
           chords == [i \in 1..n |-> ParseChord(line[2 * i])]
<1>1. command \in ParsedCommands \cup {Refused, Aborted}
  BY BindsBefore, CommandType
<1>2. CASE command \in {Refused, Aborted}
  BY <1>2 DEF ParseArguments
<1>3. CASE command \notin {Refused, Aborted}
  <2>1. Len(line) >= 2 * n + 1
    BY <1>3, BindsBefore DEF ParseCommand
  <2>2. n \in Nat /\ Len(line) \in Nat /\ DOMAIN line = 1..Len(line)
    BY BindsBefore, LenProperties
  <2> HIDE DEF n
  <2>3. ASSUME NEW i \in 1..n
        PROVE  ParseChord(line[2 * i]) \in ParsedChords
    <3>1. 2 * i \in 1..Len(line)
      BY <2>1, <2>2
    <3>2. QED
      BY <3>1, ChordType, ElementOfSeq
  <2>4. chords \in Seq(ParsedChords)
    BY <2>2, <2>3
  <2>5. ParseArguments(line) = [chords |-> chords, command |-> command]
    BY <1>3 DEF ParseArguments, n
  <2> HIDE DEF chords, command
  <2>6. QED
    BY <1>1, <1>3, <2>4, <2>5 DEF ParsedLines
<1>4. QED
  BY <1>2, <1>3

-----------------------------------------------------------------------------
(* What the compositor makes of a parsed line *)

DispatchedChords == [mask: Masks, sym: Keysyms]

DispatchedCommands ==
    Common \cup [name: {"mouse_mod"}, mask: Masks] \cup [name: {"invalid_keysym"}, key: Keys]

Dispatched == [chords: Seq(DispatchedChords), command: DispatchedCommands]

\* Every modifier that cutter accepts is in the table of the compositor.
LEMMA TableIsComplete ==
    ASSUME NEW modifiers \in ModifierArrays
    PROVE  TableHas(modifiers) /\ Range(modifiers) \subseteq ModKeys
<1>1. PICK D \in SUBSET Nat : modifiers \in [D -> ModKeys]
  BY DEF ModifierArrays
<1>2. Range(modifiers) \subseteq ModKeys
  BY <1>1 DEF Range
<1>3. DOMAIN ModTable = ModKeys
  BY DEF ModTable, ModKeys
<1>4. QED
  BY <1>2, <1>3 DEF TableHas

LEMMA ConfigDispatched ==
    ASSUME NEW c \in ParsedCommands
    PROVE  DispatchConfig(c) \in DispatchedCommands /\ DispatchConfig(c) # Thrown
<1>1. CASE c \in [name: {"mouse_mod"}, modifiers: ModifierArrays]
  <2>1. DispatchConfig(c) = [name |-> "mouse_mod", mask |-> ModifierArrayToMask(c.modifiers)]
    BY <1>1, TableIsComplete DEF DispatchConfig
  <2>2. ModifierArrayToMask(c.modifiers) \in Masks
    BY MaskInRange DEF ModifierArrayToMask
  <2>3. QED
    BY <2>1, <2>2 DEF DispatchedCommands, Thrown
<1>2. CASE c \in Common
  <2>1. c.name # "mouse_mod" /\ c.name # "thrown"
    BY <1>2 DEF Common, Parameterless
  <2>2. DispatchConfig(c) = c
    BY <2>1 DEF DispatchConfig
  <2>3. c # Thrown
    BY <2>1 DEF Thrown
  <2>4. QED
    BY <1>2, <2>2, <2>3 DEF DispatchedCommands
<1>3. QED
  BY <1>1, <1>2 DEF ParsedCommands

LEMMA ChordDispatched ==
    ASSUME NEW chord \in ParsedChords
    PROVE  /\ TableHas(chord.modifiers) /\ DispatchChord(chord).mask \in Masks
           /\ chord.key \in Keysyms => DispatchChord(chord) \in DispatchedChords
BY TableIsComplete, MaskInRange
   DEF ParsedChords, DispatchChord, ModifierArrayToMask, DispatchedChords

\* Nothing that cutter accepts makes the compositor throw.
LEMMA LineDispatched ==
    ASSUME NEW c \in ParsedLines
    PROVE  DispatchCommand(c) \in Dispatched /\ DispatchCommand(c) # Thrown
<1> DEFINE Accepted(i) == TableHas(c.chords[i].modifiers) /\ c.chords[i].key \in Keysyms
           unsound == {i \in DOMAIN c.chords : ~Accepted(i)}
           first == Min(unsound)
           command == DispatchConfig(c.command)
<1>1. /\ c.chords \in Seq(ParsedChords) /\ c.command \in ParsedCommands
      /\ Len(c.chords) \in Nat /\ DOMAIN c.chords = 1..Len(c.chords)
      /\ \A i \in DOMAIN c.chords : c.chords[i] \in ParsedChords
  BY LenProperties, ElementOfSeq DEF ParsedLines
<1>2. command \in DispatchedCommands /\ command # Thrown
  BY <1>1, ConfigDispatched
<1>3. \A i \in DOMAIN c.chords : TableHas(c.chords[i].modifiers)
  BY <1>1, ChordDispatched
<1>4. \A x \in Dispatched : x # Thrown
  BY DEF Dispatched, Thrown
<1>5. CASE unsound = {}
  <2> DEFINE r == [chords |-> [i \in DOMAIN c.chords |-> DispatchChord(c.chords[i])],
                   command |-> command]
  <2>1. DispatchCommand(c) = r
    BY <1>2, <1>5 DEF DispatchCommand
  <2>2. \A i \in DOMAIN c.chords : DispatchChord(c.chords[i]) \in DispatchedChords
    BY <1>1, <1>5, ChordDispatched
  <2>3. r.chords \in Seq(DispatchedChords)
    BY <1>1, <2>2
  <2>4. QED
    BY <1>2, <1>4, <2>1, <2>3 DEF Dispatched
<1>6. CASE unsound # {}
  <2> DEFINE r == [chords |-> [i \in 1..(first - 1) |-> DispatchChord(c.chords[i])],
                   command |-> [name |-> "invalid_keysym", key |-> c.chords[first].key]]
  <2>1. first \in unsound /\ first \in DOMAIN c.chords /\ \A i \in unsound : first <= i
    <3>1. unsound \in SUBSET Nat
      BY <1>1
    <3>2. first \in unsound /\ \A i \in unsound : first <= i
      <4> HIDE DEF unsound
      <4>1. QED
        BY <1>6, <3>1, MinIsLeast
    <3>3. QED
      BY <3>2
  <2>2. DispatchCommand(c) = r
    BY <1>3, <1>6, <2>1 DEF DispatchCommand
  <2>3. first \in 1..Len(c.chords) /\ first - 1 \in Nat
    BY <1>1, <2>1
  <2>4. ASSUME NEW i \in 1..(first - 1)
        PROVE  DispatchChord(c.chords[i]) \in DispatchedChords
    <3>1. i \in DOMAIN c.chords /\ ~(first <= i)
      BY <1>1, <2>3
    <3>2. Accepted(i)
      BY <2>1, <3>1
    <3>3. QED
      BY <1>1, <3>1, <3>2, ChordDispatched
  <2> HIDE DEF first
  <2>5. r.chords \in Seq(DispatchedChords)
    BY <2>3, <2>4
  <2>6. c.chords[first].key \in Keys
    BY <1>1, <2>1 DEF ParsedChords
  <2>7. r.command \in DispatchedCommands
    BY <2>6 DEF DispatchedCommands
  <2>8. r \in Dispatched
    BY <2>5, <2>7 DEF Dispatched
  <2> HIDE DEF r
  <2>9. QED
    BY <1>4, <2>2, <2>8
<1>7. QED
  BY <1>5, <1>6

-----------------------------------------------------------------------------
(* What executing a command makes of the state *)

Maps == UNION {[D -> Dispatched] : D \in SUBSET (Rows \X Keysyms)}

Configs == [mouse_mod: Masks, gap: Int, focus_color: [1..4 -> Int]]

States == [map: Maps, config: Configs, running: BOOLEAN, ran: Seq(Dispatched)]

LEMMA MapsAre ==
    ASSUME NEW m
    PROVE  m \in Maps <=> DOMAIN m \in SUBSET (Rows \X Keysyms) /\ m \in [DOMAIN m -> Dispatched]
BY DEF Maps

LEMMA InsertType ==
    ASSUME NEW m \in Maps, NEW key \in Rows \X Keysyms, NEW value \in Dispatched
    PROVE  Insert(m, key, value) \in Maps
<1>1. DOMAIN m \in SUBSET (Rows \X Keysyms) /\ m \in [DOMAIN m -> Dispatched]
  BY MapsAre
<1>2. CASE key \in DOMAIN m
  BY <1>2 DEF Insert
<1>3. CASE key \notin DOMAIN m
  <2> DEFINE r == [k \in DOMAIN m \cup {key} |-> IF k = key THEN value ELSE m[k]]
  <2>1. DOMAIN r \in SUBSET (Rows \X Keysyms) /\ r \in [DOMAIN r -> Dispatched]
    BY <1>1
  <2>2. Insert(m, key, value) = r
    BY <1>3 DEF Insert
  <2> HIDE DEF r
  <2>3. QED
    BY <2>1, <2>2, MapsAre
<1>4. QED
  BY <1>2, <1>3

\* What a command binds is the command less its first chord.
LEMMA WithoutFirst ==
    ASSUME NEW c \in Dispatched
    PROVE  [c EXCEPT !.chords = Tail(@)] = [chords |-> Tail(c.chords), command |-> c.command]
<1>1. \A rest : [c EXCEPT !.chords = rest] = [chords |-> rest, command |-> c.command]
  BY DEF Dispatched
<1>2. QED
  BY <1>1

\* A bind has a mask and a keysym to bind, and its command less that chord.
LEMMA BoundType ==
    ASSUME NEW c \in Dispatched, c.chords # <<>>
    PROVE  /\ BoundChord(c) \in Masks \X Keysyms
           /\ BoundCommand(c) \in Dispatched
<1>1. c.chords \in Seq(DispatchedChords) /\ c.command \in DispatchedCommands
  BY DEF Dispatched
<1>2. Head(c.chords) \in DispatchedChords /\ Tail(c.chords) \in Seq(DispatchedChords)
  BY <1>1
<1>3. BoundCommand(c) = [chords |-> Tail(c.chords), command |-> c.command]
  BY WithoutFirst DEF BoundCommand
<1>4. QED
  BY <1>1, <1>2, <1>3 DEF Dispatched, DispatchedChords, BoundChord

LEMMA ConfigureType ==
    ASSUME NEW s \in States, NEW c \in DispatchedCommands,
           c.name \in {"mouse_mod", "gap", "focus_color"}
    PROVE  Configure(s, c) \in States
<1>1. CASE c.name = "mouse_mod"
  <2>1. c.mask \in Masks
    BY <1>1 DEF DispatchedCommands, Common, Parameterless
  <2>2. Configure(s, c) = [s EXCEPT !.config.mouse_mod = c.mask]
    BY <1>1 DEF Configure
  <2>3. QED
    BY <2>1, <2>2 DEF States, Configs
<1>2. CASE c.name = "gap"
  <2>1. c.gap \in Int
    BY <1>2 DEF DispatchedCommands, Common, Parameterless
  <2>2. Configure(s, c) = [s EXCEPT !.config.gap = c.gap]
    BY <1>2 DEF Configure
  <2>3. QED
    BY <2>1, <2>2 DEF States, Configs
<1>3. CASE c.name = "focus_color"
  <2>1. c.rgba \in [1..4 -> Int]
    BY <1>3 DEF DispatchedCommands, Common, Parameterless
  <2>2. Configure(s, c) = [s EXCEPT !.config.focus_color = c.rgba]
    BY <1>3 DEF Configure
  <2>3. QED
    BY <2>1, <2>2 DEF States, Configs
<1>4. QED
  BY <1>1, <1>2, <1>3

LEMMA ExecuteType ==
    ASSUME NEW s \in States, NEW c \in Dispatched
    PROVE  Execute(s, c) \in States
<1> DEFINE done == [s EXCEPT !.ran = Append(@, c)]
<1>1. done \in States
  BY DEF States
<1>2. CASE c.chords # <<>> /\ BoundChord(c)[1] \in Rows
  <2> DEFINE chord == BoundChord(c)
             value == BoundCommand(c)
  <2>1. chord \in Rows \X Keysyms /\ value \in Dispatched
    BY <1>2, BoundType
  <2>2. Execute(s, c) = [done EXCEPT !.map = Insert(@, chord, value)]
    BY <1>2 DEF Execute, Bind
  <2> HIDE DEF done, chord, value
  <2>3. Insert(done.map, chord, value) \in Maps
    BY <1>1, <2>1, InsertType DEF States
  <2>4. QED
    BY <1>1, <2>2, <2>3 DEF States
<1>3. CASE c.chords # <<>> /\ BoundChord(c)[1] \notin Rows
  <2>1. Execute(s, c) = done
    BY <1>3 DEF Execute, Bind
  <2>2. QED
    BY <1>1, <2>1
<1>4. CASE c.chords = <<>> /\ c.command.name \in {"mouse_mod", "gap", "focus_color"}
  <2>1. Execute(s, c) = Configure(done, c.command)
    BY <1>4 DEF Execute
  <2>2. c.command \in DispatchedCommands
    BY DEF Dispatched
  <2> HIDE DEF done
  <2>3. QED
    BY <1>1, <1>4, <2>1, <2>2, ConfigureType
<1>5. CASE c.chords = <<>> /\ c.command.name = "quit"
  <2>1. Execute(s, c) = [done EXCEPT !.running = FALSE]
    BY <1>5 DEF Execute, Quit
  <2> HIDE DEF done
  <2>2. QED
    BY <1>1, <2>1 DEF States
<1>6. CASE c.chords = <<>> /\ c.command.name \notin {"mouse_mod", "gap", "focus_color", "quit"}
  <2>1. Execute(s, c) = done
    BY <1>6 DEF Execute
  <2>2. QED
    BY <1>1, <2>1
<1>7. QED
  BY <1>2, <1>4, <1>5, <1>6, <1>3

-----------------------------------------------------------------------------
(* What one key press runs *)

\* One keysym of a key: its command runs, if it has one.
Try(mask, s, sym) ==
    IF <<mask, sym>> \in DOMAIN s.map THEN Execute(s, s.map[<<mask, sym>>]) ELSE s

LEMMA TryType ==
    ASSUME NEW mask, NEW s \in States, NEW sym
    PROVE  Try(mask, s, sym) \in States
<1>1. CASE <<mask, sym>> \in DOMAIN s.map
  <2>1. s.map \in [DOMAIN s.map -> Dispatched]
    BY MapsAre DEF States
  <2>2. s.map[<<mask, sym>>] \in Dispatched
    BY <1>1, <2>1
  <2>3. QED
    BY <1>1, <2>2, ExecuteType DEF Try
<1>2. CASE <<mask, sym>> \notin DOMAIN s.map
  BY <1>2 DEF Try
<1>3. QED
  BY <1>1, <1>2

\* The states between the keysyms of one press.
Runs(h, k, syms) ==
    /\ h \in [0..Len(syms) -> States]
    /\ h[0] = State
    /\ \A i \in 1..Len(syms) : h[i] = Try(MaskOf(held[k]), h[i - 1], Lowered(syms[i]))
    /\ RunBindings(k, syms) = h[Len(syms)]

LEMMA BindingsRun ==
    ASSUME NEW k, NEW syms \in Seq(STRING), State \in States
    PROVE  \E h : Runs(h, k, syms)
<1> DEFINE n == Len(syms)
           mask == MaskOf(held[k])
           Step == [i \in 1..n |-> [s \in States |-> Try(mask, s, Lowered(syms[i]))]]
           After(q) == q = [i \in 0..n |->
                               IF i = 0 THEN State ELSE Try(mask, q[i - 1], Lowered(syms[i]))]
           after == CHOOSE q : After(q)
<1>1. n \in Nat
  BY LenProperties
<1>2. RunBindings(k, syms) = after[n]
  BY DEF RunBindings, Try
<1>3. \A i \in 1..n, s \in States : Try(mask, s, Lowered(syms[i])) \in States
  BY TryType
<1>4. Step \in [1..n -> [States -> States]]
  BY <1>3
<1>5. \A i \in 1..n, s \in States : Step[i][s] = Try(mask, s, Lowered(syms[i]))
  OBVIOUS
<1> HIDE DEF Step, n, mask
<1>6. PICK h : Unfolds(h, n, States, State, Step)
  BY <1>1, <1>4, RecursionExists
<1>7. After(h)
  <2>1. ASSUME NEW i \in 0..n
        PROVE  h[i] = IF i = 0 THEN State ELSE Try(mask, h[i - 1], Lowered(syms[i]))
    <3>1. CASE i = 0
      BY <1>6, <3>1 DEF Unfolds
    <3>2. CASE i # 0
      <4>1. i \in 1..n /\ i - 1 \in 0..n
        BY <1>1, <3>2
      <4>2. h[i] = Step[i][h[i - 1]] /\ h[i - 1] \in States
        BY <1>6, <4>1 DEF Unfolds
      <4>3. QED
        BY <1>5, <3>2, <4>1, <4>2
    <3>3. QED
      BY <3>1, <3>2
  <2>2. QED
    BY <1>6, <2>1 DEF Unfolds
<1>8. After(after)
  BY <1>7, Zenon
<1> HIDE DEF after
<1>9. \A i \in 0..n : after[i] = IF i = 0 THEN State ELSE Try(mask, after[i - 1], Lowered(syms[i]))
  BY <1>8
<1>10. 0 \in 0..n /\ n \in 0..n
  BY <1>1
<1>11. after[0] = State /\ after[0] \in States
  BY <1>9, <1>10
<1>12. ASSUME NEW i \in 1..n
       PROVE  after[i] = Try(mask, after[i - 1], Lowered(syms[i]))
  <2>1. i \in 0..n /\ i # 0
    BY <1>1
  <2>2. QED
    BY <1>9, <2>1
<1>13. \A i \in 1..n : after[i - 1] \in States => after[i] \in States
  BY <1>12, TryType
<1>14. \A i \in 0..n : after[i] \in States
  BY <1>1, <1>11, <1>13, UpTo
<1>15. after = [i \in 0..n |-> after[i]]
  BY <1>8
<1>16. after \in [0..n -> States]
  BY <1>14, <1>15
<1>17. QED
  BY <1>2, <1>11, <1>12, <1>16 DEF Runs, n, mask

-----------------------------------------------------------------------------
(* The inductive invariant *)

\* Everything in the map is a command that the compositor has dispatched, so
\* that what a key runs is one again, whatever its binding had bound before.
IInv ==
    /\ map \in Maps /\ config \in Configs /\ running \in BOOLEAN /\ ran \in Seq(Dispatched)
    /\ crashed = FALSE /\ overrun \in BOOLEAN
    /\ keyboards \in SUBSET Keyboards
    /\ held \in [Keyboards -> HeldModifiers]
    /\ seatKeyboard \in keyboards \cup {None}
    /\ exclusive \in BOOLEAN

Sound ==
    /\ map \in Maps /\ config \in Configs /\ running \in BOOLEAN /\ ran \in Seq(Dispatched)
    /\ overrun \in BOOLEAN

LEMMA SoundState ==
    ASSUME Sound
    PROVE  State \in States
<1>1. <<>> \in Seq(Dispatched)
  OBVIOUS
<1>2. QED
  BY <1>1 DEF Sound, State, States

LEMMA SoundBecomes ==
    ASSUME NEW s \in States, Becomes(s), overrun' \in BOOLEAN
    PROVE  Sound'
BY DEF Sound, Becomes, States

LEMMA SoundSettles ==
    ASSUME Sound, NEW s \in States, NEW lookups, Settles(s, lookups)
    PROVE  Sound'
<1>1. State \in States
  BY SoundState
<1>2. overrun' \in BOOLEAN /\ Becomes(IF overrun' THEN State ELSE s)
  BY DEF Settles
<1>3. CASE overrun'
  BY <1>1, <1>2, <1>3, SoundBecomes
<1>4. CASE ~overrun'
  BY <1>2, <1>4, SoundBecomes
<1>5. QED
  BY <1>3, <1>4

LEMMA SoundCutter ==
    ASSUME Sound, crashed = FALSE, NEW line \in Lines, Cutter(line)
    PROVE  Sound' /\ crashed' = FALSE
<1> DEFINE parsed == ParseArguments(line)
           c == DispatchCommand(parsed)
<1>1. parsed \in ParsedLines \cup {Refused, Aborted}
  BY InputAssumption, LineType DEF Words
<1>2. State \in States
  BY SoundState
<1>3. CASE parsed \in {Refused, Aborted}
  <2>1. Becomes(State) /\ crashed' = crashed /\ overrun' = overrun
    BY <1>3 DEF Cutter
  <2>2. QED
    BY <1>2, <2>1, SoundBecomes DEF Sound
<1>4. CASE parsed \notin {Refused, Aborted}
  <2>1. c \in Dispatched /\ c # Thrown
    BY <1>1, <1>4, LineDispatched
  <2>2. Settles(Execute(State, c), {}) /\ crashed' = crashed
    BY <1>4, <2>1 DEF Cutter
  <2>3. Execute(State, c) \in States
    BY <1>2, <2>1, ExecuteType
  <2>4. QED
    BY <2>2, <2>3, SoundSettles
<1>5. QED
  BY <1>3, <1>4

LEMMA SoundPress ==
    ASSUME Sound, crashed = FALSE, NEW k \in Keyboards, NEW syms \in Presses, PressKey(k, syms)
    PROVE  Sound' /\ crashed' = FALSE
<1> DEFINE after == IF BindingsWork THEN RunBindings(k, syms) ELSE State
           lookups == IF BindingsWork /\ syms # <<>> THEN {MaskOf(held[k])} ELSE {}
<1>1. State \in States
  BY SoundState
<1>2. syms \in Seq(STRING)
  BY InputAssumption
<1>3. RunBindings(k, syms) \in States
  <2>1. PICK h : Runs(h, k, syms)
    BY <1>1, <1>2, BindingsRun
  <2>2. Len(syms) \in 0..Len(syms)
    BY <1>2, LenProperties
  <2>3. QED
    BY <2>1, <2>2 DEF Runs
<1>4. after \in States
  BY <1>1, <1>3
<1>5. Settles(after, lookups) /\ crashed' = crashed
  BY DEF PressKey
<1> HIDE DEF after, lookups
<1>6. QED
  BY <1>4, <1>5, SoundSettles

LEMMA InitInvariant ==
    ASSUME Init
    PROVE  IInv
<1>1. map \in Maps
  <2>1. <<>> \in [{} -> Dispatched]
    OBVIOUS
  <2>2. map = <<>>
    BY DEF Init
  <2>3. map \in [{} -> Dispatched]
    BY <2>1, <2>2
  <2>4. {} \in SUBSET (Rows \X Keysyms)
    OBVIOUS
  <2>5. QED
    BY <2>3, <2>4 DEF Maps
<1>2. config \in Configs
  <2>1. ModTable["super"] \in Masks
    BY DEF ModTable, Masks
  <2>2. <<0, 0, 178, 127>> \in [1..4 -> Int]
    OBVIOUS
  <2>3. config = [mouse_mod |-> ModTable["super"], gap |-> 10, focus_color |-> <<0, 0, 178, 127>>]
    BY DEF Init
  <2>4. QED
    BY <2>1, <2>2, <2>3 DEF Configs
<1>3. ran \in Seq(Dispatched)
  <2>1. <<>> \in Seq(Dispatched)
    OBVIOUS
  <2>2. ran = <<>>
    BY DEF Init
  <2>3. QED
    BY <2>1, <2>2
<1>4. QED
  BY <1>1, <1>2, <1>3, InputAssumption DEF Init, IInv

\* What the steps of Next do to the keyboards, whatever else they do.
LEMMA NextInvariant ==
    ASSUME IInv, [Next]_vars
    PROVE  IInv'
<1> DEFINE Plugged == /\ keyboards \in SUBSET Keyboards
                      /\ held \in [Keyboards -> HeldModifiers]
                      /\ seatKeyboard \in keyboards \cup {None}
                      /\ exclusive \in BOOLEAN
<1>1. Sound /\ crashed = FALSE /\ Plugged
  BY DEF IInv, Sound
<1>2. State \in States
  BY <1>1, SoundState
<1>3. SUFFICES (Sound /\ crashed = FALSE /\ Plugged)'
  BY DEF IInv, Sound
<1>4. ASSUME NEW line \in Lines, Cutter(line)
      PROVE  (Sound /\ crashed = FALSE /\ Plugged)'
  <2>1. Sound' /\ crashed' = FALSE
    BY <1>1, <1>4, SoundCutter
  <2>2. Plugged'
    BY <1>1, <1>4 DEF Cutter, kbdVars
  <2>3. QED
    BY <2>1, <2>2
<1>5. ASSUME NEW k \in Keyboards, NEW syms \in Presses, PressKey(k, syms)
      PROVE  (Sound /\ crashed = FALSE /\ Plugged)'
  <2>1. Sound' /\ crashed' = FALSE
    BY <1>1, <1>5, SoundPress
  <2>2. Plugged'
    BY <1>1, <1>5 DEF PressKey
  <2>3. QED
    BY <2>1, <2>2
<1>6. ASSUME Becomes(State), crashed' = crashed, overrun' = overrun, Plugged'
      PROVE  (Sound /\ crashed = FALSE /\ Plugged)'
  BY <1>1, <1>2, <1>6, SoundBecomes DEF Sound
<1>7. ASSUME NEW k \in Keyboards, ReleaseKey(k)
      PROVE  (Sound /\ crashed = FALSE /\ Plugged)'
  BY <1>1, <1>6, <1>7 DEF ReleaseKey
<1>8. ASSUME NEW k \in Keyboards, NEW mods \in HeldModifiers, ChangeModifiers(k, mods)
      PROVE  (Sound /\ crashed = FALSE /\ Plugged)'
  BY <1>1, <1>6, <1>8 DEF ChangeModifiers
<1>9. ASSUME NEW k \in Keyboards, AddKeyboard(k)
      PROVE  (Sound /\ crashed = FALSE /\ Plugged)'
  BY <1>1, <1>6, <1>9 DEF AddKeyboard
<1>10. ASSUME NEW k \in Keyboards, RemoveKeyboard(k)
       PROVE  (Sound /\ crashed = FALSE /\ Plugged)'
  BY <1>1, <1>6, <1>10, InputAssumption DEF RemoveKeyboard
<1>11. ASSUME Inhibit
       PROVE  (Sound /\ crashed = FALSE /\ Plugged)'
  BY <1>1, <1>6, <1>11 DEF Inhibit
<1>12. ASSUME UNCHANGED vars
       PROVE  (Sound /\ crashed = FALSE /\ Plugged)'
  BY <1>1, <1>12 DEF vars, Sound
<1>13. QED
  BY <1>4, <1>5, <1>7, <1>8, <1>9, <1>10, <1>11, <1>12 DEF Next, Stopped

THEOREM Invariant == Spec => []IInv
<1>1. Init => IInv
  BY InitInvariant
<1>2. IInv /\ [Next]_vars => IInv'
  BY NextInvariant
<1>3. QED
  BY <1>1, <1>2, PTL DEF Spec

\* Whatever users type and press, chords of all modifiers included, a binding is
\* only ever added in a row that the array has and under a keysym that exists.
THEOREM TypeCorrect == Spec => []TypeOK
<1>1. IInv => TypeOK
  <2>1. ASSUME IInv
        PROVE  \A chord \in DOMAIN map : chord[1] \in Rows /\ chord[2] \in Keysyms
    <3>1. DOMAIN map \in SUBSET (Rows \X Keysyms)
      BY <2>1, MapsAre DEF IInv
    <3>2. QED
      BY <3>1
  <2>2. QED
    BY <2>1 DEF IInv, TypeOK, Configs
<1>2. QED
  BY <1>1, Invariant, PTL

\* No line that cutter accepts makes modifier_array_to_mask throw, so that no
\* exception leaves the compositor: not by a bind in a bind, nor later on when
\* a key runs what was bound.
THEOREM NothingThrown == Spec => []NeverThrows
<1>1. IInv => NeverThrows
  BY DEF IInv, NeverThrows
<1>2. QED
  BY <1>1, Invariant, PTL

\* A key runs no command while a client has the seat to itself, and still
\* switches the virtual terminal.
THEOREM LockKept == Spec => LockHolds
<1>1. ASSUME NEW k \in Keyboards, NEW syms \in Presses, exclusive, PressKey(k, syms)
      PROVE  /\ ran' = <<>> /\ map' = map /\ config' = config
             /\ out' = "vt" <=> Range(syms) \cap VTKeys # {}
  <2>1. ~BindingsWork
    BY <1>1 DEF BindingsWork
  <2>2. State.ran = <<>>
    BY DEF State
  <2>3. ~overrun' /\ Becomes(State)
    <3>1. Settles(State, {})
      BY <1>1, <2>1 DEF PressKey
    <3>2. BoundRows(State) = {}
      <4>1. DOMAIN State.ran = {}
        BY <2>2
      <4>2. QED
        BY <4>1 DEF BoundRows
    <3>3. QED
      BY <3>1, <3>2 DEF Settles
  <2>4. ran' = <<>> /\ map' = map /\ config' = config
    BY <2>3 DEF Becomes, State
  <2>5. out' = CASE overrun' -> ""
                 [] ~overrun' /\ ran' # <<>> -> "command"
                 [] ~overrun' /\ ran' = <<>> /\ Range(syms) \cap VTKeys # {} -> "vt"
                 [] OTHER -> "client"
    BY <1>1 DEF PressKey
  <2>6. out' = "vt" <=> Range(syms) \cap VTKeys # {}
    BY <2>3, <2>4, <2>5
  <2>7. QED
    BY <2>4, <2>6
<1>2. [Next]_vars => [\A k \in Keyboards, syms \in Presses :
                          exclusive /\ PressKey(k, syms) =>
                              /\ ran' = <<>> /\ map' = map /\ config' = config
                              /\ out' = "vt" <=> Range(syms) \cap VTKeys # {}]_vars
  BY <1>1
<1>3. QED
  BY <1>2, PTL DEF Spec, LockHolds

-----------------------------------------------------------------------------
(* The map in the terms of Chords *)

LEMMA RowsAreMasks == Rows \subseteq Masks
BY DEF Rows, Masks

\* No two keys of the map stand for the same chord.
LEMMA ChordOfInjective ==
    ASSUME NEW m1 \in Masks, NEW m2 \in Masks, NEW s1, NEW s2
    PROVE  ChordOf(m1, s1) = ChordOf(m2, s2) <=> m1 = m2 /\ s1 = s2
<1>1. ASSUME ChordOf(m1, s1) = ChordOf(m2, s2)
      PROVE  m1 = m2 /\ s1 = s2
  <2>1. ChordOf(m1, s1).mods = ModsOf[m1] /\ ChordOf(m2, s2).mods = ModsOf[m2]
    BY DEF ChordOf
  <2>2. ChordOf(m1, s1).key = s1 /\ ChordOf(m2, s2).key = s2
    BY DEF ChordOf
  <2>3. MaskOf(ModsOf[m1]) = m1 /\ MaskOf(ModsOf[m2]) = m2
    BY MaskOfMods
  <2>4. QED
    BY <1>1, <2>1, <2>2, <2>3
<1>2. QED
  BY <1>1

MeaningOf(m) ==
    [chord \in {ChordOf(key[1], key[2]) : key \in DOMAIN m} |->
        Meaning(m[CHOOSE key \in DOMAIN m : ChordOf(key[1], key[2]) = chord])]

LEMMA MeaningOfMap ==
    ASSUME NEW m \in Maps, NEW mask \in Masks, NEW sym
    PROVE  /\ ChordOf(mask, sym) \in DOMAIN MeaningOf(m) <=> <<mask, sym>> \in DOMAIN m
           /\ <<mask, sym>> \in DOMAIN m =>
                  MeaningOf(m)[ChordOf(mask, sym)] = Meaning(m[<<mask, sym>>])
<1> DEFINE chord == ChordOf(mask, sym)
           D == DOMAIN m
<1>1. \A key \in D : key = <<key[1], key[2]>> /\ key[1] \in Masks
  BY MapsAre, RowsAreMasks
<1>2. \A key \in D : ChordOf(key[1], key[2]) = chord <=> key = <<mask, sym>>
  <2>1. ASSUME NEW key \in D
        PROVE  ChordOf(key[1], key[2]) = chord <=> key = <<mask, sym>>
    <3>1. ChordOf(key[1], key[2]) = chord <=> key[1] = mask /\ key[2] = sym
      BY <1>1, ChordOfInjective
    <3>2. QED
      BY <1>1, <3>1
  <2>2. QED
    BY <2>1
<1>3. DOMAIN MeaningOf(m) = {ChordOf(key[1], key[2]) : key \in D}
  BY DEF MeaningOf
<1> HIDE DEF chord
<1>4. chord \in DOMAIN MeaningOf(m) <=> <<mask, sym>> \in D
  BY <1>2, <1>3
<1>5. ASSUME <<mask, sym>> \in D
      PROVE  MeaningOf(m)[chord] = Meaning(m[<<mask, sym>>])
  <2>1. (CHOOSE key \in D : ChordOf(key[1], key[2]) = chord) = <<mask, sym>>
    BY <1>2, <1>5
  <2>2. MeaningOf(m)[chord] = Meaning(m[CHOOSE key \in D : ChordOf(key[1], key[2]) = chord])
    BY <1>4, <1>5, <1>3 DEF MeaningOf
  <2>3. QED
    BY <2>1, <2>2
<1>6. QED
  BY <1>4, <1>5 DEF chord

LEMMA ChordsOfMap ==
    ASSUME NEW m \in Maps, NEW chord \in DOMAIN MeaningOf(m)
    PROVE  \E mask \in Masks, sym \in Keysyms : chord = ChordOf(mask, sym)
<1>1. DOMAIN m \in SUBSET (Rows \X Keysyms)
  BY MapsAre
<1>2. PICK key \in DOMAIN m : chord = ChordOf(key[1], key[2])
  BY DEF MeaningOf
<1>3. key = <<key[1], key[2]>> /\ key[1] \in Masks /\ key[2] \in Keysyms
  BY <1>1, RowsAreMasks
<1>4. QED
  BY <1>2, <1>3

\* Meanings of commands: a bind binds the chord of its mask and keysym.
LEMMA MeaningOfBind ==
    ASSUME NEW c \in Dispatched
    PROVE  /\ Meaning(c).chords # <<>> <=> c.chords # <<>>
           /\ c.chords # <<>> =>
                 /\ Head(Meaning(c).chords) = ChordOf(BoundChord(c)[1], BoundChord(c)[2])
                 /\ Meaning(BoundCommand(c)) = [Meaning(c) EXCEPT !.chords = Tail(@)]
<1> DEFINE s == c.chords
           Means(q) == [i \in DOMAIN q |-> ChordOf(q[i].mask, q[i].sym)]
           command == IF c.command.name = "mouse_mod"
                      THEN [name |-> "mouse_mod", mods |-> ModsOf[c.command.mask]]
                      ELSE c.command
           C == {ChordOf(x.mask, x.sym) : x \in DispatchedChords}
<1>1. s \in Seq(DispatchedChords)
  BY DEF Dispatched
<1>2. Meaning(c) = [chords |-> Means(s), command |-> command]
  BY DEF Meaning
<1> HIDE DEF s, command
<1>3. \A q \in Seq(DispatchedChords) : Means(q) \in Seq(C) /\ Len(Means(q)) = Len(q)
  <2>1. ASSUME NEW q \in Seq(DispatchedChords)
        PROVE  Means(q) \in Seq(C) /\ Len(Means(q)) = Len(q)
    <3>1. Len(q) \in Nat /\ DOMAIN q = 1..Len(q) /\ \A i \in 1..Len(q) : q[i] \in DispatchedChords
      BY LenProperties, ElementOfSeq
    <3>2. Means(q) = [i \in 1..Len(q) |-> ChordOf(q[i].mask, q[i].sym)]
      BY <3>1
    <3>3. \A i \in 1..Len(q) : ChordOf(q[i].mask, q[i].sym) \in C
      BY <3>1
    <3> HIDE DEF C
    <3>4. QED
      BY <3>1, <3>2, <3>3
  <2>2. QED
    BY <2>1
<1>4. Means(s) # <<>> <=> s # <<>>
  <2>1. Means(s) \in Seq(C) /\ Len(Means(s)) = Len(s)
    BY <1>1, <1>3
  <2> HIDE DEF Means, C
  <2>2. QED
    BY <1>1, <2>1
<1>5. ASSUME s # <<>>
      PROVE  Head(Means(s)) = ChordOf(Head(s).mask, Head(s).sym) /\ Means(Tail(s)) = Tail(Means(s))
  <2>1. Len(s) \in Nat /\ Len(s) >= 1 /\ DOMAIN s = 1..Len(s)
    BY <1>1, <1>5
  <2>2. Tail(s) \in Seq(DispatchedChords) /\ Len(Tail(s)) = Len(s) - 1
        /\ DOMAIN Tail(s) = 1..(Len(s) - 1)
        /\ \A i \in 1..(Len(s) - 1) : Tail(s)[i] = s[i + 1]
    BY <1>1, <1>5
  <2>3. Means(s) \in Seq(C) /\ Len(Means(s)) = Len(s)
    BY <1>1, <1>3
  <2>4. \A i \in 1..Len(s) : Means(s)[i] = ChordOf(s[i].mask, s[i].sym)
    BY <2>1
  <2>5. Means(Tail(s)) = [i \in 1..(Len(s) - 1) |-> ChordOf(Tail(s)[i].mask, Tail(s)[i].sym)]
    BY <2>2
  <2> DEFINE q == Means(s)
  <2> HIDE DEF Means, C
  <2>6. q \in Seq(C) /\ Len(q) = Len(s) /\ Head(q) = q[1]
    BY <2>1, <2>3
  <2>7. Tail(q) = [i \in 1..(Len(s) - 1) |-> q[i + 1]]
    <3> HIDE DEF q
    <3>1. /\ Tail(q) \in Seq(C) /\ Len(Tail(q)) = Len(s) - 1
          /\ \A i \in 1..(Len(s) - 1) : Tail(q)[i] = q[i + 1]
      BY <2>1, <2>6
    <3>2. Tail(q) \in [1..(Len(s) - 1) -> C]
      BY <3>1, LenProperties
    <3>3. QED
      BY <3>1, <3>2
  <2>8. \A i \in 1..(Len(s) - 1) : ChordOf(Tail(s)[i].mask, Tail(s)[i].sym) = q[i + 1]
    BY <2>1, <2>2, <2>4
  <2>9. Means(Tail(s)) = Tail(q)
    BY <2>5, <2>7, <2>8
  <2>10. Head(q) = ChordOf(Head(s).mask, Head(s).sym)
    BY <1>1, <1>5, <2>1, <2>4, <2>6
  <2>11. QED
    BY <2>9, <2>10
<1>6. /\ BoundCommand(c) = [chords |-> Tail(s), command |-> c.command]
      /\ BoundChord(c)[1] = Head(s).mask /\ BoundChord(c)[2] = Head(s).sym
  BY WithoutFirst DEF s, BoundCommand, BoundChord
<1>7. Meaning([chords |-> Tail(s), command |-> c.command]) = [chords |-> Means(Tail(s)), command |-> command]
  BY DEF Meaning, command
<1>8. QED
  <2> HIDE DEF Means
  <2>1. Meaning(c).chords = Means(s)
    BY <1>2
  <2>2. \A a, b, d : [[chords |-> a, command |-> b] EXCEPT !.chords = d] = [chords |-> d, command |-> b]
    OBVIOUS
  <2>3. [Meaning(c) EXCEPT !.chords = Tail(@)] = [chords |-> Tail(Means(s)), command |-> command]
    <3> DEFINE a == Means(s)
               d == Tail(a)
    <3>1. Meaning(c) = [chords |-> a, command |-> command]
      BY <1>2
    <3>2. [[chords |-> a, command |-> command] EXCEPT !.chords = d] = [chords |-> d, command |-> command]
      BY <2>2
    <3>3. [Meaning(c) EXCEPT !.chords = Tail(@)] = [Meaning(c) EXCEPT !.chords = d]
      BY <2>1
    <3> HIDE DEF a, d
    <3>4. QED
      BY <3>1, <3>2, <3>3 DEF a, d
  <2>4. QED
    BY <1>4, <1>5, <1>6, <1>7, <2>1, <2>3 DEF s

\* Inserting a key that has no other value registers its chord in the table.
LEMMA MeaningOfInsert ==
    ASSUME NEW m \in Maps, NEW mask \in Rows, NEW sym \in Keysyms, NEW value \in Dispatched,
           <<mask, sym>> \in DOMAIN m => m[<<mask, sym>>] = value
    PROVE  MeaningOf(Insert(m, <<mask, sym>>, value)) =
               [chord \in DOMAIN MeaningOf(m) \cup {ChordOf(mask, sym)} |->
                   IF chord = ChordOf(mask, sym) THEN Meaning(value) ELSE MeaningOf(m)[chord]]
<1> DEFINE key == <<mask, sym>>
           new == ChordOf(mask, sym)
           r == Insert(m, key, value)
           D == DOMAIN MeaningOf(m) \cup {new}
<1>1. r \in Maps
  BY InsertType
<1>2. mask \in Masks
  BY RowsAreMasks
<1>3. DOMAIN r = DOMAIN m \cup {key} /\ r[key] = value /\ \A k \in DOMAIN m : r[k] = m[k]
  BY DEF Insert
<1> HIDE DEF r
<1>4. ASSUME NEW k1 \in Masks, NEW k2 \in Keysyms
      PROVE  /\ ChordOf(k1, k2) \in DOMAIN MeaningOf(r) <=> ChordOf(k1, k2) \in D
             /\ ChordOf(k1, k2) \in D =>
                    MeaningOf(r)[ChordOf(k1, k2)] =
                        IF ChordOf(k1, k2) = new THEN Meaning(value) ELSE MeaningOf(m)[ChordOf(k1, k2)]
  <2>1. <<k1, k2>> = key <=> ChordOf(k1, k2) = new
    BY <1>2, ChordOfInjective
  <2>2. /\ ChordOf(k1, k2) \in DOMAIN MeaningOf(r) <=> <<k1, k2>> \in DOMAIN r
        /\ <<k1, k2>> \in DOMAIN r => MeaningOf(r)[ChordOf(k1, k2)] = Meaning(r[<<k1, k2>>])
    BY <1>1, MeaningOfMap
  <2>3. /\ ChordOf(k1, k2) \in DOMAIN MeaningOf(m) <=> <<k1, k2>> \in DOMAIN m
        /\ <<k1, k2>> \in DOMAIN m => MeaningOf(m)[ChordOf(k1, k2)] = Meaning(m[<<k1, k2>>])
    BY MeaningOfMap
  <2> DEFINE k == <<k1, k2>>
             chord == ChordOf(k1, k2)
  <2> HIDE DEF k, chord, key, new
  <2>4. QED
    BY <1>3, <2>1, <2>2, <2>3 DEF k, chord
<1>5. \A chord \in DOMAIN MeaningOf(r) :
          \E k1 \in Masks, k2 \in Keysyms : chord = ChordOf(k1, k2)
  BY <1>1, ChordsOfMap
<1>6. ASSUME NEW chord \in D
      PROVE  \E k1 \in Masks, k2 \in Keysyms : chord = ChordOf(k1, k2)
  <2>1. CASE chord = new
    BY <1>2, <2>1
  <2>2. CASE chord \in DOMAIN MeaningOf(m)
    BY <2>2, ChordsOfMap
  <2>3. QED
    BY <2>1, <2>2
<1> HIDE DEF D, new
<1>7. DOMAIN MeaningOf(r) = D
  <2>1. \A chord \in DOMAIN MeaningOf(r) : chord \in D
    BY <1>4, <1>5
  <2>2. \A chord \in D : chord \in DOMAIN MeaningOf(r)
    BY <1>4, <1>6
  <2>3. QED
    BY <2>1, <2>2
<1>8. ASSUME NEW chord \in D
      PROVE  MeaningOf(r)[chord] = IF chord = new THEN Meaning(value) ELSE MeaningOf(m)[chord]
  BY <1>4, <1>6
<1>9. MeaningOf(r) = [chord \in D |-> MeaningOf(r)[chord]]
  BY <1>7 DEF MeaningOf
<1>10. MeaningOf(r) = [chord \in D |-> IF chord = new THEN Meaning(value) ELSE MeaningOf(m)[chord]]
  BY <1>8, <1>9
<1>11. QED
  BY <1>10 DEF r, key, new, D

\* Running a command appends it to ran, and takes nothing out of the map: its
\* chord is inserted, if it has one and there is a row for it.
LEMMA ExecuteKeeps ==
    ASSUME NEW s \in States, NEW c \in Dispatched
    PROVE  /\ Execute(s, c).ran = Append(s.ran, c)
           /\ Execute(s, c).map =
                 IF c.chords # <<>> /\ BoundChord(c)[1] \in Rows
                 THEN Insert(s.map, BoundChord(c), BoundCommand(c))
                 ELSE s.map
<1> DEFINE done == [s EXCEPT !.ran = Append(@, c)]
<1>1. done \in States /\ done.map = s.map /\ done.ran = Append(s.ran, c)
  BY DEF States
<1>2. CASE c.chords # <<>> /\ BoundChord(c)[1] \in Rows
  <2> DEFINE chord == BoundChord(c)
             value == BoundCommand(c)
  <2>1. Execute(s, c) = [done EXCEPT !.map = Insert(@, chord, value)]
    BY <1>2 DEF Execute, Bind
  <2> HIDE DEF done, chord, value
  <2>2. Execute(s, c).map = Insert(s.map, chord, value) /\ Execute(s, c).ran = Append(s.ran, c)
    BY <1>1, <2>1 DEF States
  <2>3. QED
    BY <1>2, <2>2 DEF chord, value
<1>3. CASE c.chords # <<>> /\ BoundChord(c)[1] \notin Rows
  <2>1. Execute(s, c) = done
    BY <1>3 DEF Execute, Bind
  <2>2. QED
    BY <1>1, <1>3, <2>1
<1>4. CASE c.chords = <<>>
  <2>1. Execute(s, c).map = s.map /\ Execute(s, c).ran = Append(s.ran, c)
    <3> HIDE DEF done
    <3>1. CASE c.command.name \in {"mouse_mod", "gap", "focus_color"}
      <4>1. Execute(s, c) = Configure(done, c.command)
        BY <1>4, <3>1 DEF Execute, done
      <4>2. \/ Execute(s, c) = [done EXCEPT !.config.mouse_mod = c.command.mask]
            \/ Execute(s, c) = [done EXCEPT !.config.gap = c.command.gap]
            \/ Execute(s, c) = [done EXCEPT !.config.focus_color = c.command.rgba]
        BY <3>1, <4>1 DEF Configure
      <4>3. QED
        BY <1>1, <4>2 DEF States
    <3>2. CASE c.command.name = "quit"
      <4>1. Execute(s, c) = [done EXCEPT !.running = FALSE]
        BY <1>4, <3>2 DEF Execute, Quit, done
      <4>2. QED
        BY <1>1, <4>1 DEF States
    <3>3. CASE c.command.name \notin {"mouse_mod", "gap", "focus_color", "quit"}
      <4>1. Execute(s, c) = done
        BY <1>4, <3>3 DEF Execute, done
      <4>2. QED
        BY <1>1, <4>1
    <3>4. QED
      BY <3>1, <3>2, <3>3
  <2>2. QED
    BY <1>4, <2>1
<1>5. QED
  BY <1>2, <1>3, <1>4

\* A command that has a row to bind in and does not bind a chord anew.
Accepts(s, c) ==
    c.chords # <<>> =>
        /\ BoundChord(c)[1] \in Rows
        /\ BoundChord(c) \in DOMAIN s.map => s.map[BoundChord(c)] = BoundCommand(c)

\* A state to which only such commands have led.
Clean(s) == BoundRows(s) \subseteq Rows /\ ~Rebinds(s)

LEMMA CleanBefore ==
    ASSUME NEW s \in States, NEW c \in Dispatched, Clean(Execute(s, c))
    PROVE  Clean(s) /\ Accepts(s, c)
<1> DEFINE e == Execute(s, c)
           n == Len(s.ran)
<1>1. s.ran \in Seq(Dispatched) /\ n \in Nat /\ DOMAIN s.ran = 1..n
  BY LenProperties DEF States
<1>2. e.ran = Append(s.ran, c)
  BY ExecuteKeeps
<1>3. /\ DOMAIN e.ran = 1..(n + 1) /\ e.ran[n + 1] = c
      /\ \A i \in 1..n : e.ran[i] = s.ran[i]
  BY <1>1, <1>2, AppendProperties
<1>4. \A chord \in DOMAIN s.map : chord \in DOMAIN e.map /\ e.map[chord] = s.map[chord]
  BY ExecuteKeeps DEF Insert
<1>5. Clean(e)
  OBVIOUS
<1> HIDE DEF e, n
<1>6. \A i \in 1..(n + 1) :
          e.ran[i].chords # <<>> =>
              /\ BoundChord(e.ran[i])[1] \in Rows
              /\ BoundChord(e.ran[i]) \in DOMAIN e.map =>
                     e.map[BoundChord(e.ran[i])] = BoundCommand(e.ran[i])
  BY <1>3, <1>5 DEF Clean, BoundRows, Rebinds
<1>7. Accepts(s, c)
  <2>1. n + 1 \in 1..(n + 1)
    BY <1>1
  <2>2. QED
    BY <1>3, <1>4, <1>6, <2>1 DEF Accepts
<1>8. \A i \in 1..n :
          s.ran[i].chords # <<>> =>
              /\ BoundChord(s.ran[i])[1] \in Rows
              /\ BoundChord(s.ran[i]) \in DOMAIN s.map =>
                     s.map[BoundChord(s.ran[i])] = BoundCommand(s.ran[i])
  <2>1. \A i \in 1..n : i \in 1..(n + 1)
    BY <1>1
  <2>2. QED
    BY <1>3, <1>4, <1>6, <2>1
<1>9. Clean(s)
  BY <1>1, <1>8 DEF Clean, BoundRows, Rebinds
<1>10. QED
  BY <1>7, <1>9

\* What executing such a command does to the table of Chords.
LEMMA MeaningOfExecute ==
    ASSUME NEW s \in States, NEW c \in Dispatched, Accepts(s, c)
    PROVE  MeaningOf(Execute(s, c).map) = Promised!After(MeaningOf(s.map), Meaning(c))
<1> DEFINE t == MeaningOf(s.map)
<1>1. CASE c.chords # <<>>
  <2> DEFINE mask == BoundChord(c)[1]
             sym == BoundChord(c)[2]
             value == BoundCommand(c)
             new == ChordOf(mask, sym)
             rest == [Meaning(c) EXCEPT !.chords = Tail(@)]
  <2>1. mask \in Rows /\ sym \in Keysyms /\ value \in Dispatched
    BY <1>1, BoundType DEF Accepts
  <2>2. /\ Meaning(c).chords # <<>> /\ Head(Meaning(c).chords) = new
        /\ Meaning(value) = rest
    BY <1>1, MeaningOfBind
  <2>3. Promised!After(t, Meaning(c)) =
            [chord \in DOMAIN t \cup {new} |-> IF chord = new THEN rest ELSE t[chord]]
    BY <2>2 DEF Promised!After
  <2>4. BoundChord(c) = <<mask, sym>>
    BY <1>1, BoundType
  <2>5. Execute(s, c).map = Insert(s.map, <<mask, sym>>, value)
    BY <1>1, <2>1, <2>4, ExecuteKeeps
  <2>6. s.map \in Maps
    BY DEF States
  <2>7. <<mask, sym>> \in DOMAIN s.map => s.map[<<mask, sym>>] = value
    BY <1>1, <2>4 DEF Accepts
  <2> HIDE DEF mask, sym, value, rest
  <2>8. MeaningOf(Insert(s.map, <<mask, sym>>, value)) =
            [chord \in DOMAIN t \cup {new} |-> IF chord = new THEN Meaning(value) ELSE t[chord]]
    BY <2>1, <2>6, <2>7, MeaningOfInsert
  <2> HIDE DEF t, new
  <2>9. QED
    BY <2>2, <2>3, <2>5, <2>8 DEF t
<1>2. CASE c.chords = <<>>
  <2>1. Promised!After(t, Meaning(c)) = t
    BY <1>2, MeaningOfBind DEF Promised!After
  <2>2. QED
    BY <1>2, <2>1, ExecuteKeeps
<1>3. QED
  BY <1>1, <1>2

Told(r) == [i \in DOMAIN r |-> Meaning(r[i])]

LEMMA ToldNothing == Told(<<>>) = <<>>
<1>1. DOMAIN <<>> = {}
  OBVIOUS
<1>2. Told(<<>>) = [i \in {} |-> Meaning(<<>>[i])]
  BY <1>1 DEF Told
<1>3. QED
  BY <1>2

LEMMA ToldOneMore ==
    ASSUME NEW r \in Seq(Dispatched), NEW c \in Dispatched
    PROVE  Told(Append(r, c)) = Append(Told(r), Meaning(c))
<1> DEFINE n == Len(r)
           q == Append(r, c)
           C == {Meaning(x) : x \in Dispatched}
           t == Told(r)
           u == Append(t, Meaning(c))
<1>1. n \in Nat /\ DOMAIN r = 1..n /\ \A i \in 1..n : r[i] \in Dispatched
  BY LenProperties, ElementOfSeq
<1>2. /\ DOMAIN q = 1..(n + 1) /\ q[n + 1] = c
      /\ \A i \in 1..n : q[i] = r[i]
  BY AppendProperties, <1>1
<1>3. t = [i \in 1..n |-> Meaning(r[i])] /\ Meaning(c) \in C
  BY <1>1 DEF Told
<1>4. \A i \in 1..n : Meaning(r[i]) \in C
  BY <1>1
<1>5. Told(q) = [i \in 1..(n + 1) |-> Meaning(q[i])]
  BY <1>2 DEF Told
<1> HIDE DEF C, n, q
<1>6. t \in Seq(C) /\ Len(t) = n /\ \A i \in 1..n : t[i] = Meaning(r[i])
  BY <1>1, <1>3, <1>4
<1> HIDE DEF t
<1>7. /\ u \in Seq(C) /\ Len(u) = n + 1 /\ u[n + 1] = Meaning(c)
      /\ \A i \in 1..n : u[i] = t[i]
  BY <1>1, <1>3, <1>6, AppendProperties
<1> HIDE DEF u
<1>8. u \in [1..(n + 1) -> C]
  BY <1>7, LenProperties
<1>9. \A i \in 1..(n + 1) : u[i] = Meaning(q[i])
  BY <1>1, <1>2, <1>6, <1>7
<1>10. Told(q) = u
  BY <1>5, <1>8, <1>9
<1>11. QED
  BY <1>10 DEF q, u, t

\* A state between the keysyms of a press, as Chords has it.
AbsOf(s) == [table |-> MeaningOf(s.map), ran |-> Told(s.ran)]

\* One key of a press, as Chords has it.
TryChord(mods, s, key) ==
    IF Promised!Chord(mods, key) \in DOMAIN s.table
    THEN [table |-> Promised!After(s.table, s.table[Promised!Chord(mods, key)]),
          ran |-> Append(s.ran, s.table[Promised!Chord(mods, key)])]
    ELSE s

LEMMA ExecuteMeans ==
    ASSUME NEW s \in States, NEW c \in Dispatched, Accepts(s, c)
    PROVE  AbsOf(Execute(s, c)) =
               [table |-> Promised!After(MeaningOf(s.map), Meaning(c)),
                ran |-> Append(Told(s.ran), Meaning(c))]
<1>1. s.ran \in Seq(Dispatched)
  BY DEF States
<1>2. Told(Execute(s, c).ran) = Append(Told(s.ran), Meaning(c))
  BY <1>1, ExecuteKeeps, ToldOneMore
<1>3. QED
  BY <1>2, MeaningOfExecute DEF AbsOf

LEMMA TryMeans ==
    ASSUME NEW s \in States, NEW mods \in SUBSET ModKeys, NEW sym,
           Clean(Try(MaskOf(mods), s, sym))
    PROVE  Clean(s) /\ AbsOf(Try(MaskOf(mods), s, sym)) = TryChord(mods, AbsOf(s), sym)
<1> DEFINE mask == MaskOf(mods)
           chord == ChordOf(mask, sym)
           t == MeaningOf(s.map)
<1>1. mask \in Masks
  BY MaskInRange
<1>2. Promised!Chord(mods, sym) = chord
  BY ModsOfMask DEF ChordOf, Promised!Chord
<1>3. s.map \in Maps /\ s.map \in [DOMAIN s.map -> Dispatched]
  BY MapsAre DEF States
<1>4. Clean(Try(mask, s, sym))
  OBVIOUS
<1> HIDE DEF mask
<1>5. /\ chord \in DOMAIN t <=> <<mask, sym>> \in DOMAIN s.map
      /\ <<mask, sym>> \in DOMAIN s.map => t[chord] = Meaning(s.map[<<mask, sym>>])
  BY <1>1, <1>3, MeaningOfMap
<1>6. AbsOf(s).table = t /\ AbsOf(s).ran = Told(s.ran)
  BY DEF AbsOf
<1> HIDE DEF t, chord
<1>7. CASE <<mask, sym>> \in DOMAIN s.map
  <2> DEFINE c == s.map[<<mask, sym>>]
  <2>1. c \in Dispatched
    BY <1>3, <1>7
  <2>2. Try(mask, s, sym) = Execute(s, c)
    BY <1>7 DEF Try
  <2>3. t[chord] = Meaning(c) /\ chord \in DOMAIN t
    BY <1>5, <1>7
  <2> HIDE DEF c
  <2>4. Clean(s) /\ Accepts(s, c)
    BY <1>4, <2>1, <2>2, CleanBefore
  <2>5. AbsOf(Execute(s, c)) =
            [table |-> Promised!After(t, Meaning(c)), ran |-> Append(Told(s.ran), Meaning(c))]
    BY <2>1, <2>4, ExecuteMeans DEF t
  <2>6. TryChord(mods, AbsOf(s), sym) =
            [table |-> Promised!After(t, t[chord]), ran |-> Append(Told(s.ran), t[chord])]
    BY <1>2, <1>6, <2>3 DEF TryChord
  <2>7. QED
    BY <2>2, <2>3, <2>5, <2>6, <2>4 DEF mask
<1>8. CASE <<mask, sym>> \notin DOMAIN s.map
  <2>1. Try(mask, s, sym) = s
    BY <1>8 DEF Try
  <2>2. TryChord(mods, AbsOf(s), sym) = AbsOf(s)
    BY <1>2, <1>5, <1>6, <1>8 DEF TryChord
  <2>3. QED
    BY <1>4, <2>1, <2>2 DEF mask
<1>9. QED
  BY <1>7, <1>8

\* The tables of Chords, and what a press can make of one.
ChordTypes == {ChordOf(mask, sym) : mask \in Masks, sym \in Keysyms}
CommandTypes == {Meaning(c) : c \in Dispatched}
Tables == UNION {[D -> CommandTypes] : D \in SUBSET ChordTypes}
Pressings == [table: Tables, ran: Seq(CommandTypes)]

LEMMA TablesAre ==
    ASSUME NEW t
    PROVE  t \in Tables <=> DOMAIN t \in SUBSET ChordTypes /\ t \in [DOMAIN t -> CommandTypes]
BY DEF Tables

LEMMA AfterType ==
    ASSUME NEW t \in Tables, NEW c \in CommandTypes
    PROVE  Promised!After(t, c) \in Tables
<1>1. PICK d \in Dispatched : c = Meaning(d)
  BY DEF CommandTypes
<1>2. DOMAIN t \in SUBSET ChordTypes /\ t \in [DOMAIN t -> CommandTypes]
  BY TablesAre
<1>3. CASE c.chords = <<>>
  BY <1>3 DEF Promised!After
<1>4. CASE c.chords # <<>>
  <2> DEFINE new == Head(c.chords)
             rest == [c EXCEPT !.chords = Tail(@)]
             r == [chord \in DOMAIN t \cup {new} |-> IF chord = new THEN rest ELSE t[chord]]
  <2>1. d.chords # <<>>
    BY <1>1, <1>4, MeaningOfBind
  <2>2. new = ChordOf(BoundChord(d)[1], BoundChord(d)[2]) /\ rest = Meaning(BoundCommand(d))
    BY <1>1, <2>1, MeaningOfBind
  <2>3. BoundChord(d)[1] \in Masks /\ BoundChord(d)[2] \in Keysyms /\ BoundCommand(d) \in Dispatched
    BY <2>1, BoundType
  <2>4. Promised!After(t, c) = r
    BY <1>4 DEF Promised!After
  <2> HIDE DEF new, rest
  <2>5. new \in ChordTypes /\ rest \in CommandTypes
    BY <2>2, <2>3 DEF ChordTypes, CommandTypes
  <2>6. DOMAIN r \in SUBSET ChordTypes /\ r \in [DOMAIN r -> CommandTypes]
    BY <1>2, <2>5
  <2> HIDE DEF r
  <2>7. QED
    BY <2>4, <2>6, TablesAre
<1>5. QED
  BY <1>3, <1>4

LEMMA TryChordType ==
    ASSUME NEW mods, NEW s \in Pressings, NEW key
    PROVE  TryChord(mods, s, key) \in Pressings
<1> DEFINE chord == Promised!Chord(mods, key)
           c == s.table[chord]
<1>1. s.table \in Tables /\ s.ran \in Seq(CommandTypes)
  BY DEF Pressings
<1>2. CASE chord \in DOMAIN s.table
  <2>1. c \in CommandTypes
    BY <1>1, <1>2, TablesAre
  <2>2. TryChord(mods, s, key) = [table |-> Promised!After(s.table, c), ran |-> Append(s.ran, c)]
    BY <1>2 DEF TryChord
  <2> HIDE DEF c
  <2>3. Promised!After(s.table, c) \in Tables /\ Append(s.ran, c) \in Seq(CommandTypes)
    BY <1>1, <2>1, AfterType
  <2>4. QED
    BY <2>2, <2>3 DEF Pressings
<1>3. CASE chord \notin DOMAIN s.table
  BY <1>3 DEF TryChord
<1>4. QED
  BY <1>2, <1>3

LEMMA TableOfMap ==
    ASSUME NEW m \in Maps
    PROVE  MeaningOf(m) \in Tables
<1> DEFINE t == MeaningOf(m)
<1>1. \A chord \in DOMAIN t : chord \in ChordTypes
  BY ChordsOfMap DEF ChordTypes
<1>2. ASSUME NEW chord \in DOMAIN t
      PROVE  t[chord] \in CommandTypes
  <2>1. PICK mask \in Masks, sym \in Keysyms : chord = ChordOf(mask, sym)
    BY ChordsOfMap
  <2>2. <<mask, sym>> \in DOMAIN m /\ t[chord] = Meaning(m[<<mask, sym>>])
    BY <1>2, <2>1, MeaningOfMap
  <2>3. m[<<mask, sym>>] \in Dispatched
    BY <2>2, MapsAre
  <2> HIDE DEF t
  <2>4. QED
    BY <2>2, <2>3 DEF CommandTypes
<1>3. t = [chord \in DOMAIN t |-> t[chord]]
  BY DEF MeaningOf
<1> HIDE DEF t
<1>4. DOMAIN t \in SUBSET ChordTypes /\ t \in [DOMAIN t -> CommandTypes]
  BY <1>1, <1>2, <1>3
<1>5. QED
  BY <1>4, TablesAre DEF t

\* A key press runs, and binds, what it does in Chords.
LEMMA PressMeans ==
    ASSUME NEW k, held[k] \in SUBSET ModKeys, NEW syms \in Seq(STRING), State \in States,
           Clean(RunBindings(k, syms))
    PROVE  Promised!Pressed(held[k], [i \in DOMAIN syms |-> Lowered(syms[i])])
               = AbsOf(RunBindings(k, syms))
<1> DEFINE n == Len(syms)
           mods == held[k]
           keys == [i \in DOMAIN syms |-> Lowered(syms[i])]
           start == [table |-> MapMeaning, ran |-> <<>>]
           Step == [i \in 1..n |-> [s \in Pressings |-> TryChord(mods, s, keys[i])]]
           After(q) == q = [i \in 0..Len(keys) |->
                               IF i = 0 THEN start ELSE TryChord(mods, q[i - 1], keys[i])]
           after == CHOOSE q : After(q)
<1>1. PICK h : Runs(h, k, syms)
  BY BindingsRun
<1>2. n \in Nat /\ DOMAIN syms = 1..n
  BY LenProperties
<1>3. Len(keys) = n /\ \A i \in 1..n : keys[i] = Lowered(syms[i])
  BY <1>2
<1>4. Promised!Pressed(mods, keys) = after[Len(keys)]
  BY DEF Promised!Pressed, TryChord
<1>5. start = AbsOf(State)
  BY ToldNothing DEF AbsOf, State, MapMeaning, MeaningOf
<1>6. /\ h \in [0..n -> States] /\ h[0] = State /\ RunBindings(k, syms) = h[n]
      /\ \A i \in 1..n : h[i] = Try(MaskOf(mods), h[i - 1], Lowered(syms[i]))
  BY <1>1 DEF Runs
<1>7. start \in Pressings
  <2>1. State.map \in Maps
    BY DEF States
  <2>2. MeaningOf(State.map) \in Tables
    BY <2>1, TableOfMap
  <2>3. State.map = map /\ MapMeaning = MeaningOf(map)
    BY DEF State, MapMeaning, MeaningOf
  <2>4. <<>> \in Seq(CommandTypes)
    OBVIOUS
  <2>5. QED
    BY <2>2, <2>3, <2>4 DEF Pressings
<1> HIDE DEF n, keys, start
<1>8. \E q : After(q)
  <2>1. \A i \in 1..n, s \in Pressings : TryChord(mods, s, keys[i]) \in Pressings
    BY TryChordType
  <2>2. Step \in [1..n -> [Pressings -> Pressings]]
    BY <2>1
  <2>3. \A i \in 1..n, s \in Pressings : Step[i][s] = TryChord(mods, s, keys[i])
    OBVIOUS
  <2> HIDE DEF Step, mods
  <2>4. PICK q : Unfolds(q, n, Pressings, start, Step)
    BY <1>2, <1>7, <2>2, RecursionExists
  <2>5. ASSUME NEW i \in 0..n
        PROVE  q[i] = IF i = 0 THEN start ELSE TryChord(mods, q[i - 1], keys[i])
    <3>1. CASE i = 0
      BY <2>4, <3>1 DEF Unfolds
    <3>2. CASE i # 0
      <4>1. i \in 1..n /\ i - 1 \in 0..n
        BY <1>2, <3>2
      <4>2. q[i] = Step[i][q[i - 1]] /\ q[i - 1] \in Pressings
        BY <2>4, <4>1 DEF Unfolds
      <4>3. QED
        BY <2>3, <3>2, <4>1, <4>2
    <3>3. QED
      BY <3>1, <3>2
  <2>6. After(q)
    BY <1>3, <2>4, <2>5 DEF Unfolds
  <2>7. QED
    BY <2>6
<1> HIDE DEF Step, mods
<1>9. After(after)
  BY <1>8, Zenon
<1> HIDE DEF after
<1>10. \A i \in 0..n : after[i] = IF i = 0 THEN start ELSE TryChord(mods, after[i - 1], keys[i])
  BY <1>3, <1>9
<1> DEFINE Same(i) == Clean(h[i]) => after[i] = AbsOf(h[i])
           same == [i \in 0..n |-> IF Same(i) THEN 1 ELSE 0]
           T == {1}
<1>11. 0 \in 0..n /\ n \in 0..n
  BY <1>2
<1>12. same[0] \in T
  <2>1. after[0] = start
    BY <1>10, <1>11
  <2>2. QED
    BY <1>5, <1>6, <1>11, <2>1
<1>13. ASSUME NEW i \in 1..n, same[i - 1] \in T
       PROVE  same[i] \in T
  <2>1. i \in 0..n /\ i # 0 /\ i - 1 \in 0..n
    BY <1>2
  <2>2. Same(i - 1)
    BY <1>13, <2>1
  <2>3. after[i] = TryChord(mods, after[i - 1], keys[i])
    BY <1>10, <2>1
  <2>4. ASSUME Clean(h[i])
        PROVE  Clean(h[i - 1]) /\ AbsOf(h[i]) = TryChord(mods, AbsOf(h[i - 1]), keys[i])
    <3>1. h[i] = Try(MaskOf(mods), h[i - 1], keys[i]) /\ h[i - 1] \in States
      BY <1>3, <1>6, <2>1
    <3>2. mods \in SUBSET ModKeys
      BY DEF mods
    <3>3. QED
      BY <2>4, <3>1, <3>2, TryMeans
  <2>5. Same(i)
    BY <2>2, <2>3, <2>4
  <2> HIDE DEF Same
  <2>6. QED
    BY <2>1, <2>5
<1>14. \A i \in 0..n : same[i] \in T
  <2> HIDE DEF same, T
  <2>1. \A i \in 1..n : same[i - 1] \in T => same[i] \in T
    BY <1>13
  <2>2. QED
    BY <1>2, <1>12, <2>1, UpTo
<1>15. after[n] = AbsOf(h[n])
  <2>1. Clean(h[n])
    BY <1>6
  <2>2. Same(n)
    BY <1>11, <1>14
  <2>3. QED
    BY <2>1, <2>2
<1>16. QED
  BY <1>3, <1>4, <1>6, <1>15 DEF keys, mods

\* Neither the order nor the repetition of the modifiers is left in a mask.
LEMMA ChordMeans ==
    ASSUME NEW chord \in ParsedChords
    PROVE  ChordOf(DispatchChord(chord).mask, DispatchChord(chord).sym)
               = [mods |-> Range(chord.modifiers), key |-> chord.key]
<1>1. Range(chord.modifiers) \subseteq ModKeys
  BY TableIsComplete DEF ParsedChords
<1>2. ModsOf[MaskOf(Range(chord.modifiers))] = Range(chord.modifiers)
  BY <1>1, ModsOfMask
<1>3. /\ DispatchChord(chord).mask = MaskOf(Range(chord.modifiers))
      /\ DispatchChord(chord).sym = chord.key
  BY DEF DispatchChord, ModifierArrayToMask
<1>4. QED
  BY <1>2, <1>3 DEF ChordOf

LEMMA ConfigMeans ==
    ASSUME NEW c \in ParsedCommands
    PROVE  (IF DispatchConfig(c).name = "mouse_mod"
            THEN [name |-> "mouse_mod", mods |-> ModsOf[DispatchConfig(c).mask]]
            ELSE DispatchConfig(c))
         = (IF c.name = "mouse_mod"
            THEN [name |-> "mouse_mod", mods |-> Range(c.modifiers)]
            ELSE c)
<1>1. CASE c.name = "mouse_mod"
  <2>1. c \in [name: {"mouse_mod"}, modifiers: ModifierArrays]
    BY <1>1 DEF ParsedCommands, Common, Parameterless
  <2>2. TableHas(c.modifiers) /\ Range(c.modifiers) \subseteq ModKeys
    BY <2>1, TableIsComplete
  <2>3. DispatchConfig(c) = [name |-> "mouse_mod", mask |-> MaskOf(Range(c.modifiers))]
    BY <1>1, <2>2 DEF DispatchConfig, ModifierArrayToMask
  <2>4. ModsOf[MaskOf(Range(c.modifiers))] = Range(c.modifiers)
    BY <2>2, ModsOfMask
  <2>5. QED
    BY <1>1, <2>3, <2>4
<1>2. CASE c.name # "mouse_mod"
  BY <1>2 DEF DispatchConfig
<1>3. QED
  BY <1>1, <1>2

LEMMA MeaningIs ==
    ASSUME NEW q, NEW d
    PROVE  Meaning([chords |-> q, command |-> d]) =
               [chords |-> [i \in DOMAIN q |-> ChordOf(q[i].mask, q[i].sym)],
                command |-> IF d.name = "mouse_mod"
                            THEN [name |-> "mouse_mod", mods |-> ModsOf[d.mask]]
                            ELSE d]
BY DEF Meaning

\* A line says to the compositor what its words say.
LEMMA LineMeans ==
    ASSUME NEW c \in ParsedLines
    PROVE  Meaning(DispatchCommand(c)) = Typed(c)
<1> DEFINE s == c.chords
           Accepted(i) == TableHas(s[i].modifiers) /\ s[i].key \in Keysyms
           unsound == {i \in DOMAIN s : ~Accepted(i)}
           unknown == {i \in DOMAIN s : s[i].key \notin Keysyms}
           first == Min(unsound)
           command == DispatchConfig(c.command)
           AsTyped(i) == [mods |-> Range(s[i].modifiers), key |-> s[i].key]
<1>1. /\ s \in Seq(ParsedChords) /\ c.command \in ParsedCommands
      /\ Len(s) \in Nat /\ DOMAIN s = 1..Len(s)
      /\ \A i \in DOMAIN s : s[i] \in ParsedChords
  BY LenProperties, ElementOfSeq DEF ParsedLines
<1>2. \A i \in DOMAIN s : TableHas(s[i].modifiers)
  BY <1>1, ChordDispatched
<1>3. unsound = unknown
  BY <1>2
<1>4. command # Thrown
  BY <1>1, ConfigDispatched
<1>5. \A i \in DOMAIN s : ChordOf(DispatchChord(s[i]).mask, DispatchChord(s[i]).sym) = AsTyped(i)
  BY <1>1, ChordMeans
<1>6. CASE unsound = {}
  <2> DEFINE q == [i \in DOMAIN s |-> DispatchChord(s[i])]
  <2>1. DispatchCommand(c) = [chords |-> q, command |-> command]
    BY <1>4, <1>6 DEF DispatchCommand
  <2>2. DOMAIN q = DOMAIN s /\ \A i \in DOMAIN s : q[i] = DispatchChord(s[i])
    OBVIOUS
  <2>3. [i \in DOMAIN q |-> ChordOf(q[i].mask, q[i].sym)] = [i \in 1..Len(s) |-> AsTyped(i)]
    BY <1>1, <1>5, <2>2
  <2> DEFINE chords == [i \in 1..Len(s) |-> AsTyped(i)]
             run == IF command.name = "mouse_mod"
                    THEN [name |-> "mouse_mod", mods |-> ModsOf[command.mask]]
                    ELSE command
             typed == IF c.command.name = "mouse_mod"
                      THEN [name |-> "mouse_mod", mods |-> Range(c.command.modifiers)]
                      ELSE c.command
  <2>4. Meaning([chords |-> q, command |-> command]) =
            [chords |-> [i \in DOMAIN q |-> ChordOf(q[i].mask, q[i].sym)], command |-> run]
    <3> HIDE DEF q, command
    <3>1. QED
      BY MeaningIs
  <2>5. Typed(c) = [chords |-> chords, command |-> typed]
    BY <1>3, <1>6 DEF Typed
  <2>6. run = typed
    BY <1>1, ConfigMeans
  <2> HIDE DEF q, chords, run, typed
  <2>7. QED
    BY <2>1, <2>3, <2>4, <2>5, <2>6 DEF chords
<1>7. CASE unsound # {}
  <2> DEFINE q == [i \in 1..(first - 1) |-> DispatchChord(s[i])]
             invalid == [name |-> "invalid_keysym", key |-> s[first].key]
  <2>1. first \in DOMAIN s
    <3>1. unsound \in SUBSET Nat /\ unsound \in SUBSET DOMAIN s
      BY <1>1
    <3> HIDE DEF unsound
    <3>2. QED
      BY <1>7, <3>1, MinIsLeast
  <2>2. DispatchCommand(c) = [chords |-> q, command |-> invalid]
    BY <1>2, <1>7, <2>1 DEF DispatchCommand
  <2>3. Typed(c) = [chords |-> [i \in 1..(first - 1) |-> AsTyped(i)],
                    command |-> [name |-> "invalid_keysym", key |-> s[(first - 1) + 1].key]]
    BY <1>3, <1>7 DEF Typed
  <2> HIDE DEF first
  <2>4. first \in 1..Len(s) /\ (first - 1) + 1 = first
    BY <1>1, <2>1
  <2>5. \A i \in 1..(first - 1) : i \in DOMAIN s
    BY <1>1, <2>4
  <2>6. DOMAIN q = 1..(first - 1) /\ \A i \in 1..(first - 1) : q[i] = DispatchChord(s[i])
    OBVIOUS
  <2>7. [i \in DOMAIN q |-> ChordOf(q[i].mask, q[i].sym)] = [i \in 1..(first - 1) |-> AsTyped(i)]
    BY <1>5, <2>5, <2>6
  <2>8. invalid.name # "mouse_mod"
    OBVIOUS
  <2> HIDE DEF q, invalid
  <2>9. Meaning([chords |-> q, command |-> invalid]) =
            [chords |-> [i \in DOMAIN q |-> ChordOf(q[i].mask, q[i].sym)],
             command |-> IF invalid.name = "mouse_mod"
                         THEN [name |-> "mouse_mod", mods |-> ModsOf[invalid.mask]]
                         ELSE invalid]
    BY MeaningIs
  <2>10. Typed(c) = [chords |-> [i \in 1..(first - 1) |-> AsTyped(i)], command |-> invalid]
    BY <2>3, <2>4 DEF invalid
  <2>11. QED
    BY <2>2, <2>7, <2>8, <2>9, <2>10
<1>8. QED
  BY <1>6, <1>7

-----------------------------------------------------------------------------
(* KeyBindings implements Chords *)

LEMMA InitMeans ==
    ASSUME Init
    PROVE  Promised!Init
<1>1. map = <<>> /\ ran = <<>> /\ exclusive = FALSE
  BY DEF Init
<1>2. MapMeaning = <<>>
  <2>1. DOMAIN map = {}
    <3>1. DOMAIN <<>> = {}
      OBVIOUS
    <3>2. QED
      BY <1>1, <3>1
  <2>2. {ChordOf(key[1], key[2]) : key \in DOMAIN map} = {}
    BY <2>1
  <2>3. QED
    BY <2>2 DEF MapMeaning
<1>3. [i \in DOMAIN ran |-> Meaning(ran[i])] = <<>>
  BY <1>1, ToldNothing DEF Told
<1>4. QED
  BY <1>1, <1>2, <1>3 DEF Promised!Init

\* A step that runs no command and changes no lock is one of Chords' idle steps.
LEMMA IdleMeans ==
    ASSUME Becomes(State), exclusive' = exclusive
    PROVE  Promised!Next
<1>1. map' = map /\ ran' = <<>>
  BY DEF Becomes, State
<1>2. MapMeaning' = MapMeaning
  BY <1>1 DEF MapMeaning
<1>3. [i \in DOMAIN ran |-> Meaning(ran[i])]' = <<>>
  BY <1>1, ToldNothing DEF Told
<1>4. Promised!Idle
  BY <1>2, <1>3 DEF Promised!Idle
<1>5. QED
  BY <1>4 DEF Promised!Next

LEMMA LockMeans ==
    ASSUME Becomes(State), exclusive' \in BOOLEAN
    PROVE  Promised!Next
<1>1. map' = map /\ ran' = <<>>
  BY DEF Becomes, State
<1>2. MapMeaning' = MapMeaning
  BY <1>1 DEF MapMeaning
<1>3. [i \in DOMAIN ran |-> Meaning(ran[i])]' = <<>>
  BY <1>1, ToldNothing DEF Told
<1>4. Promised!Lock
  BY <1>2, <1>3 DEF Promised!Lock
<1>5. QED
  BY <1>4 DEF Promised!Next

\* Commands that overrun the array leave nothing; of the others none binds a
\* chord that has another command.
LEMMA SettledClean ==
    ASSUME ~Rebinding, NEW s, NEW lookups, Settles(s, lookups)
    PROVE  Becomes(State) \/ (Clean(s) /\ Becomes(s))
<1>1. /\ overrun' = ~(BoundRows(s) \cup lookups \subseteq Rows)
      /\ ~Rebinds(s)
      /\ Becomes(IF overrun' THEN State ELSE s)
  BY DEF Settles
<1>2. CASE overrun'
  BY <1>1, <1>2
<1>3. CASE ~overrun'
  BY <1>1, <1>3 DEF Clean
<1>4. QED
  BY <1>2, <1>3

\* A line that is sent is told to Chords as its words have it.
LEMMA CutterMeans ==
    ASSUME ~Rebinding, IInv, NEW line \in Lines, Cutter(line)
    PROVE  Promised!Next
<1> DEFINE parsed == ParseArguments(line)
           c == DispatchCommand(parsed)
<1>1. parsed \in ParsedLines \cup {Refused, Aborted}
  BY InputAssumption, LineType DEF Words
<1>2. State \in States
  BY SoundState DEF IInv, Sound
<1>3. exclusive' = exclusive
  BY DEF Cutter, kbdVars
<1>4. CASE parsed \in {Refused, Aborted}
  <2>1. Becomes(State)
    BY <1>4 DEF Cutter
  <2>2. QED
    BY <1>3, <2>1, IdleMeans
<1>5. CASE parsed \notin {Refused, Aborted}
  <2>1. parsed \in ParsedLines
    BY <1>1, <1>5
  <2>2. c \in Dispatched /\ c # Thrown /\ Meaning(c) = Typed(parsed)
    BY <2>1, LineDispatched, LineMeans
  <2>3. Settles(Execute(State, c), {})
    BY <1>5, <2>2 DEF Cutter
  <2>4. Typed(parsed) \in TypedCommands
    BY <1>5 DEF TypedCommands
  <2> HIDE DEF parsed, c
  <2>5. CASE Becomes(State)
    BY <1>3, <2>5, IdleMeans
  <2>6. SUFFICES ASSUME Clean(Execute(State, c)), Becomes(Execute(State, c))
                  PROVE  Promised!Next
    BY <2>3, <2>5, SettledClean
  <2>7. Accepts(State, c)
    BY <1>2, <2>2, <2>6, CleanBefore
  <2>8. /\ MeaningOf(Execute(State, c).map) = Promised!After(MeaningOf(State.map), Meaning(c))
        /\ Execute(State, c).ran = Append(State.ran, c)
    BY <1>2, <2>2, <2>7, MeaningOfExecute, ExecuteKeeps
  <2>9. State.map = map /\ State.ran = <<>>
    BY DEF State
  <2>10. MeaningOf(map') = Promised!After(MeaningOf(map), Meaning(c))
    BY <2>6, <2>8, <2>9 DEF Becomes
  <2>11. MapMeaning = MeaningOf(map) /\ MapMeaning' = MeaningOf(map')
    BY DEF MapMeaning, MeaningOf
  <2>12. Told(ran') = <<Meaning(c)>>
    <3>1. ran' = Append(<<>>, c)
      BY <2>6, <2>8, <2>9 DEF Becomes
    <3>2. Told(Append(<<>>, c)) = Append(<<>>, Meaning(c))
      <4>1. <<>> \in Seq(Dispatched)
        OBVIOUS
      <4>2. QED
        BY <2>2, <4>1, ToldNothing, ToldOneMore
    <3>3. Append(<<>>, Meaning(c)) = <<Meaning(c)>>
      OBVIOUS
    <3>4. QED
      BY <3>1, <3>2, <3>3
  <2>13. [i \in DOMAIN ran |-> Meaning(ran[i])]' = <<Typed(parsed)>>
    BY <2>2, <2>12 DEF Told
  <2>14. MapMeaning' = Promised!After(MapMeaning, Typed(parsed))
    BY <2>2, <2>10, <2>11
  <2>15. Promised!Tell(Typed(parsed))
    BY <1>3, <2>13, <2>14 DEF Promised!Tell
  <2>16. QED
    BY <2>4, <2>15 DEF Promised!Next
<1>6. QED
  BY <1>4, <1>5

LEMMA KeyMeans ==
    ASSUME ~Rebinding, IInv, NEW k \in Keyboards, NEW syms \in Presses, PressKey(k, syms)
    PROVE  Promised!Next
<1> DEFINE keys == [i \in DOMAIN syms |-> Lowered(syms[i])]
           after == RunBindings(k, syms)
<1>1. State \in States
  BY SoundState DEF IInv, Sound
<1>2. exclusive' = exclusive
  BY DEF PressKey
<1>3. CASE exclusive
  <2>1. PICK lookups : Settles(State, lookups)
    BY <1>3 DEF PressKey, BindingsWork
  <2>2. Becomes(State)
    BY <2>1, SettledClean
  <2>3. QED
    BY <1>2, <2>2, IdleMeans
<1>4. CASE ~exclusive
  <2>1. PICK lookups : Settles(after, lookups)
    BY <1>4 DEF PressKey, BindingsWork
  <2>2. held[k] \in HeldModifiers
    BY DEF IInv
  <2>3. held[k] \in SUBSET ModKeys /\ syms \in Seq(STRING)
    BY <2>2, InputAssumption
  <2>4. CASE Becomes(State)
    BY <1>2, <2>4, IdleMeans
  <2>5. SUFFICES ASSUME Clean(after), Becomes(after)
                  PROVE  Promised!Next
    <3> HIDE DEF after
    <3>1. QED
      BY <2>1, <2>4, SettledClean
  <2>6. Promised!Pressed(held[k], keys) = AbsOf(after)
    BY <1>1, <2>3, <2>5, PressMeans
  <2> HIDE DEF after
  <2>7. map' = after.map /\ ran' = after.ran
    BY <2>5 DEF Becomes
  <2>8. MapMeaning' = AbsOf(after).table
    BY <2>7 DEF AbsOf, MapMeaning, MeaningOf
  <2>9. [i \in DOMAIN ran |-> Meaning(ran[i])]' = AbsOf(after).ran
    BY <2>7 DEF AbsOf, Told
  <2>10. Promised!Press(held[k], keys)
    <3> HIDE DEF keys
    <3>1. QED
      BY <1>2, <1>4, <2>6, <2>8, <2>9 DEF Promised!Press
  <2>11. keys \in {[i \in DOMAIN s |-> Lowered(s[i])] : s \in Presses}
    OBVIOUS
  <2> HIDE DEF keys
  <2>12. QED
    BY <2>2, <2>10, <2>11 DEF Promised!Next
<1>5. QED
  BY <1>3, <1>4

LEMMA StepMeans ==
    ASSUME ~Rebinding, IInv, [Next]_vars
    PROVE  [Promised!Next]_(Promised!vars)
<1>1. ASSUME NEW line \in Lines, Cutter(line)
      PROVE  Promised!Next
  BY <1>1, CutterMeans
<1>2. ASSUME NEW k \in Keyboards, NEW syms \in Presses, PressKey(k, syms)
      PROVE  Promised!Next
  BY <1>2, KeyMeans
<1>3. ASSUME NEW k \in Keyboards, ReleaseKey(k)
      PROVE  Promised!Next
  BY <1>3, IdleMeans DEF ReleaseKey
<1>4. ASSUME NEW k \in Keyboards, NEW mods \in HeldModifiers, ChangeModifiers(k, mods)
      PROVE  Promised!Next
  BY <1>4, IdleMeans DEF ChangeModifiers
<1>5. ASSUME NEW k \in Keyboards, AddKeyboard(k)
      PROVE  Promised!Next
  BY <1>5, IdleMeans DEF AddKeyboard
<1>6. ASSUME NEW k \in Keyboards, RemoveKeyboard(k)
      PROVE  Promised!Next
  BY <1>6, IdleMeans DEF RemoveKeyboard
<1>7. ASSUME Inhibit
      PROVE  Promised!Next
  <2>1. exclusive' \in BOOLEAN
    BY <1>7 DEF Inhibit
  <2>2. QED
    BY <1>7, <2>1, LockMeans DEF Inhibit
<1>8. ASSUME UNCHANGED vars
      PROVE  UNCHANGED Promised!vars
  <2>1. map' = map /\ ran' = ran /\ exclusive' = exclusive
    BY <1>8 DEF vars
  <2>2. MapMeaning' = MapMeaning
    BY <2>1 DEF MapMeaning
  <2>3. QED
    BY <2>1, <2>2 DEF Promised!vars
<1>9. QED
  BY <1>1, <1>2, <1>3, <1>4, <1>5, <1>6, <1>7, <1>8 DEF Next, Stopped

\* Where users bind no chord to a second command, a chord runs what the line
\* that bound it says, until the array is overrun: two spellings of one chord
\* are one chord, two chords are never one, and what is bound when a bind runs
\* is bound as it was typed.
THEOREM ChordsImplemented ==
    ASSUME ~Rebinding
    PROVE  Spec => ImplementsChords
<1>1. Init => Promised!Init
  BY InitMeans
<1>2. IInv /\ [Next]_vars => [Promised!Next]_(Promised!vars)
  BY StepMeans
<1>3. QED
  BY <1>1, <1>2, Invariant, PTL DEF Spec, ImplementsChords, Promised!Spec
=============================================================================
