----------------------------- MODULE GameIdText -----------------------------
(***************************************************************************)
(* build_game_id of game_id.c: the text that names the game to a memory    *)
(* card, put together in a buffer of Size bytes, for one boot file after   *)
(* another.  An early disc is looked up by the timestamp of its volume in  *)
(* the table of gameid_psx_exe.c, whose function returns a serial and, for *)
(* some serials, sets the global is_scps.                                  *)
(***************************************************************************)
EXTENDS Integers, Sequences, FiniteSets

CONSTANTS
    Char, Separators, Semicolon,    \* ':', '\\' and '/'; ';'
    Lower,          \* ascii_lower
    Expected,       \* "psx.exe"
    Cdrom, Scps, Slps, Version,     \* "cdrom:", "SCPS_", "SLPS_", ";1"
    Size,           \* GAME_ID_BUFFER_SIZE
    Paths,          \* the boot files considered
    Known, ScpsDiscs, Unknown,  \* discs in the table, those of them that set
                                \* is_scps, and discs that are not in it
    SerialOf,       \* what the table returns for a known disc
    NoSerial        \* "0", what it returns for any other

Text == Seq(Char)

ASSUME CharAssumption == Separators \subseteq Char /\ Semicolon \in Char /\ Lower \in [Char -> Char]
ASSUME TextAssumption == {Expected, Cdrom, Scps, Slps, Version} \subseteq Text /\ Paths \subseteq Text
ASSUME SizeAssumption == Size \in Nat \ {0}
ASSUME TableAssumption ==
    ScpsDiscs \subseteq Known /\ Known \cap Unknown = {} /\ SerialOf \in [Known -> Text]
    /\ NoSerial \in Text /\ \A d \in Known : SerialOf[d] # NoSerial

VARIABLES
    at,         \* "idle", "look", "append", "built" or "refused"
    bootfile,   \* the argument
    disc,       \* history: {the disc whose sector was read}, or {}
    is_scps,    \* the global of gameid_psx_exe.c
    todo,       \* the texts that are still to be appended
    rest,       \* what is left of the text being appended
    game_id     \* the buffer up to its zero

vars == <<at, bootfile, disc, is_scps, todo, rest, game_id>>

\* disc_leaf: the directories end with the last separator.
Directories(path) == {i \in DOMAIN path : \E j \in i .. Len(path) : path[j] \in Separators}
Leaf(path) == SubSeq(path, Cardinality(Directories(path)) + 1, Len(path))

game_id_needs_disc_lookup(path) ==
    LET leaf == Leaf(path)
        n == Len(Expected)
    IN  /\ Len(leaf) >= n /\ \A i \in 1 .. n : Lower[leaf[i]] = Expected[i]
        /\ Len(leaf) > n => leaf[n + 1] = Semicolon

Init ==
    /\ at = "idle" /\ bootfile \in Paths /\ disc = {} /\ is_scps = FALSE
    /\ todo = <<>> /\ rest = <<>> /\ game_id = <<>>

\* The buffer is emptied; the texts to append, in their order.
Collect(texts) == at' = "append" /\ todo' = texts /\ rest' = <<>> /\ game_id' = <<>>

\* build_from_leaf and build_from_serial.
FromLeaf == Collect(<<Cdrom, Leaf(bootfile)>>)
FromSerial(serial, scps) ==
    Collect(<<Cdrom, IF scps THEN Scps ELSE Slps, serial, Version>>)

Build(path) ==
    /\ at \in {"idle", "built", "refused"}
    /\ at' = "look" /\ bootfile' = path /\ disc' = {}
    /\ UNCHANGED <<is_scps, todo, rest, game_id>>

NoLookup ==
    /\ at = "look" /\ ~game_id_needs_disc_lookup(bootfile)
    /\ FromLeaf /\ UNCHANGED <<bootfile, disc, is_scps>>

\* The chain of comparisons of a timestamp with those of the table.
get_psx_exe_gameid(d) == IF d \in Known THEN SerialOf[d] ELSE NoSerial

\* What becomes of the serial: "0" stands for an unknown disc.
UseSerial(serial, scps) ==
    \/ serial # NoSerial /\ FromSerial(serial, scps)
    \/ serial = NoSerial /\ FromLeaf

\* Mutant: the flag keeps the value of the lookup before.
LookupWithoutReset(d) ==
    /\ at = "look" /\ game_id_needs_disc_lookup(bootfile)
    /\ disc' = {d} /\ is_scps' = (is_scps \/ d \in ScpsDiscs)
    /\ UseSerial(get_psx_exe_gameid(d), is_scps')
    /\ UNCHANGED bootfile

\* Sector 16 was read: the flag is reset, and set again with some of the
\* serials.
Lookup(d) ==
    /\ at = "look" /\ game_id_needs_disc_lookup(bootfile)
    /\ disc' = {d} /\ is_scps' = (d \in ScpsDiscs)
    /\ UseSerial(get_psx_exe_gameid(d), is_scps')
    /\ UNCHANGED bootfile

\* Sector 16 could not be read.
LookupFails ==
    /\ at = "look" /\ game_id_needs_disc_lookup(bootfile)
    /\ FromLeaf /\ UNCHANGED <<bootfile, disc, is_scps>>

\* Mutant: the zero is not counted.
AppendCharLate ==
    /\ at = "append" /\ rest # <<>> /\ Len(game_id) < Size
    /\ game_id' = Append(game_id, Head(rest)) /\ rest' = Tail(rest)
    /\ UNCHANGED <<at, bootfile, disc, is_scps, todo>>

\* append_text: one character, if there is room for it and for the zero.
AppendChar ==
    /\ at = "append" /\ rest # <<>> /\ Len(game_id) + 1 < Size
    /\ game_id' = Append(game_id, Head(rest)) /\ rest' = Tail(rest)
    /\ UNCHANGED <<at, bootfile, disc, is_scps, todo>>

\* Mutant: the zero is counted twice.
NoRoomEarly ==
    /\ at = "append" /\ rest # <<>> /\ Len(game_id) + 2 >= Size /\ at' = "refused"
    /\ UNCHANGED <<bootfile, disc, is_scps, todo, rest, game_id>>

\* append_text returns false, and so does build_game_id.
NoRoom ==
    /\ at = "append" /\ rest # <<>> /\ Len(game_id) + 1 >= Size /\ at' = "refused"
    /\ UNCHANGED <<bootfile, disc, is_scps, todo, rest, game_id>>

NextText ==
    /\ at = "append" /\ rest = <<>> /\ todo # <<>>
    /\ rest' = Head(todo) /\ todo' = Tail(todo)
    /\ UNCHANGED <<at, bootfile, disc, is_scps, game_id>>

Built ==
    /\ at = "append" /\ rest = <<>> /\ todo = <<>> /\ at' = "built"
    /\ UNCHANGED <<bootfile, disc, is_scps, todo, rest, game_id>>

Next ==
    \/ \E path \in Paths : Build(path)
    \/ NoLookup \/ LookupFails \/ \E d \in Known \cup Unknown : Lookup(d)
    \/ AppendChar \/ NoRoom \/ NextText \/ Built

Spec == Init /\ [][Next]_vars

-----------------------------------------------------------------------------
(* Properties *)

\* The text and the zero behind it never leave the buffer (game_id.c:71).
TypeOK ==
    /\ at \in {"idle", "look", "append", "built", "refused"}
    /\ bootfile \in Paths /\ disc \subseteq Known \cup Unknown /\ is_scps \in BOOLEAN
    /\ todo \in Seq(Text) /\ rest \in Text
    /\ game_id \in Text /\ Len(game_id) < Size

\* The ID of a boot file, from a disc that was looked up: the table's serial
\* with the prefix the table says, else the file's name without directories.
IdOf(path, d) ==
    IF d \cap Known # {}
    THEN LET k == CHOOSE k \in Known : k \in d
         IN  Cdrom \o (IF k \in ScpsDiscs THEN Scps ELSE Slps) \o SerialOf[k] \o Version
    ELSE Cdrom \o Leaf(path)

\* An ID that was built is that of this boot file and this disc, whole, and
\* no other disc looked up before has a part in it (game_id.c:137-138).
IdIsCanonical == at = "built" => game_id = IdOf(bootfile, disc)

\* "Game-ID path is too long" only if it is: the buffer is used to its last
\* byte.
RefusedIfTooLong == at = "refused" => Len(IdOf(bootfile, disc)) >= Size
=============================================================================
