-------------------------------- MODULE MCCnf --------------------------------
(***************************************************************************)
(* Cnf with all texts of up to five of six characters, and files of three  *)
(* lines: values too long for a word of two digits, a name without a       *)
(* value, a name that begins another one, a name that is not at the start. *)
(***************************************************************************)
EXTENDS Cnf

MCChar == {"T", "B", "1", "=", " ", "n"}
MCDigit == [c \in MCChar |-> CASE c = "1" -> 1 [] c = "B" -> 11 [] OTHER -> 16]
MCHex == <<<<"T">>, <<"B">>>>
MCBoot == <<"B", "T">>

MCLines == {<<>>, <<"T", "=", "1">>, <<"T", " ", "1", "B", "T", "1">>, <<"B", "T", "=">>,
            <<"B", "T", "=", " ", "1", " ", "B">>, <<"B", "T", "T", "=", "B">>,
            <<" ", "T", "=", "B">>, <<"B">>}
MCTexts ==
    UNION {[1 .. n -> MCChar] : n \in 0 .. 5}
    \cup {a \o <<"n">> \o b \o <<"n">> \o c : a \in MCLines, b \in MCLines, c \in MCLines}
=============================================================================
