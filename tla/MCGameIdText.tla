---------------------------- MODULE MCGameIdText ----------------------------
(***************************************************************************)
(* GameIdText with a buffer of eight bytes.  "px" is what PSX.EXE is to    *)
(* the code; the paths differ in case, directories and version; names and  *)
(* serials just fit, or are too long by one or more.                       *)
(***************************************************************************)
EXTENDS GameIdText

MCChar == {"d", "p", "P", "x", ":", "/", ";", "1", "2", "c", "l"}
MCExpected == <<"p", "x">>
MCCdrom == <<"d", ":">>
MCScps == <<"c">>
MCSlps == <<"l">>
MCVersion == <<";", "1">>
MCLower == [c \in MCChar |-> IF c = "P" THEN "p" ELSE c]
MCPaths == {<<>>, <<"p">>, <<"p", "x">>, <<"d", ":", "/", "P", "x", ";", "1">>,
            <<"p", "x", "/", "x", "p">>, <<"2", "/", "p", "x", "1">>, <<"p", "x", ":">>,
            <<"d", ":", "1", "1", "2", ";", "1">>, <<"2", "1", "1", "1", "1", "2">>,
            <<"/", "1", "2", "1", "2", "1", "2", "2">>}

\* Discs a and c have the other prefix; the serials of c and d differ in
\* that one of them is too long.
MCSerials == [a |-> <<"1">>, b |-> <<"2">>, c |-> <<"1", "2">>, d |-> <<"2", "1", "1">>]
MCNoSerial == <<"P">>
=============================================================================
