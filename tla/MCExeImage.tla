----------------------------- MODULE MCExeImage -----------------------------
(***************************************************************************)
(* ExeImage with words of seven bits: windows of 16 bytes at 0, 64 and 80  *)
(* hold the addresses, the loader begins 10 bytes into them.               *)
(***************************************************************************)
EXTENDS ExeImage

MCAddresses == {0, 2, 8, 9, 12, 15, 16, 64, 65, 68, 73, 74, 79, 80, 82, 95, 96, 127}
MCSizes == (0 .. 14) \cup {60, 110, 120, 127}
MCFileSizes == 0 .. 17
=============================================================================
