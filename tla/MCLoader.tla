------------------------------ MODULE MCLoader ------------------------------
(* Constants for model-checking Loader. *)
EXTENDS Loader, TLC

CONSTANTS retail, import, early, blank

Names == {"PSX.EXE", "SLUS"}

Entry(licensed, pal_, cnf, boot, files, serial, exe) ==
    [licensed |-> licensed, pal |-> pal_, cnf |-> cnf, boot |-> boot,
     files |-> files, serial |-> serial, exe |-> exe]

\* retail  a licensed NTSC disc; it also holds a file named PSX.EXE
\* import  an unlicensed PAL disc whose game overlaps the loader
\* early   a licensed PSX.EXE-only disc that the table knows
\* blank   readable, but nothing that boots
MCInfo == (retail :> Entry(TRUE, FALSE, "boot", "SLUS", Names, FALSE, "fits"))
       @@ (import :> Entry(FALSE, TRUE, "boot", "SLUS", {"SLUS"}, FALSE, "large"))
       @@ (early  :> Entry(TRUE, FALSE, "none", "SLUS", {"PSX.EXE"}, TRUE, "fits"))
       @@ (blank  :> Entry(TRUE, TRUE, "plain", "SLUS", {"PSX.EXE"}, FALSE, "refused"))

\* The default build on a PlayStation and WAIT_FOR_SWAP on a PlayStation 2,
\* where the video standard is left alone.
MCSetups == {[swap |-> FALSE, ps1 |-> TRUE], [swap |-> TRUE, ps1 |-> FALSE]}
SwapSetups == {[swap |-> TRUE, ps1 |-> FALSE]}
=============================================================================
