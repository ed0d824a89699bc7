------------------------------ MODULE ExeImage ------------------------------
(***************************************************************************)
(* What loader_boot_disc does with the header of the game's executable:    *)
(* the size is clamped to the file, the addresses are checked, and a game  *)
(* that would be loaded over the loader is left to the BIOS.  Addresses    *)
(* and sizes are words of the processor: their sums and differences wrap.  *)
(*                                                                         *)
(* The same memory is seen at three addresses: from 0 (KUSEG), from Kseg0  *)
(* and, uncached, from Kseg1.  The loader is linked for Kseg0.             *)
(***************************************************************************)
EXTENDS Integers

CONSTANTS
    Word,           \* one more than the greatest word: 2^32
    Window,         \* how much of each segment an address may lie in: 8 MB
    Kseg0, Kseg1,   \* 80000000h and A0000000h
    RoStart,        \* &__RO_START__, where the loader begins
    HeaderSize,     \* 2048
    Addresses, Sizes, FileSizes     \* the headers and files considered

ASSUME MapAssumption ==
    /\ Word \in Nat /\ Window \in Nat /\ Kseg0 \in Nat /\ Kseg1 \in Nat
    /\ 0 < Window /\ Window <= Kseg0 /\ Kseg0 + Window <= Kseg1 /\ Kseg1 + Window <= Word
    /\ RoStart \in Nat /\ Kseg0 < RoStart /\ RoStart < Kseg0 + Window
ASSUME HeaderAssumption == HeaderSize \in 1 .. Word - 1
ASSUME InputAssumption ==
    Addresses \subseteq 0 .. Word - 1 /\ Sizes \subseteq 0 .. Word - 1
    \* A disc holds less than the 1.5 GB above the last window.
    /\ FileSizes \subseteq 0 .. Word - Kseg1 - Window

VARIABLES
    stage,      \* "read", "clamped", "okay", then "body" or "bios" or "refused"; "started"
    addr, size, start,  \* load_addr, load_size and initial_pc of the header
    fsize,      \* the size in the file control block
    loaded      \* how many bytes FileRead put at addr

vars == <<stage, addr, size, start, fsize, loaded>>

\* Sum and difference of two words.
Plus(x, y)  == IF x + y >= Word THEN x + y - Word ELSE x + y
Minus(x, y) == IF x < y THEN x - y + Word ELSE x - y

Init ==
    /\ stage = "read" /\ loaded = 0
    /\ addr \in Addresses /\ start \in Addresses /\ size \in Sizes /\ fsize \in FileSizes

\* Mutant: the difference is signed.
ActualSigned == fsize - HeaderSize

\* actual_exe_size; a file shorter than a header has a very large one.
Actual == Minus(fsize, HeaderSize)

\* Mutant: the size is what the header says.
Unclamped ==
    /\ stage = "read" /\ stage' = "clamped"
    /\ UNCHANGED <<addr, size, start, fsize, loaded>>

Clamp ==
    /\ stage = "read" /\ stage' = "clamped"
    /\ size' = IF Actual < size THEN Actual ELSE size
    /\ UNCHANGED <<addr, start, fsize, loaded>>

\* The masks FF800000h and FF800003h.
InSegment(a) == \E base \in {0, Kseg0, Kseg1} : base <= a /\ a < base + Window
exe_file_okay == InSegment(addr) /\ InSegment(start) /\ start % 4 = 0

CheckExe ==
    /\ stage = "clamped" /\ stage' = (IF exe_file_okay THEN "okay" ELSE "refused")
    /\ UNCHANGED <<addr, size, start, fsize, loaded>>

\* Mutant: only the first byte is compared.
LargeByStart == addr >= RoStart

Large == Plus(addr, size) >= RoStart

CheckOverlap ==
    /\ stage = "okay" /\ stage' = (IF Large THEN "bios" ELSE "body")
    /\ UNCHANGED <<addr, size, start, fsize, loaded>>

\* FileRead delivers what was asked for, as far as the file goes.
Rest == IF fsize < HeaderSize THEN 0 ELSE fsize - HeaderSize

ReadBody ==
    /\ stage = "body" /\ stage' = "started"
    /\ loaded' = IF size < Rest THEN size ELSE Rest
    /\ UNCHANGED <<addr, size, start, fsize>>

Next == Clamp \/ CheckExe \/ CheckOverlap \/ ReadBody

Spec == Init /\ [][Next]_vars

-----------------------------------------------------------------------------
(* Properties *)

\* The fields stay words, the size also after it was taken from the file.
TypeOK ==
    /\ stage \in {"read", "clamped", "okay", "refused", "body", "bios", "started"}
    /\ addr \in 0 .. Word - 1 /\ size \in 0 .. Word - 1 /\ start \in 0 .. Word - 1
    /\ fsize \in 0 .. Word - Kseg1 - Window /\ loaded \in 0 .. Word - 1

\* Where in the memory an address lies.
Offset(a) == IF a >= Kseg1 THEN a - Kseg1 ELSE IF a >= Kseg0 THEN a - Kseg0 ELSE a

\* None of the bytes loaded lies in the loader.
LoaderIntact == loaded > 0 => Offset(addr) + loaded <= RoStart - Kseg0

\* An executable at the usual addresses, or at the uncached ones, never
\* overwrites the loader that is still copying it, however the sizes in the
\* header and the file control block disagree (loader.c:422-444).
LoaderSurvives == addr >= Kseg0 => LoaderIntact

\* "If the game would overlap our own image, we cannot load it manually"
\* (loader.c:432-433), whichever address it is loaded at.
OverlapIsLeftToBios == LoaderIntact
=============================================================================
