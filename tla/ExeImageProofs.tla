--------------------------- MODULE ExeImageProofs ---------------------------
(***************************************************************************)
(* An executable at the usual addresses never overwrites the loader: for   *)
(* every word size, memory map, header and file.                           *)
(***************************************************************************)
EXTENDS ExeImage, TLAPS

\* The size fits the file from the clamping on, unless the file is shorter
\* than a header; the addresses were checked, and then the overlap.
ImageInv ==
    /\ stage # "read" => fsize < HeaderSize \/ size <= fsize - HeaderSize
    /\ stage \in {"okay", "body", "bios", "started"} => InSegment(addr)
    /\ stage = "body" => ~Large
    /\ stage # "started" => loaded = 0
    /\ LoaderSurvives

\* Every step keeps the fields words.
LEMMA TypeStep == TypeOK /\ [Next]_vars => TypeOK'
<1> SUFFICES ASSUME TypeOK, [Next]_vars PROVE TypeOK'
  OBVIOUS
<1> USE MapAssumption, HeaderAssumption
<1>1. CASE Clamp
  <2>1. fsize \in 0 .. Word - Kseg1 - Window /\ size \in 0 .. Word - 1
    BY DEF TypeOK
  <2>2. Actual \in 0 .. Word - 1
    BY <2>1 DEF Actual, Minus
  <2>3. size' \in 0 .. Word - 1
    BY <1>1, <2>1, <2>2 DEF Clamp
  <2> QED
    BY <1>1, <2>3 DEF Clamp, TypeOK
<1>2. CASE CheckExe
  BY <1>2 DEF CheckExe, TypeOK
<1>3. CASE CheckOverlap
  BY <1>3 DEF CheckOverlap, TypeOK
<1>4. CASE ReadBody
  BY <1>4 DEF ReadBody, Rest, TypeOK
<1>5. CASE UNCHANGED vars
  BY <1>5 DEF vars, TypeOK
<1> QED
  BY <1>1, <1>2, <1>3, <1>4, <1>5 DEF Next

\* Where the overlap test was passed, the loader is out of reach.
LEMMA BodyStep ==
    TypeOK /\ ImageInv /\ ReadBody => LoaderSurvives'
<1> SUFFICES ASSUME TypeOK, ImageInv, ReadBody, addr >= Kseg0, loaded' > 0
             PROVE  Offset(addr) + loaded' <= RoStart - Kseg0
  BY DEF LoaderSurvives, LoaderIntact, ReadBody, Offset
<1> USE MapAssumption, HeaderAssumption
<1>1. /\ addr \in 0 .. Word - 1 /\ size \in 0 .. Word - 1
      /\ fsize \in 0 .. Word - Kseg1 - Window
  BY DEF TypeOK
<1>2. loaded' <= size /\ fsize >= HeaderSize /\ size <= fsize - HeaderSize
  BY <1>1 DEF ReadBody, Rest, ImageInv
<1>3. addr < Kseg1 + Window
  BY <1>1 DEF ReadBody, ImageInv, InSegment
<1>4. addr + size < Word
  BY <1>1, <1>2, <1>3
<1>5. addr + size < RoStart
  BY <1>1, <1>4 DEF ReadBody, ImageInv, Large, Plus
<1>6. addr < Kseg1
  BY <1>1, <1>5
<1>7. loaded' \in Nat
  BY <1>1 DEF ReadBody, Rest
<1>8. Offset(addr) = addr - Kseg0
  BY <1>1, <1>6 DEF Offset
<1>9. addr - Kseg0 + loaded' <= RoStart - Kseg0
  <2>1. addr \in Int /\ size \in Int /\ loaded' \in Int
    BY <1>1, <1>7
  <2>2. RoStart \in Int /\ Kseg0 \in Int
    OBVIOUS
  <2>3. \A a, z, l, r, b \in Int : a + z < r /\ l <= z => a - b + l <= r - b
    OBVIOUS
  <2> QED
    BY <1>2, <1>5, <2>1, <2>2, <2>3
<1> QED
  BY <1>8, <1>9

\* The types and the invariant hold in every state.
THEOREM ImageInvariant == Spec => [](TypeOK /\ ImageInv)
<1> USE MapAssumption, HeaderAssumption, InputAssumption
<1>1. Init => TypeOK /\ ImageInv
  BY DEF Init, TypeOK, ImageInv, LoaderSurvives, LoaderIntact
<1>2. TypeOK /\ ImageInv /\ [Next]_vars => ImageInv'
  <2> SUFFICES ASSUME TypeOK, ImageInv, [Next]_vars PROVE ImageInv'
    OBVIOUS
  <2>1. CASE Clamp
    BY <2>1 DEF Clamp, Actual, Minus, TypeOK, ImageInv, LoaderSurvives, LoaderIntact
  <2>2. CASE CheckExe
    BY <2>2 DEF CheckExe, exe_file_okay, TypeOK, ImageInv, InSegment,
       LoaderSurvives, LoaderIntact
  <2>3. CASE CheckOverlap
    BY <2>3 DEF CheckOverlap, TypeOK, ImageInv, InSegment, Large, Plus,
       LoaderSurvives, LoaderIntact
  <2>4. CASE ReadBody
    BY <2>4, BodyStep DEF ReadBody, TypeOK, ImageInv, InSegment
  <2>5. CASE UNCHANGED vars
    BY <2>5 DEF vars, ImageInv, InSegment, Large, Plus, LoaderSurvives,
       LoaderIntact, Offset
  <2> QED
    BY <2>1, <2>2, <2>3, <2>4, <2>5 DEF Next
<1> QED
  BY <1>1, <1>2, TypeStep, PTL DEF Spec

\* The fields of the header stay words.
THEOREM ImageTyped == Spec => []TypeOK
BY ImageInvariant, PTL

\* The loader is intact as long as it copies an executable at the usual
\* addresses.
THEOREM LoaderIsSafe == Spec => []LoaderSurvives
<1>1. ImageInv => LoaderSurvives
  BY DEF ImageInv
<1> QED
  BY <1>1, ImageInvariant, PTL
=============================================================================
