------------------------------ MODULE CnfProofs ------------------------------
(***************************************************************************)
(* For every text, every list of names and every width of a word: the      *)
(* cursor stays in the text, a value is stored exactly if a line has the   *)
(* name, and it is the value that the first such line gives.               *)
(***************************************************************************)
EXTENDS Cnf, FiniteSetTheorems, SequenceTheorems, TLAPS

\* While a call looks for its name, no line above the cursor has it; once it
\* reads a value, some line has.
FindInv ==
    /\ at = "find" => LineStart(config) /\ \A i \in 1 .. config - 1 : ~Holds(i, NameOf(call))
    /\ at \in {"digits", "skip", "copy"} =>
          \E i \in 1 .. Len(text) + 1 : Holds(i, NameOf(call))
    /\ at = "done" => call = Len(Hex) + 1
    /\ \A c \in Calls : ~Returned(c) => result[c] = Default

\* A call reads digits only for a hexadecimal value, copies only for a word.
KindInv ==
    /\ at = "digits" => call <= Len(Hex)
    /\ at \in {"skip", "copy"} => call > Len(Hex)

CnfInv == TypeOK /\ KindInv /\ FindInv /\ StoredIfPresent

\* The names that are asked for, and how many.
LEMMA ConstantFacts ==
    /\ Len(Hex) \in Nat /\ Calls = 1 .. Len(Hex) + 1
    /\ \A c \in Calls : NameOf(c) \in Seq(Char \ {Newline}) /\ Len(NameOf(c)) \in Nat
<1>1. Hex \in Seq(Seq(Char \ {Newline})) /\ Boot \in Seq(Char \ {Newline})
  BY NameAssumption
<1>2. Len(Hex) \in Nat
  BY <1>1
<1>3. ASSUME NEW c \in Calls
      PROVE  NameOf(c) \in Seq(Char \ {Newline}) /\ Len(NameOf(c)) \in Nat
  <2>1. NameOf(c) \in Seq(Char \ {Newline})
    BY <1>1, <1>2 DEF NameOf, Calls
  <2> QED
    BY <2>1
<1> QED
  BY <1>2, <1>3 DEF Calls

\* A word shifted by a digit keeps its width.
LEMMA ShiftedWord ==
    ASSUME NEW w \in Word, NEW d \in 0 .. 15
    PROVE  Append(Tail(w), d) \in Word
<1> USE NibblesAssumption
<1>1. w \in Seq(0 .. 15) /\ Len(w) = Nibbles
  BY DEF Word
<1>2. w # <<>>
  BY <1>1
<1>3. Tail(w) \in Seq(0 .. 15) /\ Len(Tail(w)) = Nibbles - 1
  BY <1>1, <1>2, HeadTailProperties
<1>4. Append(Tail(w), d) \in Seq(0 .. 15) /\ Len(Append(Tail(w), d)) = Nibbles
  BY <1>3, AppendProperties
<1> QED
  BY <1>4, LenProperties DEF Word

\* Returning from a call keeps the types of what it resets.
LEMMA ReturnTypes ==
    TypeOK /\ Return /\ text' = text =>
        /\ call' \in Calls /\ at' \in {"find", "digits", "skip", "copy", "done"}
        /\ config' \in 1 .. Len(text') + 1 /\ parsed' \in Word /\ value' \in Seq(Char)
<1> SUFFICES ASSUME TypeOK, Return, text' = text
             PROVE  /\ call' \in Calls
                    /\ at' \in {"find", "digits", "skip", "copy", "done"}
                    /\ config' \in 1 .. Len(text') + 1
                    /\ parsed' \in Word /\ value' \in Seq(Char)
  OBVIOUS
<1>1. text \in Seq(Char) /\ Len(text) \in Nat /\ call \in Calls
  BY DEF TypeOK
<1>2. call' \in Calls
  BY <1>1, ConstantFacts DEF Return
<1>3. parsed' \in Word
  BY DEF Return, Nought, Word
<1>4. config' \in 1 .. Len(text') + 1
  BY <1>1 DEF Return
<1> QED
  BY <1>2, <1>3, <1>4 DEF Return

\* What a call stores is a word or a text, as its kind is.
LEMMA StoreTypes ==
    ASSUME TypeOK, NEW v, Store(v),
           v \in (IF call <= Len(Hex) THEN Word ELSE Seq(Char))
    PROVE  /\ result' = [c \in Calls |-> result'[c]]
           /\ \A c \in Calls : result'[c] = IF c = call THEN {v} ELSE result[c]
           /\ \A c \in Calls : result'[c] \subseteq (IF c <= Len(Hex) THEN Word ELSE Seq(Char))
<1>1. result = [c \in Calls |-> result[c]] /\ call \in Calls
  BY DEF TypeOK
<1>2. result' = [c \in Calls |-> IF c = call THEN {v} ELSE result[c]]
  BY <1>1 DEF Store
<1>3. \A c \in Calls : result'[c] = IF c = call THEN {v} ELSE result[c]
  BY <1>2
<1>4. result' = [c \in Calls |-> result'[c]]
  BY <1>2
<1>5. ASSUME NEW c \in Calls
      PROVE  result'[c] \subseteq (IF c <= Len(Hex) THEN Word ELSE Seq(Char))
  BY <1>3 DEF TypeOK
<1> QED
  BY <1>3, <1>4, <1>5

\* Every step keeps the types, the cursor within the text among them.
LEMMA TypeStep == TypeOK /\ KindInv /\ [Next]_vars => TypeOK'
<1> SUFFICES ASSUME TypeOK, KindInv, [Next]_vars PROVE TypeOK'
  OBVIOUS
<1>1. /\ text \in Seq(Char) /\ Len(text) \in Nat /\ call \in Calls
      /\ config \in 1 .. Len(text) + 1 /\ Len(NameOf(call)) \in Nat
  BY ConstantFacts DEF TypeOK
<1>2. CASE Found
  <2>1. config' \in 1 .. Len(text) + 1
    BY <1>1, <1>2 DEF Found, StartsWith
  <2> QED
    BY <1>2, <2>1 DEF Found, TypeOK
<1>3. CASE NextLine
  <2>1. config' \in 1 .. Len(text) + 1
    BY <1>1, <1>3 DEF NextLine
  <2> QED
    BY <1>3, <2>1 DEF NextLine, TypeOK
<1>4. CASE Missing
  BY <1>4, ReturnTypes DEF Missing, TypeOK
<1>5. CASE ParseDigit
  <2>1. config' \in 1 .. Len(text) + 1 /\ text[config] \in Char
    BY <1>1, <1>5 DEF ParseDigit, IsNext
  <2>2. parsed' \in Word
    <3>1. CASE Digit[text[config]] < 16
      <4>1. Digit[text[config]] \in 0 .. 15
        <5>1. Digit \in [Char -> Nat]
          BY CharAssumption
        <5>2. Digit[text[config]] \in Nat
          BY <2>1, <5>1
        <5> QED
          BY <3>1, <5>2
      <4>2. parsed \in Word
        BY DEF TypeOK
      <4>3. Append(Tail(parsed), Digit[text[config]]) \in Word
        BY <4>1, <4>2, ShiftedWord
      <4> QED
        BY <1>5, <3>1, <4>3 DEF ParseDigit
    <3>2. CASE ~(Digit[text[config]] < 16)
      BY <1>5, <3>2 DEF ParseDigit, TypeOK
    <3> QED
      BY <3>1, <3>2
  <2> QED
    BY <1>5, <2>1, <2>2 DEF ParseDigit, TypeOK
<1>6. CASE EndOfDigits
  <2>1. parsed \in (IF call <= Len(Hex) THEN Word ELSE Seq(Char))
    BY <1>6 DEF EndOfDigits, KindInv, TypeOK
  <2>2. Store(parsed) /\ Return /\ text' = text
    BY <1>6 DEF EndOfDigits
  <2>3. /\ result' = [c \in Calls |-> result'[c]]
        /\ \A c \in Calls : result'[c] \subseteq (IF c <= Len(Hex) THEN Word ELSE Seq(Char))
    BY <2>1, <2>2, StoreTypes
  <2> QED
    BY <2>2, <2>3, <1>1, ReturnTypes DEF TypeOK
<1>7. CASE SkipChar
  <2>1. config' \in 1 .. Len(text) + 1
    BY <1>1, <1>7 DEF SkipChar, IsNext
  <2> QED
    BY <1>7, <2>1 DEF SkipChar, TypeOK
<1>8. CASE EndOfSkip
  BY <1>8 DEF EndOfSkip, TypeOK
<1>9. CASE CopyChar
  <2>1. config' \in 1 .. Len(text) + 1 /\ value' \in Seq(Char)
    BY <1>1, <1>9 DEF CopyChar, IsNext, TypeOK
  <2> QED
    BY <1>9, <2>1 DEF CopyChar, TypeOK
<1>10. CASE EndOfWord
  <2>1. value \in (IF call <= Len(Hex) THEN Word ELSE Seq(Char))
    BY <1>1, <1>10, ConstantFacts DEF EndOfWord, KindInv, TypeOK
  <2>2. Store(value) /\ Return /\ text' = text
    BY <1>10 DEF EndOfWord
  <2>3. /\ result' = [c \in Calls |-> result'[c]]
        /\ \A c \in Calls : result'[c] \subseteq (IF c <= Len(Hex) THEN Word ELSE Seq(Char))
    BY <2>1, <2>2, StoreTypes
  <2> QED
    BY <2>2, <2>3, <1>1, ReturnTypes DEF TypeOK
<1>11. CASE UNCHANGED vars
  BY <1>11 DEF vars, TypeOK
<1> QED
  BY <1>2, <1>3, <1>4, <1>5, <1>6, <1>7, <1>8, <1>9, <1>10, <1>11 DEF Next

\* The kind of the loop fits the kind of the value.
LEMMA KindStep == TypeOK /\ KindInv /\ [Next]_vars => KindInv'
<1> SUFFICES ASSUME TypeOK, KindInv, [Next]_vars PROVE KindInv'
  OBVIOUS
<1>1. call \in 1 .. Len(Hex) + 1 /\ Len(Hex) \in Nat
  BY ConstantFacts DEF TypeOK
<1>2. CASE Found
  BY <1>1, <1>2 DEF KindInv, Found
<1>3. CASE NextLine \/ ParseDigit \/ SkipChar \/ EndOfSkip \/ CopyChar
  BY <1>3 DEF KindInv, NextLine, ParseDigit, SkipChar, EndOfSkip, CopyChar
<1>4. CASE Missing \/ EndOfDigits \/ EndOfWord
  BY <1>4 DEF KindInv, Missing, EndOfDigits, EndOfWord, Return
<1>5. CASE UNCHANGED vars
  BY <1>5 DEF KindInv, vars
<1> QED
  BY <1>2, <1>3, <1>4, <1>5 DEF Next

\* No line begins between the cursor and the next newline but the one that
\* the cursor is at.
LEMMA NextLineStart ==
    ASSUME TypeOK, NEW i \in config .. Len(text), NextNewline(i)
    PROVE  LineStart(i + 1) /\ \A j \in config + 1 .. i : ~LineStart(j)
<1>1. config \in 1 .. Len(text) + 1 /\ Len(text) \in Nat
  BY DEF TypeOK
<1>2. LineStart(i + 1)
  BY <1>1 DEF NextNewline, LineStart
<1>3. ASSUME NEW j \in config + 1 .. i PROVE ~LineStart(j)
  BY <1>1 DEF NextNewline, LineStart
<1> QED
  BY <1>2, <1>3

\* If no newline follows, no line begins behind the cursor.
LEMMA LastLine ==
    ASSUME TypeOK, NoNewline, NEW j \in config + 1 .. Len(text) + 1
    PROVE  ~LineStart(j)
  BY DEF TypeOK, NoNewline, LineStart

\* A call that returns leaves the other calls' results; what it says of its
\* own name agrees with the text.
LEMMA ReturnStep ==
    ASSUME TypeOK, FindInv, StoredIfPresent, Return, text' = text, at # "done",
           \A c \in Calls : c # call => result'[c] = result[c],
           result'[call] # Default <=> \E i \in 1 .. Len(text) + 1 : Holds(i, NameOf(call))
    PROVE  FindInv' /\ StoredIfPresent'
<1>1. call \in 1 .. Len(Hex) + 1 /\ Len(Hex) \in Nat /\ Calls = 1 .. Len(Hex) + 1
  BY ConstantFacts DEF TypeOK
<1>2. \A i : \A n : Holds(i, n)' <=> Holds(i, n)
  BY DEF Holds, LineStart, StartsWith
<1>3. ASSUME NEW c \in Calls PROVE Returned(c)' <=> Returned(c) \/ c = call
  BY <1>1 DEF Returned, Return
<1>4. ~Returned(call)
  BY <1>1 DEF Returned
<1>5. ASSUME NEW c \in Calls, Returned(c)'
      PROVE  result'[c] # Default <=> \E i \in 1 .. Len(text') + 1 : Holds(i, NameOf(c))'
  <2>1. CASE c = call
    BY <2>1, <1>2
  <2>2. CASE c # call
    BY <2>2, <1>2, <1>3, <1>5 DEF StoredIfPresent
  <2> QED
    BY <2>1, <2>2
<1>6. StoredIfPresent'
  BY <1>5 DEF StoredIfPresent, NameOf
<1>7. ASSUME NEW c \in Calls, ~Returned(c)' PROVE result'[c] = Default
  BY <1>3, <1>4, <1>7 DEF FindInv
<1>8. at' = "find" => LineStart(config)' /\ \A i \in 1 .. config' - 1 : ~Holds(i, NameOf(call))'
  BY DEF Return, LineStart
<1>9. at' \in {"find", "done"} /\ (at' = "done" => call' = Len(Hex) + 1)
  BY DEF Return
<1> QED
  BY <1>6, <1>7, <1>8, <1>9 DEF FindInv

\* Every step keeps the names stored in agreement with the text.
LEMMA FindStep ==
    TypeOK /\ KindInv /\ FindInv /\ StoredIfPresent /\ [Next]_vars
        => FindInv' /\ StoredIfPresent'
<1> SUFFICES ASSUME TypeOK, KindInv, FindInv, StoredIfPresent, [Next]_vars
             PROVE  FindInv' /\ StoredIfPresent'
  OBVIOUS
<1>1. /\ call \in 1 .. Len(Hex) + 1 /\ Len(Hex) \in Nat /\ Calls = 1 .. Len(Hex) + 1
      /\ Len(text) \in Nat /\ config \in 1 .. Len(text) + 1
  BY ConstantFacts DEF TypeOK
<1> DEFINE Present(n) == \E i \in 1 .. Len(text) + 1 : Holds(i, n)
<1>2. ASSUME text' = text PROVE \A i : \A n : Holds(i, n)' <=> Holds(i, n)
  BY <1>2 DEF Holds, LineStart, StartsWith
\* A step within a call: only the first two parts of FindInv have anything
\* to say.
<1>3. ASSUME text' = text, call' = call, result' = result, at # "done", at' # "done",
             at' = "find" => LineStart(config)' /\ \A i \in 1 .. config' - 1 : ~Holds(i, NameOf(call)),
             at' \in {"digits", "skip", "copy"} => Present(NameOf(call))
      PROVE  FindInv' /\ StoredIfPresent'
  <2>1. \A c \in Calls : Returned(c)' <=> Returned(c)
    BY <1>3 DEF Returned
  <2>2. StoredIfPresent'
    BY <1>2, <1>3, <2>1 DEF StoredIfPresent, NameOf
  <2>3. \A c \in Calls : ~Returned(c)' => result'[c] = Default
    BY <1>3, <2>1 DEF FindInv
  <2>4. at' = "find" => LineStart(config)' /\ \A i \in 1 .. config' - 1 : ~Holds(i, NameOf(call))'
    BY <1>2, <1>3 DEF NameOf
  <2>5. at' \in {"digits", "skip", "copy"} =>
            \E i \in 1 .. Len(text') + 1 : Holds(i, NameOf(call))'
    BY <1>2, <1>3 DEF NameOf
  <2> QED
    BY <1>3, <2>2, <2>3, <2>4, <2>5 DEF FindInv
<1>4. CASE Found
  <2>1. LineStart(config) /\ StartsWith(config, NameOf(call))
    BY <1>4 DEF Found, FindInv
  <2>2. Present(NameOf(call))
    BY <1>1, <2>1 DEF Holds
  <2> QED
    BY <1>3, <1>4, <2>2 DEF Found
<1>5. CASE NextLine
  <2>1. PICK i \in config .. Len(text) : NextNewline(i) /\ config' = i + 1
    BY <1>5 DEF NextLine
  <2>2. LineStart(i + 1) /\ \A j \in config + 1 .. i : ~LineStart(j)
    BY <2>1, NextLineStart
  <2>3. ~Holds(config, NameOf(call)) /\ \A j \in 1 .. config - 1 : ~Holds(j, NameOf(call))
    BY <1>5 DEF NextLine, FindInv, Holds
  <2>4. ASSUME NEW j \in 1 .. config' - 1 PROVE ~Holds(j, NameOf(call))
    <3>1. j \in 1 .. config - 1 \/ j = config \/ j \in config + 1 .. i
      BY <1>1, <2>1
    <3> QED
      BY <2>2, <2>3, <3>1 DEF Holds
  <2>5. LineStart(config)'
    BY <1>5, <2>1, <2>2 DEF NextLine, LineStart
  <2> QED
    BY <1>3, <1>5, <2>4, <2>5 DEF NextLine
<1>6. CASE Missing
  <2>1. ASSUME NEW j \in 1 .. Len(text) + 1 PROVE ~Holds(j, NameOf(call))
    <3>1. j \in 1 .. config - 1 \/ j = config \/ j \in config + 1 .. Len(text) + 1
      BY <1>1
    <3>2. CASE j \in 1 .. config - 1
      BY <1>6, <3>2 DEF Missing, FindInv
    <3>3. CASE j = config
      BY <1>6, <3>3 DEF Missing, Holds
    <3>4. CASE j \in config + 1 .. Len(text) + 1
      BY <1>6, <3>4, LastLine DEF Missing, Holds
    <3> QED
      BY <3>1, <3>2, <3>3, <3>4
  <2>2. result[call] = Default
    BY <1>1, <1>6 DEF Missing, FindInv, Returned
  <2> QED
    BY <1>6, <2>1, <2>2, ReturnStep DEF Missing
<1>7. CASE EndOfDigits \/ EndOfWord
  <2>1. PICK v : Store(v)
    BY <1>7 DEF EndOfDigits, EndOfWord
  <2>2. call \in Calls /\ result = [c \in Calls |-> result[c]]
    BY DEF TypeOK
  <2>3. result'[call] = {v} /\ \A c \in Calls : c # call => result'[c] = result[c]
    BY <2>1, <2>2 DEF Store
  <2>4. Present(NameOf(call))
    BY <1>7 DEF EndOfDigits, EndOfWord, FindInv
  <2> QED
    BY <1>7, <2>3, <2>4, ReturnStep DEF EndOfDigits, EndOfWord, Default
<1>8. CASE ParseDigit \/ SkipChar \/ EndOfSkip \/ CopyChar
  <2>1. Present(NameOf(call))
    BY <1>8 DEF ParseDigit, SkipChar, EndOfSkip, CopyChar, FindInv
  <2> QED
    BY <1>3, <1>8, <2>1 DEF ParseDigit, SkipChar, EndOfSkip, CopyChar
<1>9. CASE UNCHANGED vars
  <2>1. UNCHANGED <<text, call, at, config, result>>
    BY <1>9 DEF vars
  <2>2. \A i : \A n : Holds(i, n)' <=> Holds(i, n)
    BY <1>2, <2>1
  <2>3. StoredIfPresent'
    BY <2>1, <2>2 DEF StoredIfPresent, Returned, NameOf
  <2>4. FindInv'
    BY <2>1, <2>2 DEF FindInv, Returned, LineStart, NameOf
  <2> QED
    BY <2>3, <2>4
<1> QED
  BY <1>4, <1>5, <1>6, <1>7, <1>8, <1>9 DEF Next

\* The invariant that the parser keeps.
LEMMA CnfInvariant == Spec => []CnfInv
<1>1. Init => CnfInv
  <2> SUFFICES ASSUME Init PROVE CnfInv
    OBVIOUS
  <2>1. Len(Hex) \in Nat /\ Calls = 1 .. Len(Hex) + 1
    BY ConstantFacts
  <2>2. text \in Seq(Char) /\ Len(text) \in Nat
    BY TextAssumption DEF Init
  <2>3. \A c \in Calls : result[c] = Default /\ ~Returned(c)
    BY <2>1 DEF Init, Returned
  <2>4. result = [c \in Calls |-> result[c]]
    BY DEF Init
  <2>5. TypeOK
    BY <2>1, <2>2, <2>3, <2>4 DEF Init, TypeOK, Nought, Word, Default
  <2>6. KindInv /\ FindInv
    BY <2>3 DEF Init, KindInv, FindInv, LineStart
  <2>7. StoredIfPresent
    BY <2>3 DEF StoredIfPresent
  <2> QED
    BY <2>5, <2>6, <2>7 DEF CnfInv
<1>2. CnfInv /\ [Next]_vars => CnfInv'
  BY TypeStep, KindStep, FindStep DEF CnfInv
<1> QED
  BY <1>1, <1>2, PTL DEF Spec

\* The cursor never passes the end of the text (cfgparse.c:39-45, 59-69).
THEOREM CursorInText == Spec => []TypeOK
<1>1. CnfInv => TypeOK
  BY DEF CnfInv
<1> QED
  BY <1>1, CnfInvariant, PTL

\* A name that some line begins with is never reported missing, and no value
\* is stored for any other (cfgparse.c:12-28).
THEOREM PresentIsStored == Spec => []StoredIfPresent
<1>1. CnfInv => StoredIfPresent
  BY DEF CnfInv
<1> QED
  BY <1>1, CnfInvariant, PTL
-----------------------------------------------------------------------------
(* The values *)

\* Between the name of call c and the place q stands no newline, and the
\* digits there make the word w.
DigitsRead(c, q, w) ==
    LET p == ValuePlace(c)
    IN  /\ p \in 1 .. q /\ \A i \in p .. q - 1 : text[i] # Newline
        /\ w = WordOf(DigitsIn(p, q - 1))

\* Nothing but blanks and equals signs is between the name and q.
Skipped(c, q) ==
    LET p == ValuePlace(c)
    IN  p \in 1 .. q /\ \A i \in p .. q - 1 : text[i] \in Blank \cup {Equals}

\* v is the part of the first word behind the name that is in front of q.
Copied(c, q, v) ==
    LET s == FirstFrom(ValuePlace(c), Char \ (Blank \cup {Equals}))
    IN  /\ s \in 1 .. q /\ \A i \in s .. q - 1 : text[i] \notin Blank
        /\ v = SubSeq(text, s, q - 1)

\* What the loops have read so far is what stands between the name and the
\* cursor.
ReadInv ==
    /\ at = "find" => parsed = Nought /\ value = <<>>
    /\ at = "digits" => DigitsRead(call, config, parsed)
    /\ at = "skip" => Skipped(call, config) /\ value = <<>>
    /\ at = "copy" => Copied(call, config, value)

\* What a reader of the file takes call c to have to store.
Wanted(c) == IF c <= Len(Hex) THEN LineValue(ValuePlace(c)) ELSE WordAfter(ValuePlace(c))

\* What is read out of a text depends on nothing but the text.
LEMMA SameText ==
    ASSUME text' = text
    PROVE  /\ \A c : Wanted(c)' = Wanted(c)
           /\ \A c, q, w : DigitsRead(c, q, w)' <=> DigitsRead(c, q, w)
           /\ \A c, q : Skipped(c, q)' <=> Skipped(c, q)
           /\ \A c, q, v : Copied(c, q, v)' <=> Copied(c, q, v)
<1>1. ASSUME NEW c PROVE ValuePlace(c)' = ValuePlace(c)
  BY DEF ValuePlace, Holds, LineStart, StartsWith, First, NameOf
<1>2. ASSUME NEW p PROVE LineValue(p)' = LineValue(p)
  BY DEF LineValue, WordOf, DigitsIn, FirstFrom, First, NthLast
<1>3. ASSUME NEW p, NEW set PROVE FirstFrom(p, set)' = FirstFrom(p, set)
  BY DEF FirstFrom, First
<1>4. ASSUME NEW p PROVE WordAfter(p)' = WordAfter(p)
  BY <1>3 DEF WordAfter
<1>5. ASSUME NEW p, NEW q PROVE WordOf(DigitsIn(p, q))' = WordOf(DigitsIn(p, q))
  BY DEF WordOf, DigitsIn, NthLast
<1>6. ASSUME NEW c PROVE Wanted(c)' = Wanted(c)
  BY <1>1, <1>2, <1>4 DEF Wanted
<1>7. ASSUME NEW c, NEW q, NEW w PROVE DigitsRead(c, q, w)' <=> DigitsRead(c, q, w)
  BY <1>1, <1>5 DEF DigitsRead
<1>8. ASSUME NEW c, NEW q PROVE Skipped(c, q)' <=> Skipped(c, q)
  BY <1>1 DEF Skipped
<1>9. ASSUME NEW c, NEW q, NEW v PROVE Copied(c, q, v)' <=> Copied(c, q, v)
  BY <1>1, <1>3 DEF Copied
<1> QED
  BY <1>6, <1>7, <1>8, <1>9

\* The first place of a set is the one that no other is in front of.
LEMMA FirstFact ==
    ASSUME NEW set \in SUBSET Nat, NEW m \in set, \A j \in set : m <= j
    PROVE  First(set) = m
<1>1. \A i \in set : (\A j \in set : i <= j) => i = m
  OBVIOUS
<1>2. First(set) = CHOOSE i \in set : \A j \in set : i <= j
  BY DEF First
<1> QED
  BY <1>1, <1>2

\* Where a stretch ends in which none of the characters occurs: at the first
\* of them, or at the end of the text.
LEMMA StretchEnd ==
    ASSUME TypeOK, NEW p \in Nat \ {0}, NEW set, p <= config,
           \A i \in p .. config - 1 : text[i] \notin set,
           config <= Len(text) => text[config] \in set
    PROVE  FirstFrom(p, set) = config
<1>1. Len(text) \in Nat /\ config \in 1 .. Len(text) + 1
  BY DEF TypeOK
<1> DEFINE places == {i \in p .. Len(text) : text[i] \in set}
<1>2. CASE config <= Len(text)
  <2>1. config \in places /\ \A j \in places : config <= j
    BY <1>1, <1>2
  <2>2. places \in SUBSET Nat
    BY <1>1
  <2> QED
    BY <2>1, <2>2, FirstFact DEF FirstFrom
<1>3. CASE config = Len(text) + 1
  <2>1. places = {}
    BY <1>1, <1>3
  <2> QED
    BY <1>3, <2>1 DEF FirstFrom, First
<1> QED
  BY <1>1, <1>2, <1>3

\* No digit: no word.
LEMMA EmptyWord == WordOf({}) = Nought
BY DEF WordOf, NthLast, Nought

\* A digit behind all others is the last one, and each of the others has one
\* more behind it than before.
LEMMA OneMoreDigit ==
    ASSUME NEW c \in Nat, NEW set, IsFiniteSet(set), \A i \in set : i \in Nat /\ i < c
    PROVE  /\ NthLast(set \cup {c}, 1) = {c}
           /\ \A n \in Nat \ {0, 1} : NthLast(set \cup {c}, n) = NthLast(set, n - 1)
<1> DEFINE Behind(s, i) == {j \in s : j >= i}
           all == set \cup {c}
<1>1. IsFiniteSet(set)
  OBVIOUS
<1>2. \A i \in set : i \in Nat /\ i < c
  OBVIOUS
<1>3. Cardinality(Behind(all, c)) = 1
  <2>1. ASSUME NEW j \in all, j >= c PROVE j = c
    BY <1>2, <2>1
  <2>2. c >= c
    OBVIOUS
  <2>3. Behind(all, c) = {c}
    BY <2>1, <2>2, Zenon
  <2> QED
    BY <2>3, FS_Singleton
<1>4. ASSUME NEW i \in set
      PROVE  /\ Cardinality(Behind(set, i)) \in Nat \ {0}
             /\ Cardinality(Behind(all, i)) = Cardinality(Behind(set, i)) + 1
  <2>1. Behind(all, i) = Behind(set, i) \cup {c} /\ c \notin Behind(set, i)
    BY <1>2
  <2>2. IsFiniteSet(Behind(set, i))
    BY <1>1, FS_Subset
  <2>3. Behind(set, i) # {}
    BY <1>2
  <2> HIDE DEF Behind
  <2>4. Cardinality(Behind(set, i)) \in Nat
    BY <2>2, FS_CardinalityType
  <2>5. Cardinality(Behind(set, i)) # 0
    BY <2>2, <2>3, FS_EmptySet
  <2>6. Cardinality(Behind(all, i)) = Cardinality(Behind(set, i)) + 1
    BY <2>1, <2>2, FS_AddElement
  <2> QED
    BY <2>4, <2>5, <2>6
<1>5. \A s, m : NthLast(s, m) = {i \in s : Cardinality(Behind(s, i)) = m}
  BY DEF NthLast
<1> HIDE DEF Behind
<1>6. /\ \A i \in all : i \in set \/ i = c
      /\ \A i \in set : i \in all /\ i # c
      /\ c \in all
  BY <1>2
<1> HIDE DEF all
<1>7. \A n : NthLast(all, n) = {i \in all : Cardinality(Behind(all, i)) = n}
  BY <1>5, Zenon
<1>8. NthLast(all, 1) = {c}
  <2>1. ASSUME NEW i \in set PROVE Cardinality(Behind(all, i)) # 1
    BY <1>4, <2>1
  <2>2. ASSUME NEW i PROVE i \in NthLast(all, 1) <=> i = c
    BY <1>3, <1>6, <1>7, <2>1
  <2> QED
    BY <2>2, Zenon
<1>9. ASSUME NEW n \in Nat \ {0, 1} PROVE NthLast(all, n) = NthLast(set, n - 1)
  <2>1. ASSUME NEW i \in set
        PROVE  Cardinality(Behind(all, i)) = n <=> Cardinality(Behind(set, i)) = n - 1
    BY <1>4, <2>1
  <2>2. NthLast(set, n - 1) = {i \in set : Cardinality(Behind(set, i)) = n - 1}
    BY <1>5, Zenon
  <2>3. ASSUME NEW i PROVE i \in NthLast(all, n) <=> i \in NthLast(set, n - 1)
    BY <1>3, <1>6, <1>7, <2>1, <2>2
  <2> QED
    BY <2>3, <1>7, <2>2
<1> QED
  BY <1>8, <1>9 DEF all

\* Shifting a word by a digit is what another digit in the text does to it.
LEMMA ShiftIsNextDigit ==
    ASSUME NEW p \in Nat, NEW c \in Nat, NEW set \in SUBSET (p .. c - 1),
           WordOf(set) \in Word, Digit[text[c]] \in 0 .. 15
    PROVE  Append(Tail(WordOf(set)), Digit[text[c]]) = WordOf(set \cup {c})
<1> USE NibblesAssumption
<1> DEFINE w == WordOf(set)
           d == Digit[text[c]]
           v == Append(Tail(w), d)
           all == set \cup {c}
           AtPlace(place) == IF place = {} THEN 0 ELSE Digit[text[CHOOSE i \in place : TRUE]]
<1>1. \A s : \A n \in 1 .. Nibbles : WordOf(s)[n] = AtPlace(NthLast(s, Nibbles - n + 1))
  BY DEF WordOf
<1>2. WordOf(all) = [n \in 1 .. Nibbles |-> WordOf(all)[n]]
  BY DEF WordOf
<1>3. w \in Seq(0 .. 15) /\ Len(w) = Nibbles
  BY DEF Word
<1>4. v \in Word /\ \A n \in 1 .. Nibbles : v[n] = IF n = Nibbles THEN d ELSE w[n + 1]
  <2> HIDE DEF w, d
  <2>1. w # <<>> /\ Tail(w) \in Seq(0 .. 15) /\ Len(Tail(w)) = Nibbles - 1
    BY <1>3, HeadTailProperties
  <2>2. \A n \in 1 .. Nibbles - 1 : Tail(w)[n] = w[n + 1]
    BY <1>3, <2>1, HeadTailProperties
  <2>3. d \in 0 .. 15 /\ w \in Word
    BY DEF w, d
  <2>4. v \in Word
    BY <2>3, ShiftedWord
  <2> QED
    BY <2>1, <2>2, <2>3, <2>4, AppendProperties
<1>5. IsFiniteSet(set)
  <2>1. p \in Int /\ c - 1 \in Int
    OBVIOUS
  <2>2. IsFiniteSet(p .. c - 1)
    BY <2>1, FS_Interval
  <2> QED
    BY <2>2, FS_Subset
<1>6. (CHOOSE i \in {c} : TRUE) = c /\ {c} # {}
  OBVIOUS
<1>7. AtPlace({c}) = d
  BY <1>6, Zenon
<1>8. /\ NthLast(all, 1) = {c}
      /\ \A m \in Nat \ {0, 1} : NthLast(all, m) = NthLast(set, m - 1)
  <2>1. \A i \in set : i \in Nat /\ i < c
    OBVIOUS
  <2> HIDE DEF v, w, d
  <2> QED
    BY <1>5, <2>1, OneMoreDigit
<1> HIDE DEF w, d, v, all, AtPlace
<1>9. \A n \in 1 .. Nibbles : w[n] = AtPlace(NthLast(set, Nibbles - n + 1))
  BY <1>1, Zenon DEF w
<1>10. \A n \in 1 .. Nibbles : WordOf(all)[n] = AtPlace(NthLast(all, Nibbles - n + 1))
  BY <1>1, Zenon
<1>11. ASSUME NEW n \in 1 .. Nibbles PROVE v[n] = WordOf(all)[n]
  <2>1. CASE n = Nibbles
    <3>1. Nibbles - n + 1 = 1
      BY <2>1
    <3>2. NthLast(all, Nibbles - n + 1) = {c}
      BY <1>8, <3>1
    <3>3. WordOf(all)[n] = d
      BY <1>7, <1>10, <3>2
    <3> QED
      BY <1>4, <2>1, <3>3
  <2>2. CASE n # Nibbles
    <3>1. Nibbles - n + 1 \in Nat \ {0, 1}
      BY <2>2
    <3>2. NthLast(all, Nibbles - n + 1) = NthLast(set, (Nibbles - n + 1) - 1)
      BY <1>8, <3>1
    <3>3. n + 1 \in 1 .. Nibbles /\ (Nibbles - n + 1) - 1 = Nibbles - (n + 1) + 1
      BY <2>2
    <3>4. WordOf(all)[n] = AtPlace(NthLast(set, Nibbles - (n + 1) + 1))
      BY <1>10, <3>2, <3>3
    <3>5. WordOf(all)[n] = w[n + 1]
      BY <1>9, <3>3, <3>4
    <3> QED
      BY <1>4, <2>2, <3>5
  <2> QED
    BY <2>1, <2>2
<1>12. v = [n \in 1 .. Nibbles |-> v[n]]
  BY <1>4 DEF Word
<1>13. v = WordOf(all)
  BY <1>2, <1>11, <1>12
<1> QED
  BY <1>13 DEF w, d, v, all

\* One more character of the word.
LEMMA OneMoreChar ==
    ASSUME NEW t \in Seq(Char), NEW s \in Nat \ {0}, NEW q \in 1 .. Len(t), s <= q
    PROVE  SubSeq(t, s, q) = Append(SubSeq(t, s, q - 1), t[q])
<1>1. s \in 1 .. Len(t) /\ q \in s .. Len(t)
  OBVIOUS
<1>2. SubSeq(t, s, q) = SubSeq(t, s, q - 1) \o <<t[q]>>
  BY <1>1, SubSeqRecursiveSecond
<1>3. SubSeq(t, s, q - 1) \in Seq(Char) /\ t[q] \in Char
  <2>1. \A i \in s .. q - 1 : t[i] \in Char
    BY <1>1
  <2> QED
    BY <1>1, <2>1, SubSeqProperties
<1>4. SubSeq(t, s, q - 1) \o <<t[q]>> = Append(SubSeq(t, s, q - 1), t[q])
  BY <1>3
<1> QED
  BY <1>2, <1>4

\* The first line with the name, once the cursor is at it.
LEMMA FoundPlace ==
    ASSUME TypeOK, FindInv, at = "find", StartsWith(config, NameOf(call))
    PROVE  ValuePlace(call) = config + Len(NameOf(call))
<1> DEFINE lines == {i \in 1 .. Len(text) + 1 : Holds(i, NameOf(call))}
<1>1. Len(text) \in Nat /\ config \in 1 .. Len(text) + 1
  BY DEF TypeOK
<1>2. LineStart(config) /\ \A i \in 1 .. config - 1 : ~Holds(i, NameOf(call))
  BY DEF FindInv
<1>3. Holds(config, NameOf(call))
  BY <1>1, <1>2 DEF Holds
<1>4. lines \in SUBSET Nat /\ config \in lines
  BY <1>1, <1>3
<1>5. ASSUME NEW j \in lines PROVE config <= j
  <2>1. j \in 1 .. Len(text) + 1 /\ ~(j \in 1 .. config - 1)
    BY <1>2
  <2> QED
    BY <1>1, <2>1
<1>6. First(lines) = config
  <2> HIDE DEF lines
  <2> QED
    BY <1>4, <1>5, FirstFact
<1> QED
  BY <1>6 DEF ValuePlace

\* A hexadecimal value starts as nought.
LEMMA DigitsStart == \A c, q : q = ValuePlace(c) /\ q \in Nat \ {0} => DigitsRead(c, q, Nought)
<1> SUFFICES ASSUME NEW c, NEW q, q = ValuePlace(c), q \in Nat \ {0}
             PROVE  DigitsRead(c, q, Nought)
  OBVIOUS
<1>1. \A i : i \notin q .. q - 1
  OBVIOUS
<1>2. DigitsIn(q, q - 1) = {}
  BY <1>1 DEF DigitsIn
<1>3. Nought = WordOf(DigitsIn(q, q - 1))
  BY <1>2, EmptyWord
<1> QED
  BY <1>1, <1>3 DEF DigitsRead

\* A character more, be it a digit or not.
LEMMA DigitsGoOn ==
    ASSUME TypeOK, DigitsRead(call, config, parsed), ParseDigit
    PROVE  DigitsRead(call, config + 1, parsed')
<1> DEFINE p == ValuePlace(call)
<1>1. /\ p \in 1 .. config /\ \A i \in p .. config - 1 : text[i] # Newline
      /\ parsed = WordOf(DigitsIn(p, config - 1)) /\ parsed \in Word
      /\ config \in Nat \ {0}
  BY DEF DigitsRead, TypeOK
<1>2. text[config] \in Char /\ text[config] # Newline /\ Digit[text[config]] \in Nat
  BY CharAssumption DEF ParseDigit, IsNext, TypeOK
<1> HIDE DEF p
<1>3. p \in 1 .. config + 1 /\ \A i \in p .. (config + 1) - 1 : text[i] # Newline
  <2>1. ASSUME NEW i \in p .. (config + 1) - 1 PROVE text[i] # Newline
    <3>1. i \in p .. config - 1 \/ i = config
      BY <1>1
    <3> QED
      BY <1>1, <1>2, <3>1
  <2> QED
    BY <1>1, <2>1
<1>4. parsed' = WordOf(DigitsIn(p, (config + 1) - 1))
  <2>1. (config + 1) - 1 = config
    BY <1>1
  <2>2. CASE Digit[text[config]] < 16
    <3>1. DigitsIn(p, config) = DigitsIn(p, config - 1) \cup {config}
      BY <1>1, <2>2 DEF DigitsIn
    <3>2. p \in Nat /\ config \in Nat /\ DigitsIn(p, config - 1) \in SUBSET (p .. config - 1)
      BY <1>1 DEF DigitsIn
    <3>3. Digit[text[config]] \in 0 .. 15
      BY <1>2, <2>2
    <3>4. Append(Tail(parsed), Digit[text[config]]) = WordOf(DigitsIn(p, config))
      BY <1>1, <3>1, <3>2, <3>3, ShiftIsNextDigit
    <3> QED
      BY <2>1, <2>2, <3>4 DEF ParseDigit
  <2>3. CASE ~(Digit[text[config]] < 16)
    <3>1. DigitsIn(p, config) = DigitsIn(p, config - 1)
      BY <1>1, <2>3 DEF DigitsIn
    <3> QED
      BY <1>1, <2>1, <2>3, <3>1 DEF ParseDigit
  <2> QED
    BY <2>2, <2>3
<1> QED
  BY <1>3, <1>4 DEF DigitsRead, p

\* What is stored in the end is the value of the line.
LEMMA DigitsEnd ==
    ASSUME TypeOK, KindInv, DigitsRead(call, config, parsed), EndOfDigits
    PROVE  parsed = Wanted(call)
<1> DEFINE p == ValuePlace(call)
<1>1. /\ p \in 1 .. config /\ \A i \in p .. config - 1 : text[i] # Newline
      /\ parsed = WordOf(DigitsIn(p, config - 1))
  BY DEF DigitsRead
<1>2. config \in 1 .. Len(text) + 1 /\ Len(text) \in Nat /\ text \in Seq(Char)
  BY DEF TypeOK
<1>3. config <= Len(text) => text[config] \in {Newline}
  BY <1>2 DEF EndOfDigits, IsNext
<1>4. \A i \in p .. config - 1 : text[i] \notin {Newline}
  BY <1>1
<1> HIDE DEF p
<1>5. p \in Nat \ {0} /\ p <= config
  BY <1>1, <1>2
<1>6. FirstFrom(p, {Newline}) = config
  BY <1>3, <1>4, <1>5, StretchEnd
<1>7. LineValue(p) = parsed
  BY <1>1, <1>6 DEF LineValue
<1> QED
  BY <1>7 DEF Wanted, p, EndOfDigits, KindInv

\* Where the blanks behind the name end, the word begins.
LEMMA SkipEnd ==
    ASSUME TypeOK, Skipped(call, config), value = <<>>, EndOfSkip
    PROVE  Copied(call, config, value)
<1> DEFINE p == ValuePlace(call)
           solid == Char \ (Blank \cup {Equals})
<1>1. p \in 1 .. config /\ \A i \in p .. config - 1 : text[i] \in Blank \cup {Equals}
  BY DEF Skipped
<1>2. config \in 1 .. Len(text) + 1 /\ Len(text) \in Nat /\ text \in Seq(Char)
  BY DEF TypeOK
<1>3. config <= Len(text) => text[config] \in solid
  BY <1>2 DEF EndOfSkip, IsNext
<1>4. \A i \in p .. config - 1 : text[i] \notin solid
  BY <1>1
<1> HIDE DEF p, solid
<1>5. p \in Nat \ {0} /\ p <= config
  BY <1>1, <1>2
<1>6. FirstFrom(p, solid) = config
  BY <1>3, <1>4, <1>5, StretchEnd
<1>7. SubSeq(text, config, config - 1) = <<>>
  BY <1>2, SubSeqEmpty
<1>8. \A i : i \notin config .. config - 1
  BY <1>2
<1>9. /\ FirstFrom(p, solid) \in 1 .. config
      /\ \A i \in FirstFrom(p, solid) .. config - 1 : text[i] \notin Blank
      /\ value = SubSeq(text, FirstFrom(p, solid), config - 1)
  BY <1>2, <1>6, <1>7, <1>8
<1> QED
  BY <1>9 DEF Copied, p, solid

\* A character more of the word.
LEMMA CopyGoesOn ==
    ASSUME TypeOK, Copied(call, config, value), CopyChar
    PROVE  Copied(call, config + 1, value')
<1> DEFINE s == FirstFrom(ValuePlace(call), Char \ (Blank \cup {Equals}))
<1>1. /\ s \in 1 .. config /\ \A i \in s .. config - 1 : text[i] \notin Blank
      /\ value = SubSeq(text, s, config - 1)
  BY DEF Copied
<1>2. config \in 1 .. Len(text) /\ text[config] \notin Blank /\ text \in Seq(Char)
  BY DEF CopyChar, IsNext, TypeOK
<1> HIDE DEF s
<1>3. s \in Nat \ {0} /\ s <= config
  BY <1>1, <1>2
<1>4. SubSeq(text, s, config) = Append(SubSeq(text, s, config - 1), text[config])
  BY <1>2, <1>3, OneMoreChar
<1>5. (config + 1) - 1 = config
  BY <1>2
<1>6. value' = SubSeq(text, s, (config + 1) - 1)
  BY <1>1, <1>4, <1>5 DEF CopyChar
<1>7. s \in 1 .. config + 1 /\ \A i \in s .. (config + 1) - 1 : text[i] \notin Blank
  <2>1. ASSUME NEW i \in s .. (config + 1) - 1 PROVE text[i] \notin Blank
    <3>1. i \in s .. config - 1 \/ i = config
      BY <1>1, <1>2
    <3> QED
      BY <1>1, <1>2, <3>1
  <2> QED
    BY <1>1, <1>2, <2>1
<1> QED
  BY <1>6, <1>7 DEF Copied, s

\* What is stored in the end is the first word behind the name.
LEMMA CopyEnd ==
    ASSUME TypeOK, KindInv, Copied(call, config, value), EndOfWord
    PROVE  value = Wanted(call)
<1> DEFINE s == FirstFrom(ValuePlace(call), Char \ (Blank \cup {Equals}))
<1>1. /\ s \in 1 .. config /\ \A i \in s .. config - 1 : text[i] \notin Blank
      /\ value = SubSeq(text, s, config - 1)
  BY DEF Copied
<1>2. config \in 1 .. Len(text) + 1 /\ Len(text) \in Nat /\ text \in Seq(Char)
  BY DEF TypeOK
<1>3. config <= Len(text) => text[config] \in Blank
  BY <1>2 DEF EndOfWord, IsNext
<1> HIDE DEF s
<1>4. s \in Nat \ {0} /\ s <= config
  BY <1>1, <1>2
<1>5. FirstFrom(s, Blank) = config
  BY <1>1, <1>3, <1>4, StretchEnd
<1>6. WordAfter(ValuePlace(call)) = value
  BY <1>1, <1>5 DEF WordAfter, s
<1>7. ~(call <= Len(Hex))
  BY ConstantFacts DEF KindInv, EndOfWord, TypeOK
<1> QED
  BY <1>6, <1>7 DEF Wanted

\* Every step reads on from where the last one stopped.
LEMMA ReadStep == CnfInv /\ ReadInv /\ [Next]_vars => ReadInv'
<1> SUFFICES ASSUME CnfInv, ReadInv, [Next]_vars PROVE ReadInv'
  OBVIOUS
<1>1. /\ TypeOK /\ KindInv /\ FindInv
      /\ call \in Calls /\ config \in Nat \ {0} /\ Len(NameOf(call)) \in Nat
  BY ConstantFacts DEF CnfInv, TypeOK
\* Only the loop that runs afterwards has something to show.
<1>2. ASSUME text' = text, call' = call, at' = "digits", DigitsRead(call, config', parsed')
      PROVE  ReadInv'
  BY <1>2, SameText DEF ReadInv
<1>3. ASSUME text' = text, call' = call, at' = "skip", Skipped(call, config'), value' = <<>>
      PROVE  ReadInv'
  BY <1>3, SameText DEF ReadInv
<1>4. ASSUME text' = text, call' = call, at' = "copy", Copied(call, config', value')
      PROVE  ReadInv'
  BY <1>4, SameText DEF ReadInv
<1>5. CASE Found
  <2>1. ValuePlace(call) = config' /\ config' \in Nat \ {0}
    BY <1>1, <1>5, FoundPlace DEF Found
  <2>2. CASE call <= Len(Hex)
    <3>1. parsed' = Nought /\ at' = "digits" /\ text' = text /\ call' = call
      BY <1>5, <2>2 DEF Found, ReadInv
    <3>2. DigitsRead(call, config', parsed')
      BY <2>1, <3>1, DigitsStart
    <3> QED
      BY <1>2, <3>1, <3>2
  <2>3. CASE ~(call <= Len(Hex))
    <3>1. value' = <<>> /\ at' = "skip" /\ text' = text /\ call' = call
      BY <1>5, <2>3 DEF Found, ReadInv
    <3>2. config' \in 1 .. config' /\ \A i : i \notin config' .. config' - 1
      BY <2>1
    <3>3. Skipped(call, config')
      BY <2>1, <3>2 DEF Skipped
    <3> QED
      BY <1>3, <3>1, <3>3
  <2> QED
    BY <2>2, <2>3
<1>6. CASE NextLine
  BY <1>6 DEF NextLine, ReadInv
<1>7. CASE Missing \/ EndOfDigits \/ EndOfWord
  BY <1>7 DEF Missing, EndOfDigits, EndOfWord, Return, ReadInv
<1>8. CASE ParseDigit
  <2>1. DigitsRead(call, config + 1, parsed')
    BY <1>1, <1>8, DigitsGoOn DEF ParseDigit, ReadInv
  <2> QED
    BY <1>2, <1>8, <2>1 DEF ParseDigit
<1>9. CASE SkipChar
  <2>1. Skipped(call, config) /\ value' = <<>>
    BY <1>9 DEF SkipChar, ReadInv
  <2>2. text[config] \in Blank \cup {Equals}
    BY <1>9 DEF SkipChar, IsNext
  <2>3. Skipped(call, config + 1)
    <3> DEFINE p == ValuePlace(call)
    <3>1. p \in 1 .. config /\ \A i \in p .. config - 1 : text[i] \in Blank \cup {Equals}
      BY <2>1 DEF Skipped
    <3> HIDE DEF p
    <3>2. ASSUME NEW i \in p .. (config + 1) - 1 PROVE text[i] \in Blank \cup {Equals}
      <4>1. i \in p .. config - 1 \/ i = config
        BY <1>1, <3>1
      <4> QED
        BY <2>2, <3>1, <4>1
    <3>3. p \in 1 .. config + 1
      BY <1>1, <3>1
    <3> QED
      BY <3>2, <3>3 DEF Skipped, p
  <2> QED
    BY <1>3, <1>9, <2>1, <2>3 DEF SkipChar
<1>10. CASE EndOfSkip
  <2>1. Copied(call, config, value)
    BY <1>1, <1>10, SkipEnd DEF EndOfSkip, ReadInv
  <2> QED
    BY <1>4, <1>10, <2>1 DEF EndOfSkip
<1>11. CASE CopyChar
  <2>1. Copied(call, config + 1, value')
    BY <1>1, <1>11, CopyGoesOn DEF CopyChar, ReadInv
  <2> QED
    BY <1>4, <1>11, <2>1 DEF CopyChar
<1>12. CASE UNCHANGED vars
  BY <1>12, SameText DEF vars, ReadInv
<1> QED
  BY <1>5, <1>6, <1>7, <1>8, <1>9, <1>10, <1>11, <1>12 DEF Next

\* A call that has returned leaves its result alone, and the text never
\* changes: what it stored stays what its line says.
LEMMA ReadsStep == CnfInv /\ ReadInv /\ ReadsFirstLine /\ [Next]_vars => ReadsFirstLine'
<1> SUFFICES ASSUME CnfInv, ReadInv, ReadsFirstLine, [Next]_vars PROVE ReadsFirstLine'
  OBVIOUS
<1>1. /\ TypeOK /\ KindInv /\ FindInv
      /\ call \in 1 .. Len(Hex) + 1 /\ Len(Hex) \in Nat /\ Calls = 1 .. Len(Hex) + 1
      /\ result = [c \in Calls |-> result[c]]
  BY ConstantFacts DEF CnfInv, TypeOK
<1>2. \A c \in Calls : Returned(c) /\ result[c] # Default => result[c] = {Wanted(c)}
  BY DEF ReadsFirstLine, Wanted
\* Of the calls that have returned after the step, all but the current one
\* had returned before.
<1>3. ASSUME text' = text,
             \A c \in Calls : Returned(c)' =>
                 \/ Returned(c) /\ result'[c] = result[c]
                 \/ result'[c] \in {Default, {Wanted(c)}}
      PROVE  ReadsFirstLine'
  <2>1. \A c : Wanted(c)' = Wanted(c)
    BY <1>3, SameText
  <2>2. ASSUME NEW c \in Calls, Returned(c)', result'[c] # Default
        PROVE  result'[c] = {Wanted(c)'}
    BY <1>2, <1>3, <2>1, <2>2
  <2> QED
    BY <2>2 DEF ReadsFirstLine, Wanted
<1>4. ASSUME text' = text, call' = call, result' = result, at # "done", at' # "done"
      PROVE  ReadsFirstLine'
  BY <1>3, <1>4 DEF Returned
<1>5. ASSUME text' = text, at # "done", Return,
             \A c \in Calls : c # call => result'[c] = result[c],
             result'[call] \in {Default, {Wanted(call)}}
      PROVE  ReadsFirstLine'
  <2>1. ASSUME NEW c \in Calls, Returned(c)' PROVE Returned(c) \/ c = call
    BY <1>1, <1>5, <2>1 DEF Returned, Return
  <2> QED
    BY <1>3, <1>5, <2>1
<1>6. CASE Found \/ NextLine \/ ParseDigit \/ SkipChar \/ EndOfSkip \/ CopyChar
  BY <1>4, <1>6 DEF Found, NextLine, ParseDigit, SkipChar, EndOfSkip, CopyChar
<1>7. CASE Missing
  <2>1. result[call] = Default
    BY <1>1, <1>7 DEF Missing, FindInv, Returned
  <2> QED
    BY <1>5, <1>7, <2>1 DEF Missing
<1>8. CASE EndOfDigits
  <2>1. parsed = Wanted(call)
    BY <1>1, <1>8, DigitsEnd DEF EndOfDigits, ReadInv
  <2>2. result' = [result EXCEPT ![call] = {Wanted(call)}]
    BY <1>8, <2>1 DEF EndOfDigits, Store
  <2> QED
    BY <1>1, <1>5, <1>8, <2>2 DEF EndOfDigits
<1>9. CASE EndOfWord
  <2>1. value = Wanted(call)
    BY <1>1, <1>9, CopyEnd DEF EndOfWord, ReadInv
  <2>2. result' = [result EXCEPT ![call] = {Wanted(call)}]
    BY <1>9, <2>1 DEF EndOfWord, Store
  <2> QED
    BY <1>1, <1>5, <1>9, <2>2 DEF EndOfWord
<1>10. CASE UNCHANGED vars
  BY <1>3, <1>10 DEF vars, Returned
<1> QED
  BY <1>6, <1>7, <1>8, <1>9, <1>10 DEF Next

\* What is read and stored is what the lines say.
LEMMA ReadInvariant == Spec => [](ReadInv /\ ReadsFirstLine)
<1>1. Init => ReadInv /\ ReadsFirstLine
  BY DEF Init, ReadInv, ReadsFirstLine
<1>2. CnfInv /\ ReadInv /\ ReadsFirstLine /\ [Next]_vars => (ReadInv /\ ReadsFirstLine)'
  BY ReadStep, ReadsStep
<1> QED
  BY <1>1, <1>2, CnfInvariant, PTL DEF Spec

\* The value that a call stores is that of the first line with its name: the
\* last eight hexadecimal digits of the line behind the name, or the first
\* word behind it, whatever the text and however long the value
\* (cfgparse.c:30-74).
THEOREM FirstLineRead == Spec => []ReadsFirstLine
<1>1. ReadInv /\ ReadsFirstLine => ReadsFirstLine
  OBVIOUS
<1> QED
  BY <1>1, ReadInvariant, PTL
=============================================================================
