--------------------------------- MODULE Cnf ---------------------------------
(***************************************************************************)
(* cfgparse.c: how loader_boot_disc takes TCB, EVENT, STACK and BOOT out   *)
(* of SYSTEM.CNF.  Each call of config_get_hex or config_get_string looks  *)
(* for its name from the top of the text, then reads on with a cursor that *)
(* nothing but the characters themselves keeps inside the text.            *)
(***************************************************************************)
EXTENDS Integers, Sequences, FiniteSets

CONSTANTS
    Char,           \* the characters, without the terminating zero
    Newline, Equals, Blank,     \* Blank: those that isspace accepts
    Digit,          \* todigit of the ROM: 16 or more for any other character
    Hex, Boot,      \* the names looked for: with hexadecimal values, with a word
    Nibbles,        \* hexadecimal digits in a word of the processor: 8
    Texts           \* the files considered

ASSUME CharAssumption ==
    /\ Newline \in Blank /\ Blank \subseteq Char /\ Equals \in Char \ Blank
    /\ Digit \in [Char -> Nat]
ASSUME NameAssumption == Hex \in Seq(Seq(Char \ {Newline})) /\ Boot \in Seq(Char \ {Newline})
ASSUME NibblesAssumption == Nibbles \in Nat \ {0}
ASSUME TextAssumption == Texts \subseteq Seq(Char)

VARIABLES
    text,       \* data_buffer up to the zero that the loader puts behind it
    call,       \* which of the calls runs
    at,         \* its loop: "find", "digits", "skip", "copy"; "done" after the last
    config,     \* the cursor
    parsed,     \* the word parsed so far, as its digits
    value,      \* the characters copied so far
    result      \* what each call stored: {value}, or Default if it stored nothing

vars == <<text, call, at, config, parsed, value, result>>

Default == {}
Word == [1 .. Nibbles -> 0 .. 15]
Nought == [i \in 1 .. Nibbles |-> 0]

Calls == 1 .. Len(Hex) + 1
NameOf(c) == IF c <= Len(Hex) THEN Hex[c] ELSE Boot

Init ==
    /\ text \in Texts /\ call = 1 /\ at = "find" /\ config = 1
    /\ parsed = Nought /\ value = <<>> /\ result = [c \in Calls |-> Default]

\* strncmp(config, wanted, strlen(wanted)) = 0
StartsWith(p, name) ==
    /\ p + Len(name) <= Len(text) + 1
    /\ \A i \in 1 .. Len(name) : text[p + i - 1] = name[i]

IsNext(set) == config <= Len(text) /\ text[config] \in set

\* i is where strchr finds the next newline.
NextNewline(i) ==
    /\ i \in config .. Len(text) /\ text[i] = Newline
    /\ \A j \in config .. i - 1 : text[j] # Newline
NoNewline == \A i \in config .. Len(text) : text[i] # Newline

\* The call returns; the next one starts at the top again.
Return ==
    /\ call' = (IF call = Len(Hex) + 1 THEN call ELSE call + 1)
    /\ at' = (IF call = Len(Hex) + 1 THEN "done" ELSE "find")
    /\ config' = 1 /\ parsed' = Nought /\ value' = <<>>

\* Mutant: the equals sign is taken for granted.
FoundAndEquals ==
    /\ at = "find" /\ StartsWith(config, NameOf(call))
    /\ at' = (IF call <= Len(Hex) THEN "digits" ELSE "skip")
    /\ config' = config + Len(NameOf(call)) + 1
    /\ UNCHANGED <<text, call, parsed, value, result>>

Found ==
    /\ at = "find" /\ StartsWith(config, NameOf(call))
    /\ at' = (IF call <= Len(Hex) THEN "digits" ELSE "skip")
    /\ config' = config + Len(NameOf(call))
    /\ UNCHANGED <<text, call, parsed, value, result>>

\* Mutant: on to the next character, not to the next line.
NextPlace ==
    /\ at = "find" /\ ~StartsWith(config, NameOf(call)) /\ ~NoNewline
    /\ config' = config + 1
    /\ UNCHANGED <<text, call, at, parsed, value, result>>

NextLine ==
    /\ at = "find" /\ ~StartsWith(config, NameOf(call))
    /\ \E i \in config .. Len(text) : NextNewline(i) /\ config' = i + 1
    /\ UNCHANGED <<text, call, at, parsed, value, result>>

\* "Missing": nothing is stored.
Missing ==
    /\ at = "find" /\ ~StartsWith(config, NameOf(call)) /\ NoNewline
    /\ Return /\ UNCHANGED <<text, result>>

Store(what) == result' = [result EXCEPT ![call] = {what}]

\* parsed << 4 | digit: the first digit falls out.  What is not a digit is
\* passed over.
ParseDigit ==
    /\ at = "digits" /\ IsNext(Char \ {Newline})
    /\ parsed' = (IF Digit[text[config]] < 16
                  THEN Append(Tail(parsed), Digit[text[config]]) ELSE parsed)
    /\ config' = config + 1
    /\ UNCHANGED <<text, call, at, value, result>>

EndOfDigits ==
    /\ at = "digits" /\ ~IsNext(Char \ {Newline})
    /\ Store(parsed) /\ Return /\ UNCHANGED text

\* The equals sign and blanks; a newline is a blank too.
SkipChar ==
    /\ at = "skip" /\ IsNext(Blank \cup {Equals})
    /\ config' = config + 1
    /\ UNCHANGED <<text, call, at, parsed, value, result>>

EndOfSkip ==
    /\ at = "skip" /\ ~IsNext(Blank \cup {Equals}) /\ at' = "copy"
    /\ UNCHANGED <<text, call, config, parsed, value, result>>

\* Mutant: the word ends at a newline only.
CopyLine ==
    /\ at = "copy" /\ IsNext(Char \ {Newline})
    /\ value' = Append(value, text[config]) /\ config' = config + 1
    /\ UNCHANGED <<text, call, at, parsed, result>>

CopyChar ==
    /\ at = "copy" /\ IsNext(Char \ Blank)
    /\ value' = Append(value, text[config]) /\ config' = config + 1
    /\ UNCHANGED <<text, call, at, parsed, result>>

EndOfWord ==
    /\ at = "copy" /\ ~IsNext(Char \ Blank)
    /\ Store(value) /\ Return /\ UNCHANGED text

Next ==
    \/ Found \/ NextLine \/ Missing \/ ParseDigit \/ EndOfDigits
    \/ SkipChar \/ EndOfSkip \/ CopyChar \/ EndOfWord

Spec == Init /\ [][Next]_vars

-----------------------------------------------------------------------------
(* Properties *)

\* The cursor never passes the zero at the end of the text (cfgparse.c:39-45,
\* 59-69), and the parsed word keeps its width.
TypeOK ==
    /\ text \in Seq(Char) /\ call \in Calls
    /\ at \in {"find", "digits", "skip", "copy", "done"}
    /\ config \in 1 .. Len(text) + 1
    /\ parsed \in Word /\ value \in Seq(Char)
    /\ result = [c \in Calls |-> result[c]]
    /\ \A c \in Calls : result[c] \subseteq (IF c <= Len(Hex) THEN Word ELSE Seq(Char))

\* The places where a line begins, the one behind a last newline included.
LineStart(i) == i = 1 \/ text[i - 1] = Newline
Holds(i, name) == i \in 1 .. Len(text) + 1 /\ LineStart(i) /\ StartsWith(i, name)

Returned(c) == c < call \/ at = "done"

\* A call stores a value if and only if some line of the text begins with its
\* name, the last line and an empty file included: a name that is present is
\* never reported missing (cfgparse.c:12-28).
StoredIfPresent ==
    \A c \in Calls : Returned(c) =>
        (result[c] # Default <=> \E i \in 1 .. Len(text) + 1 : Holds(i, NameOf(c)))

\* The first place of a set, or the end of the text.
First(set) == IF set = {} THEN Len(text) + 1 ELSE CHOOSE i \in set : \A j \in set : i <= j
FirstFrom(p, set) == First({i \in p .. Len(text) : text[i] \in set})

\* The hexadecimal digits of a stretch of the text, by their places.
DigitsIn(p, q) == {i \in p .. q : Digit[text[i]] < 16}

\* The digit that has n - 1 others behind it, if there is one.
NthLast(set, n) == {i \in set : Cardinality({j \in set : j >= i}) = n}

\* The word whose nibbles are the last of these digits, 0 where there is none.
WordOf(set) ==
    [n \in 1 .. Nibbles |->
        LET place == NthLast(set, Nibbles - n + 1)
        IN  IF place = {} THEN 0 ELSE Digit[text[CHOOSE i \in place : TRUE]]]

\* What a reader of the file takes its lines to say.
LineValue(p) == WordOf(DigitsIn(p, FirstFrom(p, {Newline}) - 1))
WordAfter(p) ==
    LET start == FirstFrom(p, Char \ (Blank \cup {Equals}))
    IN  SubSeq(text, start, FirstFrom(start, Blank) - 1)

\* Behind the name, in the first line that begins with it.
ValuePlace(c) ==
    First({i \in 1 .. Len(text) + 1 : Holds(i, NameOf(c))}) + Len(NameOf(c))

\* The value stored is that of the first line with the name: the last eight
\* hexadecimal digits before its end, or the first word after the name,
\* wherever in the file it is.
ReadsFirstLine ==
    \A c \in Calls : Returned(c) /\ result[c] # Default =>
        result[c] = {IF c <= Len(Hex) THEN LineValue(ValuePlace(c)) ELSE WordAfter(ValuePlace(c))}
=============================================================================
