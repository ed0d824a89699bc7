-------------------------------- MODULE Format --------------------------------
(***************************************************************************)
(* mini_vsprintf of str.c, which writes the message of a debug_write, and  *)
(* the console of module Screen, which cuts it into lines: one call after  *)
(* another.  Characters are their codes; each turn of a loop is a step.    *)
(***************************************************************************)
EXTENDS Screen, FiniteSets, SequencesExt

CONSTANT Calls  \* the calls considered, sequences of pieces (see below)

VARIABLES
    loop,       \* "none", "format", "string", "digits" or "copy"
    call,       \* the call under way, or <<>>
    format,     \* what is left of the format
    args,       \* ... and of the arguments
    val,        \* the number whose digits are collected
    text,       \* what is left of the string to copy, or the digits collected
    out         \* the buffer up to pos

fvars == <<loop, call, format, args, val, text, out>>

Backslash == 92
Percent == 37

\* Division and remainder of C, which truncate.
Quotient(n, d) == IF n < 0 /\ n % d > 0 THEN n \div d + 1 ELSE n \div d
Remainder(n, d) == n - d * Quotient(n, d)

-----------------------------------------------------------------------------
(* Calls, and what they should print *)

\* A piece of a format, its argument, if any, and what it prints as: a
\* character, an escape, a conversion, or what is none.
Lit(c) == [format |-> <<c>>, args |-> <<>>, prints |-> <<c>>]
Escape(c, code) == [format |-> <<Backslash, c>>, args |-> <<>>, prints |-> <<code>>]
OddEscape(c) == [format |-> <<Backslash, c>>, args |-> <<>>, prints |-> <<Backslash, c>>]
C(c) == [format |-> <<Percent, 99>>, args |-> <<c>>, prints |-> <<c>>]
S(s) == [format |-> <<Percent, 115>>, args |-> <<s>>, prints |-> s]
\* A word and its hexadecimal digits.
X(n, digits) ==
    [format |-> <<Percent, 120>>, args |-> <<n>>,
     prints |-> [i \in 1 .. 8 |-> (<<48, 49, 50, 51, 52, 53, 54, 55, 56, 57>> \o
                                  <<65, 66, 67, 68, 69, 70>>)[digits[i] + 1]]]
OddPercent(c) == [format |-> <<Percent, c>>, args |-> <<>>, prints |-> <<Percent, c>>]
\* Only at the end of a format.
Lone(c) == [format |-> <<c>>, args |-> <<>>, prints |-> <<Backslash>>]

\* The decimal digits of a number, the most significant first; of a negative
\* one those of its magnitude, which may itself be no int.
Magnitude(d) == IF d < 0 THEN -d ELSE d
Places(n) == {j \in 0 .. 9 : j = 0 \/ Quotient(n, 10 ^ j) # 0}
Decimal(n) ==
    [i \in 1 .. Cardinality(Places(n)) |->
        Magnitude(Remainder(Quotient(n, 10 ^ (Cardinality(Places(n)) - i)), 10))]

\* A number prints as it is written, with a '-' if it is negative.
D(n) == [format |-> <<Percent, 100>>, args |-> <<n>>,
         prints |-> (IF n < 0 THEN <<45>> ELSE <<>>) \o [i \in DOMAIN Decimal(n) |-> 48 + Decimal(n)[i]]]

All(pieces, part(_)) == FlattenSeq([i \in DOMAIN pieces |-> part(pieces[i])])
FormatOf(pieces) == All(pieces, LAMBDA p : p.format)
ArgsOf(pieces) == All(pieces, LAMBDA p : p.args)
Printed(pieces) == All(pieces, LAMBDA p : p.prints)

-----------------------------------------------------------------------------
(* mini_vsprintf *)

LogInit ==
    /\ Init /\ loop = "none" /\ call = <<>> /\ format = <<>> /\ args = <<>>
    /\ val = 0 /\ text = <<>> /\ out = <<>>

\* A debug_write begins.
Begin(pieces) ==
    /\ at = "idle" /\ loop = "none" /\ loop' = "format" /\ call' = pieces
    /\ format' = FormatOf(pieces) /\ args' = ArgsOf(pieces) /\ out' = <<>>
    /\ UNCHANGED <<val, text, vars>>

\* The format goes on with a given character, or two.
At(c) == loop = "format" /\ format # <<>> /\ Head(format) = c
AtPair(c, d) == At(c) /\ Len(format) > 1 /\ format[2] = d

\* So many characters of the format are done, and print something.
Puts(n, s) ==
    /\ format' = SubSeq(format, n + 1, Len(format)) /\ out' = out \o s
    /\ UNCHANGED <<loop, call, val, vars>>
Literally(n, s) == Puts(n, s) /\ UNCHANGED <<args, text>>
\* Of a conversion: the argument is taken.
Takes(s) == Puts(2, s) /\ args' = Tail(args) /\ UNCHANGED text

Ordinary ==
    /\ loop = "format" /\ format # <<>> /\ Head(format) \notin {Backslash, Percent}
    /\ Literally(1, <<Head(format)>>)

Escaped ==
    \/ AtPair(Backslash, 110) /\ Literally(2, <<10>>)
    \/ AtPair(Backslash, 114) /\ Literally(2, <<13>>)
    \/ /\ At(Backslash) /\ Len(format) > 1 /\ format[2] \notin {110, 114}
       /\ Literally(2, <<Backslash, format[2]>>)

\* A format that ends with one of the two.
LoneLast ==
    /\ At(Backslash) \/ At(Percent)
    /\ Len(format) = 1 /\ Literally(1, <<Backslash>>)

ConvertChar == AtPair(Percent, 99) /\ Takes(<<Head(args)>>)
ConvertHex ==
    AtPair(Percent, 120) /\
    Takes([i \in 1 .. 8 |-> LET d == (Head(args) \div 16 ^ (8 - i)) % 16
                           IN  IF d < 10 THEN 48 + d ELSE 55 + d])
ConvertZero == AtPair(Percent, 100) /\ Head(args) = 0 /\ Takes(<<48>>)

Unknown ==
    /\ At(Percent) /\ Len(format) > 1 /\ format[2] \notin {99, 100, 115, 120}
    /\ Literally(2, <<Percent, format[2]>>)

\* %s, a character at a time.
ConvertString ==
    /\ AtPair(Percent, 115) /\ loop' = "string"
    /\ text' = Head(args) /\ args' = Tail(args)
    /\ format' = SubSeq(format, 3, Len(format)) /\ UNCHANGED <<call, val, out, vars>>

CopyString ==
    /\ loop = "string" /\ text # <<>>
    /\ out' = Append(out, Head(text)) /\ text' = Tail(text)
    /\ UNCHANGED <<loop, call, format, args, val, vars>>

StringDone == loop = "string" /\ text = <<>> /\ loop' = "format"
              /\ UNCHANGED <<call, format, args, val, text, out, vars>>

\* %d of a number that is not 0: the digits are collected from the last one on,
\* then copied in the other order.
ConvertNumber ==
    /\ AtPair(Percent, 100) /\ Head(args) # 0 /\ loop' = "digits"
    /\ val' = Head(args) /\ args' = Tail(args) /\ text' = <<>>
    /\ out' = IF Head(args) < 0 THEN Append(out, 45) ELSE out
    /\ format' = SubSeq(format, 3, Len(format)) /\ UNCHANGED <<call, vars>>

\* Mutant: the loop stops when one digit is left.
DigitUntilTen ==
    /\ loop = "digits"
    /\ text' = Append(text, 48 + Remainder(val, 10)) /\ val' = Quotient(val, 10)
    /\ loop' = IF val' \in -9 .. 9 THEN "copy" ELSE "digits"
    /\ UNCHANGED <<call, format, args, out, vars>>

Digit ==
    /\ loop = "digits"
    /\ text' = Append(text, 48 + Remainder(val, 10)) /\ val' = Quotient(val, 10)
    /\ loop' = IF val' = 0 THEN "copy" ELSE "digits"
    /\ UNCHANGED <<call, format, args, out, vars>>

CopyDigit ==
    /\ loop = "copy" /\ out' = Append(out, Last(text)) /\ text' = Front(text)
    /\ loop' = IF Len(text) = 1 THEN "format" ELSE "copy"
    /\ UNCHANGED <<call, format, args, val, vars>>

\* The end of the format: debug_write goes on with the text.
Formatted ==
    /\ loop = "format" /\ format = <<>> /\ debug_write(out) /\ loop' = "none"
    /\ UNCHANGED <<call, format, args, val, text, out>>

Conversion ==
    \/ Ordinary \/ Escaped \/ LoneLast \/ ConvertChar \/ ConvertHex \/ ConvertZero \/ Unknown
    \/ ConvertString \/ CopyString \/ StringDone \/ ConvertNumber \/ Digit \/ CopyDigit

Console == TakeChar \/ EndLine \/ redraw \/ debug_switch_standard

LogNext ==
    \/ \E pieces \in Calls : Begin(pieces)
    \/ Conversion \/ Formatted
    \/ loop = "none" /\ Console /\ UNCHANGED fvars

LogSpec == LogInit /\ [][LogNext]_<<vars, fvars>>

-----------------------------------------------------------------------------
(* Properties *)

\* A negative number is among those to print.
PrintsNegative(pieces) ==
    \E i \in DOMAIN pieces : pieces[i].format = <<Percent, 100>> /\ Head(pieces[i].args) < 0

\* The console is given exactly what the call should print, every argument
\* used once: no digit lost or doubled on the way through the array, at the
\* ends of the range of an int neither (str.c:79-113).  Of a call that prints
\* a negative number only the length is right: see PrintsAsDocumented.
FormattedRight ==
    [][at = "idle" /\ at' = "scan" =>
          /\ args = <<>> /\ Len(rest') = Len(Printed(call))
          /\ PrintsNegative(call) \/ rest' = Printed(call)]_<<vars, fvars>>

\* What screen.h:15-16 says of debug_write, "printf-subset: %s %d %x %c", for
\* every number.  In C the remainder of a negative number is negative, and
\* str.c:99 adds it to '0': -12 comes out as "-/.".
PrintsAsDocumented ==
    [][at = "idle" /\ at' = "scan" => rest' = Printed(call)]_<<vars, fvars>>
=============================================================================
