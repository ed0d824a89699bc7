------------------------------- MODULE Screen -------------------------------
(***************************************************************************)
(* The text console of screen.c: debug_write cuts a message into lines of  *)
(* at most LogCols characters and pushes them into an array of LogRows     *)
(* rows; when the array is full, every row moves up by one.  The screen is *)
(* drawn again after each message, and when the video standard changes.    *)
(*                                                                         *)
(* What the user is promised is simpler: the last LogRows lines of what    *)
(* was written, in their order.                                            *)
(***************************************************************************)
EXTENDS Integers, Sequences

CONSTANTS
    LogRows, LogCols,   \* the size of the text area
    Char, Newline,      \* the characters, one of which ends a line
    Messages,           \* the messages considered, sequences of characters
    MaxLines            \* bound: lines written in all

ASSUME SizeAssumption == LogRows \in Nat \ {0} /\ LogCols \in Nat
ASSUME MessageAssumption == Newline \in Char /\ Messages \subseteq Seq(Char)
ASSUME BoundAssumption == MaxLines \in Nat

VARIABLES
    text_buffer,    \* the rows, from 0
    line_count,     \* how many of them are in use
    at,             \* "idle", or in debug_write: "scan" or "draw"
    rest,           \* what is left of the message to cut into lines
    line,           \* the line that is being put together
    shown,          \* the rows that redraw drew last
    written         \* history: every line pushed

vars == <<text_buffer, line_count, at, rest, line, shown, written>>

Rows == 0 .. LogRows - 1
Line == {l \in Seq(Char) : Len(l) <= LogCols}

Init ==
    /\ text_buffer \in [Rows -> {<<>>}] /\ line_count = 0
    /\ at = "idle" /\ rest = <<>> /\ line = <<>> /\ shown = <<>> /\ written = <<>>

debug_write(message) ==
    /\ at = "idle" /\ at' = "scan"
    /\ rest' = message /\ line' = <<>>
    /\ UNCHANGED <<text_buffer, line_count, shown, written>>

\* The next character belongs to the line.
InLine == rest # <<>> /\ Head(rest) # Newline

\* Mutant: the width is checked one character too late.
TakeWideChar ==
    /\ at = "scan" /\ InLine
    /\ line' = IF Len(line) <= LogCols THEN Append(line, Head(rest)) ELSE line
    /\ rest' = Tail(rest)
    /\ UNCHANGED <<text_buffer, line_count, at, shown, written>>

\* A character for which there is no room is dropped.
TakeChar ==
    /\ at = "scan" /\ InLine
    /\ line' = IF Len(line) < LogCols THEN Append(line, Head(rest)) ELSE line
    /\ rest' = Tail(rest)
    /\ UNCHANGED <<text_buffer, line_count, at, shown, written>>

\* Mutant: the first row is left out of the move.
ScrollFromOne ==
    IF line_count >= LogRows
    THEN [rows |-> [r \in Rows |-> IF r \in 1 .. LogRows - 2 THEN text_buffer[r + 1]
                                                             ELSE text_buffer[r]],
          count |-> LogRows - 1]
    ELSE [rows |-> text_buffer, count |-> line_count]

\* The rows and their number when there is room for another line.
Scroll ==
    IF line_count >= LogRows
    THEN [rows |-> [r \in Rows |-> IF r < LogRows - 1 THEN text_buffer[r + 1]
                                                      ELSE text_buffer[r]],
          count |-> LogRows - 1]
    ELSE [rows |-> text_buffer, count |-> line_count]

push_line ==
    /\ text_buffer' = [Scroll.rows EXCEPT ![Scroll.count] = line]
    /\ line_count' = Scroll.count + 1
    /\ written' = Append(written, line) /\ Len(written) < MaxLines

\* A newline or the end of the message: the line is pushed, and after the last
\* one the screen is drawn.
EndLine ==
    /\ at = "scan" /\ ~InLine
    /\ push_line /\ line' = <<>>
    /\ IF rest = <<>> THEN at' = "draw" /\ UNCHANGED rest
                      ELSE rest' = Tail(rest) /\ UNCHANGED at
    /\ UNCHANGED shown

Visible == [i \in 1 .. line_count |-> text_buffer[i - 1]]

redraw ==
    /\ at = "draw" /\ at' = "idle" /\ shown' = Visible
    /\ UNCHANGED <<text_buffer, line_count, rest, line, written>>

debug_switch_standard ==
    /\ at = "idle" /\ shown' = Visible
    /\ UNCHANGED <<text_buffer, line_count, at, rest, line, written>>

Next ==
    \/ \E m \in Messages : debug_write(m)
    \/ TakeChar \/ EndLine \/ redraw \/ debug_switch_standard

Spec == Init /\ [][Next]_vars

-----------------------------------------------------------------------------
(* Properties *)

\* The rows in use are within the array, and no line is longer than its row
\* or the buffer it is put together in.
TypeOK ==
    /\ text_buffer \in [Rows -> Line] /\ line_count \in 0 .. LogRows
    /\ at \in {"idle", "scan", "draw"}
    /\ rest \in Seq(Char) /\ line \in Line
    /\ shown \in Seq(Line) /\ written \in Seq(Line)

\* The last lines of a sequence, as many as there are rows.
LastRows(s) == IF Len(s) <= LogRows THEN s ELSE SubSeq(s, Len(s) - LogRows + 1, Len(s))

\* Between two messages the user sees the last LogRows lines, in their order,
\* none missing and none twice, however often the rows have moved up.
ShowsLastRows == at = "idle" => shown = LastRows(written)
=============================================================================
