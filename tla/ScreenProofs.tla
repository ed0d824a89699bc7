---------------------------- MODULE ScreenProofs ----------------------------
(***************************************************************************)
(* The console shows the last lines written, for every screen size, every  *)
(* message and however many lines there were.                              *)
(***************************************************************************)
EXTENDS Screen, TLAPS

\* The rows in use are the last lines: row r holds the line that was written
\* line_count - r lines ago.
RowsInv ==
    /\ line_count = IF Len(written) <= LogRows THEN Len(written) ELSE LogRows
    /\ \A r \in 0 .. line_count - 1 :
          text_buffer[r] = written[Len(written) - line_count + r + 1]

\* Every step keeps the types: the line buffer and the rows are never overrun.
LEMMA TypeStep == TypeOK /\ [Next]_vars => TypeOK'
<1> SUFFICES ASSUME TypeOK, [Next]_vars PROVE TypeOK'
  OBVIOUS
<1> USE SizeAssumption, MessageAssumption
<1>1. ASSUME NEW m \in Messages, debug_write(m) PROVE TypeOK'
  <2>1. rest' \in Seq(Char) /\ line' \in Line
    BY <1>1 DEF debug_write, Line
  <2> QED
    BY <1>1, <2>1 DEF debug_write, TypeOK
<1>2. CASE TakeChar
  <2>1. rest \in Seq(Char) /\ rest # <<>> /\ line \in Seq(Char) /\ Len(line) <= LogCols
    BY <1>2 DEF TakeChar, InLine, TypeOK, Line
  <2>2. rest' \in Seq(Char) /\ Head(rest) \in Char
    BY <1>2, <2>1 DEF TakeChar
  <2>3. line' \in Seq(Char) /\ Len(line') <= LogCols
    BY <1>2, <2>1, <2>2 DEF TakeChar
  <2>4. line' \in Line
    BY <2>3 DEF Line
  <2> QED
    BY <1>2, <2>2, <2>4 DEF TakeChar, TypeOK
<1>3. CASE EndLine
  <2>1. Scroll.count \in Rows /\ Scroll.rows \in [Rows -> Line]
    BY DEF Scroll, Rows, TypeOK
  <2>2. text_buffer' \in [Rows -> Line] /\ line_count' \in 0 .. LogRows
    <3>1. line_count' \in 0 .. LogRows
      BY <1>3, <2>1 DEF EndLine, push_line, Rows
    <3>2. text_buffer' \in [Rows -> Line]
      BY <1>3, <2>1 DEF EndLine, push_line, TypeOK
    <3> QED
      BY <3>1, <3>2
  <2>3. written' \in Seq(Line)
    BY <1>3 DEF EndLine, push_line, TypeOK
  <2>4. line' \in Line
    BY <1>3 DEF EndLine, Line
  <2>5. rest' \in Seq(Char)
    <3>1. rest \in Seq(Char)
      BY DEF TypeOK
    <3>2. CASE rest = <<>>
      BY <1>3, <3>1, <3>2 DEF EndLine
    <3>3. CASE rest # <<>>
      BY <1>3, <3>1, <3>3 DEF EndLine
    <3> QED
      BY <3>2, <3>3
  <2> QED
    BY <1>3, <2>2, <2>3, <2>4, <2>5 DEF EndLine, TypeOK
<1>4. CASE redraw \/ debug_switch_standard
  <2>1. shown' = Visible
    BY <1>4 DEF redraw, debug_switch_standard
  <2>2. ASSUME NEW i \in 1 .. line_count PROVE text_buffer[i - 1] \in Line
    BY DEF TypeOK, Rows
  <2>3. Visible \in [1 .. line_count -> Line] /\ line_count \in Nat
    BY <2>2 DEF Visible, TypeOK
  <2>4. shown' \in Seq(Line)
    BY <2>1, <2>3
  <2> QED
    BY <1>4, <2>4 DEF redraw, debug_switch_standard, TypeOK
<1>5. CASE UNCHANGED vars
  BY <1>5 DEF vars, TypeOK
<1> QED
  BY <1>1, <1>2, <1>3, <1>4, <1>5 DEF Next

\* A line that is pushed becomes the last row, and the others keep their
\* lines, one row higher if the screen was full.
LEMMA PushStep == TypeOK /\ RowsInv /\ push_line => RowsInv'
<1> SUFFICES ASSUME TypeOK, RowsInv, push_line PROVE RowsInv'
  OBVIOUS
<1> USE SizeAssumption
<1> DEFINE n == Len(written)
           c == line_count
<1>1. /\ written \in Seq(Line) /\ n \in Nat /\ line \in Line
      /\ text_buffer \in [Rows -> Line] /\ c \in 0 .. LogRows
  BY DEF TypeOK
<1>2. Len(written') = n + 1
  BY <1>1 DEF push_line
<1>3. written'[n + 1] = line
  BY <1>1 DEF push_line
<1>4. \A j \in 1 .. n : written'[j] = written[j]
  BY <1>1 DEF push_line
<1>5. c = IF n <= LogRows THEN n ELSE LogRows
  BY DEF RowsInv
<1>6. \A r \in 0 .. c - 1 : text_buffer[r] = written[n - c + r + 1]
  BY DEF RowsInv
<1> HIDE DEF n, c
<1>7. CASE c >= LogRows
  <2>1. Scroll.count = LogRows - 1 /\ c = LogRows
    BY <1>1, <1>7 DEF Scroll, c
  <2>2. \A r \in Rows : r < LogRows - 1 => Scroll.rows[r] = text_buffer[r + 1]
    BY <1>7 DEF Scroll, c
  <2>3. Scroll.rows \in [Rows -> Line]
    BY <1>1 DEF Scroll, Rows
  <2>4. line_count' = LogRows
    BY <2>1 DEF push_line
  <2>5. text_buffer'[LogRows - 1] = line
    BY <2>1, <2>3 DEF push_line, Rows
  <2>6. \A r \in 0 .. LogRows - 2 : text_buffer'[r] = text_buffer[r + 1]
    BY <2>1, <2>2, <2>3 DEF push_line, Rows
  <2>7. ASSUME NEW r \in 0 .. LogRows - 1
        PROVE  text_buffer'[r] = written'[(n + 1) - LogRows + r + 1]
    <3>1. CASE r = LogRows - 1
      BY <1>1, <1>3, <2>5, <3>1
    <3>2. CASE r < LogRows - 1
      <4>1. r \in 0 .. LogRows - 2 /\ r + 1 \in 0 .. c - 1
        BY <2>1, <3>2
      <4>2. text_buffer[r + 1] = written[n - c + (r + 1) + 1]
        BY <1>6, <4>1
      <4>3. n - c + (r + 1) + 1 = (n + 1) - LogRows + r + 1
        BY <1>1, <2>1
      <4>4. (n + 1) - LogRows + r + 1 \in 1 .. n
        BY <1>1, <1>5, <2>1, <4>1
      <4> QED
        BY <1>4, <2>6, <4>1, <4>2, <4>3, <4>4
    <3> QED
      BY <3>1, <3>2
  <2>8. n + 1 > LogRows \/ n + 1 = LogRows
    BY <1>1, <1>5, <2>1
  <2> QED
    BY <1>1, <1>2, <2>4, <2>7, <2>8 DEF RowsInv
<1>8. CASE c < LogRows
  <2>1. Scroll.count = c /\ Scroll.rows = text_buffer /\ c = n
    BY <1>1, <1>5, <1>8 DEF Scroll, c
  <2>2. line_count' = n + 1
    BY <2>1 DEF push_line
  <2>3. text_buffer'[n] = line
    BY <1>1, <1>8, <2>1 DEF push_line, Rows
  <2>4. \A r \in 0 .. n - 1 : text_buffer'[r] = text_buffer[r]
    BY <1>1, <1>8, <2>1 DEF push_line, Rows
  <2>5. ASSUME NEW r \in 0 .. n
        PROVE  text_buffer'[r] = written'[r + 1]
    <3>1. CASE r = n
      BY <1>3, <2>3, <3>1
    <3>2. CASE r < n
      <4>1. r \in 0 .. n - 1 /\ r + 1 \in 1 .. n /\ r \in 0 .. c - 1
        BY <1>1, <2>1, <3>2
      <4>2. text_buffer[r] = written[n - c + r + 1]
        BY <1>6, <4>1
      <4>3. n - c + r + 1 = r + 1
        BY <1>1, <2>1
      <4> QED
        BY <1>4, <2>4, <4>1, <4>2, <4>3
    <3> QED
      BY <1>1, <3>1, <3>2
  <2>6. n + 1 <= LogRows
    BY <1>1, <1>8, <2>1
  <2>7. \A r \in 0 .. (n + 1) - 1 : (n + 1) - (n + 1) + r + 1 = r + 1
    BY <1>1
  <2> QED
    BY <1>1, <1>2, <2>2, <2>5, <2>6, <2>7 DEF RowsInv
<1> QED
  BY <1>1, <1>7, <1>8

\* What is drawn then is the end of the history.
LEMMA VisibleFact == TypeOK /\ RowsInv => Visible = LastRows(written)
<1> SUFFICES ASSUME TypeOK, RowsInv PROVE Visible = LastRows(written)
  OBVIOUS
<1> USE SizeAssumption
<1> DEFINE n == Len(written)
           c == line_count
<1>1. written \in Seq(Line) /\ n \in Nat /\ c \in 0 .. LogRows
  BY DEF TypeOK
<1>2. c = IF n <= LogRows THEN n ELSE LogRows
  BY DEF RowsInv
<1>3. \A r \in 0 .. c - 1 : text_buffer[r] = written[n - c + r + 1]
  BY DEF RowsInv
<1>4. \A i \in 1 .. c : text_buffer[i - 1] = written[n - c + i]
  <2> TAKE i \in 1 .. c
  <2>1. i - 1 \in 0 .. c - 1 /\ n - c + (i - 1) + 1 = n - c + i
    BY <1>1
  <2> QED
    BY <1>3, <2>1
<1>5. Visible = [i \in 1 .. c |-> written[n - c + i]]
  BY <1>4 DEF Visible
<1>6. CASE n <= LogRows
  <2>1. c = n /\ \A i \in 1 .. c : n - c + i = i
    BY <1>1, <1>2, <1>6
  <2>2. Visible = [i \in 1 .. n |-> written[i]]
    BY <1>5, <2>1
  <2>3. written = [i \in 1 .. n |-> written[i]]
    BY <1>1
  <2> QED
    BY <1>6, <2>2, <2>3 DEF LastRows
<1>7. CASE n > LogRows
  <2>1. c = LogRows
    BY <1>1, <1>2, <1>7
  <2>2. LastRows(written) = SubSeq(written, n - LogRows + 1, n)
    BY <1>1, <1>7 DEF LastRows
  <2>3. SubSeq(written, n - LogRows + 1, n)
          = [i \in 1 .. LogRows |-> written[n - LogRows + i]]
    <3> DEFINE m == n - LogRows + 1
               t == SubSeq(written, m, n)
    <3>1. m \in 1 .. n /\ n - m + 1 = LogRows
      BY <1>1, <1>7
    <3>2. t \in Seq(Line) /\ Len(t) = n - m + 1
      BY <1>1, <3>1
    <3>3. \A i \in 1 .. n - m + 1 : t[i] = written[m + i - 1]
      BY <1>1, <3>1
    <3>4. \A i \in 1 .. LogRows : m + i - 1 = n - LogRows + i
      BY <1>1
    <3>5. t = [i \in 1 .. LogRows |-> t[i]]
      <4> HIDE DEF m, t
      <4>1. t \in Seq(Line) /\ Len(t) = LogRows
        BY <3>1, <3>2
      <4> QED
        BY <4>1
    <3> QED
      BY <3>1, <3>3, <3>4, <3>5
  <2> QED
    BY <1>5, <2>1, <2>2, <2>3
<1> QED
  BY <1>1, <1>6, <1>7

\* The types, the rows and what is shown, in every state.
THEOREM ScreenInvariant == Spec => [](TypeOK /\ RowsInv /\ ShowsLastRows)
<1> USE SizeAssumption, MessageAssumption
<1>1. Init => TypeOK /\ RowsInv /\ ShowsLastRows
  <2> SUFFICES ASSUME Init PROVE TypeOK /\ RowsInv /\ ShowsLastRows
    OBVIOUS
  <2>1. <<>> \in Line
    BY DEF Line
  <2>2. TypeOK
    BY <2>1 DEF Init, TypeOK
  <2>3. RowsInv
    BY DEF Init, RowsInv
  <2>4. ShowsLastRows
    BY DEF Init, ShowsLastRows, LastRows
  <2> QED
    BY <2>2, <2>3, <2>4
<1>2. TypeOK /\ RowsInv /\ [Next]_vars => RowsInv'
  <2>1. CASE EndLine
    BY <2>1, PushStep DEF EndLine
  <2>2. CASE UNCHANGED <<text_buffer, line_count, written>>
    BY <2>2 DEF RowsInv
  <2> QED
    BY <2>1, <2>2 DEF Next, debug_write, TakeChar, redraw, debug_switch_standard, vars
<1>3. TypeOK /\ RowsInv /\ ShowsLastRows /\ [Next]_vars => ShowsLastRows'
  <2> SUFFICES ASSUME TypeOK, RowsInv, ShowsLastRows, [Next]_vars, at' = "idle"
               PROVE  shown' = LastRows(written')
    BY DEF ShowsLastRows
  <2>1. CASE redraw \/ debug_switch_standard
    <3>1. shown' = Visible /\ written' = written
      BY <2>1 DEF redraw, debug_switch_standard
    <3> QED
      BY <3>1, VisibleFact
  <2>2. CASE UNCHANGED vars
    BY <2>2 DEF vars, ShowsLastRows
  <2> QED
    BY <2>1, <2>2 DEF Next, debug_write, TakeChar, EndLine
<1> QED
  BY <1>1, <1>2, <1>3, TypeStep, PTL DEF Spec

\* No line is ever longer than its row, and no row outside the array is used.
THEOREM ScreenTyped == Spec => []TypeOK
BY ScreenInvariant, PTL

\* The user always sees the last lines, in their order.
THEOREM LastLinesShown == Spec => []ShowsLastRows
BY ScreenInvariant, PTL
=============================================================================
