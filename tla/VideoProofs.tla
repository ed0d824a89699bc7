------------------------- MODULE VideoProofs ---------------------------
(***************************************************************************)
(* For every size of the screen, every header and every log that fits:     *)
(* the GPU is set up before it is used, the blank that a call waits for    *)
(* comes, and after every call the screen reads what it should.            *)
(***************************************************************************)
EXTENDS Video, FiniteSetTheorems, SequenceTheorems, TLAPS

-----------------------------------------------------------------------------
(* The commands *)

Rects == [x : Int, y : Int, w : Int, h : Int]
FontPage == [x |-> 0, y |-> 256]
Sprites == [pos : Rects, u : 0 .. 255, v : 0 .. 149]
Divider == Rect(Layout.margin, Layout.divider, ScreenW - 2 * Layout.margin, 1)

\* What may be in todo while set_video_mode is for pal.
Commands(pal) ==
    [op : {"reset", "off", "flush", "on", "wait"}, arg : {0}]
    \cup [op : {"mode"}, arg : {pal}] \cup [op : {"vrange"}, arg : {VRange(pal)}]
    \cup [op : {"area"}, arg : {Screen}] \cup [op : {"page"}, arg : {FontPage}]
    \cup [op : {"upload"}, arg : {"small", "big"}] \cup [op : {"rect"}, arg : {Screen, Divider}]
    \cup [op : {"sprites"}, arg : SUBSET Sprites]

\* The GPU is set up in this order, then used.
Stage(op) ==
    CASE op = "reset" -> 1 [] op = "off" -> 2 [] op = "mode" -> 3 [] op = "vrange" -> 4
      [] op = "area" -> 5 [] op = "page" -> 6 [] OTHER -> 7
After(n) == IF n = 7 THEN 7 ELSE n + 1

InOrder(seq) ==
    /\ \A i \in 1 .. Len(seq) - 1 : Stage(seq[i + 1].op) = After(Stage(seq[i].op))
    /\ seq # <<>> => Stage(seq[Len(seq)].op) = 7

StageOf(seq) == IF seq = <<>> THEN 7 ELSE Stage(Head(seq).op)

\* What a command is says what its argument is.
LEMMA CommandFacts ==
    ASSUME NEW pal, NEW c \in Commands(pal)
    PROVE  /\ c.op = "mode" => c.arg = pal
           /\ c.op = "vrange" => c.arg = VRange(pal)
           /\ c.op = "area" => c.arg = Screen
           /\ c.op = "page" => c.arg = FontPage
           /\ c.op = "upload" => c.arg \in {"small", "big"}
           /\ c.op = "rect" => c.arg \in {Screen, Divider}
           /\ c.op = "sprites" => c.arg \subseteq Sprites
BY DEF Commands

\* Which commands there are.
LEMMA CommandMade ==
    ASSUME NEW pal
    PROVE  /\ \A op \in {"reset", "off", "flush", "on", "wait"} : Cmd(op, 0) \in Commands(pal)
           /\ Cmd("mode", pal) \in Commands(pal) /\ Cmd("vrange", VRange(pal)) \in Commands(pal)
           /\ Cmd("area", Screen) \in Commands(pal) /\ Cmd("page", FontPage) \in Commands(pal)
           /\ \A f \in {"small", "big"} : Cmd("upload", f) \in Commands(pal)
           /\ \A r \in {Screen, Divider} : Cmd("rect", r) \in Commands(pal)
           /\ \A s \in SUBSET Sprites : Cmd("sprites", s) \in Commands(pal)
BY DEF Commands, Cmd

\* When the first command is done, the next stage is reached.
LEMMA NextStage ==
    ASSUME NEW S, NEW seq \in Seq(S), InOrder(seq), seq # <<>>
    PROVE  /\ Tail(seq) \in Seq(S) /\ InOrder(Tail(seq))
           /\ StageOf(Tail(seq)) = After(Stage(Head(seq).op))
<1>1. Len(seq) \in Nat \ {0} /\ Head(seq) = seq[1]
  BY EmptySeq
<1>2. /\ Tail(seq) \in Seq(S) /\ Len(Tail(seq)) = Len(seq) - 1
      /\ \A i \in 1 .. Len(seq) - 1 : Tail(seq)[i] = seq[i + 1]
  BY HeadTailProperties
<1>3. InOrder(Tail(seq))
  BY <1>1, <1>2 DEF InOrder
<1>4. StageOf(Tail(seq)) = After(Stage(Head(seq).op))
  <2>1. CASE Tail(seq) = <<>>
    <3>1. Len(Tail(seq)) = 0
      BY <2>1, EmptySeq, Zenon
    <3>2. Len(Tail(seq)) = Len(seq) - 1
      BY <1>2, Zenon
    <3> DEFINE n == Len(seq)
               m == Len(Tail(seq))
    <3> HIDE DEF n, m
    <3>3. n \in Nat /\ m = 0 /\ m = n - 1
      BY <1>1, <3>1, <3>2 DEF n, m
    <3>4. n = 1
      BY <3>3
    <3>5. Len(seq) = 1
      BY <3>4 DEF n
    <3>6. Stage(Head(seq).op) = 7
      BY <1>1, <3>5 DEF InOrder
    <3> QED
      BY <2>1, <3>6 DEF StageOf, After
  <2>2. CASE Tail(seq) # <<>>
    <3>1. Len(Tail(seq)) \in Nat \ {0}
      BY <1>2, <2>2, EmptySeq
    <3>2. 1 \in 1 .. Len(seq) - 1
      BY <1>1, <1>2, <3>1
    <3>3. Stage(seq[2].op) = After(Stage(seq[1].op))
      BY <3>2 DEF InOrder
    <3>4. Head(Tail(seq)) = seq[2]
      BY <1>2, <3>2
    <3> QED
      BY <1>1, <2>2, <3>3, <3>4 DEF StageOf
  <2> QED
    BY <2>1, <2>2
<1> QED
  BY <1>2, <1>3, <1>4

-----------------------------------------------------------------------------
(* What the calls put in todo *)

\* The numbers of the layout.
LEMMA LayoutFacts ==
    /\ ScreenW \in Nat /\ ScreenH \in 0 .. 256
    /\ Font.small.w = 6 /\ Font.small.h = 8 /\ Font.small.cell = 8 /\ Font.small.y = 256
    /\ Font.big.w = 12 /\ Font.big.h = 16 /\ Font.big.cell = 16 /\ Font.big.y = 310
    /\ Layout.margin = 20 /\ Layout.title = 10 /\ Layout.subtitle = 28
    /\ Layout.divider = 42 /\ Layout.log = 48
BY SizeAssumption DEF Font, Layout

\* A glyph of either font is in the atlases: the eight bits that the GPU takes
\* of each coordinate are enough.
LEMMA GlyphInAtlas ==
    ASSUME NEW font \in {"small", "big"}, NEW x \in Int, NEW y \in Int, NEW ch \in Code
    PROVE  draw_glyph(font, x, y, ch) \in Sprites
<1> DEFINE g == glyph_index(ch)
<1>1. g \in 0 .. 90
  BY DEF glyph_index, InFont, Code
<1>2. g % 16 \in 0 .. 15 /\ g \div 16 \in 0 .. 5
  BY <1>1
<1> HIDE DEF g
<1>3. CASE font = "small"
  <2>1. Cell(font, g).x % 256 \in 0 .. 255 /\ Cell(font, g).y % 256 \in 0 .. 149
    <3>1. Cell(font, g).x = (g % 16) * 8 /\ Cell(font, g).y = 256 + (g \div 16) * 8
      BY <1>3, LayoutFacts DEF Cell
    <3> DEFINE q == g % 16
               d == g \div 16
    <3>2. q \in 0 .. 15 /\ d \in 0 .. 5
      BY <1>2
    <3> HIDE DEF q, d
    <3>3. (q * 8) % 256 \in 0 .. 255
      BY <3>2
    <3>4. (256 + d * 8) % 256 \in 0 .. 149
      BY <3>2
    <3> QED
      BY <3>1, <3>3, <3>4 DEF q, d
  <2>2. Rect(x, y, Font[font].w, Font[font].h) \in Rects
    BY <1>3, LayoutFacts DEF Rect, Rects
  <2> QED
    BY <2>1, <2>2 DEF draw_glyph, Sprites, g
<1>4. CASE font = "big"
  <2>1. Cell(font, g).x % 256 \in 0 .. 255 /\ Cell(font, g).y % 256 \in 0 .. 149
    <3>1. Cell(font, g).x = (g % 16) * 16 /\ Cell(font, g).y = 310 + (g \div 16) * 16
      BY <1>4, LayoutFacts DEF Cell
    <3> DEFINE q == g % 16
               d == g \div 16
    <3>2. q \in 0 .. 15 /\ d \in 0 .. 5
      BY <1>2
    <3> HIDE DEF q, d
    <3>3. (q * 16) % 256 \in 0 .. 255
      BY <3>2
    <3>4. (310 + d * 16) % 256 \in 0 .. 149
      BY <3>2
    <3> QED
      BY <3>1, <3>3, <3>4 DEF q, d
  <2>2. Rect(x, y, Font[font].w, Font[font].h) \in Rects
    BY <1>4, LayoutFacts DEF Rect, Rects
  <2> QED
    BY <2>1, <2>2 DEF draw_glyph, Sprites, g
<1> QED
  BY <1>3, <1>4

\* The commands that use the GPU and do not set it up.
Plain(pal) == {c \in Commands(pal) : Stage(c.op) = 7}

\* A text is drawn by such a command.
LEMMA TextPlain ==
    ASSUME NEW pal, NEW font \in {"small", "big"}, NEW x \in Int, NEW y \in Int, NEW text \in Text
    PROVE  draw_text(font, x, y, text) \in Plain(pal)
<1> DEFINE glyphs == {draw_glyph(font, x + (i - 1) * Font[font].w, y, text[i]) : i \in DOMAIN text}
<1>1. Font[font].w \in Int
  BY LayoutFacts
<1>2. ASSUME NEW i \in DOMAIN text
      PROVE  draw_glyph(font, x + (i - 1) * Font[font].w, y, text[i]) \in Sprites
  <2>1. i \in 1 .. Len(text) /\ text[i] \in Code
    BY DEF Text
  <2>2. x + (i - 1) * Font[font].w \in Int
    BY <1>1, <2>1
  <2> QED
    BY <2>1, <2>2, GlyphInAtlas
<1>3. glyphs \in SUBSET Sprites
  BY <1>2
<1> HIDE DEF glyphs
<1>4. Cmd("sprites", glyphs) \in Commands(pal)
  BY <1>3, CommandMade
<1>5. Stage(Cmd("sprites", glyphs).op) = 7
  BY DEF Cmd, Stage
<1>6. draw_text(font, x, y, text) = Cmd("sprites", glyphs)
  BY DEF draw_text, glyphs
<1> QED
  BY <1>4, <1>5, <1>6 DEF Plain

\* The other commands of this kind.
LEMMA OthersPlain ==
    ASSUME NEW pal
    PROVE  /\ \A op \in {"flush", "on", "wait"} : Cmd(op, 0) \in Plain(pal)
           /\ \A f \in {"small", "big"} : Cmd("upload", f) \in Plain(pal)
           /\ \A r \in {Screen, Divider} : Cmd("rect", r) \in Plain(pal)
<1>1. \A op, arg : Cmd(op, arg).op = op
  BY DEF Cmd
<1>2. \A op \in {"flush", "on", "wait", "upload", "rect"} : Stage(op) = 7
  BY DEF Stage
<1> QED
  BY <1>1, <1>2, CommandMade DEF Plain

\* The texts are at whole numbers.
LEMMA CentredFacts ==
    ASSUME NEW text \in Text
    PROVE  Centred("big", text) \in Int /\ Centred("small", text) \in Int
<1>1. Len(text) \in Nat
  BY DEF Text
<1>2. ASSUME NEW x \in Int PROVE (IF x < Layout.margin THEN Layout.margin ELSE x) \in Int
  BY LayoutFacts
<1>3. (ScreenW - Len(text) * 12) \div 2 \in Int /\ (ScreenW - Len(text) * 6) \div 2 \in Int
  BY <1>1, LayoutFacts
<1>4. Centred("big", text) \in Int
  BY <1>2, <1>3, LayoutFacts DEF Centred
<1>5. Centred("small", text) \in Int
  BY <1>2, <1>3, LayoutFacts DEF Centred
<1> QED
  BY <1>4, <1>5

\* So is the header, its divider included.
LEMMA HeaderPlain == ASSUME NEW pal PROVE draw_header \in Seq(Plain(pal))
<1>1. Title \in Text /\ Subtitle \in Text
  BY TextAssumption
<1>2. /\ draw_text("big", Centred("big", Title), Layout.title, Title) \in Plain(pal)
      /\ draw_text("small", Centred("small", Subtitle), Layout.subtitle, Subtitle) \in Plain(pal)
  <2>1. /\ Centred("big", Title) \in Int /\ Layout.title \in Int
        /\ Centred("small", Subtitle) \in Int /\ Layout.subtitle \in Int
    BY <1>1, CentredFacts, LayoutFacts
  <2>2. "big" \in {"small", "big"} /\ "small" \in {"small", "big"}
    OBVIOUS
  <2>3. draw_text("big", Centred("big", Title), Layout.title, Title) \in Plain(pal)
    BY <1>1, <2>1, <2>2, TextPlain, Zenon
  <2>4. draw_text("small", Centred("small", Subtitle), Layout.subtitle, Subtitle) \in Plain(pal)
    BY <1>1, <2>1, <2>2, TextPlain, Zenon
  <2> QED
    BY <2>3, <2>4
<1>3. Cmd("rect", Rect(Layout.margin, Layout.divider, ScreenW - 2 * Layout.margin, 1)) \in Plain(pal)
  BY OthersPlain DEF Divider
<1> QED
  BY <1>2, <1>3 DEF draw_header

\* So is the log.
LEMMA LogPlain ==
    ASSUME NEW pal, NEW rows \in Seq(Text)
    PROVE  draw_log(rows) \in Seq(Plain(pal)) /\ Len(draw_log(rows)) = Len(rows)
<1>1. Len(rows) \in Nat /\ DOMAIN rows = 1 .. Len(rows)
  OBVIOUS
<1>2. ASSUME NEW r \in DOMAIN rows
      PROVE  draw_text("small", Layout.margin, Layout.log + (r - 1) * Font.small.h, rows[r]) \in Plain(pal)
  <2>1. rows[r] \in Text /\ r \in Nat
    BY <1>1
  <2>2. Layout.margin \in Int /\ Layout.log + (r - 1) * Font.small.h \in Int
    BY <2>1, LayoutFacts
  <2> QED
    BY <2>1, <2>2, TextPlain
<1>3. draw_log(rows) \in [1 .. Len(rows) -> Plain(pal)]
  BY <1>1, <1>2 DEF draw_log
<1> QED
  BY <1>1, <1>3

\* So is the whole picture, after the wait for the blank.
LEMMA RedrawPlain ==
    ASSUME NEW pal, NEW rows \in Seq(Text)
    PROVE  redraw(rows) \in Seq(Plain(pal)) /\ redraw(rows) # <<>>
<1> DEFINE P == Plain(pal)
           a == <<Cmd("wait", 0), clear_screen>>
           h == draw_header
           b == draw_log(rows)
           c == <<Cmd("flush", 0)>>
<1>1. a \in Seq(P) /\ Len(a) = 2 /\ c \in Seq(P) /\ Len(c) = 1
  <2>1. Cmd("wait", 0) \in P /\ clear_screen \in P /\ Cmd("flush", 0) \in P
    BY OthersPlain DEF clear_screen
  <2> HIDE DEF P
  <2> QED
    BY <2>1
<1>2. h \in Seq(P) /\ b \in Seq(P)
  BY HeaderPlain, LogPlain
<1>3. redraw(rows) = ((a \o h) \o b) \o c
  BY DEF redraw
<1> HIDE DEF P, a, h, b, c
<1>4. a \o h \in Seq(P) /\ (a \o h) \o b \in Seq(P)
  <2>1. a \in Seq(P)
    BY <1>1
  <2>2. a \o h \in Seq(P)
    BY <1>2, <2>1, ConcatProperties
  <2> QED
    BY <1>2, <2>2, ConcatProperties
<1> DEFINE d == (a \o h) \o b
<1>5. d \o c \in Seq(P) /\ Len(d \o c) = Len(d) + 1 /\ Len(d) \in Nat
  <2>1. d \in Seq(P)
    BY <1>4
  <2>2. c \in Seq(P)
    BY <1>1
  <2> HIDE DEF d
  <2>3. d \o c \in Seq(P) /\ Len(d \o c) = Len(d) + Len(c)
    BY <2>1, <2>2, ConcatProperties
  <2>4. Len(d) \in Nat
    BY <2>1
  <2> QED
    BY <1>1, <2>3, <2>4
<1>7. Len(redraw(rows)) # 0
  BY <1>3, <1>5
<1> QED
  BY <1>3, <1>5, <1>7 DEF P

\* The commands of set_video_mode and set_draw_env are in order, and any
\* others may follow.
Almost(seq) ==
    /\ seq # <<>> /\ Stage(seq[Len(seq)].op) \in {6, 7}
    /\ \A i \in 1 .. Len(seq) - 1 : Stage(seq[i + 1].op) = After(Stage(seq[i].op))

\* Commands that only use the GPU may follow it.
LEMMA AddPlain ==
    ASSUME NEW pal, NEW seq \in Seq(Commands(pal)), Almost(seq),
           NEW rest \in Seq(Plain(pal)), rest # <<>>
    PROVE  /\ seq \o rest \in Seq(Commands(pal)) /\ InOrder(seq \o rest) /\ Almost(seq \o rest)
           /\ StageOf(seq \o rest) = StageOf(seq)
<1> DEFINE C == Commands(pal)
           all == seq \o rest
<1>1. rest \in Seq(C) /\ \A i \in 1 .. Len(rest) : Stage(rest[i].op) = 7
  <2>1. \A i \in 1 .. Len(rest) : rest[i] \in Plain(pal)
    BY ElementOfSeq
  <2>2. Plain(pal) \subseteq C
    BY DEF Plain
  <2>3. rest \in Seq(C)
    BY <2>2, SeqMonotonic
  <2> QED
    BY <2>1, <2>3 DEF Plain
<1>2. seq \in Seq(C)
  OBVIOUS
<1> HIDE DEF C
<1>3. Len(seq) \in Nat \ {0} /\ Len(rest) \in Nat \ {0}
  BY <1>1, <1>2, EmptySeq DEF Almost
<1>4. /\ all \in Seq(C) /\ Len(all) = Len(seq) + Len(rest)
      /\ \A i \in 1 .. Len(seq) : all[i] = seq[i]
      /\ \A i \in 1 .. Len(rest) : all[Len(seq) + i] = rest[i]
  BY <1>1, <1>2, <1>3, ConcatProperties
<1> DEFINE n == Len(seq)
           m == Len(rest)
<1> HIDE DEF all, n, m
<1>5. n \in Nat \ {0} /\ m \in Nat \ {0} /\ Len(all) = n + m
  BY <1>3, <1>4 DEF n, m
<1>6. \A i \in n + 1 .. n + m : Stage(all[i].op) = 7
  <2>1. ASSUME NEW i \in n + 1 .. n + m PROVE Stage(all[i].op) = 7
    <3>1. i - n \in 1 .. m /\ n + (i - n) = i
      BY <1>5
    <3>2. all[i] = rest[i - n]
      BY <1>4, <3>1 DEF n, m
    <3> QED
      BY <1>1, <3>1, <3>2 DEF m
  <2> QED
    BY <2>1
<1>7. Stage(all[n].op) \in {6, 7} /\ \A i \in 1 .. n - 1 : Stage(all[i + 1].op) = After(Stage(all[i].op))
  <2>1. all[n] = seq[n] /\ Stage(seq[n].op) \in {6, 7}
    BY <1>4, <1>5 DEF Almost, n
  <2>2. ASSUME NEW i \in 1 .. n - 1 PROVE Stage(all[i + 1].op) = After(Stage(all[i].op))
    <3>1. i \in 1 .. n /\ i + 1 \in 1 .. n
      BY <1>5
    <3>2. all[i] = seq[i] /\ all[i + 1] = seq[i + 1]
      BY <1>4, <3>1 DEF n
    <3> QED
      BY <3>2 DEF Almost, n
  <2> QED
    BY <2>1, <2>2
<1>8. ASSUME NEW i \in 1 .. (n + m) - 1 PROVE Stage(all[i + 1].op) = After(Stage(all[i].op))
  <2>1. CASE i < n
    BY <1>5, <1>7, <2>1
  <2>2. CASE i = n
    <3>1. Stage(all[i + 1].op) = 7
      BY <1>5, <1>6, <2>2
    <3> QED
      BY <1>7, <2>2, <3>1 DEF After
  <2>3. CASE i > n
    <3>1. Stage(all[i + 1].op) = 7 /\ Stage(all[i].op) = 7
      BY <1>5, <1>6, <2>3
    <3> QED
      BY <3>1 DEF After
  <2> QED
    BY <1>5, <2>1, <2>2, <2>3
<1>9. Stage(all[n + m].op) = 7 /\ all # <<>>
  <2>1. n + m \in n + 1 .. n + m /\ n + m # 0
    BY <1>5
  <2>2. all # <<>>
    BY <1>5, <2>1
  <2> QED
    BY <1>6, <2>1, <2>2
<1>10. StageOf(all) = StageOf(seq)
  <2>1. Head(all) = all[1] /\ Head(seq) = seq[1]
    BY <1>2, <1>4, <1>9, EmptySeq DEF Almost
  <2>2. 1 \in 1 .. n
    BY <1>5
  <2>3. all[1] = seq[1]
    BY <1>4, <2>2 DEF n
  <2> QED
    BY <1>9, <2>1, <2>3 DEF StageOf, Almost
<1> QED
  BY <1>4, <1>5, <1>8, <1>9, <1>10 DEF InOrder, Almost, C, all

\* Commands that only use the GPU may come in any order.
LEMMA PlainInOrder ==
    ASSUME NEW pal, NEW seq \in Seq(Plain(pal)), seq # <<>>
    PROVE  seq \in Seq(Commands(pal)) /\ InOrder(seq) /\ StageOf(seq) = 7
<1>1. \A i \in 1 .. Len(seq) : Stage(seq[i].op) = 7
  <2>1. \A i \in 1 .. Len(seq) : seq[i] \in Plain(pal)
    BY ElementOfSeq
  <2> QED
    BY <2>1 DEF Plain
<1>2. seq \in Seq(Commands(pal))
  <2>1. Plain(pal) \subseteq Commands(pal)
    BY DEF Plain
  <2> QED
    BY <2>1, SeqMonotonic
<1>3. Len(seq) \in Nat \ {0} /\ Head(seq) = seq[1]
  BY EmptySeq
<1>4. InOrder(seq)
  BY <1>1, <1>3 DEF InOrder, After
<1>5. StageOf(seq) = 7
  BY <1>1, <1>3 DEF StageOf
<1> QED
  BY <1>2, <1>4, <1>5

\* Sequences that are put together one after the other.
LEMMA Joined ==
    ASSUME NEW S, NEW s \in Seq(S), NEW t \in Seq(S), Len(t) = 2
    PROVE  /\ s \o t \in Seq(S) /\ Len(s \o t) = Len(s) + 2
           /\ \A i \in 1 .. Len(s) : (s \o t)[i] = s[i]
           /\ (s \o t)[Len(s) + 1] = t[1] /\ (s \o t)[Len(s) + 2] = t[2]
<1> DEFINE n == Len(s)
<1>1. /\ s \o t \in Seq(S) /\ Len(s \o t) = Len(s) + Len(t)
      /\ \A i \in 1 .. Len(s) + Len(t) :
            (s \o t)[i] = IF i <= Len(s) THEN s[i] ELSE t[i - Len(s)]
  BY ConcatProperties
<1>2. \A i \in 1 .. n : (s \o t)[i] = s[i]
  BY <1>1
<1>3. (s \o t)[n + 1] = t[1]
  BY <1>1
<1>4. (s \o t)[n + 2] = t[2]
  BY <1>1
<1> QED
  BY <1>1, <1>2, <1>3, <1>4

\* What each call of screen.c puts in todo is in order.
LEMMA SwitchInOrder ==
    ASSUME NEW pal, NEW rows \in Seq(Text)
    PROVE  LET seq == <<Cmd("off", 0)>> \o set_video_mode(pal) \o set_draw_env
                      \o <<Cmd("on", 0)>> \o redraw(rows)
           IN  seq \in Seq(Commands(pal)) /\ InOrder(seq) /\ seq # <<>> /\ StageOf(seq) = 2
<1> DEFINE s == <<Cmd("off", 0)>> \o set_video_mode(pal) \o set_draw_env
           on == <<Cmd("on", 0)>>
<1>1. /\ s \in Seq(Commands(pal)) /\ Len(s) = 5
      /\ s[1] = Cmd("off", 0) /\ s[2] = Cmd("mode", pal) /\ s[3] = Cmd("vrange", VRange(pal))
      /\ s[4] = Cmd("area", Screen) /\ s[5] = Cmd("page", FontPage)
  <2> DEFINE C == Commands(pal)
             a == Cmd("off", 0)
             b == Cmd("mode", pal)
             c == Cmd("vrange", VRange(pal))
             d == Cmd("area", Screen)
             e == Cmd("page", FontPage)
  <2>1. a \in C /\ b \in C /\ c \in C /\ d \in C /\ e \in C
    BY CommandMade
  <2>2. s = (<<a>> \o <<b, c>>) \o <<d, e>>
    BY DEF set_video_mode, set_draw_env, FontPage
  <2> HIDE DEF C, a, b, c, d, e
  <2> DEFINE x == <<a>>
             y == <<b, c>>
             z == <<d, e>>
  <2>3. /\ x \in Seq(C) /\ Len(x) = 1 /\ x[1] = a
        /\ y \in Seq(C) /\ Len(y) = 2 /\ y[1] = b /\ y[2] = c
        /\ z \in Seq(C) /\ Len(z) = 2 /\ z[1] = d /\ z[2] = e
    BY <2>1
  <2> HIDE DEF x, y, z
  <2> DEFINE t == x \o y
  <2>4. t \in Seq(C) /\ Len(t) = 3 /\ t[1] = a /\ t[2] = b /\ t[3] = c
    <3>1. /\ t \in Seq(C) /\ Len(t) = Len(x) + 2
          /\ \A i \in 1 .. Len(x) : t[i] = x[i]
          /\ t[Len(x) + 1] = y[1] /\ t[Len(x) + 2] = y[2]
      BY <2>3, Joined
    <3> HIDE DEF t
    <3> QED
      BY <2>3, <3>1
  <2> HIDE DEF t
  <2>5. /\ t \o z \in Seq(C) /\ Len(t \o z) = 5
        /\ \A i \in 1 .. 3 : (t \o z)[i] = t[i]
        /\ (t \o z)[4] = d /\ (t \o z)[5] = e
    <3> DEFINE u == t \o z
    <3>1. /\ u \in Seq(C) /\ Len(u) = Len(t) + 2
          /\ \A i \in 1 .. Len(t) : u[i] = t[i]
          /\ u[Len(t) + 1] = z[1] /\ u[Len(t) + 2] = z[2]
      BY <2>3, <2>4, Joined
    <3> HIDE DEF u
    <3>2. /\ u \in Seq(C) /\ Len(u) = 5
          /\ \A i \in 1 .. 3 : u[i] = t[i]
          /\ u[4] = d /\ u[5] = e
      BY <2>3, <2>4, <3>1
    <3> QED
      BY <3>2 DEF u
  <2>6. s = t \o z
    BY <2>2 DEF t, x, y, z
  <2> HIDE DEF s
  <2>7. s \in Seq(C) /\ Len(s) = 5 /\ s[4] = d /\ s[5] = e /\ \A i \in 1 .. 3 : s[i] = t[i]
    BY <2>5, <2>6
  <2>8. s[1] = a /\ s[2] = b /\ s[3] = c
    BY <2>4, <2>7
  <2> QED
    BY <2>7, <2>8 DEF C, a, b, c, d, e
<1> HIDE DEF s
<1>2. s \in Seq(Commands(pal)) /\ Len(s) = 5
  BY <1>1
<1>3. Almost(s) /\ StageOf(s) = 2
  <2>1. /\ s[1].op = "off" /\ s[2].op = "mode" /\ s[3].op = "vrange" /\ s[4].op = "area"
        /\ s[5].op = "page"
    BY <1>1 DEF Cmd
  <2>0. s # <<>> /\ Head(s) = s[1]
    <3>1. ASSUME s = <<>> PROVE FALSE
      <4>1. Len(s) = 0
        BY <3>1, EmptySeq, Zenon
      <4> QED
        BY <1>2, <4>1
    <3> QED
      BY <1>2, <3>1
  <2>2. /\ Stage("off") = 2 /\ Stage("mode") = 3 /\ Stage("vrange") = 4
        /\ Stage("area") = 5 /\ Stage("page") = 6
    BY DEF Stage
  <2>3. ASSUME NEW i \in 1 .. 4 PROVE Stage(s[i + 1].op) = After(Stage(s[i].op))
    <3>1. i = 1 \/ i = 2 \/ i = 3 \/ i = 4
      OBVIOUS
    <3> QED
      BY <2>1, <2>2, <3>1 DEF After
  <2> QED
    BY <1>2, <2>0, <2>1, <2>2, <2>3 DEF Almost, StageOf
<1>4. on \in Seq(Plain(pal)) /\ on # <<>>
  <2>1. Cmd("on", 0) \in Plain(pal)
    BY OthersPlain
  <2> QED
    BY <2>1
<1>5. redraw(rows) \in Seq(Plain(pal)) /\ redraw(rows) # <<>>
  BY RedrawPlain
<1> HIDE DEF on
<1>6. s \o on \in Seq(Commands(pal)) /\ Almost(s \o on) /\ StageOf(s \o on) = 2
  BY <1>2, <1>3, <1>4, AddPlain
<1> DEFINE t == s \o on
<1>7. t \in Seq(Commands(pal)) /\ Almost(t) /\ StageOf(t) = 2
  BY <1>6
<1> HIDE DEF t
<1>8. /\ t \o redraw(rows) \in Seq(Commands(pal)) /\ InOrder(t \o redraw(rows))
      /\ Almost(t \o redraw(rows)) /\ StageOf(t \o redraw(rows)) = 2
  BY <1>5, <1>7, AddPlain
<1> QED
  BY <1>8 DEF Almost, s, on, t

\* debug_init sets everything up before it draws.
LEMMA InitInOrder ==
    ASSUME NEW pal
    PROVE  LET seq == <<Cmd("reset", 0), Cmd("off", 0)>> \o set_video_mode(pal) \o set_draw_env
                      \o upload_fonts \o <<clear_screen>> \o draw_header
                      \o <<Cmd("flush", 0), Cmd("on", 0)>>
           IN  seq \in Seq(Commands(pal)) /\ InOrder(seq) /\ seq # <<>> /\ StageOf(seq) = 1
<1> DEFINE s == <<Cmd("reset", 0), Cmd("off", 0)>> \o set_video_mode(pal) \o set_draw_env
           up == upload_fonts
           clear == <<clear_screen>>
           h == draw_header
           show == <<Cmd("flush", 0), Cmd("on", 0)>>
<1>1. /\ s \in Seq(Commands(pal)) /\ Len(s) = 6
      /\ s[1] = Cmd("reset", 0) /\ s[2] = Cmd("off", 0)
      /\ s[3] = Cmd("mode", pal) /\ s[4] = Cmd("vrange", VRange(pal))
      /\ s[5] = Cmd("area", Screen) /\ s[6] = Cmd("page", FontPage)
  <2> DEFINE C == Commands(pal)
             r == Cmd("reset", 0)
             a == Cmd("off", 0)
             b == Cmd("mode", pal)
             c == Cmd("vrange", VRange(pal))
             d == Cmd("area", Screen)
             e == Cmd("page", FontPage)
  <2>1. r \in C /\ a \in C /\ b \in C /\ c \in C /\ d \in C /\ e \in C
    BY CommandMade
  <2>2. s = (<<r, a>> \o <<b, c>>) \o <<d, e>>
    BY DEF set_video_mode, set_draw_env, FontPage
  <2> HIDE DEF C, r, a, b, c, d, e
  <2> DEFINE x == <<r, a>>
             y == <<b, c>>
             z == <<d, e>>
  <2>3. /\ x \in Seq(C) /\ Len(x) = 2 /\ x[1] = r /\ x[2] = a
        /\ y \in Seq(C) /\ Len(y) = 2 /\ y[1] = b /\ y[2] = c
        /\ z \in Seq(C) /\ Len(z) = 2 /\ z[1] = d /\ z[2] = e
    BY <2>1
  <2> HIDE DEF x, y, z
  <2> DEFINE t == x \o y
  <2>4. t \in Seq(C) /\ Len(t) = 4 /\ t[1] = r /\ t[2] = a /\ t[3] = b /\ t[4] = c
    <3>1. /\ t \in Seq(C) /\ Len(t) = Len(x) + 2
          /\ \A i \in 1 .. Len(x) : t[i] = x[i]
          /\ t[Len(x) + 1] = y[1] /\ t[Len(x) + 2] = y[2]
      BY <2>3, Joined
    <3> HIDE DEF t
    <3> QED
      BY <2>3, <3>1
  <2> HIDE DEF t
  <2>5. /\ t \o z \in Seq(C) /\ Len(t \o z) = 6
        /\ \A i \in 1 .. 4 : (t \o z)[i] = t[i]
        /\ (t \o z)[5] = d /\ (t \o z)[6] = e
    <3> DEFINE u == t \o z
    <3>1. /\ u \in Seq(C) /\ Len(u) = Len(t) + 2
          /\ \A i \in 1 .. Len(t) : u[i] = t[i]
          /\ u[Len(t) + 1] = z[1] /\ u[Len(t) + 2] = z[2]
      BY <2>3, <2>4, Joined
    <3> HIDE DEF u
    <3>2. /\ u \in Seq(C) /\ Len(u) = 6
          /\ \A i \in 1 .. 4 : u[i] = t[i]
          /\ u[5] = d /\ u[6] = e
      BY <2>3, <2>4, <3>1
    <3> QED
      BY <3>2 DEF u
  <2>6. s = t \o z
    BY <2>2 DEF t, x, y, z
  <2> HIDE DEF s
  <2> QED
    BY <2>4, <2>5, <2>6 DEF C, r, a, b, c, d, e
<1> HIDE DEF s
<1>2. s \in Seq(Commands(pal)) /\ Len(s) = 6
  BY <1>1
<1>3. Almost(s) /\ StageOf(s) = 1
  <2>1. /\ s[1].op = "reset" /\ s[2].op = "off" /\ s[3].op = "mode" /\ s[4].op = "vrange"
        /\ s[5].op = "area" /\ s[6].op = "page"
    BY <1>1 DEF Cmd
  <2>0. s # <<>> /\ Head(s) = s[1]
    <3>1. ASSUME s = <<>> PROVE FALSE
      <4>1. Len(s) = 0
        BY <3>1, EmptySeq, Zenon
      <4> QED
        BY <1>2, <4>1
    <3> QED
      BY <1>2, <3>1
  <2>2. /\ Stage("reset") = 1 /\ Stage("off") = 2 /\ Stage("mode") = 3 /\ Stage("vrange") = 4
        /\ Stage("area") = 5 /\ Stage("page") = 6
    BY DEF Stage
  <2>3. ASSUME NEW i \in 1 .. 5 PROVE Stage(s[i + 1].op) = After(Stage(s[i].op))
    <3>1. i = 1 \/ i = 2 \/ i = 3 \/ i = 4 \/ i = 5
      OBVIOUS
    <3> QED
      BY <2>1, <2>2, <3>1 DEF After
  <2> QED
    BY <1>2, <2>0, <2>1, <2>2, <2>3 DEF Almost, StageOf
<1>4. /\ up \in Seq(Plain(pal)) /\ up # <<>> /\ clear \in Seq(Plain(pal)) /\ clear # <<>>
      /\ h \in Seq(Plain(pal)) /\ h # <<>> /\ show \in Seq(Plain(pal)) /\ show # <<>>
  <2>1. /\ Cmd("flush", 0) \in Plain(pal) /\ Cmd("on", 0) \in Plain(pal)
        /\ Cmd("upload", "small") \in Plain(pal) /\ Cmd("upload", "big") \in Plain(pal)
    BY OthersPlain
  <2>2. clear_screen \in Plain(pal)
    BY OthersPlain DEF clear_screen
  <2>3. h # <<>>
    BY DEF draw_header
  <2>4. h \in Seq(Plain(pal))
    BY HeaderPlain
  <2>5. up \in Seq(Plain(pal)) /\ up # <<>>
    BY <2>1 DEF upload_fonts
  <2> QED
    BY <2>1, <2>2, <2>3, <2>4, <2>5
<1> HIDE DEF up, clear, h, show
<1> DEFINE s1 == s \o up
           s2 == s1 \o clear
           s3 == s2 \o h
           s4 == s3 \o show
<1>5. s1 \in Seq(Commands(pal)) /\ Almost(s1) /\ StageOf(s1) = 1
  BY <1>2, <1>3, <1>4, AddPlain
<1> HIDE DEF s1
<1>6. s2 \in Seq(Commands(pal)) /\ Almost(s2) /\ StageOf(s2) = 1
  BY <1>4, <1>5, AddPlain
<1> HIDE DEF s2
<1>7. s3 \in Seq(Commands(pal)) /\ Almost(s3) /\ StageOf(s3) = 1
  BY <1>4, <1>6, AddPlain
<1> HIDE DEF s3
<1>8. s4 \in Seq(Commands(pal)) /\ InOrder(s4) /\ Almost(s4) /\ StageOf(s4) = 1
  BY <1>4, <1>7, AddPlain
<1> HIDE DEF s4
<1>9. s4 # <<>>
  BY <1>8 DEF Almost
<1> QED
  BY <1>8, <1>9 DEF s, up, clear, h, show, s1, s2, s3, s4

-----------------------------------------------------------------------------
(* Standard and blank *)

\* gpu is a record of five registers.
GpuOK ==
    /\ gpu = [pal |-> gpu.pal, on |-> gpu.on, vrange |-> gpu.vrange,
              area |-> gpu.area, page |-> gpu.page]
    /\ gpu.pal \in BOOLEAN /\ gpu.on \in BOOLEAN

\* What is still to be sent, and when something is.
QueueInv ==
    /\ todo \in Seq(Commands(is_pal)) /\ InOrder(todo)
    /\ at \in {"off", "init", "idle"} => todo = <<>>
    /\ at \in {"ack", "poll"} => todo # <<>> /\ Head(todo).op = "wait"

\* The display is on only with a vertical range that fits the standard, and
\* the registers that come before the next stage have what is_pal asks for.
SetupInv ==
    /\ gpu.on => gpu.vrange = VRange(gpu.pal)
    /\ at \in {"off", "init"} => wanted = gpu.pal
    /\ at \notin {"off", "init"} =>
          /\ wanted = is_pal
          /\ StageOf(todo) \in {3, 4} => ~gpu.on
          /\ StageOf(todo) \in {4, 5, 6, 7} => gpu.pal = is_pal
          /\ StageOf(todo) \in {5, 6, 7} => gpu.vrange = VRange(is_pal)
          /\ StageOf(todo) \in {6, 7} => gpu.area = Screen
          /\ StageOf(todo) = 7 => gpu.page = FontPage

\* The loader never unmasks the blank for the kernel's handler.
MaskInv == at # "off" => ~i_mask

StandardInv == TypeOK /\ GpuOK /\ QueueInv /\ SetupInv /\ MaskInv

\* The rest of the queue after a command.
LEMMA DoneQueue ==
    ASSUME QueueInv, NEW op, Done(op)
    PROVE  /\ QueueInv' /\ at = "run" /\ Head(todo) \in Commands(is_pal) /\ Head(todo).op = op
           /\ StageOf(todo) = Stage(op) /\ StageOf(todo)' = After(Stage(op))
<1>1. /\ at = "run" /\ todo # <<>> /\ Head(todo).op = op /\ todo' = Tail(todo)
      /\ at' = at /\ is_pal' = is_pal
  BY DEF Done, Does
<1>2. todo \in Seq(Commands(is_pal)) /\ InOrder(todo)
  BY DEF QueueInv
<1> DEFINE C == Commands(is_pal)
<1>3. Head(todo) \in C
  <2> HIDE DEF C
  <2>1. todo \in Seq(C)
    BY <1>2 DEF C
  <2> QED
    BY <1>1, <2>1, HeadTailProperties
<1>4. /\ Tail(todo) \in Seq(C) /\ InOrder(Tail(todo))
      /\ StageOf(Tail(todo)) = After(Stage(Head(todo).op))
  <2> HIDE DEF C
  <2>1. todo \in Seq(C)
    BY <1>2 DEF C
  <2> QED
    BY <1>1, <1>2, <2>1, NextStage
<1>5. StageOf(todo)' = StageOf(todo')
  BY DEF StageOf
<1>6. QueueInv'
  BY <1>1, <1>4 DEF QueueInv, Commands, InOrder, VRange
<1> QED
  BY <1>1, <1>3, <1>4, <1>5, <1>6 DEF StageOf

\* The stages in numbers.
LEMMA StageFacts ==
    /\ Stage("reset") = 1 /\ Stage("off") = 2 /\ Stage("mode") = 3 /\ Stage("vrange") = 4
    /\ Stage("area") = 5 /\ Stage("page") = 6
    /\ \A op \in {"flush", "on", "wait", "upload", "rect", "sprites"} : Stage(op) = 7
    /\ After(1) = 2 /\ After(2) = 3 /\ After(3) = 4 /\ After(4) = 5 /\ After(5) = 6
    /\ After(6) = 7 /\ After(7) = 7
BY DEF Stage, After

\* A register is set.
LEMMA RegisterStep ==
    StandardInv
        /\ (gpu_reset \/ gpu_display_disable \/ gpu_display_enable \/ gpu_display_mode
            \/ gpu_set_vrange \/ gpu_set_drawing_area \/ SetPage)
        => StandardInv'
<1> SUFFICES ASSUME StandardInv,
                    gpu_reset \/ gpu_display_disable \/ gpu_display_enable \/ gpu_display_mode
                    \/ gpu_set_vrange \/ gpu_set_drawing_area \/ SetPage
             PROVE  StandardInv'
  OBVIOUS
<1>1. TypeOK /\ GpuOK /\ QueueInv /\ SetupInv /\ MaskInv /\ is_pal \in BOOLEAN
  BY DEF StandardInv, TypeOK
<1>2. ASSUME NEW op, NEW g, Sets(op, g)
      PROVE  /\ gpu' = g /\ QueueInv' /\ MaskInv' /\ at = "run" /\ at' = "run"
             /\ wanted' = is_pal /\ is_pal' = is_pal
             /\ StageOf(todo) = Stage(op) /\ StageOf(todo)' = After(Stage(op))
             /\ Head(todo) \in Commands(is_pal) /\ Head(todo).op = op
             /\ UNCHANGED <<at, is_pal, log, i_stat, i_mask, wanted, vram, cache, frame>>
  BY <1>1, <1>2, DoneQueue DEF Sets, Done, MaskInv, SetupInv
<1>3. ASSUME UNCHANGED <<at, is_pal, log, i_stat, i_mask, wanted, vram, cache, frame>>,
             gpu'.pal \in BOOLEAN, gpu'.on \in BOOLEAN
      PROVE  TypeOK'
  BY <1>1, <1>3 DEF TypeOK
<1>4. CASE gpu_reset
  <2>1. gpu' = NoGpu
    BY <1>2, <1>4 DEF gpu_reset
  <2>2. GpuOK' /\ gpu'.pal \in BOOLEAN /\ gpu'.on = FALSE
    BY <2>1 DEF GpuOK, NoGpu
  <2>3. SetupInv'
    BY <1>2, <1>4, <2>2, StageFacts DEF gpu_reset, SetupInv
  <2> QED
    BY <1>2, <1>3, <1>4, <2>2, <2>3 DEF gpu_reset, StandardInv
<1>5. CASE gpu_display_disable
  <2>1. gpu' = [gpu EXCEPT !.on = FALSE]
    BY <1>2, <1>5 DEF gpu_display_disable
  <2>2. GpuOK' /\ gpu'.pal \in BOOLEAN /\ gpu'.on = FALSE
    BY <1>1, <2>1 DEF GpuOK
  <2>3. SetupInv'
    BY <1>2, <1>5, <2>2, StageFacts DEF gpu_display_disable, SetupInv
  <2> QED
    BY <1>2, <1>3, <1>5, <2>2, <2>3 DEF gpu_display_disable, StandardInv
<1>6. CASE gpu_display_enable
  <2>1. gpu' = [gpu EXCEPT !.on = TRUE]
    BY <1>2, <1>6 DEF gpu_display_enable
  <2>2. /\ GpuOK' /\ gpu'.on = TRUE /\ gpu'.pal = gpu.pal /\ gpu'.vrange = gpu.vrange
        /\ gpu'.area = gpu.area /\ gpu'.page = gpu.page /\ gpu'.pal \in BOOLEAN
    BY <1>1, <2>1 DEF GpuOK
  <2>3. StageOf(todo) = 7 /\ StageOf(todo)' = 7 /\ at = "run"
    BY <1>2, <1>6, StageFacts DEF gpu_display_enable
  <2>4. SetupInv'
    BY <1>1, <1>2, <1>6, <2>2, <2>3 DEF gpu_display_enable, SetupInv
  <2> QED
    BY <1>2, <1>3, <1>6, <2>2, <2>4 DEF gpu_display_enable, StandardInv
<1>7. CASE gpu_display_mode
  <2>1. gpu' = [gpu EXCEPT !.pal = is_pal]
    BY <1>2, <1>7, CommandFacts DEF gpu_display_mode, Arg
  <2>2. /\ GpuOK' /\ gpu'.on = gpu.on /\ gpu'.pal = is_pal /\ gpu'.vrange = gpu.vrange
        /\ gpu'.area = gpu.area /\ gpu'.page = gpu.page
    BY <1>1, <2>1 DEF GpuOK
  <2>3. StageOf(todo) = 3 /\ StageOf(todo)' = 4 /\ at = "run"
    BY <1>2, <1>7, StageFacts DEF gpu_display_mode
  <2>4. SetupInv' /\ gpu'.on \in BOOLEAN
    BY <1>1, <1>2, <1>7, <2>2, <2>3 DEF gpu_display_mode, SetupInv, GpuOK
  <2> QED
    BY <1>1, <1>2, <1>3, <1>7, <2>2, <2>4 DEF gpu_display_mode, StandardInv
<1>8. CASE gpu_set_vrange
  <2>1. gpu' = [gpu EXCEPT !.vrange = VRange(is_pal)]
    BY <1>2, <1>8, CommandFacts DEF gpu_set_vrange, Arg
  <2>2. /\ GpuOK' /\ gpu'.on = gpu.on /\ gpu'.pal = gpu.pal /\ gpu'.vrange = VRange(is_pal)
        /\ gpu'.area = gpu.area /\ gpu'.page = gpu.page /\ gpu'.pal \in BOOLEAN /\ gpu'.on \in BOOLEAN
    BY <1>1, <2>1 DEF GpuOK
  <2>3. StageOf(todo) = 4 /\ StageOf(todo)' = 5 /\ at = "run"
    BY <1>2, <1>8, StageFacts DEF gpu_set_vrange
  <2>4. SetupInv'
    BY <1>1, <1>2, <1>8, <2>2, <2>3 DEF gpu_set_vrange, SetupInv
  <2> QED
    BY <1>1, <1>2, <1>3, <1>8, <2>2, <2>4 DEF gpu_set_vrange, StandardInv
<1>9. CASE gpu_set_drawing_area
  <2>1. gpu' = [gpu EXCEPT !.area = Screen]
    BY <1>2, <1>9, CommandFacts DEF gpu_set_drawing_area, Arg
  <2>2. /\ GpuOK' /\ gpu'.on = gpu.on /\ gpu'.pal = gpu.pal /\ gpu'.vrange = gpu.vrange
        /\ gpu'.area = Screen /\ gpu'.page = gpu.page /\ gpu'.pal \in BOOLEAN /\ gpu'.on \in BOOLEAN
    BY <1>1, <2>1 DEF GpuOK
  <2>3. StageOf(todo) = 5 /\ StageOf(todo)' = 6 /\ at = "run"
    BY <1>2, <1>9, StageFacts DEF gpu_set_drawing_area
  <2>4. SetupInv'
    BY <1>1, <1>2, <1>9, <2>2, <2>3 DEF gpu_set_drawing_area, SetupInv
  <2> QED
    BY <1>1, <1>2, <1>3, <1>9, <2>2, <2>4 DEF gpu_set_drawing_area, StandardInv
<1>10. CASE SetPage
  <2>1. gpu' = [gpu EXCEPT !.page = FontPage]
    BY <1>2, <1>10, CommandFacts DEF SetPage, Arg
  <2>2. /\ GpuOK' /\ gpu'.on = gpu.on /\ gpu'.pal = gpu.pal /\ gpu'.vrange = gpu.vrange
        /\ gpu'.area = gpu.area /\ gpu'.page = FontPage /\ gpu'.pal \in BOOLEAN /\ gpu'.on \in BOOLEAN
    BY <1>1, <2>1 DEF GpuOK
  <2>3. StageOf(todo) = 6 /\ StageOf(todo)' = 7 /\ at = "run"
    BY <1>2, <1>10, StageFacts DEF SetPage
  <2>4. SetupInv'
    BY <1>1, <1>2, <1>10, <2>2, <2>3 DEF SetPage, SetupInv
  <2> QED
    BY <1>1, <1>2, <1>3, <1>10, <2>2, <2>4 DEF SetPage, StandardInv
<1> QED
  BY <1>4, <1>5, <1>6, <1>7, <1>8, <1>9, <1>10

\* Something is drawn, uploaded or flushed: the registers stay.
LEMMA DrawStep ==
    StandardInv /\ (gpu_flush_cache \/ GPU_dw \/ gpu_draw_solid_rect \/ gpu_draw_tex_rect)
        => StandardInv'
<1> SUFFICES ASSUME StandardInv,
                    gpu_flush_cache \/ GPU_dw \/ gpu_draw_solid_rect \/ gpu_draw_tex_rect
             PROVE  StandardInv'
  OBVIOUS
<1>1. TypeOK /\ GpuOK /\ QueueInv /\ SetupInv /\ MaskInv
  BY DEF StandardInv
<1>2. ASSUME NEW op \in {"flush", "upload", "rect", "sprites"}, Done(op), gpu' = gpu
      PROVE  /\ GpuOK' /\ QueueInv' /\ SetupInv' /\ MaskInv' /\ StageOf(todo) = 7 /\ at = "run"
             /\ Head(todo) \in Commands(is_pal) /\ Head(todo).op = op
             /\ UNCHANGED <<at, is_pal, log, i_stat, i_mask, wanted>>
  <2>1. /\ QueueInv' /\ at = "run" /\ Head(todo) \in Commands(is_pal) /\ Head(todo).op = op
        /\ StageOf(todo) = Stage(op) /\ StageOf(todo)' = After(Stage(op))
    BY <1>1, <1>2, DoneQueue
  <2>2. StageOf(todo) = 7 /\ StageOf(todo)' = 7
    BY <2>1, StageFacts
  <2>3. UNCHANGED <<at, is_pal, log, i_stat, i_mask, wanted>>
    BY <1>2 DEF Done
  <2> QED
    BY <1>1, <1>2, <2>1, <2>2, <2>3 DEF GpuOK, SetupInv, MaskInv
<1>3. CASE gpu_flush_cache
  BY <1>1, <1>2, <1>3 DEF gpu_flush_cache, TypeOK, StandardInv
<1>4. CASE GPU_dw
  <2>1. Done("upload") /\ gpu' = gpu
    BY <1>4 DEF GPU_dw
  <2>2. Arg \in {"small", "big"}
    BY <1>2, <2>1, CommandFacts DEF Arg
  <2>3. vram' \subseteq {"small", "big"} /\ cache' \in {"empty", "new", "old"} /\ frame' = frame
    BY <1>1, <1>4, <2>2 DEF GPU_dw, TypeOK
  <2> QED
    BY <1>1, <1>2, <2>1, <2>3 DEF TypeOK, StandardInv
<1>5. CASE gpu_draw_solid_rect
  BY <1>1, <1>2, <1>5 DEF gpu_draw_solid_rect, TypeOK, StandardInv
<1>6. CASE gpu_draw_tex_rect
  <2>1. Done("sprites") /\ UNCHANGED <<gpu, vram>> /\ cache' \in {"empty", "new", "old"}
    BY <1>6 DEF gpu_draw_tex_rect
  <2>2. Arg \subseteq Sprites
    BY <1>2, <2>1, CommandFacts DEF Arg
  <2>3. gpu.page = FontPage
    BY <1>1, <1>2, <2>1 DEF SetupInv
  <2>4. ASSUME NEW s \in frame' PROVE s.from.x \in 0 .. 255 /\ s.from.y \in 256 .. 405
    <3>1. CASE s \in frame
      BY <1>1, <3>1 DEF TypeOK
    <3>2. CASE s \notin frame
      <4>1. PICK g \in Arg : s.from = [x |-> gpu.page.x + g.u, y |-> gpu.page.y + g.v]
        BY <1>6, <3>2 DEF gpu_draw_tex_rect
      <4>2. g.u \in 0 .. 255 /\ g.v \in 0 .. 149
        BY <2>2 DEF Sprites
      <4>3. s.from.x = g.u /\ s.from.y = 256 + g.v
        BY <2>3, <4>1, <4>2 DEF FontPage
      <4> QED
        BY <4>2, <4>3
    <3> QED
      BY <3>1, <3>2
  <2>5. TypeOK'
    BY <1>1, <1>2, <2>1, <2>4 DEF TypeOK
  <2> QED
    BY <1>2, <2>1, <2>5 DEF StandardInv
<1> QED
  BY <1>3, <1>4, <1>5, <1>6

\* The waits and the machine's own steps.
LEMMA WaitStep ==
    StandardInv /\ (WaitVblank \/ AckVblank \/ PollVblank \/ VBlank \/ KernelAcks \/ Return)
        => StandardInv'
<1> SUFFICES ASSUME StandardInv,
                    WaitVblank \/ AckVblank \/ PollVblank \/ VBlank \/ KernelAcks \/ Return
             PROVE  StandardInv'
  OBVIOUS
<1>1. TypeOK /\ GpuOK /\ QueueInv /\ SetupInv /\ MaskInv
  BY DEF StandardInv
<1>2. ASSUME UNCHANGED <<todo, is_pal, log, gpu, vram, cache, frame, i_mask, wanted>>,
             (at \notin {"off", "init"} /\ at' \notin {"off", "init"}) \/ at' = at,
             i_stat' \in BOOLEAN, at' \in {"off", "init", "idle", "run", "ack", "poll"},
             at' = "idle" => todo = <<>>,
             at' \in {"ack", "poll"} => todo # <<>> /\ Head(todo).op = "wait"
      PROVE  StandardInv'
  <2>1. TypeOK' /\ GpuOK' /\ MaskInv'
    BY <1>1, <1>2 DEF TypeOK, GpuOK, MaskInv
  <2>2. SetupInv'
    BY <1>1, <1>2 DEF SetupInv, StageOf
  <2>3. InOrder(todo)'
    BY <1>1, <1>2 DEF QueueInv, InOrder
  <2>4. (todo \in Seq(Commands(is_pal)))'
    BY <1>1, <1>2 DEF QueueInv, Commands, VRange
  <2>5. QueueInv'
    BY <1>1, <1>2, <2>3, <2>4 DEF QueueInv
  <2> QED
    BY <2>1, <2>2, <2>5 DEF StandardInv
<1>3. CASE WaitVblank
  BY <1>2, <1>1, <1>3 DEF WaitVblank, Does, TypeOK
<1>4. CASE AckVblank
  BY <1>2, <1>1, <1>4 DEF AckVblank, QueueInv
<1>5. CASE PollVblank
  <2>1. QueueInv /\ todo # <<>> /\ Head(todo).op = "wait" /\ todo' = Tail(todo)
    BY <1>1, <1>5 DEF PollVblank, QueueInv
  <2>2. todo \in Seq(Commands(is_pal)) /\ InOrder(todo)
    BY <2>1 DEF QueueInv
  <2> DEFINE C == Commands(is_pal)
  <2>3. /\ Tail(todo) \in Seq(C) /\ InOrder(Tail(todo))
        /\ StageOf(Tail(todo)) = After(Stage(Head(todo).op))
    <3>1. todo \in Seq(C)
      BY <2>2 DEF C
    <3> HIDE DEF C
    <3> QED
      BY <2>1, <2>2, <3>1, NextStage
  <2>4. StageOf(todo) = 7 /\ StageOf(todo)' = 7
    BY <2>1, <2>3, StageFacts DEF StageOf
  <2>5. UNCHANGED <<is_pal, log, gpu, vram, cache, frame, i_stat, i_mask, wanted>> /\ at' = "run" /\ at = "poll"
    BY <1>5 DEF PollVblank
  <2>6. (todo \in Seq(Commands(is_pal)))' /\ InOrder(todo)'
    BY <2>1, <2>3, <2>5 DEF Commands, VRange, InOrder
  <2>7. TypeOK' /\ GpuOK' /\ MaskInv' /\ SetupInv'
    BY <1>1, <2>4, <2>5 DEF TypeOK, GpuOK, MaskInv, SetupInv
  <2> QED
    BY <2>5, <2>6, <2>7 DEF StandardInv, QueueInv
<1>6. CASE VBlank
  BY <1>2, <1>1, <1>6 DEF VBlank, QueueInv, TypeOK
<1>7. CASE KernelAcks
  BY <1>2, <1>1, <1>7 DEF KernelAcks, QueueInv, TypeOK
<1>8. CASE Return
  BY <1>2, <1>1, <1>8 DEF Return, TypeOK
<1> QED
  BY <1>3, <1>4, <1>5, <1>6, <1>7, <1>8

\* The rows that a log has are texts.
LEMMA LogText == TypeOK => log \in Seq(Text)
<1>1. Logs \subseteq Seq(Text) /\ <<>> \in Seq(Text)
  BY TextAssumption
<1> QED
  BY <1>1 DEF TypeOK

\* A call begins.
LEMMA CallerStep == StandardInv /\ Caller => StandardInv'
<1> SUFFICES ASSUME StandardInv, Caller PROVE StandardInv'
  OBVIOUS
<1>1. TypeOK /\ GpuOK /\ QueueInv /\ SetupInv /\ MaskInv /\ log \in Seq(Text)
  BY LogText DEF StandardInv
<1>2. CASE Reinitialize
  <2>1. UNCHANGED <<todo, is_pal, log, gpu, vram, cache, frame, wanted>>
    BY <1>2 DEF Reinitialize
  <2>2. i_stat' = FALSE /\ i_mask' = FALSE
    BY <1>2 DEF Reinitialize
  <2>3. (at = "off" /\ at' = "init") \/ (at = "idle" /\ at' = "idle")
    BY <1>2 DEF Reinitialize
  <2>4. TypeOK' /\ GpuOK' /\ MaskInv'
    BY <1>1, <2>1, <2>2, <2>3 DEF TypeOK, GpuOK, MaskInv
  <2>5. SetupInv'
    BY <1>1, <2>1, <2>3 DEF SetupInv, StageOf
  <2>6. (todo \in Seq(Commands(is_pal)))' /\ InOrder(todo)'
    BY <1>1, <2>1 DEF QueueInv, Commands, VRange, InOrder
  <2> QED
    BY <1>1, <2>1, <2>3, <2>4, <2>5, <2>6 DEF StandardInv, QueueInv
\* What the queue is filled with is in order; what the registers have to be
\* depends on whether it begins with setting them up.
<1>3. ASSUME at' = "run", UNCHANGED <<gpu, vram, cache, frame, i_stat, i_mask>>, at # "off",
             is_pal' \in BOOLEAN, log' \in Logs \cup {<<>>},
             wanted' = is_pal',
             NEW seq, todo' = seq, seq \in Seq(Commands(is_pal')), InOrder(seq),
             \/ StageOf(seq) \in {1, 2}
             \/ StageOf(seq) = 7 /\ at = "idle" /\ is_pal' = is_pal
      PROVE  StandardInv'
  <2>1. TypeOK'
    BY <1>1, <1>3 DEF TypeOK
  <2>2. GpuOK' /\ MaskInv'
    BY <1>1, <1>3 DEF GpuOK, MaskInv
  <2>3. (todo \in Seq(Commands(is_pal)))' /\ InOrder(todo)'
    BY <1>3 DEF Commands, VRange, InOrder
  <2>4. QueueInv'
    BY <1>3, <2>3 DEF QueueInv
  <2>5. StageOf(todo)' = StageOf(seq)
    BY <1>3 DEF StageOf
  <2>6. at = "idle" => StageOf(todo) = 7
    BY <1>1 DEF QueueInv, StageOf
  <2>7. SetupInv'
    BY <1>1, <1>3, <2>5, <2>6 DEF SetupInv
  <2> QED
    BY <2>1, <2>2, <2>4, <2>7 DEF StandardInv
<1>4. CASE debug_init
  <2> DEFINE seq == <<Cmd("reset", 0), Cmd("off", 0)>> \o set_video_mode(gpu.pal) \o set_draw_env
                    \o upload_fonts \o <<clear_screen>> \o draw_header
                    \o <<Cmd("flush", 0), Cmd("on", 0)>>
  <2>1. seq \in Seq(Commands(gpu.pal)) /\ InOrder(seq) /\ StageOf(seq) = 1
    BY InitInOrder
  <2>2. todo' = seq /\ at' = "run"
    BY <1>4 DEF debug_init, Call
  <2> HIDE DEF seq
  <2>3. /\ at = "init" /\ is_pal' = gpu.pal /\ log' = <<>>
        /\ UNCHANGED <<gpu, vram, cache, frame, i_stat, i_mask, wanted>>
    BY <1>4 DEF debug_init
  <2>4. is_pal' \in BOOLEAN /\ wanted' = is_pal'
    BY <1>1, <2>3 DEF GpuOK, SetupInv
  <2> QED
    BY <1>3, <2>1, <2>2, <2>3, <2>4
<1>5. ASSUME NEW pal \in BOOLEAN, debug_switch_standard(pal) PROVE StandardInv'
  <2> DEFINE seq == <<Cmd("off", 0)>> \o set_video_mode(pal) \o set_draw_env
                    \o <<Cmd("on", 0)>> \o redraw(log)
  <2>1. seq \in Seq(Commands(pal)) /\ InOrder(seq) /\ StageOf(seq) = 2
    BY <1>1, SwitchInOrder
  <2>2. todo' = seq /\ at' = "run"
    BY <1>5 DEF debug_switch_standard, Call
  <2> HIDE DEF seq
  <2>3. /\ at = "idle" /\ is_pal' = pal /\ wanted' = pal
        /\ UNCHANGED <<log, gpu, vram, cache, frame, i_stat, i_mask>>
    BY <1>5 DEF debug_switch_standard
  <2>4. log' \in Logs \cup {<<>>}
    BY <1>1, <2>3 DEF TypeOK
  <2> QED
    BY <1>3, <2>1, <2>2, <2>3, <2>4
<1>6. ASSUME NEW seq \in Seq(Plain(is_pal)), seq # <<>>
      PROVE  seq \in Seq(Commands(is_pal)) /\ InOrder(seq) /\ StageOf(seq) = 7
  BY <1>6, PlainInOrder
<1>7. is_pal \in BOOLEAN /\ log \in Logs \cup {<<>>} /\ (at = "idle" => wanted = is_pal)
  BY <1>1 DEF TypeOK, SetupInv
<1>8. ASSUME NEW rows \in Logs, debug_write(rows) PROVE StandardInv'
  <2>1. rows \in Seq(Text)
    BY TextAssumption
  <2>2. /\ redraw(rows) \in Seq(Commands(is_pal)) /\ InOrder(redraw(rows))
        /\ StageOf(redraw(rows)) = 7
    BY <1>6, <2>1, RedrawPlain
  <2>3. /\ at = "idle" /\ at' = "run" /\ todo' = redraw(rows) /\ log' = rows
        /\ UNCHANGED <<is_pal, gpu, vram, cache, frame, i_stat, i_mask, wanted>>
    BY <1>8 DEF debug_write, Call
  <2> QED
    BY <1>3, <1>7, <2>2, <2>3
<1>9. CASE WaitForLid
  <2> DEFINE seq == <<Cmd("wait", 0)>>
  <2>1. seq \in Seq(Plain(is_pal)) /\ seq # <<>>
    <3>1. Cmd("wait", 0) \in Plain(is_pal)
      BY OthersPlain
    <3> QED
      BY <3>1
  <2>2. /\ at = "idle" /\ at' = "run" /\ todo' = seq
        /\ UNCHANGED <<is_pal, log, gpu, vram, cache, frame, i_stat, i_mask, wanted>>
    BY <1>9 DEF WaitForLid, Call
  <2> HIDE DEF seq
  <2> QED
    BY <1>3, <1>6, <1>7, <2>1, <2>2
<1> QED
  BY <1>2, <1>4, <1>5, <1>8, <1>9 DEF Caller

\* Every step keeps the standard in order.
LEMMA StandardInvariant == Spec => []StandardInv
<1>1. Init => StandardInv
  <2> SUFFICES ASSUME Init PROVE StandardInv
    OBVIOUS
  <2>1. PICK pal \in BOOLEAN :
            gpu = [NoGpu EXCEPT !.pal = pal, !.on = TRUE, !.vrange = VRange(pal)] /\ wanted = pal
    BY DEF Init
  <2>2. gpu.pal = pal /\ gpu.on = TRUE /\ gpu.vrange = VRange(pal) /\ GpuOK
    BY <2>1 DEF NoGpu, GpuOK
  <2>3. TypeOK /\ MaskInv
    BY <2>1, <2>2 DEF Init, TypeOK, MaskInv
  <2>4. QueueInv
    BY DEF Init, QueueInv, InOrder
  <2>5. SetupInv
    BY <2>1, <2>2 DEF Init, SetupInv
  <2> QED
    BY <2>2, <2>3, <2>4, <2>5 DEF StandardInv
<1>2. StandardInv /\ [Next]_vars => StandardInv'
  <2> SUFFICES ASSUME StandardInv, [Next]_vars PROVE StandardInv'
    OBVIOUS
  <2>1. CASE UNCHANGED vars
    BY <2>1 DEF vars, StandardInv, TypeOK, GpuOK, QueueInv, SetupInv, MaskInv, InOrder, StageOf,
                Commands, VRange
  <2> QED
    BY <2>1, RegisterStep, DrawStep, WaitStep, CallerStep DEF Next, Command
<1> QED
  BY <1>1, <1>2, PTL DEF Spec

\* The types hold, and no sprite is made of texels outside both atlases.
THEOREM TypesKept == Spec => []TypeOK
<1>1. StandardInv => TypeOK
  BY DEF StandardInv
<1> QED
  BY <1>1, StandardInvariant, PTL

\* The display is never on with the timing of one standard and the range of
\* the other, and after a call it has the standard that was asked for
\* (screen.c:276, 292-296).
THEOREM StandardKept == Spec => []OneStandard
<1>1. StandardInv => OneStandard
  <2> SUFFICES ASSUME StandardInv PROVE OneStandard
    OBVIOUS
  <2>1. SetupInv /\ (at = "idle" => StageOf(todo) = 7)
    BY DEF StandardInv, QueueInv, StageOf
  <2> QED
    BY <2>1 DEF SetupInv, OneStandard
<1> QED
  BY <1>1, StandardInvariant, PTL

\* Whoever waits for a blank waits with a vertical range that ends within the
\* lines of the standard and with the kernel's handler masked: the blank
\* comes, and nobody takes it away (gpu.c:20-27).  That it is then seen is
\* liveness.
THEOREM BlankWillCome == Spec => [](at \in {"ack", "poll"} => Blanks /\ ~i_mask)
<1>1. StandardInv => (at \in {"ack", "poll"} => Blanks /\ ~i_mask)
  <2> SUFFICES ASSUME StandardInv, at \in {"ack", "poll"} PROVE Blanks /\ ~i_mask
    OBVIOUS
  <2>1. SetupInv /\ MaskInv /\ Head(todo).op = "wait" /\ todo # <<>>
    BY DEF StandardInv, QueueInv
  <2>2. StageOf(todo) = 7
    BY <2>1, StageFacts DEF StageOf
  <2>3. gpu.pal = is_pal /\ gpu.vrange = VRange(is_pal) /\ ~i_mask
    BY <2>1, <2>2 DEF SetupInv, MaskInv
  <2> QED
    BY <2>3 DEF Blanks, VRange, LastLine
<1> QED
  BY <1>1, StandardInvariant, PTL

-----------------------------------------------------------------------------
(* What a sequence of commands will draw *)

Elems(seq) == {seq[i] : i \in 1 .. Len(seq)}
IsClear(c) == c.op = "rect" /\ c.arg = Screen
NoClear(seq) == \A c \in Elems(seq) : ~IsClear(c)
Quiet(seq) == \A c \in Elems(seq) : ~IsClear(c) /\ c.op # "sprites"
NoUpload(seq) == \A c \in Elems(seq) : c.op # "upload"

\* The glyphs that are still to be drawn.
Pending(seq) == UNION {c.arg : c \in {d \in Elems(seq) : d.op = "sprites"}}

\* The screen is cleared once, and these glyphs are drawn after that.
Draws(seq, glyphs) ==
    /\ Pending(seq) = glyphs
    /\ \E k \in 1 .. Len(seq) :
          /\ IsClear(seq[k])
          /\ \A j \in 1 .. Len(seq) : /\ j < k => seq[j].op # "sprites"
                                      /\ j # k => ~IsClear(seq[j])

\* A sprite as it is in the frame.
Drawn(s) == [pos |-> s.pos, from |-> [x |-> s.u, y |-> 256 + s.v], old |-> FALSE]

\* Either the glyphs are still to be drawn on a cleared screen, or those that
\* are not in the frame are.
Paints(seq, fr, glyphs) ==
    \/ Draws(seq, glyphs)
    \/ NoClear(seq) /\ fr \cup {Drawn(s) : s \in Pending(seq)} = {Drawn(s) : s \in glyphs}

\* Both fonts are there or come, the cache is flushed before they come and
\* nothing is drawn before that.
Loads(seq, texels, fonts) ==
    /\ \A i, j \in 1 .. Len(seq) :
          seq[i].op = "sprites" /\ seq[j].op = "upload" => j < i
    /\ \A j \in 1 .. Len(seq) : seq[j].op = "upload" =>
          texels = "empty" \/ \E i \in 1 .. Len(seq) : i < j /\ seq[i].op = "flush"
    /\ texels = "old" => \E j \in 1 .. Len(seq) : seq[j].op = "upload"
    /\ \A f \in {"small", "big"} : f \in fonts \/ Cmd("upload", f) \in Elems(seq)

\* The elements of two sequences, one after the other.
LEMMA ConcatElements ==
    ASSUME NEW S, NEW s \in Seq(S), NEW t \in Seq(S)
    PROVE  /\ s \o t \in Seq(S) /\ Len(s \o t) = Len(s) + Len(t)
           /\ \A i \in 1 .. Len(s) : (s \o t)[i] = s[i]
           /\ \A i \in 1 .. Len(t) : (s \o t)[Len(s) + i] = t[i]
           /\ \A i \in 1 .. Len(s \o t) : i > Len(s) =>
                 i - Len(s) \in 1 .. Len(t) /\ (s \o t)[i] = t[i - Len(s)]
           /\ Elems(s \o t) = Elems(s) \cup Elems(t)
<1> DEFINE all == s \o t
           n == Len(s)
           m == Len(t)
<1>1. /\ all \in Seq(S) /\ Len(all) = n + m /\ n \in Nat /\ m \in Nat
      /\ \A i \in 1 .. n + m : all[i] = IF i <= n THEN s[i] ELSE t[i - n]
  BY ConcatProperties
<1> HIDE DEF all, n, m
<1>2. \A i \in 1 .. n : all[i] = s[i]
  BY <1>1
<1>3. \A i \in 1 .. m : all[n + i] = t[i]
  <2> TAKE i \in 1 .. m
  <2>1. n + i \in 1 .. n + m /\ ~(n + i <= n) /\ (n + i) - n = i
    BY <1>1
  <2> QED
    BY <1>1, <2>1
<1>4. \A i \in 1 .. n + m : i > n => i - n \in 1 .. m /\ all[i] = t[i - n]
  BY <1>1
<1>5. Elems(all) = Elems(s) \cup Elems(t)
  <2>1. ASSUME NEW c \in Elems(all) PROVE c \in Elems(s) \cup Elems(t)
    <3>1. PICK i \in 1 .. n + m : c = all[i]
      BY <1>1 DEF Elems
    <3>2. CASE i <= n
      <4>1. i \in 1 .. n /\ c = s[i]
        BY <1>1, <1>2, <3>1, <3>2
      <4> QED
        BY <4>1 DEF Elems, n
    <3>3. CASE i > n
      <4>1. i - n \in 1 .. m /\ c = t[i - n]
        BY <1>1, <1>4, <3>1, <3>3
      <4> QED
        BY <4>1 DEF Elems, m
    <3> QED
      BY <1>1, <3>2, <3>3
  <2>2. ASSUME NEW c \in Elems(s) PROVE c \in Elems(all)
    <3>1. PICK i \in 1 .. n : c = s[i]
      BY <2>2 DEF Elems, n
    <3>2. i \in 1 .. n + m /\ c = all[i]
      BY <1>1, <1>2, <3>1
    <3> QED
      BY <1>1, <3>2 DEF Elems
  <2>3. ASSUME NEW c \in Elems(t) PROVE c \in Elems(all)
    <3>1. PICK i \in 1 .. m : c = t[i]
      BY <2>3 DEF Elems, m
    <3>2. n + i \in 1 .. n + m /\ c = all[n + i]
      BY <1>1, <1>3, <3>1
    <3> QED
      BY <1>1, <3>2 DEF Elems
  <2> QED
    BY <2>1, <2>2, <2>3
<1> QED
  BY <1>1, <1>2, <1>3, <1>4, <1>5 DEF all, n, m

\* What is to be drawn is what is to be drawn first and what is then.
LEMMA ConcatPending ==
    ASSUME NEW S, NEW s \in Seq(S), NEW t \in Seq(S)
    PROVE  /\ Pending(s \o t) = Pending(s) \cup Pending(t)
           /\ NoClear(s) /\ NoClear(t) => NoClear(s \o t)
           /\ Quiet(s) /\ Quiet(t) => Quiet(s \o t)
           /\ NoUpload(s) /\ NoUpload(t) => NoUpload(s \o t)
<1>1. Elems(s \o t) = Elems(s) \cup Elems(t)
  BY ConcatElements
<1> QED
  BY <1>1 DEF Pending, NoClear, Quiet, NoUpload

\* Nothing is drawn by commands of other kinds.
LEMMA QuietPending == ASSUME NEW s, Quiet(s) PROVE Pending(s) = {} /\ NoClear(s)
BY DEF Quiet, Pending, NoClear

\* The first command and the others.
LEMMA TailElements ==
    ASSUME NEW S, NEW s \in Seq(S), s # <<>>
    PROVE  /\ Len(s) \in Nat \ {0} /\ Tail(s) \in Seq(S) /\ Len(Tail(s)) = Len(s) - 1
           /\ Head(s) = s[1] /\ Head(s) \in S
           /\ \A i \in 1 .. Len(Tail(s)) : i + 1 \in 1 .. Len(s) /\ Tail(s)[i] = s[i + 1]
           /\ \A i \in 1 .. Len(s) : i = 1 \/ (i - 1 \in 1 .. Len(Tail(s)) /\ s[i] = Tail(s)[i - 1])
           /\ Elems(s) = {Head(s)} \cup Elems(Tail(s))
<1> DEFINE t == Tail(s)
           n == Len(s)
<1>1. /\ n \in Nat \ {0} /\ t \in Seq(S) /\ Len(t) = n - 1 /\ Head(s) = s[1] /\ Head(s) \in S
      /\ \A i \in 1 .. Len(t) : t[i] = s[i + 1]
  BY HeadTailProperties, EmptySeq
<1> HIDE DEF t, n
<1>2. \A i \in 1 .. n - 1 : i + 1 \in 1 .. n /\ t[i] = s[i + 1]
  BY <1>1
<1>3. \A i \in 1 .. n : i = 1 \/ (i - 1 \in 1 .. n - 1 /\ s[i] = t[i - 1])
  <2> TAKE i \in 1 .. n
  <2>1. i # 1 => i - 1 \in 1 .. n - 1 /\ (i - 1) + 1 = i
    BY <1>1
  <2> QED
    BY <1>1, <2>1
<1>4. Elems(s) = {Head(s)} \cup Elems(t)
  <2>1. \A c \in Elems(s) : c \in {Head(s)} \cup Elems(t)
    BY <1>1, <1>3 DEF Elems, n
  <2>2. Head(s) \in Elems(s)
    <3>1. 1 \in 1 .. n
      BY <1>1
    <3> QED
      BY <1>1, <3>1 DEF Elems, n
  <2>3. \A c \in Elems(t) : c \in Elems(s)
    BY <1>1, <1>2 DEF Elems, n
  <2> QED
    BY <2>1, <2>2, <2>3
<1> QED
  BY <1>1, <1>2, <1>3, <1>4 DEF t, n

\* The first command is done, and it draws nothing, or it does.
LEMMA TailPending ==
    ASSUME NEW S, NEW s \in Seq(S), s # <<>>
    PROVE  /\ Head(s).op # "sprites" => Pending(s) = Pending(Tail(s))
           /\ Head(s).op = "sprites" => Pending(s) = Head(s).arg \cup Pending(Tail(s))
           /\ NoClear(s) => NoClear(Tail(s)) /\ ~IsClear(Head(s))
<1>1. Elems(s) = {Head(s)} \cup Elems(Tail(s))
  BY TailElements
<1> QED
  BY <1>1 DEF Pending, NoClear

\* The screen is still to be cleared unless that was the first command.
LEMMA TailDraws ==
    ASSUME NEW S, NEW s \in Seq(S), s # <<>>, NEW glyphs, Draws(s, glyphs)
    PROVE  /\ IsClear(Head(s)) => NoClear(Tail(s)) /\ Pending(Tail(s)) = glyphs
           /\ ~IsClear(Head(s)) => Draws(Tail(s), glyphs) /\ Head(s).op # "sprites"
<1>1. PICK k \in 1 .. Len(s) :
          /\ IsClear(s[k])
          /\ \A j \in 1 .. Len(s) : /\ j < k => s[j].op # "sprites"
                                    /\ j # k => ~IsClear(s[j])
  BY DEF Draws
<1> DEFINE t == Tail(s)
           n == Len(s)
<1>2. /\ n \in Nat \ {0} /\ Len(t) = n - 1 /\ Head(s) = s[1]
      /\ \A i \in 1 .. Len(t) : i + 1 \in 1 .. n /\ t[i] = s[i + 1]
      /\ \A i \in 1 .. n : i = 1 \/ (i - 1 \in 1 .. Len(t) /\ s[i] = t[i - 1])
  BY TailElements
<1>3. Pending(s) = glyphs
  BY DEF Draws
<1>4. IsClear(Head(s)) => Head(s).op # "sprites"
  BY DEF IsClear
<1>5. Head(s).op # "sprites" => Pending(t) = glyphs
  BY <1>3, TailPending
<1> HIDE DEF t, n
<1>6. k \in 1 .. n /\ 1 \in 1 .. n
  BY <1>2 DEF n
<1>7. IsClear(Head(s)) => NoClear(t)
  <2> SUFFICES ASSUME IsClear(Head(s)), NEW i \in 1 .. Len(t) PROVE ~IsClear(t[i])
    BY DEF NoClear, Elems
  <2>1. k = 1
    BY <1>1, <1>2, <1>6 DEF n
  <2>2. i + 1 \in 1 .. n /\ i + 1 # k /\ t[i] = s[i + 1]
    BY <1>2, <2>1
  <2> QED
    BY <1>1, <2>2 DEF n
<1>8. ASSUME ~IsClear(Head(s)) PROVE Draws(t, glyphs) /\ Head(s).op # "sprites"
  <2>1. k # 1
    BY <1>1, <1>2, <1>8
  <2>2. k - 1 \in 1 .. Len(t) /\ s[k] = t[k - 1] /\ 1 < k
    BY <1>2, <1>6, <2>1
  <2>3. s[1].op # "sprites"
    BY <1>1, <1>6, <2>2 DEF n
  <2>4. ASSUME NEW j \in 1 .. Len(t)
        PROVE  (j < k - 1 => t[j].op # "sprites") /\ (j # k - 1 => ~IsClear(t[j]))
    <3>1. j + 1 \in 1 .. n /\ t[j] = s[j + 1]
      BY <1>2
    <3>2. (j < k - 1 => j + 1 < k) /\ (j # k - 1 => j + 1 # k)
      BY <1>2, <1>6
    <3> QED
      BY <1>1, <3>1, <3>2 DEF n
  <2>5. IsClear(t[k - 1])
    BY <1>1, <2>2
  <2>6. \E l \in 1 .. Len(t) :
            /\ IsClear(t[l])
            /\ \A j \in 1 .. Len(t) : /\ j < l => t[j].op # "sprites"
                                      /\ j # l => ~IsClear(t[j])
    BY <2>2, <2>4, <2>5
  <2> QED
    BY <1>2, <1>5, <2>3, <2>6 DEF Draws
<1> QED
  BY <1>4, <1>5, <1>7, <1>8 DEF t

\* What comes before the screen is cleared does not matter.
LEMMA QuietFirst ==
    ASSUME NEW S, NEW s \in Seq(S), NEW t \in Seq(S), NEW glyphs, Quiet(s), Draws(t, glyphs)
    PROVE  Draws(s \o t, glyphs)
<1> DEFINE all == s \o t
           n == Len(s)
           m == Len(t)
<1>1. /\ Len(all) = n + m /\ n \in Nat /\ m \in Nat
      /\ \A i \in 1 .. n : all[i] = s[i]
      /\ \A i \in 1 .. m : all[n + i] = t[i]
      /\ \A i \in 1 .. n + m : i > n => i - n \in 1 .. m /\ all[i] = t[i - n]
  BY ConcatElements
<1>2. Pending(all) = glyphs
  <2>1. Pending(all) = Pending(s) \cup Pending(t)
    BY ConcatPending, Zenon
  <2>2. Pending(s) = {} /\ Pending(t) = glyphs
    BY QuietPending DEF Draws
  <2> QED
    BY <2>1, <2>2
<1> HIDE DEF all
<1>3. PICK k \in 1 .. m :
          /\ IsClear(t[k])
          /\ \A j \in 1 .. m : /\ j < k => t[j].op # "sprites"
                               /\ j # k => ~IsClear(t[j])
  BY DEF Draws
<1>4. \A i \in 1 .. n : ~IsClear(s[i]) /\ s[i].op # "sprites"
  BY DEF Quiet, Elems
<1> HIDE DEF n, m
<1>5. n + k \in 1 .. n + m /\ IsClear(all[n + k])
  BY <1>1, <1>3
<1>6. ASSUME NEW j \in 1 .. n + m
      PROVE  (j < n + k => all[j].op # "sprites") /\ (j # n + k => ~IsClear(all[j]))
  <2>1. CASE j <= n
    <3>1. j \in 1 .. n
      BY <1>1, <2>1
    <3> QED
      BY <1>1, <1>4, <3>1
  <2>2. CASE j > n
    <3>1. j - n \in 1 .. m /\ all[j] = t[j - n]
      BY <1>1, <2>2
    <3>2. (j < n + k => j - n < k) /\ (j # n + k => j - n # k)
      BY <1>1, <1>3
    <3> QED
      BY <1>3, <3>1, <3>2
  <2> QED
    BY <1>1, <2>1, <2>2
<1>7. \E l \in 1 .. Len(all) :
          /\ IsClear(all[l])
          /\ \A j \in 1 .. Len(all) : /\ j < l => all[j].op # "sprites"
                                      /\ j # l => ~IsClear(all[j])
  BY <1>1, <1>5, <1>6
<1> QED
  BY <1>2, <1>7 DEF Draws, all

\* Clearing the screen draws nothing, waiting before that neither.
LEMMA ClearDraws ==
    ASSUME NEW c, NEW w, IsClear(c), ~IsClear(w), w.op # "sprites"
    PROVE  Draws(<<c>>, {}) /\ Draws(<<w, c>>, {})
<1>1. c.op # "sprites"
  BY DEF IsClear
<1>2. Draws(<<c>>, {})
  <2> DEFINE s == <<c>>
  <2>1. Len(s) = 1 /\ s[1] = c /\ 1 .. 1 = {1}
    OBVIOUS
  <2> HIDE DEF s
  <2>2. \A i \in 1 .. Len(s) : s[i].op # "sprites"
    BY <1>1, <2>1
  <2>3. Pending(s) = {}
    BY <2>2 DEF Pending, Elems
  <2>4. Draws(s, {})
    BY <2>1, <2>3 DEF Draws
  <2> QED
    BY <2>4 DEF s
<1>3. Draws(<<w, c>>, {})
  <2> DEFINE s == <<w, c>>
  <2>1. Len(s) = 2 /\ s[1] = w /\ s[2] = c /\ 1 .. 2 = {1, 2}
    OBVIOUS
  <2> HIDE DEF s
  <2>2. \A i \in 1 .. Len(s) : s[i].op # "sprites"
    BY <1>1, <2>1
  <2>3. Pending(s) = {}
    BY <2>2 DEF Pending, Elems
  <2>4. Draws(s, {})
    <3>1. 2 \in 1 .. Len(s) /\ IsClear(s[2])
      BY <2>1
    <3>2. \A j \in 1 .. Len(s) : (j < 2 => s[j].op # "sprites") /\ (j # 2 => ~IsClear(s[j]))
      BY <2>1, <2>2
    <3> QED
      BY <2>3, <3>1, <3>2 DEF Draws
  <2> QED
    BY <2>4 DEF s
<1> QED
  BY <1>2, <1>3

\* What is drawn afterwards is on the screen too.
LEMMA AppendDraws ==
    ASSUME NEW S, NEW s \in Seq(S), NEW t \in Seq(S), NEW glyphs, Draws(s, glyphs), NoClear(t)
    PROVE  Draws(s \o t, glyphs \cup Pending(t))
<1> DEFINE all == s \o t
           n == Len(s)
           m == Len(t)
<1>1. /\ Len(all) = n + m /\ n \in Nat /\ m \in Nat
      /\ \A i \in 1 .. n : all[i] = s[i]
      /\ \A i \in 1 .. m : all[n + i] = t[i]
      /\ \A i \in 1 .. n + m : i > n => i - n \in 1 .. m /\ all[i] = t[i - n]
  BY ConcatElements
<1>2. Pending(all) = glyphs \cup Pending(t)
  <2>1. Pending(all) = Pending(s) \cup Pending(t)
    BY ConcatPending, Zenon
  <2>2. Pending(s) = glyphs
    BY DEF Draws
  <2> QED
    BY <2>1, <2>2
<1> HIDE DEF all
<1>3. PICK k \in 1 .. n :
          /\ IsClear(s[k])
          /\ \A j \in 1 .. n : /\ j < k => s[j].op # "sprites"
                               /\ j # k => ~IsClear(s[j])
  BY DEF Draws
<1>4. \A i \in 1 .. m : ~IsClear(t[i])
  BY DEF NoClear, Elems
<1> HIDE DEF n, m
<1>5. k \in 1 .. n + m /\ IsClear(all[k])
  BY <1>1, <1>3
<1>6. ASSUME NEW j \in 1 .. n + m
      PROVE  (j < k => all[j].op # "sprites") /\ (j # k => ~IsClear(all[j]))
  <2>1. CASE j <= n
    <3>1. j \in 1 .. n
      BY <1>1, <2>1
    <3> QED
      BY <1>1, <1>3, <3>1
  <2>2. CASE j > n
    <3>1. j - n \in 1 .. m /\ all[j] = t[j - n]
      BY <1>1, <2>2
    <3>2. ~(j < k)
      BY <1>1, <1>3, <2>2
    <3> QED
      BY <1>4, <3>1, <3>2
  <2> QED
    BY <1>1, <2>1, <2>2
<1>7. \E l \in 1 .. Len(all) :
          /\ IsClear(all[l])
          /\ \A j \in 1 .. Len(all) : /\ j < l => all[j].op # "sprites"
                                      /\ j # l => ~IsClear(all[j])
  BY <1>1, <1>5, <1>6
<1> QED
  BY <1>2, <1>7 DEF Draws, all

\* The first command is done: the cache and the fonts are what they have to be.
LEMMA TailLoads ==
    ASSUME NEW S, NEW s \in Seq(S), s # <<>>, NEW texels, NEW fonts, Loads(s, texels, fonts)
    PROVE  /\ Head(s).op = "flush" => Loads(Tail(s), "empty", fonts)
           /\ Head(s).op = "upload" => texels = "empty" /\ Loads(Tail(s), "empty", fonts \cup {Head(s).arg})
           /\ Head(s).op = "sprites" => texels # "old" /\ Loads(Tail(s), "new", fonts)
           /\ Head(s).op \notin {"flush", "upload", "sprites"} => Loads(Tail(s), texels, fonts)
<1> DEFINE t == Tail(s)
           n == Len(s)
           m == Len(t)
<1>1. /\ n \in Nat \ {0} /\ m = n - 1 /\ Head(s) = s[1]
      /\ \A i \in 1 .. m : i + 1 \in 1 .. n /\ t[i] = s[i + 1]
      /\ \A i \in 1 .. n : i = 1 \/ (i - 1 \in 1 .. m /\ s[i] = t[i - 1])
      /\ Elems(s) = {Head(s)} \cup Elems(t)
  BY TailElements
<1>2. /\ \A i, j \in 1 .. n : s[i].op = "sprites" /\ s[j].op = "upload" => j < i
      /\ \A j \in 1 .. n : s[j].op = "upload" =>
            texels = "empty" \/ \E i \in 1 .. n : i < j /\ s[i].op = "flush"
      /\ texels = "old" => \E j \in 1 .. n : s[j].op = "upload"
      /\ \A f \in {"small", "big"} : f \in fonts \/ Cmd("upload", f) \in Elems(s)
  BY DEF Loads
<1> HIDE DEF t, n, m
<1>3. \A i, j \in 1 .. m : t[i].op = "sprites" /\ t[j].op = "upload" => j < i
  <2> SUFFICES ASSUME NEW i \in 1 .. m, NEW j \in 1 .. m, t[i].op = "sprites", t[j].op = "upload"
               PROVE  j < i
    OBVIOUS
  <2>1. /\ i + 1 \in 1 .. n /\ s[i + 1].op = "sprites"
        /\ j + 1 \in 1 .. n /\ s[j + 1].op = "upload"
    BY <1>1
  <2>2. j + 1 < i + 1
    BY <1>2, <2>1
  <2> QED
    BY <1>1, <2>2
<1>4. ASSUME Head(s).op # "flush", NEW j \in 1 .. m, t[j].op = "upload", texels # "empty"
      PROVE  \E i \in 1 .. m : i < j /\ t[i].op = "flush"
  <2>1. j + 1 \in 1 .. n /\ s[j + 1].op = "upload"
    BY <1>1, <1>4
  <2>2. PICK i \in 1 .. n : i < j + 1 /\ s[i].op = "flush"
    BY <1>2, <1>4, <2>1
  <2>3. i # 1
    BY <1>1, <1>4, <2>2
  <2>4. i - 1 \in 1 .. m /\ t[i - 1].op = "flush"
    BY <1>1, <2>2, <2>3
  <2>5. i - 1 < j
    BY <1>1, <2>2
  <2> QED
    BY <2>4, <2>5
<1>5. ASSUME Head(s).op # "upload", texels = "old"
      PROVE  \E j \in 1 .. m : t[j].op = "upload"
  BY <1>1, <1>2, <1>5
<1>6. ASSUME NEW f \in {"small", "big"}, f \notin fonts, Cmd("upload", f) \notin Elems(t)
      PROVE  Head(s).op = "upload" /\ Head(s).arg = f
  BY <1>1, <1>2, <1>6 DEF Cmd
<1>7. CASE Head(s).op = "flush"
  <2>1. \A f \in {"small", "big"} : f \in fonts \/ Cmd("upload", f) \in Elems(t)
    BY <1>6, <1>7
  <2> QED
    BY <1>3, <1>7, <2>1 DEF Loads, t, m
<1>8. CASE Head(s).op = "upload"
  <2>1. texels = "empty"
    <3>1. 1 \in 1 .. n /\ ~(\E i \in 1 .. n : i < 1)
      BY <1>1
    <3> QED
      BY <1>1, <1>2, <1>8, <3>1
  <2>2. \A f \in {"small", "big"} : f \in fonts \cup {Head(s).arg} \/ Cmd("upload", f) \in Elems(t)
    BY <1>6
  <2> QED
    BY <1>3, <1>8, <2>1, <2>2 DEF Loads, t, m
<1>9. CASE Head(s).op = "sprites"
  <2>1. \A j \in 1 .. n : s[j].op # "upload"
    <3> SUFFICES ASSUME NEW j \in 1 .. n, s[j].op = "upload" PROVE FALSE
      OBVIOUS
    <3>1. 1 \in 1 .. n /\ s[1].op = "sprites"
      BY <1>1, <1>9
    <3>2. j < 1
      BY <1>2, <3>1
    <3> QED
      BY <1>1, <3>2
  <2>2. texels # "old"
    BY <1>2, <2>1
  <2>3. \A j \in 1 .. m : t[j].op # "upload"
    BY <1>1, <2>1
  <2>4. \A f \in {"small", "big"} : f \in fonts \/ Cmd("upload", f) \in Elems(t)
    BY <1>6, <1>9
  <2>5. Loads(t, "new", fonts)
    BY <1>3, <2>3, <2>4 DEF Loads, m
  <2> QED
    BY <1>9, <2>2, <2>5 DEF t
<1>10. CASE Head(s).op \notin {"flush", "upload", "sprites"}
  <2>1. \A f \in {"small", "big"} : f \in fonts \/ Cmd("upload", f) \in Elems(t)
    BY <1>6, <1>10
  <2>2. Loads(t, texels, fonts)
    BY <1>3, <1>4, <1>5, <1>10, <2>1 DEF Loads, m
  <2> QED
    BY <1>10, <2>2 DEF t
<1> QED
  BY <1>7, <1>8, <1>9, <1>10

\* With both fonts there, a call that uploads none keeps it so.
LEMMA KeepsLoads ==
    ASSUME NEW s, NEW texels, NEW fonts, texels # "old", {"small", "big"} \subseteq fonts,
           NoUpload(s)
    PROVE  Loads(s, texels, fonts)
<1>1. \A i \in 1 .. Len(s) : s[i].op # "upload"
  BY DEF Elems, NoUpload
<1> QED
  BY <1>1 DEF Loads

\* debug_init flushes the cache and uploads both fonts, whatever was there.
LEMMA UploadLoads ==
    ASSUME NEW S, NEW s \in Seq(S), NEW a, NEW b, NEW c, NEW texels, NEW fonts,
           <<a, b, c>> \in Seq(S), Quiet(s), NoUpload(s),
           a = Cmd("flush", 0), b = Cmd("upload", "small"), c = Cmd("upload", "big")
    PROVE  Loads(s \o <<a, b, c>>, texels, fonts)
<1> DEFINE up == <<a, b, c>>
           all == s \o up
           n == Len(s)
<1>1. Len(up) = 3 /\ up[1] = a /\ up[2] = b /\ up[3] = c /\ up \in Seq(S)
  OBVIOUS
<1> HIDE DEF up
<1>2. /\ Len(all) = n + Len(up) /\ n \in Nat
      /\ \A i \in 1 .. n : all[i] = s[i]
      /\ \A i \in 1 .. Len(up) : all[n + i] = up[i]
  <2>1. up \in Seq(S)
    BY <1>1
  <2> QED
    BY <2>1, ConcatElements
<1>3. \A i \in 1 .. n : s[i].op # "sprites" /\ s[i].op # "upload"
  BY DEF Quiet, NoUpload, Elems
<1>4. a.op = "flush" /\ b.op = "upload" /\ c.op = "upload"
  BY DEF Cmd
<1> HIDE DEF all, n
<1>5. Len(all) = n + 3 /\ all[n + 1] = a /\ all[n + 2] = b /\ all[n + 3] = c
  BY <1>1, <1>2
<1>6. \A i \in 1 .. n + 3 : i \in 1 .. n \/ i = n + 1 \/ i = n + 2 \/ i = n + 3
  BY <1>2
<1>7. ASSUME NEW i \in 1 .. n + 3
      PROVE  all[i].op # "sprites" /\ (all[i].op = "upload" => n + 1 < i)
  <2>1. CASE i \in 1 .. n
    BY <1>2, <1>3, <2>1
  <2>2. CASE i = n + 1
    BY <1>4, <1>5, <2>2
  <2>3. CASE i = n + 2
    BY <1>2, <1>4, <1>5, <2>3
  <2>4. CASE i = n + 3
    BY <1>2, <1>4, <1>5, <2>4
  <2> QED
    BY <1>6, <2>1, <2>2, <2>3, <2>4
<1>8. n + 1 \in 1 .. n + 3 /\ n + 2 \in 1 .. n + 3 /\ n + 3 \in 1 .. n + 3
  BY <1>2
<1>9. Cmd("upload", "small") \in Elems(all) /\ Cmd("upload", "big") \in Elems(all)
  BY <1>5, <1>8 DEF Elems
<1>10. Loads(all, texels, fonts)
  BY <1>4, <1>5, <1>7, <1>8, <1>9 DEF Loads
<1> QED
  BY <1>10 DEF all, up

\* What follows and uploads nothing does not matter.
LEMMA AppendLoads ==
    ASSUME NEW S, NEW s \in Seq(S), NEW t \in Seq(S), NEW texels, NEW fonts,
           Loads(s, texels, fonts), NoUpload(t)
    PROVE  Loads(s \o t, texels, fonts)
<1> DEFINE all == s \o t
           n == Len(s)
           m == Len(t)
<1>1. /\ Len(all) = n + m /\ n \in Nat /\ m \in Nat
      /\ \A i \in 1 .. n : all[i] = s[i]
      /\ \A i \in 1 .. m : all[n + i] = t[i]
      /\ \A i \in 1 .. n + m : i > n => i - n \in 1 .. m /\ all[i] = t[i - n]
      /\ Elems(all) = Elems(s) \cup Elems(t)
  BY ConcatElements
<1>2. \A i \in 1 .. m : t[i].op # "upload"
  BY DEF NoUpload, Elems
<1>3. /\ \A i, j \in 1 .. n : s[i].op = "sprites" /\ s[j].op = "upload" => j < i
      /\ \A j \in 1 .. n : s[j].op = "upload" =>
            texels = "empty" \/ \E i \in 1 .. n : i < j /\ s[i].op = "flush"
      /\ texels = "old" => \E j \in 1 .. n : s[j].op = "upload"
      /\ \A f \in {"small", "big"} : f \in fonts \/ Cmd("upload", f) \in Elems(s)
  BY DEF Loads
<1> HIDE DEF all, n, m
<1>4. \A i \in 1 .. n : i \in 1 .. n + m /\ all[i] = s[i]
  BY <1>1
<1>5. ASSUME NEW j \in 1 .. n + m, all[j].op = "upload" PROVE j \in 1 .. n /\ s[j].op = "upload"
  <2>1. ~(j > n)
    BY <1>1, <1>2, <1>5
  <2>2. j \in 1 .. n
    BY <1>1, <2>1
  <2> QED
    BY <1>4, <1>5, <2>2
<1>6. \A i, j \in 1 .. n + m : all[i].op = "sprites" /\ all[j].op = "upload" => j < i
  <2> SUFFICES ASSUME NEW i \in 1 .. n + m, NEW j \in 1 .. n + m,
                      all[i].op = "sprites", all[j].op = "upload"
               PROVE  j < i
    OBVIOUS
  <2>1. j \in 1 .. n /\ s[j].op = "upload"
    BY <1>5
  <2>2. CASE i <= n
    <3>1. i \in 1 .. n /\ s[i].op = "sprites"
      BY <1>1, <1>4, <2>2
    <3> QED
      BY <1>3, <2>1, <3>1
  <2>3. CASE i > n
    BY <1>1, <2>1, <2>3
  <2> QED
    BY <1>1, <2>2, <2>3
<1>7. \A j \in 1 .. n + m : all[j].op = "upload" =>
          texels = "empty" \/ \E i \in 1 .. n + m : i < j /\ all[i].op = "flush"
  <2> SUFFICES ASSUME NEW j \in 1 .. n + m, all[j].op = "upload", texels # "empty"
               PROVE  \E i \in 1 .. n + m : i < j /\ all[i].op = "flush"
    OBVIOUS
  <2>1. j \in 1 .. n /\ s[j].op = "upload"
    BY <1>5
  <2>2. PICK i \in 1 .. n : i < j /\ s[i].op = "flush"
    BY <1>3, <2>1
  <2> QED
    BY <1>4, <2>2
<1>8. texels = "old" => \E j \in 1 .. n + m : all[j].op = "upload"
  BY <1>3, <1>4
<1>9. \A f \in {"small", "big"} : f \in fonts \/ Cmd("upload", f) \in Elems(all)
  BY <1>1, <1>3
<1>10. Loads(all, texels, fonts)
  BY <1>1, <1>6, <1>7, <1>8, <1>9 DEF Loads
<1> QED
  BY <1>10 DEF all

-----------------------------------------------------------------------------
(* The picture *)

\* Where line i of the screen is, and in which font.
FontOf(i) == IF i = 1 THEN "big" ELSE "small"
LeftEdge(i) ==
    IF i = 1 THEN Centred("big", Title)
    ELSE IF i = 2 THEN Centred("small", Subtitle) ELSE Layout.margin
TopEdge(i) ==
    IF i = 1 THEN Layout.title
    ELSE IF i = 2 THEN Layout.subtitle ELSE Layout.log + (i - 3) * Font.small.h

LinesOf(rows) == <<Title, Subtitle>> \o rows
LineText(rows, i) == draw_text(FontOf(i), LeftEdge(i), TopEdge(i), LinesOf(rows)[i])
Picture(rows) == UNION {LineText(rows, i).arg : i \in 1 .. 2 + Len(rows)}

\* The header is above the log.
LEMMA LinesFacts ==
    ASSUME NEW rows \in Seq(Text)
    PROVE  /\ LinesOf(rows) \in Seq(Text) /\ Len(LinesOf(rows)) = 2 + Len(rows)
           /\ LinesOf(rows)[1] = Title /\ LinesOf(rows)[2] = Subtitle
           /\ \A r \in 1 .. Len(rows) : LinesOf(rows)[2 + r] = rows[r]
           /\ \A i \in 3 .. 2 + Len(rows) : i - 2 \in 1 .. Len(rows) /\ LinesOf(rows)[i] = rows[i - 2]
<1> DEFINE s == <<Title, Subtitle>>
           n == Len(rows)
<1>1. s \in Seq(Text) /\ Len(s) = 2 /\ s[1] = Title /\ s[2] = Subtitle
  BY TextAssumption
<1>2. LinesOf(rows) = s \o rows /\ n \in Nat
  BY DEF LinesOf
<1> HIDE DEF s
<1>3. /\ s \o rows \in Seq(Text) /\ Len(s \o rows) = Len(s) + n
      /\ \A i \in 1 .. Len(s) : (s \o rows)[i] = s[i]
      /\ \A i \in 1 .. n : (s \o rows)[Len(s) + i] = rows[i]
      /\ \A i \in 1 .. Len(s \o rows) : i > Len(s) =>
            i - Len(s) \in 1 .. n /\ (s \o rows)[i] = rows[i - Len(s)]
  <2>1. s \in Seq(Text)
    BY <1>1
  <2> QED
    BY <2>1, ConcatElements
<1> DEFINE l == LinesOf(rows)
<1> HIDE DEF n, l
<1>4. /\ l \in Seq(Text) /\ Len(l) = 2 + n
      /\ \A i \in 1 .. 2 : l[i] = s[i]
      /\ \A r \in 1 .. n : l[2 + r] = rows[r]
      /\ \A i \in 1 .. 2 + n : i > 2 => i - 2 \in 1 .. n /\ l[i] = rows[i - 2]
  BY <1>1, <1>2, <1>3 DEF l
<1>5. \A i \in 3 .. 2 + n : i \in 1 .. 2 + n /\ i > 2
  BY <1>2
<1> QED
  BY <1>1, <1>4, <1>5 DEF n, l

\* The commands of a short sequence.
LEMMA ShortElements ==
    /\ \A a : Elems(<<a>>) = {a}
    /\ \A a, b : Elems(<<a, b>>) = {a, b}
    /\ \A a, b, c : Elems(<<a, b, c>>) = {a, b, c}
<1>2. ASSUME NEW a PROVE Elems(<<a>>) = {a}
  BY DEF Elems
<1>3. ASSUME NEW a, NEW b PROVE Elems(<<a, b>>) = {a, b}
  <2>1. 1 .. 2 = {1, 2}
    OBVIOUS
  <2> QED
    BY <2>1 DEF Elems
<1>4. ASSUME NEW a, NEW b, NEW c PROVE Elems(<<a, b, c>>) = {a, b, c}
  <2>1. 1 .. 3 = {1, 2, 3}
    OBVIOUS
  <2> QED
    BY <2>1 DEF Elems
<1> QED
  BY <1>2, <1>3, <1>4

\* The divider does not clear the screen.
LEMMA DividerFacts == Divider # Screen /\ ~IsClear(Cmd("rect", Divider)) /\ IsClear(clear_screen)
<1>1. Divider.x = 20 /\ Screen.x = 0
  BY LayoutFacts DEF Divider, Screen, Rect
<1>2. /\ Cmd("rect", Divider).op = "rect" /\ Cmd("rect", Divider).arg = Divider
      /\ clear_screen.op = "rect" /\ clear_screen.arg = Screen
  BY DEF Cmd, clear_screen
<1> QED
  BY <1>1, <1>2 DEF IsClear

\* A text is drawn by sprites.
LEMMA TextFacts ==
    ASSUME NEW font, NEW x, NEW y, NEW text
    PROVE  draw_text(font, x, y, text).op = "sprites"
BY DEF draw_text, Cmd

\* What the header draws.
LEMMA HeaderDraws ==
    ASSUME NEW rows \in Seq(Text)
    PROVE  /\ Pending(draw_header) = LineText(rows, 1).arg \cup LineText(rows, 2).arg
           /\ NoClear(draw_header) /\ NoUpload(draw_header)
<1>1. draw_header = <<LineText(rows, 1), LineText(rows, 2), Cmd("rect", Divider)>>
  BY LinesFacts DEF draw_header, LineText, FontOf, LeftEdge, TopEdge, Divider
<1> DEFINE a == LineText(rows, 1)
           b == LineText(rows, 2)
           d == Cmd("rect", Divider)
<1>2. a.op = "sprites" /\ b.op = "sprites" /\ d.op = "rect" /\ ~IsClear(d)
  BY TextFacts, DividerFacts DEF LineText, Cmd
<1> HIDE DEF a, b, d
<1>3. Elems(<<a, b, d>>) = {a, b, d}
  <2>1. \A x, y, z : Elems(<<x, y, z>>) = {x, y, z}
    BY ShortElements
  <2> HIDE DEF a, b, d
  <2> QED
    BY ONLY <2>1, Zenon
<1>4. Pending(<<a, b, d>>) = a.arg \cup b.arg
  BY <1>2, <1>3 DEF Pending
<1>5. NoClear(<<a, b, d>>) /\ NoUpload(<<a, b, d>>)
  BY <1>2, <1>3 DEF NoClear, NoUpload, IsClear
<1> QED
  BY <1>1, <1>4, <1>5 DEF a, b, d

\* What the log draws.
LEMMA LogDraws ==
    ASSUME NEW rows \in Seq(Text)
    PROVE  /\ Pending(draw_log(rows)) = UNION {LineText(rows, 2 + r).arg : r \in 1 .. Len(rows)}
           /\ NoClear(draw_log(rows)) /\ NoUpload(draw_log(rows))
<1>1. Len(draw_log(rows)) = Len(rows) /\ Len(rows) \in Nat /\ DOMAIN rows = 1 .. Len(rows)
  BY LogPlain
<1>2. ASSUME NEW r \in 1 .. Len(rows) PROVE draw_log(rows)[r] = LineText(rows, 2 + r)
  <2>1. LinesOf(rows)[2 + r] = rows[r]
    BY LinesFacts
  <2>2. draw_log(rows)[r] = draw_text("small", Layout.margin, Layout.log + (r - 1) * Font.small.h, rows[r])
    BY <1>1 DEF draw_log
  <2>3. 2 + r # 1 /\ 2 + r # 2 /\ (2 + r) - 3 = r - 1
    BY <1>1
  <2> QED
    BY <2>1, <2>2, <2>3 DEF LineText, FontOf, LeftEdge, TopEdge
<1>3. \A r \in 1 .. Len(rows) : LineText(rows, 2 + r).op = "sprites"
  BY TextFacts DEF LineText
<1>4. Elems(draw_log(rows)) = {LineText(rows, 2 + r) : r \in 1 .. Len(rows)}
  BY <1>1, <1>2 DEF Elems
<1> QED
  BY <1>3, <1>4 DEF Pending, NoClear, NoUpload, IsClear

\* The picture is the header and the log.
LEMMA PictureParts ==
    ASSUME NEW rows \in Seq(Text)
    PROVE  Picture(rows) = Pending(draw_header) \cup Pending(draw_log(rows))
<1> DEFINE n == Len(rows)
<1>1. n \in Nat
  OBVIOUS
<1>2. \A i \in 1 .. 2 + n : i = 1 \/ i = 2 \/ \E r \in 1 .. n : i = 2 + r
  <2> SUFFICES ASSUME NEW i \in 1 .. 2 + n, i # 1, i # 2 PROVE \E r \in 1 .. n : i = 2 + r
    OBVIOUS
  <2>1. i - 2 \in 1 .. n /\ i = 2 + (i - 2)
    BY <1>1
  <2> QED
    BY <2>1
<1>3. 1 \in 1 .. 2 + n /\ 2 \in 1 .. 2 + n /\ \A r \in 1 .. n : 2 + r \in 1 .. 2 + n
  BY <1>1
<1> HIDE DEF n
<1>4. Picture(rows) = UNION {LineText(rows, i).arg : i \in 1 .. 2 + n}
  BY DEF Picture, n
<1>5. /\ Pending(draw_header) = LineText(rows, 1).arg \cup LineText(rows, 2).arg
      /\ Pending(draw_log(rows)) = UNION {LineText(rows, 2 + r).arg : r \in 1 .. n}
  BY HeaderDraws, LogDraws DEF n
<1> DEFINE L(i) == LineText(rows, i).arg
<1> HIDE DEF L
<1>6. UNION {L(i) : i \in 1 .. 2 + n} = (L(1) \cup L(2)) \cup UNION {L(2 + r) : r \in 1 .. n}
  BY <1>2, <1>3
<1> QED
  BY <1>4, <1>5, <1>6 DEF L

\* Commands that draw nothing and upload nothing.
LEMMA SilentFacts ==
    ASSUME NEW pal
    PROVE  /\ Quiet(<<Cmd("wait", 0)>>) /\ NoUpload(<<Cmd("wait", 0)>>)
           /\ Quiet(<<Cmd("on", 0)>>) /\ NoUpload(<<Cmd("on", 0)>>)
           /\ Quiet(<<Cmd("flush", 0)>>) /\ NoUpload(<<Cmd("flush", 0)>>)
           /\ Quiet(<<Cmd("off", 0)>>) /\ NoUpload(<<Cmd("off", 0)>>)
           /\ Quiet(<<Cmd("reset", 0), Cmd("off", 0)>>) /\ NoUpload(<<Cmd("reset", 0), Cmd("off", 0)>>)
           /\ Quiet(<<Cmd("flush", 0), Cmd("on", 0)>>) /\ NoUpload(<<Cmd("flush", 0), Cmd("on", 0)>>)
           /\ Quiet(set_video_mode(pal)) /\ NoUpload(set_video_mode(pal))
           /\ Quiet(set_draw_env) /\ NoUpload(set_draw_env)
           /\ Quiet(upload_fonts)
           /\ NoUpload(<<clear_screen>>)
<1> DEFINE Silent(c) == c.op \notin {"rect", "sprites", "upload"}
           Still(c) == c.op \notin {"rect", "sprites"}
<1>1. \A op, arg : Cmd(op, arg).op = op
  BY DEF Cmd
<1>2. ASSUME NEW a, Silent(a) PROVE Quiet(<<a>>) /\ NoUpload(<<a>>)
  <2>1. Elems(<<a>>) = {a}
    BY ShortElements
  <2> QED
    BY <1>2, <2>1 DEF Quiet, NoUpload, IsClear
<1>3. ASSUME NEW a, NEW b, Silent(a), Silent(b) PROVE Quiet(<<a, b>>) /\ NoUpload(<<a, b>>)
  <2>1. Elems(<<a, b>>) = {a, b}
    BY ShortElements
  <2> QED
    BY <1>3, <2>1 DEF Quiet, NoUpload, IsClear
<1>4. ASSUME NEW a, NEW b, NEW c, Still(a), Still(b), Still(c) PROVE Quiet(<<a, b, c>>)
  <2>1. Elems(<<a, b, c>>) = {a, b, c}
    BY ShortElements
  <2> QED
    BY <1>4, <2>1 DEF Quiet, IsClear
<1>5. /\ Silent(Cmd("wait", 0)) /\ Silent(Cmd("on", 0)) /\ Silent(Cmd("flush", 0))
      /\ Silent(Cmd("off", 0)) /\ Silent(Cmd("reset", 0))
      /\ Silent(Cmd("mode", pal)) /\ Silent(Cmd("vrange", VRange(pal)))
      /\ Silent(Cmd("area", Screen)) /\ Silent(Cmd("page", [x |-> 0, y |-> 256]))
      /\ Still(Cmd("flush", 0)) /\ Still(Cmd("upload", "small")) /\ Still(Cmd("upload", "big"))
  BY <1>1
<1>6. NoUpload(<<clear_screen>>)
  <2>1. Elems(<<clear_screen>>) = {clear_screen}
    BY ShortElements
  <2>2. clear_screen.op = "rect"
    BY <1>1 DEF clear_screen
  <2> QED
    BY <2>1, <2>2 DEF NoUpload
<1> HIDE DEF Silent, Still
<1>7. /\ Quiet(<<Cmd("wait", 0)>>) /\ NoUpload(<<Cmd("wait", 0)>>)
      /\ Quiet(<<Cmd("on", 0)>>) /\ NoUpload(<<Cmd("on", 0)>>)
      /\ Quiet(<<Cmd("flush", 0)>>) /\ NoUpload(<<Cmd("flush", 0)>>)
      /\ Quiet(<<Cmd("off", 0)>>) /\ NoUpload(<<Cmd("off", 0)>>)
  BY <1>2, <1>5
<1>8. /\ Quiet(<<Cmd("reset", 0), Cmd("off", 0)>>) /\ NoUpload(<<Cmd("reset", 0), Cmd("off", 0)>>)
      /\ Quiet(<<Cmd("flush", 0), Cmd("on", 0)>>) /\ NoUpload(<<Cmd("flush", 0), Cmd("on", 0)>>)
  BY <1>3, <1>5
<1>9. /\ Quiet(set_video_mode(pal)) /\ NoUpload(set_video_mode(pal))
      /\ Quiet(set_draw_env) /\ NoUpload(set_draw_env)
  BY <1>3, <1>5 DEF set_video_mode, set_draw_env
<1>10. Quiet(upload_fonts)
  BY <1>4, <1>5 DEF upload_fonts
<1> QED
  BY <1>6, <1>7, <1>8, <1>9, <1>10

\* A redraw clears the screen and then draws the picture.
LEMMA RedrawDraws ==
    ASSUME NEW rows \in Seq(Text)
    PROVE  Draws(redraw(rows), Picture(rows)) /\ NoUpload(redraw(rows))
<1> DEFINE P == Plain(TRUE)
           a == <<Cmd("wait", 0), clear_screen>>
           h == draw_header
           b == draw_log(rows)
           c == <<Cmd("flush", 0)>>
<1>1. a \in Seq(P) /\ c \in Seq(P)
  <2>1. Cmd("wait", 0) \in P /\ clear_screen \in P /\ Cmd("flush", 0) \in P
    BY OthersPlain DEF clear_screen
  <2> HIDE DEF P
  <2> QED
    BY <2>1
<1>2. h \in Seq(P) /\ b \in Seq(P)
  BY HeaderPlain, LogPlain
<1>3. redraw(rows) = ((a \o h) \o b) \o c
  BY DEF redraw
<1>4. Draws(a, {}) /\ NoUpload(a)
  <2>1. Cmd("wait", 0).op = "wait" /\ clear_screen.op = "rect"
    BY DEF Cmd, clear_screen
  <2>2. Draws(a, {})
    BY <2>1, ClearDraws, DividerFacts DEF IsClear
  <2>3. NoUpload(a)
    BY <2>1, ShortElements DEF NoUpload
  <2> QED
    BY <2>2, <2>3
<1>5. /\ NoUpload(c) /\ NoClear(c) /\ Pending(c) = {}
      /\ NoClear(h) /\ NoUpload(h) /\ NoClear(b) /\ NoUpload(b)
      /\ Pending(h) \cup Pending(b) = Picture(rows)
  BY SilentFacts, QuietPending, HeaderDraws, LogDraws, PictureParts
<1> HIDE DEF P, a, h, b, c
<1>6. a \o h \in Seq(P) /\ Draws(a \o h, Pending(h)) /\ NoUpload(a \o h)
  <2>1. a \in Seq(P) /\ h \in Seq(P)
    BY <1>1, <1>2
  <2>2. Draws(a \o h, {} \cup Pending(h)) /\ a \o h \in Seq(P) /\ NoUpload(a \o h)
    BY <1>4, <1>5, <2>1, AppendDraws, ConcatPending, ConcatElements
  <2> QED
    BY <2>2
<1> DEFINE s == a \o h
<1>7. s \in Seq(P) /\ Draws(s, Pending(h)) /\ NoUpload(s)
  BY <1>6
<1> HIDE DEF s
<1>8. s \o b \in Seq(P) /\ Draws(s \o b, Picture(rows)) /\ NoUpload(s \o b)
  <2>1. s \in Seq(P) /\ b \in Seq(P)
    BY <1>2, <1>7
  <2>2. Draws(s \o b, Pending(h) \cup Pending(b)) /\ s \o b \in Seq(P) /\ NoUpload(s \o b)
    BY <1>5, <1>7, <2>1, AppendDraws, ConcatPending, ConcatElements
  <2> QED
    BY <1>5, <2>2
<1> DEFINE t == s \o b
<1>9. t \in Seq(P) /\ Draws(t, Picture(rows)) /\ NoUpload(t)
  BY <1>8
<1> HIDE DEF t
<1>10. Draws(t \o c, Picture(rows)) /\ NoUpload(t \o c)
  <2>1. t \in Seq(P) /\ c \in Seq(P)
    BY <1>1, <1>9
  <2>2. Draws(t \o c, Picture(rows) \cup Pending(c)) /\ NoUpload(t \o c)
    BY <1>5, <1>9, <2>1, AppendDraws, ConcatPending
  <2> QED
    BY <1>5, <2>2
<1> QED
  BY <1>3, <1>10 DEF t, s

\* So does a change of the standard.
LEMMA SwitchDraws ==
    ASSUME NEW pal, NEW rows \in Seq(Text)
    PROVE  LET seq == <<Cmd("off", 0)>> \o set_video_mode(pal) \o set_draw_env
                      \o <<Cmd("on", 0)>> \o redraw(rows)
           IN  Draws(seq, Picture(rows)) /\ NoUpload(seq)
<1> DEFINE C == Commands(pal)
           a == <<Cmd("off", 0)>>
           m == set_video_mode(pal)
           e == set_draw_env
           o == <<Cmd("on", 0)>>
           r == redraw(rows)
<1>1. a \in Seq(C) /\ m \in Seq(C) /\ e \in Seq(C) /\ o \in Seq(C)
  <2>1. /\ Cmd("off", 0) \in C /\ Cmd("on", 0) \in C
        /\ Cmd("mode", pal) \in C /\ Cmd("vrange", VRange(pal)) \in C
        /\ Cmd("area", Screen) \in C /\ Cmd("page", [x |-> 0, y |-> 256]) \in C
    BY CommandMade DEF FontPage
  <2> HIDE DEF C
  <2> QED
    BY <2>1 DEF set_video_mode, set_draw_env
<1>2. r \in Seq(C)
  BY RedrawPlain, PlainInOrder
<1>3. /\ Quiet(a) /\ NoUpload(a) /\ Quiet(m) /\ NoUpload(m) /\ Quiet(e) /\ NoUpload(e)
      /\ Quiet(o) /\ NoUpload(o) /\ Draws(r, Picture(rows)) /\ NoUpload(r)
  BY SilentFacts, RedrawDraws
<1> HIDE DEF C, a, m, e, o, r
<1> DEFINE Good(s) == s \in Seq(C) /\ Quiet(s) /\ NoUpload(s)
<1>4. ASSUME NEW s, NEW t, Good(s), Good(t) PROVE Good(s \o t)
  BY <1>4, ConcatPending, ConcatProperties
<1>5. Good(a) /\ Good(m) /\ Good(e) /\ Good(o)
  BY <1>1, <1>3
<1> HIDE DEF Good
<1>6. Good(((a \o m) \o e) \o o)
  BY <1>4, <1>5
<1> DEFINE s == ((a \o m) \o e) \o o
<1>7. s \in Seq(C) /\ Quiet(s) /\ NoUpload(s)
  BY <1>6 DEF Good
<1> HIDE DEF s
<1>8. Draws(s \o r, Picture(rows)) /\ NoUpload(s \o r)
  BY <1>2, <1>3, <1>7, QuietFirst, ConcatPending
<1> QED
  BY <1>8 DEF s, a, m, e, o, r

\* debug_init draws the header, after the fonts are there.
LEMMA InitDraws ==
    ASSUME NEW pal, NEW texels, NEW fonts
    PROVE  LET seq == <<Cmd("reset", 0), Cmd("off", 0)>> \o set_video_mode(pal) \o set_draw_env
                      \o upload_fonts \o <<clear_screen>> \o draw_header
                      \o <<Cmd("flush", 0), Cmd("on", 0)>>
           IN  Draws(seq, Picture(<<>>)) /\ Loads(seq, texels, fonts)
<1> DEFINE C == Commands(pal)
           a == <<Cmd("reset", 0), Cmd("off", 0)>>
           m == set_video_mode(pal)
           e == set_draw_env
           u == upload_fonts
           k == <<clear_screen>>
           h == draw_header
           f == <<Cmd("flush", 0), Cmd("on", 0)>>
<1>1. /\ a \in Seq(C) /\ m \in Seq(C) /\ e \in Seq(C) /\ f \in Seq(C)
      /\ u \in Seq(C) /\ k \in Seq(C) /\ clear_screen \in C
  <2>1. /\ Cmd("reset", 0) \in C /\ Cmd("off", 0) \in C /\ Cmd("flush", 0) \in C /\ Cmd("on", 0) \in C
        /\ Cmd("mode", pal) \in C /\ Cmd("vrange", VRange(pal)) \in C
        /\ Cmd("area", Screen) \in C /\ Cmd("page", [x |-> 0, y |-> 256]) \in C
        /\ Cmd("upload", "small") \in C /\ Cmd("upload", "big") \in C /\ clear_screen \in C
    BY CommandMade DEF FontPage, clear_screen
  <2> HIDE DEF C
  <2>2. a \in Seq(C) /\ f \in Seq(C) /\ k \in Seq(C)
    BY <2>1
  <2>3. m \in Seq(C) /\ e \in Seq(C)
    BY <2>1 DEF set_video_mode, set_draw_env
  <2>4. u \in Seq(C)
    BY <2>1 DEF upload_fonts
  <2> QED
    BY <2>1, <2>2, <2>3, <2>4
<1>2. h \in Seq(C)
  <2>1. h \in Seq(Plain(pal)) /\ Plain(pal) \subseteq C
    BY HeaderPlain DEF Plain
  <2> QED
    BY <2>1, SeqMonotonic
<1>3. /\ Quiet(a) /\ NoUpload(a) /\ Quiet(m) /\ NoUpload(m) /\ Quiet(e) /\ NoUpload(e)
      /\ Quiet(u) /\ NoUpload(k) /\ Quiet(f) /\ NoUpload(f) /\ NoClear(f) /\ Pending(f) = {}
  BY SilentFacts, QuietPending
<1>4. NoClear(h) /\ NoUpload(h) /\ Pending(h) = Picture(<<>>)
  <2>1. <<>> \in Seq(Text) /\ Len(<<>>) = 0
    BY EmptySeq
  <2>2. Pending(draw_log(<<>>)) = {}
    <3> DEFINE none == <<>>
    <3>1. none \in Seq(Text) /\ Len(none) = 0
      BY <2>1
    <3> HIDE DEF none
    <3>2. Pending(draw_log(none)) = UNION {LineText(none, 2 + r).arg : r \in 1 .. Len(none)}
      BY <3>1, LogDraws
    <3>3. Pending(draw_log(none)) = {}
      BY <3>1, <3>2
    <3> QED
      BY <3>3 DEF none
  <2> QED
    BY <2>1, <2>2, HeaderDraws, PictureParts
<1>5. Draws(k, {})
  <2>1. ~IsClear(Cmd("wait", 0)) /\ Cmd("wait", 0).op # "sprites" /\ IsClear(clear_screen)
    BY DividerFacts DEF IsClear, Cmd
  <2> QED
    BY <2>1, ClearDraws
<1> HIDE DEF k, h, f, m, e, a
<1> DEFINE Good(s) == s \in Seq(C) /\ Quiet(s) /\ NoUpload(s)
<1>6. Good((a \o m) \o e)
  <2> HIDE DEF C
  <2>1. ASSUME NEW s, NEW t, Good(s), Good(t) PROVE Good(s \o t)
    BY <2>1, ConcatPending, ConcatProperties
  <2>2. Good(a) /\ Good(m) /\ Good(e)
    BY <1>1, <1>3
  <2> HIDE DEF Good
  <2> QED
    BY <2>1, <2>2
<1> DEFINE s == (a \o m) \o e
<1>7. s \in Seq(C) /\ Quiet(s) /\ NoUpload(s)
  BY <1>6
<1> HIDE DEF s
<1>8. s \o u \in Seq(C) /\ Quiet(s \o u) /\ Loads(s \o u, texels, fonts)
  <2>1. Loads(s \o u, texels, fonts)
    <3> DEFINE x == Cmd("flush", 0)
               y == Cmd("upload", "small")
               z == Cmd("upload", "big")
    <3>1. u = <<x, y, z>>
      BY DEF upload_fonts
    <3> HIDE DEF x, y, z, u, C
    <3>2. Loads(s \o <<x, y, z>>, texels, fonts)
      BY <1>1, <1>7, <3>1, UploadLoads DEF x, y, z
    <3> QED
      BY <3>1, <3>2
  <2> HIDE DEF C, u
  <2>2. s \in Seq(C) /\ u \in Seq(C)
    BY <1>1, <1>7
  <2>3. s \o u \in Seq(C) /\ Quiet(s \o u)
    BY <1>3, <1>7, <2>2, ConcatPending, ConcatElements
  <2> QED
    BY <2>1, <2>3
<1> DEFINE p == s \o u
<1>9. p \in Seq(C) /\ Quiet(p) /\ Loads(p, texels, fonts)
  BY <1>8
<1> HIDE DEF p, C
\* What each of the other parts adds.
<1> DEFINE Right(q, g) == q \in Seq(C) /\ Draws(q, g) /\ Loads(q, texels, fonts)
<1>10. ASSUME NEW q, NEW g, Right(q, g), NEW t \in Seq(C), NoClear(t), NoUpload(t)
       PROVE  Right(q \o t, g \cup Pending(t))
  <2>1. q \in Seq(C)
    BY <1>10
  <2>2. q \o t \in Seq(C)
    BY <2>1, ConcatElements
  <2>3. Draws(q \o t, g \cup Pending(t))
    BY <1>10, <2>1, AppendDraws
  <2>4. Loads(q \o t, texels, fonts)
    BY <1>10, <2>1, AppendLoads
  <2> QED
    BY <2>2, <2>3, <2>4
<1>11. Right(p \o k, {})
  <2>1. p \in Seq(C) /\ k \in Seq(C)
    BY <1>1, <1>9
  <2>2. p \o k \in Seq(C)
    BY <2>1, ConcatElements
  <2>3. Draws(p \o k, {})
    BY <1>5, <1>9, <2>1, QuietFirst
  <2>4. Loads(p \o k, texels, fonts)
    BY <1>3, <1>9, <2>1, AppendLoads
  <2> QED
    BY <2>2, <2>3, <2>4
<1> DEFINE q == p \o k
<1>12. Right(q, {})
  BY <1>11
<1> HIDE DEF Right, q
<1>13. Right(q \o h, {} \cup Pending(h))
  BY <1>2, <1>4, <1>10, <1>12
<1>14. Right((q \o h) \o f, ({} \cup Pending(h)) \cup Pending(f))
  BY <1>1, <1>3, <1>10, <1>13
<1>15. Right((q \o h) \o f, Picture(<<>>))
  BY <1>3, <1>4, <1>14
<1> QED
  BY <1>15 DEF Right, q, p, s, a, m, e, u, k, h, f

-----------------------------------------------------------------------------
(* Where the picture is *)

\* What FitAssumption says of one log.
Fits(rows) ==
    /\ rows \in Seq(Text) /\ 48 + Len(rows) * 8 + 12 <= ScreenH
    /\ \A r \in 1 .. Len(rows) : 40 + Len(rows[r]) * 6 <= ScreenW

\* Every log fits, and so does the empty one.
LEMMA LogFits == ASSUME NEW rows \in Logs \cup {<<>>} PROVE Fits(rows)
<1>1. CASE rows \in Logs
  <2>1. rows \in Seq(Text)
    BY <1>1, TextAssumption
  <2>2. DOMAIN rows = 1 .. Len(rows)
    BY <2>1
  <2>3. /\ Layout.log + Len(rows) * Font.small.h + 12 <= ScreenH
        /\ \A r \in DOMAIN rows : 2 * Layout.margin + Len(rows[r]) * Font.small.w <= ScreenW
    BY <1>1, FitAssumption
  <2>4. 48 + Len(rows) * 8 + 12 <= ScreenH
    BY <2>3, LayoutFacts
  <2>5. ASSUME NEW r \in 1 .. Len(rows) PROVE 40 + Len(rows[r]) * 6 <= ScreenW
    <3>1. 2 * Layout.margin + Len(rows[r]) * Font.small.w <= ScreenW
      BY <2>2, <2>3
    <3>2. Len(rows[r]) \in Nat
      BY <2>1 DEF Text
    <3> QED
      BY <3>1, <3>2, LayoutFacts
  <2> QED
    BY <2>1, <2>4, <2>5 DEF Fits
<1>2. CASE rows = <<>>
  <2>1. rows \in Seq(Text) /\ Len(rows) = 0
    BY <1>2, EmptySeq
  <2>2. 48 + 12 <= ScreenH
    BY FitAssumption, LayoutFacts
  <2> QED
    BY <2>1, <2>2, LayoutFacts DEF Fits
<1> QED
  BY <1>1, <1>2

Wide(i) == Font[FontOf(i)].w
High(i) == Font[FontOf(i)].h
Long(rows, i) == Len(LinesOf(rows)[i])

\* The edges of the lines.
LEMMA EdgeFacts ==
    ASSUME NEW rows, Fits(rows), NEW i \in 1 .. 2 + Len(rows)
    PROVE  /\ LinesOf(rows)[i] \in Text /\ Long(rows, i) \in Nat
           /\ LeftEdge(i) \in Nat /\ TopEdge(i) \in Nat /\ LeftEdge(i) + Long(rows, i) * Wide(i) <= ScreenW
           /\ \/ i = 1 /\ FontOf(i) = "big" /\ Wide(i) = 12 /\ High(i) = 16 /\ TopEdge(i) = 10
              \/ i = 2 /\ FontOf(i) = "small" /\ Wide(i) = 6 /\ High(i) = 8 /\ TopEdge(i) = 28
              \/ /\ i > 2 /\ FontOf(i) = "small" /\ Wide(i) = 6 /\ High(i) = 8
                 /\ TopEdge(i) = 48 + (i - 3) * 8
           /\ TopEdge(i) + High(i) <= ScreenH
<1> DEFINE l == LinesOf(rows)
           n == Len(rows)
           k == Long(rows, i)
<1>1. rows \in Seq(Text) /\ n \in Nat /\ 48 + n * 8 + 12 <= ScreenH
  BY DEF Fits
<1>2. /\ l \in Seq(Text) /\ Len(l) = 2 + n /\ l[1] = Title /\ l[2] = Subtitle
      /\ \A m \in 3 .. 2 + n : m - 2 \in 1 .. n /\ l[m] = rows[m - 2]
  BY <1>1, LinesFacts
<1>3. l[i] \in Text
  BY <1>2, ElementOfSeq
<1>4. k \in Nat
  BY <1>3 DEF Long, Text
<1>5. ScreenW \in Nat /\ ScreenH \in Nat
  BY LayoutFacts
<1>6. CASE i = 1
  <2>1. k = Len(Title) /\ 20 + k * 12 <= ScreenW
    BY <1>2, <1>6, FitAssumption, LayoutFacts DEF Long
  <2> HIDE DEF k
  <2>2. LeftEdge(i) = LET x == (ScreenW - k * 12) \div 2 IN IF x < 20 THEN 20 ELSE x
    BY <1>6, <2>1, LayoutFacts DEF LeftEdge, Centred
  <2>3. LeftEdge(i) \in Nat /\ LeftEdge(i) + k * 12 <= ScreenW
    <3> DEFINE x == (ScreenW - k * 12) \div 2
    <3>1. x \in Int /\ 2 * x <= ScreenW - k * 12
      BY <1>4, <1>5
    <3>2. LeftEdge(i) = IF x < 20 THEN 20 ELSE x
      BY <2>2
    <3> HIDE DEF x
    <3>3. k * 12 \in Nat
      BY <1>4
    <3> DEFINE y == k * 12
    <3> HIDE DEF y
    <3>4. y \in Nat /\ 2 * x <= ScreenW - y /\ 20 + y <= ScreenW
      BY <2>1, <3>1, <3>3 DEF y
    <3>5. LeftEdge(i) \in Nat /\ LeftEdge(i) + y <= ScreenW
      BY <1>5, <3>1, <3>2, <3>4
    <3> QED
      BY <3>5 DEF y
  <2>4. FontOf(i) = "big" /\ Wide(i) = 12 /\ High(i) = 16 /\ TopEdge(i) = 10
    BY <1>6, LayoutFacts DEF FontOf, Wide, High, TopEdge
  <2>5. 10 + 16 <= ScreenH
    BY <1>1, <1>5
  <2> QED
    BY <1>3, <1>4, <1>6, <2>3, <2>4, <2>5 DEF k
<1>7. CASE i = 2
  <2>1. k = Len(Subtitle) /\ 20 + k * 6 <= ScreenW
    BY <1>2, <1>7, FitAssumption, LayoutFacts DEF Long
  <2> HIDE DEF k
  <2>2. LeftEdge(i) = LET x == (ScreenW - k * 6) \div 2 IN IF x < 20 THEN 20 ELSE x
    <3>1. LeftEdge(i) = Centred("small", Subtitle)
      BY <1>7 DEF LeftEdge
    <3>2. Centred("small", Subtitle) = LET x == (ScreenW - k * 6) \div 2 IN IF x < 20 THEN 20 ELSE x
      BY <2>1, LayoutFacts DEF Centred
    <3> QED
      BY <3>1, <3>2
  <2>3. LeftEdge(i) \in Nat /\ LeftEdge(i) + k * 6 <= ScreenW
    <3> DEFINE x == (ScreenW - k * 6) \div 2
    <3>1. x \in Int /\ 2 * x <= ScreenW - k * 6
      BY <1>4, <1>5
    <3>2. LeftEdge(i) = IF x < 20 THEN 20 ELSE x
      BY <2>2
    <3> HIDE DEF x
    <3>3. k * 6 \in Nat
      BY <1>4
    <3> DEFINE y == k * 6
    <3> HIDE DEF y
    <3>4. y \in Nat /\ 2 * x <= ScreenW - y /\ 20 + y <= ScreenW
      BY <2>1, <3>1, <3>3 DEF y
    <3>5. LeftEdge(i) \in Nat /\ LeftEdge(i) + y <= ScreenW
      BY <1>5, <3>1, <3>2, <3>4
    <3> QED
      BY <3>5 DEF y
  <2>4. FontOf(i) = "small" /\ Wide(i) = 6 /\ High(i) = 8 /\ TopEdge(i) = 28
    BY <1>7, LayoutFacts DEF FontOf, Wide, High, TopEdge
  <2>5. 28 + 8 <= ScreenH
    BY <1>1, <1>5
  <2> QED
    BY <1>3, <1>4, <1>7, <2>3, <2>4, <2>5 DEF k
<1>8. CASE i \notin {1, 2}
  <2>1. i \in 3 .. 2 + n
    BY <1>1, <1>8
  <2>2. i - 2 \in 1 .. n /\ l[i] = rows[i - 2]
    BY <1>2, <2>1
  <2>3. 40 + k * 6 <= ScreenW
    BY <2>2 DEF Fits, Long
  <2> HIDE DEF k
  <2>4. /\ FontOf(i) = "small" /\ Wide(i) = 6 /\ High(i) = 8 /\ TopEdge(i) = 48 + (i - 3) * 8
        /\ LeftEdge(i) = 20
    BY <1>8, LayoutFacts DEF FontOf, Wide, High, TopEdge, LeftEdge
  <2> HIDE DEF n
  <2>5. TopEdge(i) \in Nat /\ TopEdge(i) + 8 <= ScreenH
    BY <1>1, <1>5, <2>1, <2>4
  <2>6. 20 + k * 6 <= ScreenW
    BY <1>4, <1>5, <2>3
  <2>7. i > 2
    BY <1>1, <2>1
  <2> QED
    BY <1>3, <1>4, <2>4, <2>5, <2>6, <2>7 DEF k
<1> QED
  BY <1>6, <1>7, <1>8

\* Each line is above the next.
LEMMA LineOrder ==
    ASSUME NEW rows, Fits(rows), NEW i \in 1 .. 2 + Len(rows), NEW k \in 1 .. 2 + Len(rows), i < k
    PROVE  TopEdge(i) + High(i) <= TopEdge(k)
<1>1. Len(rows) \in Nat
  BY DEF Fits
<1>2. i \in Nat /\ k \in Nat
  BY <1>1
<1>3. \/ i = 1 /\ High(i) = 16 /\ TopEdge(i) = 10
      \/ i = 2 /\ High(i) = 8 /\ TopEdge(i) = 28
      \/ i > 2 /\ High(i) = 8 /\ TopEdge(i) = 48 + (i - 3) * 8
  BY EdgeFacts
<1>4. \/ k = 1
      \/ k = 2 /\ TopEdge(k) = 28
      \/ k > 2 /\ TopEdge(k) = 48 + (k - 3) * 8
  BY EdgeFacts
<1> QED
  BY <1>2, <1>3, <1>4

\* The glyph at place j of line i.
Glyph(rows, i, j) ==
    draw_glyph(FontOf(i), LeftEdge(i) + (j - 1) * Wide(i), TopEdge(i), LinesOf(rows)[i][j])

\* The glyphs of the picture, line by line.
LEMMA PictureGlyphs ==
    ASSUME NEW rows, Fits(rows)
    PROVE  /\ \A i \in 1 .. 2 + Len(rows) : \A j \in 1 .. Long(rows, i) : Glyph(rows, i, j) \in Picture(rows)
           /\ \A g \in Picture(rows) : \E i \in 1 .. 2 + Len(rows) : \E j \in 1 .. Long(rows, i) :
                 g = Glyph(rows, i, j)
<1>1. ASSUME NEW i \in 1 .. 2 + Len(rows)
      PROVE  LineText(rows, i).arg = {Glyph(rows, i, j) : j \in 1 .. Long(rows, i)}
  <2>1. DOMAIN LinesOf(rows)[i] = 1 .. Long(rows, i)
    BY EdgeFacts DEF Long, Text
  <2> QED
    BY <2>1 DEF LineText, draw_text, Cmd, Glyph, Wide
<1> QED
  BY <1>1 DEF Picture

\* Where a glyph is: within the screen, and not on the divider.
LEMMA GlyphPlace ==
    ASSUME NEW rows, Fits(rows), NEW i \in 1 .. 2 + Len(rows), NEW j \in 1 .. Long(rows, i)
    PROVE  LET p == Glyph(rows, i, j).pos
           IN  /\ p.x = LeftEdge(i) + (j - 1) * Wide(i) /\ p.y = TopEdge(i)
               /\ p.w = Wide(i) /\ p.h = High(i) /\ Wide(i) \in {6, 12} /\ High(i) \in {8, 16}
               /\ p.x \in Nat /\ p.y \in Nat /\ p.x + p.w <= ScreenW /\ p.y + p.h <= ScreenH
               /\ Overlap(p, Screen) /\ ~Overlap(p, Divider)
               /\ Glyph(rows, i, j) \in Sprites
<1> DEFINE p == Glyph(rows, i, j).pos
<1>1. p = Rect(LeftEdge(i) + (j - 1) * Wide(i), TopEdge(i), Wide(i), High(i))
  BY DEF Glyph, draw_glyph, Wide, High
<1>2. /\ p.x = LeftEdge(i) + (j - 1) * Wide(i) /\ p.y = TopEdge(i)
      /\ p.w = Wide(i) /\ p.h = High(i)
  BY <1>1 DEF Rect
<1>3. /\ LinesOf(rows)[i] \in Text /\ Long(rows, i) \in Nat
      /\ LeftEdge(i) \in Nat /\ TopEdge(i) \in Nat /\ LeftEdge(i) + Long(rows, i) * Wide(i) <= ScreenW
      /\ Wide(i) \in {6, 12} /\ High(i) \in {8, 16} /\ TopEdge(i) + High(i) <= ScreenH
      /\ FontOf(i) \in {"small", "big"}
  BY EdgeFacts
<1>4. TopEdge(i) + High(i) <= 42 \/ TopEdge(i) >= 48
  <2>1. Len(rows) \in Nat
    BY DEF Fits
  <2>2. i \in Nat
    BY <2>1
  <2>3. \/ High(i) = 16 /\ TopEdge(i) = 10
        \/ High(i) = 8 /\ TopEdge(i) = 28
        \/ i > 2 /\ TopEdge(i) = 48 + (i - 3) * 8
    BY EdgeFacts
  <2>4. i > 2 => 48 + (i - 3) * 8 >= 48
    BY <2>2
  <2> QED
    BY <2>3, <2>4
<1>5. j \in Nat /\ j >= 1 /\ j <= Long(rows, i)
  BY <1>3
<1> HIDE DEF p
<1>6. p.x \in Nat /\ p.x + p.w <= ScreenW
  <2>1. CASE Wide(i) = 6
    <3>1. p.x = LeftEdge(i) + (j - 1) * 6 /\ p.w = 6 /\ LeftEdge(i) + Long(rows, i) * 6 <= ScreenW
      BY <1>2, <1>3, <2>1
    <3> DEFINE a == LeftEdge(i)
               k == Long(rows, i)
    <3>2. a \in Nat /\ k \in Nat /\ ScreenW \in Nat /\ p.x = a + (j - 1) * 6 /\ a + k * 6 <= ScreenW
      BY <1>3, <3>1, LayoutFacts
    <3> HIDE DEF a, k
    <3>3. a + (j - 1) * 6 \in Nat /\ a + (j - 1) * 6 + 6 <= a + k * 6
      BY <1>5, <3>2 DEF k
    <3>4. a + k * 6 \in Nat /\ a + (j - 1) * 6 + 6 \in Nat
      BY <3>2, <3>3
    <3>5. a + (j - 1) * 6 + 6 <= ScreenW
      BY <3>2, <3>3, <3>4
    <3> QED
      BY <3>1, <3>2, <3>3, <3>5
  <2>2. CASE Wide(i) = 12
    <3>1. p.x = LeftEdge(i) + (j - 1) * 12 /\ p.w = 12 /\ LeftEdge(i) + Long(rows, i) * 12 <= ScreenW
      BY <1>2, <1>3, <2>2
    <3> DEFINE a == LeftEdge(i)
               k == Long(rows, i)
    <3>2. a \in Nat /\ k \in Nat /\ ScreenW \in Nat /\ p.x = a + (j - 1) * 12 /\ a + k * 12 <= ScreenW
      BY <1>3, <3>1, LayoutFacts
    <3> HIDE DEF a, k
    <3>3. a + (j - 1) * 12 \in Nat /\ a + (j - 1) * 12 + 12 <= a + k * 12
      BY <1>5, <3>2 DEF k
    <3>4. a + k * 12 \in Nat /\ a + (j - 1) * 12 + 12 \in Nat
      BY <3>2, <3>3
    <3>5. a + (j - 1) * 12 + 12 <= ScreenW
      BY <3>2, <3>3, <3>4
    <3> QED
      BY <3>1, <3>2, <3>3, <3>5
  <2> QED
    BY <1>3, <2>1, <2>2
<1>7. p.y \in Nat /\ p.y + p.h <= ScreenH /\ p.w \in {6, 12} /\ p.h \in {8, 16}
      /\ (p.y + p.h <= 42 \/ p.y >= 48)
  BY <1>2, <1>3, <1>4
<1>8. Screen.x = 0 /\ Screen.y = 0 /\ Screen.w = ScreenW /\ Screen.h = ScreenH
  BY DEF Screen, Rect
<1>9. Divider.y = 42 /\ Divider.h = 1
  BY LayoutFacts DEF Divider, Rect
<1>10. Overlap(p, Screen)
  <2>1. ScreenW \in Nat /\ ScreenH \in Nat
    BY LayoutFacts
  <2>2. p.x < 0 + ScreenW /\ 0 < p.x + p.w
    BY <1>6, <1>7, <2>1
  <2>3. p.y < 0 + ScreenH /\ 0 < p.y + p.h
    BY <1>7, <2>1
  <2> QED
    BY <1>8, <2>2, <2>3 DEF Overlap
<1>11. ~Overlap(p, Divider)
  BY <1>7, <1>9 DEF Overlap
<1>12. Glyph(rows, i, j) \in Sprites
  <2>1. LeftEdge(i) + (j - 1) * Wide(i) \in Int
    BY <1>2, <1>6
  <2>2. LinesOf(rows)[i][j] \in Code
    BY <1>3 DEF Text, Long
  <2> QED
    BY <1>3, <2>1, <2>2, GlyphInAtlas DEF Glyph
<1> QED
  BY <1>2, <1>3, <1>6, <1>7, <1>10, <1>11, <1>12 DEF p

\* So every glyph of the picture is on the screen and not on the divider.
LEMMA PicturePlace ==
    ASSUME NEW rows, Fits(rows), NEW g \in Picture(rows)
    PROVE  g \in Sprites /\ Overlap(g.pos, Screen) /\ ~Overlap(g.pos, Divider)
<1>1. PICK i \in 1 .. 2 + Len(rows) : \E j \in 1 .. Long(rows, i) : g = Glyph(rows, i, j)
  BY PictureGlyphs
<1>2. PICK j \in 1 .. Long(rows, i) : g = Glyph(rows, i, j)
  BY <1>1
<1> QED
  BY <1>2, GlyphPlace

-----------------------------------------------------------------------------
(* The picture is drawn *)

\* What of the picture is in the frame, and that its glyphs are the font's.
DrawInv ==
    /\ \A s \in frame : Overlap(s.pos, Screen)
    /\ at \notin {"off", "init"} => Paints(todo, frame, Picture(log)) /\ Loads(todo, cache, vram)

\* A command that draws nothing is done.
LEMMA PaintsSkip ==
    ASSUME NEW S, NEW s \in Seq(S), s # <<>>, NEW fr, NEW glyphs, Paints(s, fr, glyphs),
           ~IsClear(Head(s)), Head(s).op # "sprites"
    PROVE  Paints(Tail(s), fr, glyphs)
<1>1. CASE Draws(s, glyphs)
  BY <1>1, TailDraws DEF Paints
<1>2. CASE NoClear(s) /\ fr \cup {Drawn(x) : x \in Pending(s)} = {Drawn(x) : x \in glyphs}
  <2>1. NoClear(Tail(s)) /\ Pending(Tail(s)) = Pending(s)
    BY <1>2, TailPending
  <2> QED
    BY <1>2, <2>1 DEF Paints
<1> QED
  BY <1>1, <1>2 DEF Paints

\* The screen is cleared.
LEMMA PaintsClear ==
    ASSUME NEW S, NEW s \in Seq(S), s # <<>>, NEW fr, NEW glyphs, Paints(s, fr, glyphs),
           IsClear(Head(s))
    PROVE  Paints(Tail(s), {}, glyphs)
<1>1. ~NoClear(s)
  BY TailPending
<1>2. Draws(s, glyphs)
  BY <1>1 DEF Paints
<1>3. NoClear(Tail(s)) /\ Pending(Tail(s)) = glyphs
  BY <1>2, TailDraws
<1> QED
  BY <1>3 DEF Paints

\* A rectangle that no glyph touches is drawn.
LEMMA PaintsRect ==
    ASSUME NEW S, NEW s \in Seq(S), s # <<>>, NEW fr, NEW glyphs, Paints(s, fr, glyphs),
           ~IsClear(Head(s)), Head(s).op # "sprites", NEW r, \A g \in glyphs : ~Overlap(g.pos, r)
    PROVE  Paints(Tail(s), {x \in fr : ~Overlap(x.pos, r)}, glyphs)
<1>1. CASE Draws(s, glyphs)
  BY <1>1, TailDraws DEF Paints
<1>2. CASE NoClear(s) /\ fr \cup {Drawn(x) : x \in Pending(s)} = {Drawn(x) : x \in glyphs}
  <2>1. NoClear(Tail(s)) /\ Pending(Tail(s)) = Pending(s)
    BY <1>2, TailPending
  <2>2. \A x \in fr : \E g \in glyphs : x = Drawn(g)
    BY <1>2
  <2>3. \A g : Drawn(g).pos = g.pos
    BY DEF Drawn
  <2>4. {x \in fr : ~Overlap(x.pos, r)} = fr
    BY <2>2, <2>3
  <2> QED
    BY <1>2, <2>1, <2>4 DEF Paints
<1> QED
  BY <1>1, <1>2 DEF Paints

\* Glyphs are drawn.
LEMMA PaintsSprites ==
    ASSUME NEW S, NEW s \in Seq(S), s # <<>>, NEW fr, NEW glyphs, Paints(s, fr, glyphs),
           Head(s).op = "sprites"
    PROVE  /\ Paints(Tail(s), fr \cup {Drawn(x) : x \in Head(s).arg}, glyphs)
           /\ \A x \in Head(s).arg : \E g \in glyphs : Drawn(x) = Drawn(g)
<1>1. ~IsClear(Head(s))
  BY DEF IsClear
<1>2. ~Draws(s, glyphs)
  BY <1>1, TailDraws
<1>3. NoClear(s) /\ fr \cup {Drawn(x) : x \in Pending(s)} = {Drawn(x) : x \in glyphs}
  BY <1>2 DEF Paints
<1>4. Pending(s) = Head(s).arg \cup Pending(Tail(s)) /\ NoClear(Tail(s))
  BY <1>3, TailPending
<1>5. {Drawn(x) : x \in Pending(s)} = {Drawn(x) : x \in Head(s).arg} \cup {Drawn(x) : x \in Pending(Tail(s))}
  BY <1>4
<1>6. \A x \in Head(s).arg : Drawn(x) \in {Drawn(y) : y \in glyphs}
  BY <1>3, <1>5
<1>7. (fr \cup {Drawn(x) : x \in Head(s).arg}) \cup {Drawn(x) : x \in Pending(Tail(s))}
         = {Drawn(x) : x \in glyphs}
  BY <1>3, <1>5
<1> QED
  BY <1>4, <1>6, <1>7 DEF Paints

\* Nothing is left to be done.
LEMMA PaintsNothing ==
    ASSUME NEW fr, NEW glyphs, NEW texels, NEW fonts
    PROVE  /\ Paints(<<>>, fr, glyphs) <=> fr = {Drawn(g) : g \in glyphs}
           /\ Loads(<<>>, texels, fonts) <=> texels # "old" /\ {"small", "big"} \subseteq fonts
<1> DEFINE s == <<>>
<1>1. Len(s) = 0
  BY EmptySeq, Zenon
<1> HIDE DEF s
<1>2. 1 .. Len(s) = {}
  BY <1>1
<1>3. Elems(s) = {} /\ Pending(s) = {} /\ NoClear(s) /\ ~Draws(s, glyphs)
  BY <1>2 DEF Elems, Pending, NoClear, Draws
<1>4. Paints(s, fr, glyphs) <=> fr = {Drawn(g) : g \in glyphs}
  BY <1>3 DEF Paints
<1>5. Loads(s, texels, fonts) <=> texels # "old" /\ {"small", "big"} \subseteq fonts
  BY <1>2, <1>3 DEF Loads
<1> QED
  BY <1>4, <1>5 DEF s

\* What holds while a command is at the head.
LEMMA HeadFacts ==
    ASSUME StandardInv, DrawInv, todo # <<>>
    PROVE  /\ todo \in Seq(Commands(is_pal)) /\ Head(todo) \in Commands(is_pal)
           /\ at \notin {"off", "init", "idle"}
           /\ Paints(todo, frame, Picture(log)) /\ Loads(todo, cache, vram)
           /\ Fits(log) /\ log \in Seq(Text)
<1>1. QueueInv /\ TypeOK
  BY DEF StandardInv
<1>2. todo \in Seq(Commands(is_pal)) /\ at \notin {"off", "init", "idle"}
  BY <1>1 DEF QueueInv
<1> DEFINE C == Commands(is_pal)
<1>3. Head(todo) \in C
  <2>1. todo \in Seq(C)
    BY <1>2
  <2> HIDE DEF C
  <2> QED
    BY <2>1, HeadTailProperties
<1>4. Fits(log)
  BY <1>1, LogFits DEF TypeOK
<1> QED
  BY <1>2, <1>3, <1>4 DEF DrawInv, Fits

\* A command that neither draws nor uploads is done.
LEMMA OtherDraw ==
    /\ StandardInv /\ DrawInv /\ todo # <<>> /\ todo' = Tail(todo) /\ UNCHANGED <<log, frame, vram>>
    /\ Head(todo).op \notin {"upload", "rect", "sprites"}
    /\ cache' = IF Head(todo).op = "flush" THEN "empty" ELSE cache
    => DrawInv'
<1> SUFFICES ASSUME StandardInv, DrawInv, todo # <<>>, todo' = Tail(todo), UNCHANGED <<log, frame, vram>>,
                    Head(todo).op \notin {"upload", "rect", "sprites"},
                    cache' = IF Head(todo).op = "flush" THEN "empty" ELSE cache
             PROVE  DrawInv'
  OBVIOUS
<1> DEFINE C == Commands(is_pal)
<1>1. todo \in Seq(C) /\ Paints(todo, frame, Picture(log)) /\ Loads(todo, cache, vram)
  BY HeadFacts
<1> HIDE DEF C
<1>2. ~IsClear(Head(todo))
  BY DEF IsClear
<1>3. Paints(Tail(todo), frame, Picture(log))
  BY <1>1, <1>2, PaintsSkip
<1>4. Loads(Tail(todo), cache', vram)
  BY <1>1, TailLoads
<1> QED
  BY <1>3, <1>4 DEF DrawInv

\* A rectangle is drawn: the screen is cleared, or the divider drawn.
LEMMA RectDraw == StandardInv /\ DrawInv /\ gpu_draw_solid_rect => DrawInv'
<1> SUFFICES ASSUME StandardInv, DrawInv, gpu_draw_solid_rect PROVE DrawInv'
  OBVIOUS
<1>1. /\ todo # <<>> /\ Head(todo).op = "rect" /\ todo' = Tail(todo) /\ UNCHANGED <<log, vram, cache>>
      /\ frame' = {s \in frame : ~Overlap(s.pos, Head(todo).arg)}
  BY DEF gpu_draw_solid_rect, Done, Does, Arg
<1> DEFINE C == Commands(is_pal)
<1>2. todo \in Seq(C) /\ Paints(todo, frame, Picture(log)) /\ Loads(todo, cache, vram) /\ Fits(log)
  BY <1>1, HeadFacts
<1>3. Head(todo).arg \in {Screen, Divider}
  BY <1>1, HeadFacts, CommandFacts
<1> HIDE DEF C
<1>4. Loads(Tail(todo), cache, vram)
  BY <1>1, <1>2, TailLoads
<1>5. CASE Head(todo).arg = Screen
  <2>1. IsClear(Head(todo))
    BY <1>1, <1>5 DEF IsClear
  <2>2. frame' = {}
    BY <1>1, <1>5 DEF DrawInv
  <2>3. Paints(Tail(todo), {}, Picture(log))
    BY <1>1, <1>2, <2>1, PaintsClear
  <2> QED
    BY <1>1, <1>4, <2>2, <2>3 DEF DrawInv
<1>6. CASE Head(todo).arg = Divider
  <2>1. ~IsClear(Head(todo))
    BY <1>6, DividerFacts DEF IsClear
  <2>2. \A g \in Picture(log) : ~Overlap(g.pos, Divider)
    BY <1>2, PicturePlace
  <2>3. Paints(Tail(todo), {s \in frame : ~Overlap(s.pos, Divider)}, Picture(log))
    BY <1>1, <1>2, <2>1, <2>2, PaintsRect
  <2> QED
    BY <1>1, <1>4, <1>6, <2>3 DEF DrawInv
<1> QED
  BY <1>3, <1>5, <1>6

\* An atlas is uploaded.
LEMMA UploadDraw == StandardInv /\ DrawInv /\ GPU_dw => DrawInv'
<1> SUFFICES ASSUME StandardInv, DrawInv, GPU_dw PROVE DrawInv'
  OBVIOUS
<1>1. /\ todo # <<>> /\ Head(todo).op = "upload" /\ todo' = Tail(todo) /\ UNCHANGED <<log, frame>>
      /\ vram' = vram \cup {Head(todo).arg} /\ (cache = "empty" => cache' = "empty")
  BY DEF GPU_dw, Done, Does, Arg
<1> DEFINE C == Commands(is_pal)
<1>2. todo \in Seq(C) /\ Paints(todo, frame, Picture(log)) /\ Loads(todo, cache, vram)
  BY <1>1, HeadFacts
<1> HIDE DEF C
<1>3. cache = "empty" /\ Loads(Tail(todo), "empty", vram \cup {Head(todo).arg})
  BY <1>1, <1>2, TailLoads
<1>4. ~IsClear(Head(todo))
  BY <1>1 DEF IsClear
<1>5. Paints(Tail(todo), frame, Picture(log))
  BY <1>1, <1>2, <1>4, PaintsSkip
<1> QED
  BY <1>1, <1>3, <1>5 DEF DrawInv

\* A text is drawn: the registers are set up, so each sprite is the glyph.
LEMMA SpriteDraw == StandardInv /\ DrawInv /\ gpu_draw_tex_rect => DrawInv'
<1> SUFFICES ASSUME StandardInv, DrawInv, gpu_draw_tex_rect PROVE DrawInv'
  OBVIOUS
<1>1. /\ todo # <<>> /\ Head(todo).op = "sprites" /\ todo' = Tail(todo) /\ UNCHANGED <<log, vram>>
      /\ cache' = IF cache = "old" THEN "old" ELSE "new"
      /\ frame' = frame \cup {[pos |-> s.pos, from |-> [x |-> gpu.page.x + s.u, y |-> gpu.page.y + s.v],
                               old |-> cache = "old"] : s \in {s \in Head(todo).arg : Overlap(s.pos, gpu.area)}}
  BY DEF gpu_draw_tex_rect, Done, Does, Arg
<1> DEFINE C == Commands(is_pal)
<1>2. /\ todo \in Seq(C) /\ Paints(todo, frame, Picture(log)) /\ Loads(todo, cache, vram) /\ Fits(log)
      /\ at \notin {"off", "init"}
  BY <1>1, HeadFacts
<1>3. Head(todo).arg \subseteq Sprites
  BY <1>1, HeadFacts, CommandFacts
<1>4. gpu.area = Screen /\ gpu.page.x = 0 /\ gpu.page.y = 256
  <2>1. SetupInv
    BY DEF StandardInv
  <2>2. StageOf(todo) = 7
    BY <1>1, StageFacts DEF StageOf
  <2> QED
    BY <1>2, <2>1, <2>2 DEF SetupInv, FontPage
<1> HIDE DEF C
<1>5. cache # "old" /\ Loads(Tail(todo), "new", vram)
  BY <1>1, <1>2, TailLoads
<1>6. /\ Paints(Tail(todo), frame \cup {Drawn(x) : x \in Head(todo).arg}, Picture(log))
      /\ \A x \in Head(todo).arg : \E g \in Picture(log) : Drawn(x) = Drawn(g)
  BY <1>1, <1>2, PaintsSprites
<1>7. \A x : Drawn(x).pos = x.pos
  BY DEF Drawn
<1>8. \A x \in Head(todo).arg : Overlap(x.pos, Screen)
  <2> TAKE x \in Head(todo).arg
  <2>1. PICK g \in Picture(log) : Drawn(x) = Drawn(g)
    BY <1>6
  <2>2. x.pos = g.pos
    BY <1>7, <2>1
  <2> QED
    BY <1>2, <2>2, PicturePlace
<1>9. ASSUME NEW s \in Head(todo).arg
      PROVE  [pos |-> s.pos, from |-> [x |-> gpu.page.x + s.u, y |-> gpu.page.y + s.v],
              old |-> cache = "old"] = Drawn(s)
  <2>1. s.u \in Int /\ gpu.page.x + s.u = s.u
    BY <1>3, <1>4 DEF Sprites
  <2> QED
    BY <1>4, <1>5, <2>1 DEF Drawn
<1>10. frame' = frame \cup {Drawn(x) : x \in Head(todo).arg}
  <2>1. {s \in Head(todo).arg : Overlap(s.pos, gpu.area)} = Head(todo).arg
    BY <1>4, <1>8
  <2> QED
    BY <1>1, <1>9, <2>1
<1>11. \A s \in frame' : Overlap(s.pos, Screen)
  BY <1>7, <1>8, <1>10 DEF DrawInv
<1>12. cache' = "new"
  BY <1>1, <1>5
<1> QED
  BY <1>1, <1>5, <1>6, <1>10, <1>11, <1>12 DEF DrawInv

\* The other commands.
LEMMA CommandDraw == StandardInv /\ DrawInv /\ Command => DrawInv'
<1> SUFFICES ASSUME StandardInv, DrawInv, Command PROVE DrawInv'
  OBVIOUS
<1>1. ASSUME NEW op \in {"reset", "off", "on", "mode", "vrange", "area", "page"}, NEW g, Sets(op, g)
      PROVE  DrawInv'
  BY <1>1, OtherDraw DEF Sets, Done, Does
<1>2. CASE gpu_reset \/ gpu_display_disable \/ gpu_display_enable \/ gpu_display_mode
           \/ gpu_set_vrange \/ gpu_set_drawing_area \/ SetPage
  BY <1>1, <1>2 DEF gpu_reset, gpu_display_disable, gpu_display_enable, gpu_display_mode,
                    gpu_set_vrange, gpu_set_drawing_area, SetPage
<1>3. CASE gpu_flush_cache
  BY <1>3, OtherDraw DEF gpu_flush_cache, Done, Does
<1>4. CASE WaitVblank \/ AckVblank
  <2>1. UNCHANGED <<todo, log, vram, cache, frame>> /\ at \notin {"off", "init"}
    BY <1>4 DEF WaitVblank, AckVblank, Does
  <2> QED
    BY <2>1 DEF DrawInv
<1>5. CASE PollVblank
  <2>1. todo # <<>> /\ Head(todo).op = "wait"
    BY <1>5 DEF StandardInv, QueueInv, PollVblank
  <2> QED
    BY <1>5, <2>1, OtherDraw DEF PollVblank
<1> QED
  BY <1>2, <1>3, <1>4, <1>5, UploadDraw, RectDraw, SpriteDraw DEF Command

\* A call begins: what it puts in todo draws the picture of its log.
LEMMA CallerDraw == StandardInv /\ DrawInv /\ Caller => DrawInv'
<1> SUFFICES ASSUME StandardInv, DrawInv, Caller PROVE DrawInv'
  OBVIOUS
<1>1. log \in Seq(Text)
  BY LogText DEF StandardInv
<1>2. ASSUME at = "idle"
      PROVE  /\ frame = {Drawn(g) : g \in Picture(log)} /\ cache # "old" /\ {"small", "big"} \subseteq vram
             /\ todo = <<>>
  <2>1. todo = <<>>
    BY <1>2 DEF StandardInv, QueueInv
  <2>2. Paints(<<>>, frame, Picture(log)) /\ Loads(<<>>, cache, vram)
    BY <1>2, <2>1 DEF DrawInv
  <2> QED
    BY <2>1, <2>2, PaintsNothing
<1>3. CASE Reinitialize
  BY <1>3 DEF Reinitialize, DrawInv
<1>4. CASE debug_init
  <2> DEFINE seq == <<Cmd("reset", 0), Cmd("off", 0)>> \o set_video_mode(gpu.pal) \o set_draw_env
                    \o upload_fonts \o <<clear_screen>> \o draw_header
                    \o <<Cmd("flush", 0), Cmd("on", 0)>>
  <2>1. Draws(seq, Picture(<<>>)) /\ Loads(seq, cache, vram)
    BY InitDraws
  <2>2. todo' = seq /\ log' = <<>> /\ UNCHANGED <<vram, cache, frame>>
    BY <1>4 DEF debug_init, Call
  <2> HIDE DEF seq
  <2> QED
    BY <2>1, <2>2 DEF DrawInv, Paints
<1>5. ASSUME NEW pal \in BOOLEAN, debug_switch_standard(pal) PROVE DrawInv'
  <2> DEFINE seq == <<Cmd("off", 0)>> \o set_video_mode(pal) \o set_draw_env
                    \o <<Cmd("on", 0)>> \o redraw(log)
  <2>1. Draws(seq, Picture(log)) /\ NoUpload(seq)
    BY <1>1, SwitchDraws
  <2>2. at = "idle" /\ todo' = seq /\ UNCHANGED <<log, vram, cache, frame>>
    BY <1>5 DEF debug_switch_standard, Call
  <2> HIDE DEF seq
  <2>3. Loads(seq, cache, vram)
    BY <1>2, <2>1, <2>2, KeepsLoads
  <2> QED
    BY <2>1, <2>2, <2>3 DEF DrawInv, Paints
<1>6. ASSUME NEW rows \in Logs, debug_write(rows) PROVE DrawInv'
  <2>1. Draws(redraw(rows), Picture(rows)) /\ NoUpload(redraw(rows))
    BY TextAssumption, RedrawDraws
  <2>2. at = "idle" /\ todo' = redraw(rows) /\ log' = rows /\ UNCHANGED <<vram, cache, frame>>
    BY <1>6 DEF debug_write, Call
  <2>3. Loads(redraw(rows), cache, vram)
    BY <1>2, <2>1, <2>2, KeepsLoads
  <2> QED
    BY <2>1, <2>2, <2>3 DEF DrawInv, Paints
<1>7. CASE WaitForLid
  <2> DEFINE seq == <<Cmd("wait", 0)>>
  <2>1. Quiet(seq) /\ NoUpload(seq)
    BY SilentFacts
  <2>2. at = "idle" /\ todo' = seq /\ UNCHANGED <<log, vram, cache, frame>>
    BY <1>7 DEF WaitForLid, Call
  <2> HIDE DEF seq
  <2>3. Pending(seq) = {} /\ NoClear(seq)
    BY <2>1, QuietPending
  <2>4. Loads(seq, cache, vram)
    BY <1>2, <2>1, <2>2, KeepsLoads
  <2>5. frame \cup {Drawn(g) : g \in Pending(seq)} = {Drawn(g) : g \in Picture(log)}
    BY <1>2, <2>2, <2>3
  <2> QED
    BY <2>2, <2>3, <2>4, <2>5 DEF DrawInv, Paints
<1> QED
  BY <1>3, <1>4, <1>5, <1>6, <1>7 DEF Caller

\* Between two commands of a call the picture is either to come or partly
\* there, and no glyph is drawn before its font is loaded (screen.c:157-186,
\* 239-252, 273-298).
THEOREM DrawInvariant == Spec => [](StandardInv /\ DrawInv)
<1>1. Init => DrawInv
  BY DEF Init, DrawInv
<1>2. StandardInv /\ DrawInv /\ [Next]_vars => DrawInv'
  <2> SUFFICES ASSUME StandardInv, DrawInv, [Next]_vars PROVE DrawInv'
    OBVIOUS
  <2>1. CASE UNCHANGED vars
    BY <2>1 DEF vars, DrawInv
  <2>2. CASE Return \/ VBlank \/ KernelAcks
    <3>1. UNCHANGED <<todo, log, vram, cache, frame>> /\ (at \notin {"off", "init"} \/ at' = at)
      BY <2>2 DEF Return, VBlank, KernelAcks
    <3> QED
      BY <3>1 DEF DrawInv
  <2> QED
    BY <2>1, <2>2, CommandDraw, CallerDraw DEF Next
<1> QED
  BY <1>1, <1>2, StandardInvariant, PTL DEF Spec

-----------------------------------------------------------------------------
(* What can be read *)

\* A set has as many members as it has names, when no two name the same.
LEMMA CountNames ==
    ASSUME NEW S, NEW T, IsFiniteSet(S), NEW f \in [S -> T],
           \A a, b \in S : f[a] = f[b] => a = b, \A t \in T : \E a \in S : f[a] = t
    PROVE  IsFiniteSet(T) /\ Cardinality(T) = Cardinality(S)
<1>1. f \in Bijection(S, T)
  BY DEF Bijection, Injection, Surjection, IsInjective
<1>2. ExistsBijection(S, T)
  BY <1>1 DEF ExistsBijection
<1> QED
  BY <1>2, FS_Bijection

\* Where the texture coordinates of eight bits reach in the page of the atlases.
Texels == [x : 0 .. 255, y : 256 .. 511]

\* The texture coordinates of a glyph are in the page.
LEMMA CellRange ==
    ASSUME NEW font \in {"small", "big"}, NEW g \in 0 .. 90
    PROVE  Cell(font, g) \in Texels
<1>2. PICK c \in {8, 16}, b \in {256, 310} :
          Font[font].cell = c /\ Font[font].y = b
  BY LayoutFacts
<1>3. ASSUME NEW h \in 0 .. 90
      PROVE  Cell(font, h).x = (h % 16) * c /\ Cell(font, h).y = b + (h \div 16) * c
  BY <1>2 DEF Cell
<1>4. ASSUME NEW h \in 0 .. 90
      PROVE  h % 16 \in 0 .. 15 /\ h \div 16 \in 0 .. 5 /\ h = 16 * (h \div 16) + (h % 16)
  OBVIOUS
<1>5. ASSUME NEW q \in 0 .. 15 PROVE q * c \in 0 .. 255
  <2>1. CASE c = 8
    BY <1>5, <2>1
  <2>2. CASE c = 16
    BY <1>5, <2>2
  <2> QED
    BY <2>1, <2>2
<1>6. ASSUME NEW d \in 0 .. 5 PROVE b + d * c \in 256 .. 511
  <2>1. CASE c = 8
    BY <1>6, <2>1
  <2>2. CASE c = 16
    BY <1>6, <2>2
  <2> QED
    BY <2>1, <2>2
<1> DEFINE q == g % 16
           d == g \div 16
<1>7. q \in 0 .. 15 /\ d \in 0 .. 5 /\ Cell(font, g).x = q * c /\ Cell(font, g).y = b + d * c
  BY <1>3, <1>4
<1> HIDE DEF q, d
<1>8. Cell(font, g).x \in 0 .. 255
  BY <1>5, <1>7
<1>9. Cell(font, g).y \in 256 .. 511
  BY <1>6, <1>7
<1> QED
  BY <1>8, <1>9 DEF Cell, Texels

\* A glyph is known by its texture coordinates.
LEMMA CellDistinct ==
    ASSUME NEW font \in {"small", "big"}, NEW g \in 0 .. 90, NEW h \in 0 .. 90,
           Cell(font, g) = Cell(font, h)
    PROVE  g = h
<1>2. PICK c \in {8, 16}, b \in {256, 310} :
          Font[font].cell = c /\ Font[font].y = b
  BY LayoutFacts
<1>3. ASSUME NEW z \in 0 .. 90
      PROVE  Cell(font, z).x = (z % 16) * c /\ Cell(font, z).y = b + (z \div 16) * c
  BY <1>2 DEF Cell
<1>4. ASSUME NEW z \in 0 .. 90
      PROVE  z % 16 \in 0 .. 15 /\ z \div 16 \in 0 .. 5 /\ z = 16 * (z \div 16) + (z % 16)
  OBVIOUS
<1> DEFINE q == g % 16
           d == g \div 16
           qq == h % 16
           dd == h \div 16
<1>5. /\ q \in 0 .. 15 /\ d \in 0 .. 5 /\ g = 16 * d + q
      /\ qq \in 0 .. 15 /\ dd \in 0 .. 5 /\ h = 16 * dd + qq
  BY <1>4
<1>6. q * c = qq * c /\ b + d * c = b + dd * c
  <2>1. Cell(font, g).x = q * c /\ Cell(font, g).y = b + d * c
    BY <1>3
  <2>2. Cell(font, h).x = qq * c /\ Cell(font, h).y = b + dd * c
    BY <1>3
  <2> HIDE DEF q, d, qq, dd
  <2> QED
    BY <2>1, <2>2
<1> HIDE DEF q, d, qq, dd
<1>7. q = qq /\ d = dd
  <2>1. CASE c = 8
    BY <1>5, <1>6, <2>1
  <2>2. CASE c = 16
    BY <1>5, <1>6, <2>2
  <2> QED
    BY <2>1, <2>2
<1> QED
  BY <1>5, <1>7

\* What a sprite shows is the character that it was drawn for, or a space.
LEMMA GlyphShows ==
    ASSUME NEW rows, Fits(rows), NEW i \in 1 .. 2 + Len(rows), NEW j \in 1 .. Long(rows, i),
           {"small", "big"} = vram
    PROVE  Shows(Drawn(Glyph(rows, i, j)))
             = {IF LinesOf(rows)[i][j] \in InFont THEN LinesOf(rows)[i][j] ELSE 32}
<1> DEFINE ch == LinesOf(rows)[i][j]
           font == FontOf(i)
           g == glyph_index(ch)
           shown == IF ch \in InFont THEN ch ELSE 32
           s == Drawn(Glyph(rows, i, j))
<1>1. ch \in Code /\ font \in {"small", "big"}
  <2>1. LinesOf(rows)[i] \in Text /\ font \in {"small", "big"}
    BY EdgeFacts
  <2> QED
    BY <2>1 DEF Text, Long
<1>2. shown \in InFont /\ g = shown - 32 /\ g \in 0 .. 90
  BY <1>1 DEF glyph_index, InFont, Code
<1>3. /\ Glyph(rows, i, j).u = Cell(font, g).x % 256 /\ Glyph(rows, i, j).v = Cell(font, g).y % 256
  BY DEF Glyph, draw_glyph
<1>4. s.from = Cell(font, g) /\ s.old = FALSE
      /\ s.pos = Glyph(rows, i, j).pos
  <2> HIDE DEF s, ch, shown, g, font
  <2>1. font \in {"small", "big"} /\ g \in 0 .. 90
    BY <1>1, <1>2
  <2>2. Cell(font, g) \in Texels
    BY <2>1, CellRange
  <2>3. PICK a \in 0 .. 255, b \in 256 .. 511 : Cell(font, g) = [x |-> a, y |-> b]
    BY <2>2 DEF Texels
  <2>4. Glyph(rows, i, j).u = a % 256 /\ Glyph(rows, i, j).v = b % 256
    BY <1>3, <2>3
  <2>5. a % 256 = a /\ 256 + (b % 256) = b
    OBVIOUS
  <2>6. s.from = [x |-> a, y |-> b] /\ s.old = FALSE /\ s.pos = Glyph(rows, i, j).pos
    BY <2>4, <2>5 DEF Drawn, s
  <2> QED
    BY <2>3, <2>6
<1>6. s.pos.w = Font[font].w /\ s.pos.h = Font[font].h
  BY <1>4, GlyphPlace DEF Wide, High
<1> HIDE DEF s, g, font, shown
<1>7. shown \in Shows(s)
  BY <1>1, <1>2, <1>4, <1>6 DEF Shows
<1>8. ASSUME NEW c \in Shows(s) PROVE c = shown
  <2>1. c \in InFont /\ \E f \in vram : s.pos.w = Font[f].w /\ s.from = Cell(f, c - 32)
    BY <1>4, <1>8 DEF Shows
  <2>2. PICK f \in {"small", "big"} : s.pos.w = Font[f].w /\ s.from = Cell(f, c - 32)
    BY <2>1
  <2>3. f = font
    <3>1. Font[f].w = Font[font].w
      BY <1>6, <2>2
    <3> QED
      BY <1>1, <3>1, LayoutFacts
  <2>4. c - 32 \in 0 .. 90 /\ Cell(font, g) = Cell(font, c - 32)
    BY <1>4, <2>1, <2>2, <2>3 DEF InFont
  <2>5. g = c - 32
    <3> DEFINE h == c - 32
    <3>1. h \in 0 .. 90 /\ Cell(font, g) = Cell(font, h) /\ g \in 0 .. 90 /\ font \in {"small", "big"}
      BY <1>1, <1>2, <2>4
    <3> HIDE DEF h
    <3>2. g = h
      BY <3>1, CellDistinct
    <3> QED
      BY <3>2 DEF h
  <2>6. c \in 32 .. 122 /\ shown \in 32 .. 122 /\ g = shown - 32
    BY <1>2, <2>1 DEF InFont
  <2> QED
    BY <2>5, <2>6
<1> QED
  BY <1>7, <1>8 DEF s, shown

\* The places of a text, line by line, and the sprite at each.
Spots(rows) == UNION {{i} \X (1 .. Long(rows, i)) : i \in 1 .. 2 + Len(rows)}
Sprite(rows, p) == Drawn(Glyph(rows, p[1], p[2]))

\* What a place is.
LEMMA SpotFacts ==
    ASSUME NEW rows, Fits(rows), NEW p \in Spots(rows)
    PROVE  /\ p[1] \in 1 .. 2 + Len(rows) /\ p[2] \in 1 .. Long(rows, p[1])
           /\ p = <<p[1], p[2]>> /\ p[1] \in Nat /\ p[2] \in Nat
<1>1. PICK i \in 1 .. 2 + Len(rows) : p \in {i} \X (1 .. Long(rows, i))
  BY DEF Spots
<1>2. p[1] = i /\ p[2] \in 1 .. Long(rows, i) /\ p = <<p[1], p[2]>>
  BY <1>1
<1>3. Len(rows) \in Nat /\ Long(rows, i) \in Nat
  BY EdgeFacts DEF Fits
<1> QED
  BY <1>1, <1>2, <1>3

\* Any place in a line is one.
LEMMA SpotOf ==
    ASSUME NEW rows, NEW i \in 1 .. 2 + Len(rows), NEW j \in 1 .. Long(rows, i)
    PROVE  <<i, j>> \in Spots(rows)
BY DEF Spots

\* There are finitely many.
LEMMA SpotsFinite == ASSUME NEW rows, Fits(rows) PROVE IsFiniteSet(Spots(rows))
<1> DEFINE A == 1 .. 2 + Len(rows)
           B == 1 .. ScreenW
<1>1. Len(rows) \in Nat /\ ScreenW \in Nat
  BY LayoutFacts DEF Fits
<1>2. IsFiniteSet(A) /\ IsFiniteSet(B)
  BY <1>1, FS_Interval
<1>3. ASSUME NEW p \in Spots(rows) PROVE p \in A \X B
  <2>1. p[1] \in A /\ p[2] \in 1 .. Long(rows, p[1]) /\ p = <<p[1], p[2]>>
    BY SpotFacts
  <2> DEFINE i == p[1]
             k == Long(rows, i)
             e == LeftEdge(i)
  <2>2. k \in Nat /\ e \in Nat /\ e + k * Wide(i) <= ScreenW /\ (Wide(i) = 6 \/ Wide(i) = 12)
    BY <2>1, EdgeFacts
  <2>3. p[2] \in 1 .. k
    BY <2>1
  <2> HIDE DEF k, e
  <2>4. k <= ScreenW
    <3>1. CASE Wide(i) = 6
      <4>1. e + k * 6 <= ScreenW
        BY <2>2, <3>1
      <4> QED
        BY <1>1, <2>2, <4>1
    <3>2. CASE Wide(i) = 12
      <4>1. e + k * 12 <= ScreenW
        BY <2>2, <3>2
      <4> QED
        BY <1>1, <2>2, <4>1
    <3> QED
      BY <2>2, <3>1, <3>2
  <2>5. p[2] \in B
    BY <1>1, <2>2, <2>3, <2>4
  <2> QED
    BY <2>1, <2>5
<1> HIDE DEF A, B
<1>4. IsFiniteSet(A \X B)
  BY <1>2, FS_Product
<1>5. Spots(rows) \in SUBSET (A \X B)
  BY <1>3
<1> QED
  BY <1>4, <1>5, FS_Subset

\* Lines are from top to bottom, and places from left to right.
LEMMA SpriteOrder ==
    ASSUME NEW rows, Fits(rows), NEW p \in Spots(rows), NEW q \in Spots(rows)
    PROVE  LET r == Sprite(rows, p).pos
               s == Sprite(rows, q).pos
           IN  /\ {r.x, r.y, s.x, s.y} \subseteq Nat
               /\ {r.w, s.w} \subseteq {6, 12} /\ {r.h, s.h} \subseteq {8, 16}
               /\ p[1] < q[1] => r.y + r.h <= s.y
               /\ p[1] = q[1] => r.y = s.y
               /\ p[1] = q[1] /\ p[2] < q[2] => r.x + r.w <= s.x
<1> DEFINE r == Sprite(rows, p).pos
           s == Sprite(rows, q).pos
<1>1. /\ p[1] \in 1 .. 2 + Len(rows) /\ p[2] \in 1 .. Long(rows, p[1])
      /\ p[1] \in Nat /\ p[2] \in Nat
  BY SpotFacts
<1>2. /\ q[1] \in 1 .. 2 + Len(rows) /\ q[2] \in 1 .. Long(rows, q[1])
      /\ q[1] \in Nat /\ q[2] \in Nat
  BY SpotFacts
<1>3. r = Glyph(rows, p[1], p[2]).pos /\ s = Glyph(rows, q[1], q[2]).pos
  BY DEF Sprite, Drawn
<1> HIDE DEF r, s
<1>4. /\ r.x = LeftEdge(p[1]) + (p[2] - 1) * Wide(p[1]) /\ r.y = TopEdge(p[1])
      /\ r.w = Wide(p[1]) /\ r.h = High(p[1]) /\ Wide(p[1]) \in {6, 12} /\ High(p[1]) \in {8, 16}
      /\ r.x \in Nat /\ r.y \in Nat
  BY <1>1, <1>3, GlyphPlace
<1>5. /\ s.x = LeftEdge(q[1]) + (q[2] - 1) * Wide(q[1]) /\ s.y = TopEdge(q[1])
      /\ s.w = Wide(q[1]) /\ s.h = High(q[1]) /\ Wide(q[1]) \in {6, 12} /\ High(q[1]) \in {8, 16}
      /\ s.x \in Nat /\ s.y \in Nat
  BY <1>2, <1>3, GlyphPlace
<1>6. ASSUME p[1] < q[1] PROVE r.y + r.h <= s.y
  <2>1. TopEdge(p[1]) + High(p[1]) <= TopEdge(q[1])
    BY <1>1, <1>2, <1>6, LineOrder
  <2> QED
    BY <1>4, <1>5, <2>1
<1>7. ASSUME p[1] = q[1], p[2] < q[2] PROVE r.x + r.w <= s.x
  <2> DEFINE e == LeftEdge(q[1])
  <2>1. e \in Nat
    BY <1>2, EdgeFacts
  <2> HIDE DEF e
  <2>2. CASE Wide(q[1]) = 6
    <3>1. r.x = e + (p[2] - 1) * 6 /\ r.w = 6 /\ s.x = e + (q[2] - 1) * 6
      BY <1>4, <1>5, <1>7, <2>2 DEF e
    <3> QED
      BY <1>1, <1>2, <1>7, <2>1, <3>1
  <2>3. CASE Wide(q[1]) = 12
    <3>1. r.x = e + (p[2] - 1) * 12 /\ r.w = 12 /\ s.x = e + (q[2] - 1) * 12
      BY <1>4, <1>5, <1>7, <2>3 DEF e
    <3> QED
      BY <1>1, <1>2, <1>7, <2>1, <3>1
  <2> QED
    BY <1>5, <2>2, <2>3
<1>8. p[1] = q[1] => r.y = s.y
  BY <1>4, <1>5
<1>9. {r.x, r.y, s.x, s.y} \subseteq Nat /\ {r.w, s.w} \subseteq {6, 12} /\ {r.h, s.h} \subseteq {8, 16}
  BY <1>4, <1>5
<1> QED
  BY <1>6, <1>7, <1>8, <1>9 DEF r, s

\* So no two places share a sprite, no sprite hides another, and a sprite is
\* higher than those of the lines below and left of those behind it.
LEMMA SpriteApart ==
    ASSUME NEW rows, Fits(rows), NEW p \in Spots(rows), NEW q \in Spots(rows)
    PROVE  LET r == Sprite(rows, p).pos
               s == Sprite(rows, q).pos
           IN  /\ Sprite(rows, p) = Sprite(rows, q) => p = q
               /\ p # q => ~Overlap(r, s)
               /\ r.y < s.y <=> p[1] < q[1]
               /\ r.y = s.y /\ r.x < s.x <=> p[1] = q[1] /\ p[2] < q[2]
<1> DEFINE r == Sprite(rows, p).pos
           s == Sprite(rows, q).pos
<1>1. /\ {r.x, r.y, s.x, s.y} \subseteq Nat
      /\ {r.w, s.w} \subseteq {6, 12} /\ {r.h, s.h} \subseteq {8, 16}
      /\ p[1] < q[1] => r.y + r.h <= s.y
      /\ p[1] = q[1] => r.y = s.y
      /\ p[1] = q[1] /\ p[2] < q[2] => r.x + r.w <= s.x
  BY SpriteOrder
<1>2. /\ q[1] < p[1] => s.y + s.h <= r.y
      /\ q[1] = p[1] /\ q[2] < p[2] => s.x + s.w <= r.x
  BY SpriteOrder
<1>3. /\ p[1] \in Nat /\ p[2] \in Nat /\ p = <<p[1], p[2]>>
      /\ q[1] \in Nat /\ q[2] \in Nat /\ q = <<q[1], q[2]>>
  BY SpotFacts
<1>4. Sprite(rows, p) = Sprite(rows, q) => r = s
  OBVIOUS
<1> HIDE DEF r, s
<1>5. r.y < s.y <=> p[1] < q[1]
  BY <1>1, <1>2, <1>3
<1>6. r.y = s.y /\ r.x < s.x <=> p[1] = q[1] /\ p[2] < q[2]
  <2>1. r.y = s.y => p[1] = q[1]
    BY <1>1, <1>2, <1>3
  <2>2. p[1] = q[1] /\ r.x < s.x => p[2] < q[2]
    <3> SUFFICES ASSUME p[1] = q[1], r.x < s.x, ~(p[2] < q[2]) PROVE FALSE
      OBVIOUS
    <3>1. p[2] = q[2] \/ q[2] < p[2]
      BY <1>3
    <3>2. CASE p[2] = q[2]
      <4>1. r = s
        BY <1>3, <1>4, <3>2 DEF r, s
      <4> QED
        BY <1>1, <4>1
    <3>3. CASE q[2] < p[2]
      BY <1>1, <1>2, <3>3
    <3> QED
      BY <3>1, <3>2, <3>3
  <2>3. p[1] = q[1] /\ p[2] < q[2] => r.x < s.x
    BY <1>1
  <2> QED
    BY <1>1, <2>1, <2>2, <2>3
<1>7. ASSUME p[1] # q[1] \/ p[2] # q[2] PROVE ~Overlap(r, s)
  BY <1>1, <1>2, <1>3, <1>7 DEF Overlap
<1>8. r = s => Overlap(r, s)
  BY <1>1 DEF Overlap
<1>9. p # q => p[1] # q[1] \/ p[2] # q[2]
  BY <1>3
<1>10. p # q => ~Overlap(r, s)
  BY <1>7, <1>9
<1> QED
  BY <1>4, <1>5, <1>6, <1>8, <1>10 DEF r, s

\* There are as many sprites as places.
LEMMA SpriteCount ==
    ASSUME NEW rows, Fits(rows), NEW Q \in SUBSET Spots(rows)
    PROVE  Cardinality({Sprite(rows, p) : p \in Q}) = Cardinality(Q)
<1> DEFINE T == {Sprite(rows, p) : p \in Q}
           f == [p \in Q |-> Sprite(rows, p)]
<1>1. IsFiniteSet(Q)
  <2>1. IsFiniteSet(Spots(rows))
    BY SpotsFinite
  <2> QED
    BY <2>1, FS_Subset
<1>2. f \in [Q -> T] /\ \A t \in T : \E a \in Q : f[a] = t
  OBVIOUS
<1>3. ASSUME NEW a \in Q, NEW b \in Q, f[a] = f[b] PROVE a = b
  <2>1. Sprite(rows, a) = Sprite(rows, b) /\ a \in Spots(rows) /\ b \in Spots(rows)
    BY <1>3
  <2> QED
    BY <2>1, SpriteApart
<1> HIDE DEF f
<1>4. Cardinality(T) = Cardinality(Q)
  <2> HIDE DEF T
  <2> QED
    BY <1>1, <1>2, <1>3, CountNames
<1> QED
  BY <1>4

\* There are j - 1 places to the left of the one at j.
LEMMA CountLeft ==
    ASSUME NEW rows, Fits(rows), NEW p \in Spots(rows)
    PROVE  Cardinality({q \in Spots(rows) : q[1] = p[1] /\ q[2] < p[2]}) = p[2] - 1
<1> DEFINE Q == {q \in Spots(rows) : q[1] = p[1] /\ q[2] < p[2]}
           i == p[1]
           n == p[2] - 1
           I == 1 .. n
           f == [l \in I |-> <<i, l>>]
<1>1. i \in 1 .. 2 + Len(rows) /\ p[2] \in 1 .. Long(rows, i) /\ p[2] \in Nat
  BY SpotFacts
<1>2. Long(rows, i) \in Nat
  BY <1>1, EdgeFacts
<1>3. n \in Nat /\ \A l \in I : l \in 1 .. Long(rows, i) /\ l < p[2]
  BY <1>1, <1>2
<1>4. IsFiniteSet(I) /\ Cardinality(I) = n
  <2> HIDE DEF n
  <2>1. 1 \in Int /\ n \in Int /\ n \in Nat
    BY <1>3
  <2>2. IsFiniteSet(1 .. n) /\ Cardinality(1 .. n) = IF 1 > n THEN 0 ELSE n - 1 + 1
    BY <2>1, FS_Interval
  <2>3. (IF 1 > n THEN 0 ELSE n - 1 + 1) = n
    BY <2>1
  <2> QED
    BY <2>2, <2>3
<1>5. ASSUME NEW l \in I PROVE <<i, l>> \in Q
  <2>1. l \in 1 .. Long(rows, i) /\ l < p[2]
    BY <1>3
  <2>2. <<i, l>> \in Spots(rows)
    BY <1>1, <2>1, SpotOf
  <2> QED
    BY <2>1, <2>2
<1>6. ASSUME NEW q \in Q PROVE \E l \in I : <<i, l>> = q
  <2>1. q[1] = i /\ q[2] < p[2] /\ q \in Spots(rows)
    OBVIOUS
  <2>2. q = <<q[1], q[2]>> /\ q[2] \in 1 .. Long(rows, q[1]) /\ q[2] \in Nat
    BY <2>1, SpotFacts
  <2>3. q[2] \in 1 .. Long(rows, i)
    BY <2>1, <2>2
  <2>4. q[2] \in I
    BY <1>1, <1>2, <2>1, <2>2, <2>3
  <2> QED
    BY <2>1, <2>2, <2>4
<1> HIDE DEF I, Q, i, n
<1>7. f \in [I -> Q] /\ \A t \in Q : \E a \in I : f[a] = t
  BY <1>5, <1>6
<1>8. \A a, b \in I : f[a] = f[b] => a = b
  OBVIOUS
<1> HIDE DEF f
<1>9. Cardinality(Q) = Cardinality(I)
  BY <1>4, <1>7, <1>8, CountNames
<1> QED
  BY <1>4, <1>9 DEF Q, i, n

\* When the picture is drawn, that is what the screen reads.
LEMMA PictureReads ==
    ASSUME Fits(log), frame = {Drawn(g) : g \in Picture(log)}, vram = {"small", "big"}
    PROVE  ScreenReads
<1> DEFINE P == Spots(log)
<1>1. Places = P
  <2>1. log \in Seq(Text)
    BY DEF Fits
  <2>2. Lines = LinesOf(log)
    BY DEF Lines, LinesOf
  <2>3. DOMAIN Lines = 1 .. 2 + Len(log)
    BY <2>1, <2>2, LinesFacts
  <2>4. ASSUME NEW i \in 1 .. 2 + Len(log) PROVE DOMAIN Lines[i] = 1 .. Long(log, i)
    BY <2>2, EdgeFacts DEF Text, Long
  <2> QED
    BY <2>3, <2>4 DEF Places, Spots
<1>2. frame = {Sprite(log, p) : p \in P}
  <2>1. ASSUME NEW s \in frame PROVE \E p \in P : s = Sprite(log, p)
    <3>1. PICK g \in Picture(log) : s = Drawn(g)
      OBVIOUS
    <3>2. PICK i \in 1 .. 2 + Len(log) : \E j \in 1 .. Long(log, i) : g = Glyph(log, i, j)
      BY PictureGlyphs
    <3>3. PICK j \in 1 .. Long(log, i) : g = Glyph(log, i, j)
      BY <3>2
    <3>4. <<i, j>> \in P
      BY SpotOf
    <3>5. s = Sprite(log, <<i, j>>)
      BY <3>1, <3>3 DEF Sprite
    <3> QED
      BY <3>4, <3>5
  <2>2. ASSUME NEW p \in P PROVE Sprite(log, p) \in frame
    <3>1. p[1] \in 1 .. 2 + Len(log) /\ p[2] \in 1 .. Long(log, p[1])
      BY SpotFacts
    <3>2. Glyph(log, p[1], p[2]) \in Picture(log)
      BY <3>1, PictureGlyphs
    <3> QED
      BY <3>2 DEF Sprite
  <2> QED
    BY <2>1, <2>2
<1> HIDE DEF P
<1>3. Cardinality(frame) = Cardinality(Places)
  BY <1>1, <1>2, SpriteCount DEF P
<1>4. ASSUME NEW p \in P
      PROVE  /\ Shows(Sprite(log, p)) = Printed(p)
             /\ Cardinality(Above(Sprite(log, p))) = Cardinality({q \in P : q[1] < p[1]})
             /\ Cardinality(LeftOf(Sprite(log, p))) = p[2] - 1
  <2> DEFINE s == Sprite(log, p)
             Q == {q \in P : q[1] < p[1]}
             R == {q \in P : q[1] = p[1] /\ q[2] < p[2]}
  <2>1. p[1] \in 1 .. 2 + Len(log) /\ p[2] \in 1 .. Long(log, p[1])
    BY <1>4, SpotFacts DEF P
  <2>2. Shows(s) = Printed(p)
    <3>1. Shows(Drawn(Glyph(log, p[1], p[2])))
            = {IF LinesOf(log)[p[1]][p[2]] \in InFont THEN LinesOf(log)[p[1]][p[2]] ELSE 32}
      BY <2>1, GlyphShows
    <3>2. Lines = LinesOf(log)
      BY DEF Lines, LinesOf
    <3> QED
      BY <3>1, <3>2 DEF Printed, Sprite
  <2>3. ASSUME NEW q \in P
        PROVE  /\ Sprite(log, q).pos.y < s.pos.y <=> q[1] < p[1]
               /\ Sprite(log, q).pos.y = s.pos.y /\ Sprite(log, q).pos.x < s.pos.x
                    <=> q[1] = p[1] /\ q[2] < p[2]
    BY <1>4, <2>3, SpriteApart DEF P
  <2> HIDE DEF s
  <2>4. Above(s) = {Sprite(log, q) : q \in Q}
    BY <1>2, <2>3 DEF Above
  <2>5. LeftOf(s) = {Sprite(log, q) : q \in R}
    BY <1>2, <2>3 DEF LeftOf
  <2>6. Cardinality(R) = p[2] - 1
    BY <1>4, CountLeft DEF P
  <2>7. Q \in SUBSET Spots(log) /\ R \in SUBSET Spots(log)
    BY DEF P
  <2> HIDE DEF Q, R
  <2>8. Cardinality(Above(s)) = Cardinality(Q) /\ Cardinality(LeftOf(s)) = Cardinality(R)
    BY <2>4, <2>5, <2>7, SpriteCount
  <2> QED
    BY <2>2, <2>6, <2>8 DEF s, Q
<1>5. ASSUME NEW s \in frame
      PROVE  /\ s.pos.x >= 0 /\ s.pos.x + s.pos.w <= ScreenW
             /\ s.pos.y >= 0 /\ s.pos.y + s.pos.h <= ScreenH
  <2>1. PICK p \in P : s = Sprite(log, p)
    BY <1>2
  <2>2. p[1] \in 1 .. 2 + Len(log) /\ p[2] \in 1 .. Long(log, p[1])
    BY SpotFacts DEF P
  <2>3. s.pos = Glyph(log, p[1], p[2]).pos
    BY <2>1 DEF Sprite, Drawn
  <2> DEFINE r == Glyph(log, p[1], p[2]).pos
  <2>4. r.x \in Nat /\ r.y \in Nat /\ r.x + r.w <= ScreenW /\ r.y + r.h <= ScreenH
    BY <2>2, GlyphPlace
  <2> HIDE DEF r
  <2>5. r.x >= 0 /\ r.y >= 0
    BY <2>4
  <2> QED
    BY <2>3, <2>4, <2>5 DEF r
<1>6. ASSUME NEW r \in frame, NEW s \in frame, r # s PROVE ~Overlap(r.pos, s.pos)
  <2>1. PICK p \in P : r = Sprite(log, p)
    BY <1>2
  <2>2. PICK q \in P : s = Sprite(log, q)
    BY <1>2
  <2>3. p # q
    BY <1>6, <2>1, <2>2
  <2> QED
    BY <2>1, <2>2, <2>3, SpriteApart DEF P
<1>7. ASSUME NEW s \in frame
      PROVE  \E p \in Places :
                /\ Shows(s) = Printed(p)
                /\ Cardinality(Above(s)) = Cardinality({q \in Places : q[1] < p[1]})
                /\ Cardinality(LeftOf(s)) = p[2] - 1
  BY <1>1, <1>2, <1>4
<1> QED
  BY <1>3, <1>5, <1>6, <1>7 DEF ScreenReads

\* After every call the screen reads what was written (screen.c:157-186,
\* 239-252), for every log that text_buffer can hold.
THEOREM ScreenIsRead == Spec => []ScreenReads
<1>1. StandardInv /\ DrawInv => ScreenReads
  <2> SUFFICES ASSUME StandardInv, DrawInv, at = "idle", vram # {} PROVE ScreenReads
    BY DEF ScreenReads
  <2>1. TypeOK /\ todo = <<>>
    BY DEF StandardInv, QueueInv
  <2>2. Paints(todo, frame, Picture(log)) /\ Loads(todo, cache, vram)
    BY DEF DrawInv
  <2>3. frame = {Drawn(g) : g \in Picture(log)} /\ {"small", "big"} \subseteq vram
    BY <2>1, <2>2, PaintsNothing
  <2>4. vram = {"small", "big"}
    BY <2>1, <2>3 DEF TypeOK
  <2>5. Fits(log)
    BY <2>1, LogFits DEF TypeOK
  <2> QED
    BY <2>3, <2>4, <2>5, PictureReads
<1> QED
  BY <1>1, DrawInvariant, PTL
=============================================================================
