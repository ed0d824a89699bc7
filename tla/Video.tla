-------------------------------- MODULE Video --------------------------------
(***************************************************************************)
(* How the text gets on the screen: the drawing half of screen.c, the      *)
(* commands of gpu.c it sends, and the wait for the vertical blank on      *)
(* which everything else waits.  A call of screen.c puts its commands in   *)
(* todo; each command is a step, and VBlanks come between any two.         *)
(*                                                                         *)
(* Registers whose value the properties do not depend on (horizontal       *)
(* range, display start, drawing offset, mask) are left out.               *)
(***************************************************************************)
EXTENDS Integers, Sequences, FiniteSets

CONSTANTS
    ScreenW, ScreenH,   \* the visible part of the frame buffer
    Title, Subtitle,    \* the fixed texts, sequences of character codes
    Logs                \* the contents of text_buffer considered

Code == 0 .. 255
Text == Seq(Code)

ASSUME SizeAssumption == ScreenW \in Nat /\ ScreenH \in 0 .. 256
ASSUME TextAssumption == {Title, Subtitle} \subseteq Text /\ Logs \subseteq Seq(Text)

VARIABLES
    at,         \* "off", "init", "idle", "run", or in gpu_wait_vblank: "ack", "poll"
    todo,       \* the commands still to be sent
    is_pal,     \* the standard of the next set_video_mode
    log,        \* the rows in use
    gpu,        \* the video standard, display enable, vertical range, drawing
                \* area and texture page
    vram,       \* the atlases uploaded
    cache,      \* the GPU's texture cache: "empty", "new" or "old" texels
    frame,      \* what is drawn in the visible part
    i_stat,     \* the vertical-blank bit of I_STAT
    i_mask,     \* ... and of I_MASK
    wanted      \* history: the console's standard, or the last one asked for

vars == <<at, todo, is_pal, log, gpu, vram, cache, frame, i_stat, i_mask, wanted>>

Rect(x, y, w, h) == [x |-> x, y |-> y, w |-> w, h |-> h]
Overlap(r, s) == /\ r.x < s.x + s.w /\ s.x < r.x + r.w
                 /\ r.y < s.y + s.h /\ s.y < r.y + r.h
Screen == Rect(0, 0, ScreenW, ScreenH)

-----------------------------------------------------------------------------
(* The layout of screen.c and font.c *)

\* font_first to font_last.
InFont == 32 .. 122
Font == [small |-> [w |-> 6, h |-> 8, cell |-> 8, y |-> 256],
         big |-> [w |-> 12, h |-> 16, cell |-> 16, y |-> 310]]
Layout == [margin |-> 20, title |-> 10, subtitle |-> 28, divider |-> 42, log |-> 48]

\* The fixed texts are inside the margins; a log has no more rows and columns
\* than text_buffer, which ends twelve lines above the bottom.
ASSUME FitAssumption ==
    /\ Layout.margin + Len(Title) * Font.big.w <= ScreenW
    /\ Layout.margin + Len(Subtitle) * Font.small.w <= ScreenW
    /\ Layout.log + 12 <= ScreenH
    /\ \A rows \in Logs :
          /\ Layout.log + Len(rows) * Font.small.h + 12 <= ScreenH
          /\ \A r \in DOMAIN rows : 2 * Layout.margin + Len(rows[r]) * Font.small.w <= ScreenW

\* The vertical ranges of set_video_mode, and where the blank stops.
VRange(pal) == IF pal THEN <<43, 283>> ELSE <<16, 256>>
LastLine(pal) == IF pal THEN 313 ELSE 262

\* Mutant: the range of the font is not checked.
glyph_index_unchecked(ch) == ch - 32

glyph_index(ch) == (IF ch \in InFont THEN ch ELSE 32) - 32

\* Where a glyph is in its atlas.
Cell(font, g) == [x |-> (g % 16) * Font[font].cell,
                  y |-> Font[font].y + (g \div 16) * Font[font].cell]

Cmd(op, arg) == [op |-> op, arg |-> arg]

\* draw_glyph_small, draw_glyph_big and gpu_draw_tex_rect: the GPU takes eight
\* bits of each texture coordinate.
draw_glyph(font, x, y, ch) ==
    LET cell == Cell(font, glyph_index(ch))
    IN  [pos |-> Rect(x, y, Font[font].w, Font[font].h), u |-> cell.x % 256, v |-> cell.y % 256]

\* Mutant: the title is spaced like the small font.
draw_text_low(font, x, y, text) ==
    Cmd("sprites", {draw_glyph(font, x + (i - 1) * Font.small.w, y, text[i]) : i \in DOMAIN text})

draw_text(font, x, y, text) ==
    Cmd("sprites", {draw_glyph(font, x + (i - 1) * Font[font].w, y, text[i]) : i \in DOMAIN text})

Centred(font, text) ==
    LET x == (ScreenW - Len(text) * Font[font].w) \div 2 IN IF x < Layout.margin THEN Layout.margin ELSE x

draw_header ==
    <<draw_text("big", Centred("big", Title), Layout.title, Title),
      draw_text("small", Centred("small", Subtitle), Layout.subtitle, Subtitle),
      Cmd("rect", Rect(Layout.margin, Layout.divider, ScreenW - 2 * Layout.margin, 1))>>

\* Mutant: the range of PAL for both.
set_video_mode_pal(pal) == <<Cmd("mode", pal), Cmd("vrange", <<43, 283>>)>>

set_video_mode(pal) == <<Cmd("mode", pal), Cmd("vrange", VRange(pal))>>

set_draw_env == <<Cmd("area", Screen), Cmd("page", [x |-> 0, y |-> 256])>>

upload_fonts == <<Cmd("flush", 0), Cmd("upload", "small"), Cmd("upload", "big")>>

clear_screen == Cmd("rect", Screen)

draw_log(rows) ==
    [r \in DOMAIN rows |-> draw_text("small", Layout.margin, Layout.log + (r - 1) * Font.small.h, rows[r])]

redraw(rows) ==
    <<Cmd("wait", 0), clear_screen>> \o draw_header \o draw_log(rows) \o <<Cmd("flush", 0)>>

-----------------------------------------------------------------------------
(* The program: bios_reinitialize, then calls of screen.c *)

NoGpu == [pal |-> FALSE, on |-> FALSE, vrange |-> <<16, 256>>, area |-> Rect(0, 0, 0, 0),
          page |-> [x |-> 0, y |-> 0]]

\* Whoever launched the loader left a picture and its own interrupt mask.
Init ==
    /\ at = "off" /\ todo = <<>> /\ is_pal = FALSE /\ log = <<>>
    /\ \E pal \in BOOLEAN :
          gpu = [NoGpu EXCEPT !.pal = pal, !.on = TRUE, !.vrange = VRange(pal)] /\ wanted = pal
    /\ vram = {} /\ cache = "old" /\ frame = {}
    /\ i_stat \in BOOLEAN /\ i_mask \in BOOLEAN

\* Mutant: the mask is left as it is.
ReinitializeUnmasked ==
    /\ at \in {"off", "idle"} /\ at' = IF at = "off" THEN "init" ELSE "idle"
    /\ i_stat' = FALSE
    /\ UNCHANGED <<todo, is_pal, log, gpu, vram, cache, frame, i_mask, wanted>>

\* bios_reinitialize clears both interrupt registers.
Reinitialize ==
    /\ at \in {"off", "idle"} /\ at' = IF at = "off" THEN "init" ELSE "idle"
    /\ i_stat' = FALSE /\ i_mask' = FALSE
    /\ UNCHANGED <<todo, is_pal, log, gpu, vram, cache, frame, wanted>>

Call(commands) == at' = "run" /\ todo' = commands

\* gpu_is_pal is read before the GPU is reset.
debug_init ==
    /\ at = "init" /\ is_pal' = gpu.pal /\ log' = <<>>
    /\ Call(<<Cmd("reset", 0), Cmd("off", 0)>> \o set_video_mode(gpu.pal) \o set_draw_env
            \o upload_fonts \o <<clear_screen>> \o draw_header \o <<Cmd("flush", 0), Cmd("on", 0)>>)
    /\ UNCHANGED <<gpu, vram, cache, frame, i_stat, i_mask, wanted>>

\* Mutant: the display is not switched off meanwhile.
SwitchShown(pal) ==
    /\ at = "idle" /\ is_pal' = pal /\ wanted' = pal
    /\ Call(set_video_mode(pal) \o set_draw_env \o <<Cmd("on", 0)>> \o redraw(log))
    /\ UNCHANGED <<log, gpu, vram, cache, frame, i_stat, i_mask>>

debug_switch_standard(pal) ==
    /\ at = "idle" /\ is_pal' = pal /\ wanted' = pal
    /\ Call(<<Cmd("off", 0)>> \o set_video_mode(pal) \o set_draw_env
            \o <<Cmd("on", 0)>> \o redraw(log))
    /\ UNCHANGED <<log, gpu, vram, cache, frame, i_stat, i_mask>>

\* Which lines those are is what module Screen is about.
debug_write(rows) ==
    /\ at = "idle" /\ log' = rows /\ Call(redraw(rows))
    /\ UNCHANGED <<is_pal, gpu, vram, cache, frame, i_stat, i_mask, wanted>>

\* wait_lid_status waits for a blank between two questions to the drive.
WaitForLid ==
    /\ at = "idle" /\ Call(<<Cmd("wait", 0)>>)
    /\ UNCHANGED <<is_pal, log, gpu, vram, cache, frame, i_stat, i_mask, wanted>>

Return ==
    /\ at = "run" /\ todo = <<>> /\ at' = "idle"
    /\ UNCHANGED <<todo, is_pal, log, gpu, vram, cache, frame, i_stat, i_mask, wanted>>

-----------------------------------------------------------------------------
(* Commands *)

\* The command at the head of todo is done.
Does(op) == at = "run" /\ todo # <<>> /\ Head(todo).op = op
Arg == Head(todo).arg
Done(op) == Does(op) /\ todo' = Tail(todo) /\ UNCHANGED <<at, is_pal, log, i_stat, i_mask, wanted>>

\* A command that sets a register of the GPU.
Sets(op, g) == Done(op) /\ gpu' = g /\ UNCHANGED <<vram, cache, frame>>

gpu_reset == Sets("reset", NoGpu)
gpu_display_disable == Sets("off", [gpu EXCEPT !.on = FALSE])
gpu_display_enable == Sets("on", [gpu EXCEPT !.on = TRUE])
gpu_display_mode == Sets("mode", [gpu EXCEPT !.pal = Arg])
gpu_set_vrange == Sets("vrange", [gpu EXCEPT !.vrange = Arg])
gpu_set_drawing_area == Sets("area", [gpu EXCEPT !.area = Arg])
SetPage == Sets("page", [gpu EXCEPT !.page = Arg])

gpu_flush_cache == Done("flush") /\ cache' = "empty" /\ UNCHANGED <<gpu, vram, frame>>

\* Texels that the cache already has do not change with an upload.
GPU_dw ==
    /\ Done("upload") /\ vram' = vram \cup {Arg}
    /\ cache' = IF cache = "empty" THEN "empty" ELSE "old"
    /\ UNCHANGED <<gpu, frame>>

\* A filled rectangle covers what was drawn there.
gpu_draw_solid_rect ==
    /\ Done("rect") /\ frame' = {s \in frame : ~Overlap(s.pos, Arg)}
    /\ UNCHANGED <<gpu, vram, cache>>

\* A sprite shows what is at its texture coordinates in the page, and nothing
\* of it outside the drawing area.
gpu_draw_tex_rect ==
    /\ Done("sprites")
    /\ frame' = frame \cup {[pos |-> s.pos, from |-> [x |-> gpu.page.x + s.u, y |-> gpu.page.y + s.v],
                             old |-> cache = "old"] : s \in {s \in Arg : Overlap(s.pos, gpu.area)}}
    /\ cache' = IF cache = "old" THEN "old" ELSE "new"
    /\ UNCHANGED <<gpu, vram>>

\* gpu_wait_vblank: a bit that is set already is acknowledged first.
WaitVblank ==
    /\ Does("wait") /\ at' = IF i_stat THEN "ack" ELSE "poll"
    /\ UNCHANGED <<todo, is_pal, log, gpu, vram, cache, frame, i_stat, i_mask, wanted>>

AckVblank ==
    /\ at = "ack" /\ at' = "poll" /\ i_stat' = FALSE
    /\ UNCHANGED <<todo, is_pal, log, gpu, vram, cache, frame, i_mask, wanted>>

PollVblank ==
    /\ at = "poll" /\ i_stat /\ at' = "run" /\ todo' = Tail(todo)
    /\ UNCHANGED <<is_pal, log, gpu, vram, cache, frame, i_stat, i_mask, wanted>>

-----------------------------------------------------------------------------
(* The machine *)

\* The blank begins where the vertical range ends; behind the last line of the
\* standard it never does.
Blanks == gpu.vrange[2] <= LastLine(gpu.pal)

VBlank ==
    /\ Blanks /\ ~i_stat /\ i_stat' = TRUE
    /\ UNCHANGED <<at, todo, is_pal, log, gpu, vram, cache, frame, i_mask, wanted>>

\* The kernel's own handler acknowledges a blank that is not masked.
KernelAcks ==
    /\ i_stat /\ i_mask /\ i_stat' = FALSE
    /\ UNCHANGED <<at, todo, is_pal, log, gpu, vram, cache, frame, i_mask, wanted>>

Command ==
    \/ gpu_reset \/ gpu_display_disable \/ gpu_display_enable \/ gpu_display_mode
    \/ gpu_set_vrange \/ gpu_set_drawing_area \/ SetPage \/ gpu_flush_cache
    \/ GPU_dw \/ gpu_draw_solid_rect \/ gpu_draw_tex_rect
    \/ WaitVblank \/ AckVblank \/ PollVblank

Caller ==
    \/ Reinitialize \/ debug_init \/ WaitForLid
    \/ \E pal \in BOOLEAN : debug_switch_standard(pal)
    \/ \E rows \in Logs : debug_write(rows)

Next == Caller \/ Command \/ Return \/ VBlank \/ KernelAcks

Fairness == WF_vars(Command) /\ WF_vars(Return) /\ WF_vars(VBlank)

Spec == Init /\ [][Next]_vars /\ Fairness

-----------------------------------------------------------------------------
(* Properties *)

TypeOK ==
    /\ at \in {"off", "init", "idle", "run", "ack", "poll"}
    /\ is_pal \in BOOLEAN /\ log \in Logs \cup {<<>>}
    /\ gpu.pal \in BOOLEAN /\ gpu.on \in BOOLEAN /\ vram \subseteq {"small", "big"}
    /\ cache \in {"empty", "new", "old"} /\ {i_stat, i_mask, wanted} \subseteq BOOLEAN
    \* No sprite is made of texels outside both atlases.
    /\ \A s \in frame : s.from.x \in 0 .. 255 /\ s.from.y \in 256 .. 405

\* Every call returns: the blank it waits for comes, in either standard and
\* while the standard changes (screen.c:72-77), and is not taken away by the
\* kernel's handler (gpu.c:26).
CallsReturn == at \in {"run", "ack", "poll"} ~> at = "idle"

\* The display is never on with the timing of one standard and the range of
\* the other, and after a call it has the standard the console had, or the
\* last one asked for (screen.c:276, 292-296).
OneStandard ==
    gpu.on => /\ gpu.vrange = VRange(gpu.pal)
              /\ at = "idle" => gpu.pal = wanted

\* The characters that a sprite shows in the font it has the size of.
Shows(s) ==
    IF s.old THEN {} ELSE
    {ch \in InFont : \E font \in vram :
        /\ s.pos.w = Font[font].w /\ s.pos.h = Font[font].h
        /\ s.from = Cell(font, ch - 32)}

\* What is to be read, and where: the line and the place in it.
Lines == <<Title, Subtitle>> \o log
Places == UNION {{i} \X DOMAIN Lines[i] : i \in DOMAIN Lines}
Printed(p) == LET ch == Lines[p[1]][p[2]] IN {IF ch \in InFont THEN ch ELSE 32}

Above(s) == {r \in frame : r.pos.y < s.pos.y}
LeftOf(s) == {r \in frame : r.pos.y = s.pos.y /\ r.pos.x < s.pos.x}

\* After every call the screen reads, from top to bottom, the title, the
\* subtitle and the rows of the log, nothing else: each sprite is a character
\* of these, with as many sprites above it as the lines before have
\* characters and as many to its left as its line has before it.  Each is
\* inside the screen and none hides another (screen.c:157-186, 239-252).
ScreenReads ==
    at = "idle" /\ vram # {} =>
        /\ Cardinality(frame) = Cardinality(Places)
        /\ \A s \in frame : \E p \in Places :
              /\ Shows(s) = Printed(p)
              /\ Cardinality(Above(s)) = Cardinality({q \in Places : q[1] < p[1]})
              /\ Cardinality(LeftOf(s)) = p[2] - 1
        /\ \A s \in frame : /\ s.pos.x >= 0 /\ s.pos.x + s.pos.w <= ScreenW
                            /\ s.pos.y >= 0 /\ s.pos.y + s.pos.h <= ScreenH
        /\ \A r, s \in frame : r # s => ~Overlap(r.pos, s.pos)
=============================================================================
