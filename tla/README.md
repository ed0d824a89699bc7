# A verification project for CDLoaderPSX (Game-ID variant)

The program is a PlayStation executable that boots an original, imported or
copied disc from a console that would otherwise refuse it: it puts the kernel
back into the state of a fresh boot, unlocks the drive where the drive can be
unlocked, tells a memory card with Game-ID support which game follows, and
loads and starts the game. It has no operating system below it except the ROM's
kernel, no threads, one interrupt it listens to (by polling), and an environment
that does as it pleases: a drive, a memory card and a person with a hand on the
lid. These modules describe that program and that environment; TLC checks them
on small instances, TLAPS proves the safety properties of all but one for all instances.

Paths are relative to the repository, which lies at `src/`; `loader.c` is
`src/src/loader.c`, and so on.

## The system

| Component | Source | State it keeps | Talks to |
|---|---|---|---|
| boot sequence | main.c, loader.c | `enable_unlock`, `bugged_setsession`, `calibrate_laser`, `region_name`, `p5_localized`; the locals of `loader_boot_disc` (boot file, TCB, EVENT, STACK) | every other component |
| kernel patching | bios.c, bioscalls.S | slots A1h and A2h of the A0 table, `original_disc_error`, the kernel's handler chain, file control blocks, configuration | ROM kernel; calls back into screen.c when a disc error happens |
| CD command driver | cdrom.c, loader.c | none of its own: the controller's registers | the drive's controller, by polling |
| executable checks | loader.c | the header in `data_buffer`, the file's size in its control block | ROM `FileRead`, `LoadAndExecute` |
| Game-ID broadcast | game_id.c | `data_buffer` (lent by the kernel), `gid` | cfgparse result, serial table, memory-card protocol |
| serial table | gameid_psx_exe.c | `is_scps` | Game-ID broadcast |
| memory-card protocol | memcardpro.S | the serial port's registers, FIFO and acknowledge latch | the card in slot 1 |
| text console | screen.c | `text_buffer`, `line_count`, video standard | gpu.c |
| SYSTEM.CNF parser | cfgparse.c | none | boot sequence |
| text formatting | str.c | none | text console, for everyone who logs |
| graphics output | gpu.c, font.c | none of its own: the GPU's registers, VRAM, the interrupt registers | text console; `gpu_wait_vblank` also `wait_lid_status` |
| compiler support, audio, start-up, build tools | compiler_rt.c, audio.c, start.S, tools/ | none that a decision depends on | |

How they interact: `main` calls `bios_reinitialize`, `loader_init_drive` and then
`loader_boot_disc` for ever. `loader_boot_disc` returns when something failed and
starts from scratch the next time; it never returns when a game was started.
Three things are shared across those calls and across components: the kernel's
state (tables, files, configuration), the sector buffer `data_buffer`, which
belongs to the kernel and is overwritten by every CD call, and the memory the
game is loaded into.

What is hard to test here, component by component:

- *boot sequence*: every failure leads back to the start of an attempt, so that an
  attempt may find what any prefix of an earlier one left behind; meanwhile the
  user may open the lid or change the disc between any two reads. Correct means:
  the kernel is ready for each ROM call, a game is handed one disc's settings and
  a clean kernel, and the loop ends in a game if the user plays along.
- *kernel patching*: the same two table slots are patched, saved and restored in
  several places; the order decides whether interrupts work.
- *CD command driver*: interrupts do not say which command they answer; waiting
  once too often hangs the console for good, waiting once too few shifts every
  later reply by one. Correct means: each wait ends and each reply is one's own.
- *memory-card protocol*: no card, the wrong card, a slow card, a card that is
  pulled out half-way.
- *executable checks*: unsigned arithmetic on sizes that the disc chooses.
- *text console*: the scroll and the cut of long lines, seen only after many lines;
  digits collected backwards at the ends of the range of an `int`.
- *graphics output*: every redraw waits for a vertical blank, which the video
  standard, the vertical range and the kernel's own handler can take away; texture
  coordinates of eight bits address an atlas that lies at line 256 and beyond.

The full list of hazards, each at its line, is in `PROJECT.json`.

## The modules

```
Kernel <- Loader <- MCLoader, LoaderProofs
CdCalls <= CdRom <- MCCdRom, CdRomProofs       (<= : is implemented by)
CardLink <- MCCardLink, CardLinkProofs
ExeImage <- MCExeImage, ExeImageProofs
Cnf <- MCCnf, CnfProofs
GameIdText <- MCGameIdText, GameIdTextProofs
Screen <- ScreenProofs
Screen <- Format <- MCFormat
Video <- MCVideo, VideoProofs
```

**Kernel** has no variables: the kernel is a record, and each function of bios.c
and each ROM call that the loader relies on is an operator from record to record
(`bios_reinitialize`, `bios_inject_disc_error`, `bios_restore_disc_error`,
`SetConf`, `CdInit`, `FileOpened`, ...). The ROM is not in the repository; its
operators say what the comments of bios.c and bios.h and the loader's use of the
calls imply. Slot A2h matters: `CdInit` and `SetConf` enqueue the CD handler by
calling through it, and `FakeEnqueueCdIntr` suppresses that.

**Loader** is the program from `main` to the jump into the game, one action for
each call that may block on the drive or fail, with everything that the code does
up to the next such call in the same action:

| pc | action | code |
|---|---|---|
| `main`, `drive` | `Main`, `loader_init_drive` | main.c:15-28, loader.c:101-177 |
| `attempt` | `Attempt` | loader.c:274-308 |
| `waitopen`, `waitclosed` | `PollLid` | `wait_lid_status`, `wait_for_swap` (loader.c:204-225) |
| `recd`, `cdinit` | `ReInit`, `CallCdInit` | `re_cd_init` (loader.c:227-246) |
| `read4`, `region` | `ReadLicence`, `SelectVideo` | the licence sector and the video standard (loader.c:312-339) |
| `cnflbn` ... `cnfparse` | `LocateCnf`, `OpenCnf`, `ReadCnf`, `ParseCnf` | SYSTEM.CNF (loader.c:341-373) |
| `lookup`, `gameid` | `CheckLookup`, `SendGameId` | game_id.c as seen from loader.c:375-386 |
| `setconf` | `ConfigureKernel` | critical section, `SetConf`, memory cleared (loader.c:388-394) |
| `exelbn` ... `start` | `LocateExe`, `OpenExe`, `ReadHeader`, `CheckHeader`, `ReadBody`, `Start` | the executable (loader.c:396-463) |
| `large` | `LoadAndExecute` | the game that would overlap the loader (loader.c:439-444) |

`pc` names the call about to be made; `game`, `biosgame` are a game running (by
`DoExecute`, by the ROM), `lost` is a `LoadAndExecute` that failed after it had
overwritten its caller. A disc is a model value; `Info` says what is on it. `stale`
says that the lid was opened since the last `CdInit`, after which file control
blocks may point anywhere: any sector may be delivered. `asked`, `upset`,
`meddled`, `errors` exist only for the properties and bounds. `setup` is the build
(`WAIT_FOR_SWAP`) and the console, which never change. The environment is `OpenLid`
and `InsertDisc`. `HandoffOneDisc` is about attempts that were not `upset`: when the
disc is exchanged in the middle of a boot, the code has no way to notice, and what
it still owes then is in `CdCallsReady`, `HandoffKernel` and `BootsEventually`.

**CdRom** refines what Loader does in one step of `loader_init_drive`, `Attempt`,
`ReInit` and `PollLid` to register accesses: `Prepare`, `Clear`, `Write` are
`cd_command` (`cd_command_race` for init), `WaitIdle`, `Poll`, `Ack` are
`cd_wait_int`, `ReadReply` is `cd_read_reply`, and one action `After...` per command
decides as loader.c does what comes next. The controller `Execute`s the command
register and `Raise`s queued responses; `User` moves the lid. A response carries
the command and the serial number it answers, which no code sees: the properties
use them. At the start up to two responses of somebody else's command may still
be due, as the comment at cdrom.c:141 fears. Only the default build
(`WAIT_FOR_SWAP` 0) is written out here; Loader has both. Nor are the Stop commands of
the two later `re_cd_init` calls of an attempt (loader.c:382 and 386): each is the same
sequence from the same idle controller as the first one of the next attempt. A drive's name, which its
unlock commands ask for, is that of its region (`Sold`), as the code assumes.

**CdCalls** is the abstract specification of what CdRom is for: a command is a *call*.
It is issued when no other is under way (`Issue`), takes responses (`Take`), and
returns when it has taken exactly one whole answer to itself (`Return`). `Final` in
CdRom lists what a whole answer may be for each command. The mapping is in CdRom
(`Calls`): the call is `cmd` between the write and the end of `cd_read_reply`, `taken`
is `got` with the serial numbers compared, and `clean` is `~foreign`. If
somebody else's command was under way at the start, CdCalls still asks that each call
returns, no more. That one refinement says that no reply is taken twice,
left over, or taken for another command's, and that each call ends.

**CardLink** is `game_id_send` with the four routines of memcardpro.S it uses. A
routine is a sequence of exchanges (`PingBytes`, `SendBytes`: byte, accepted
replies, error number), and one set of actions walks through it: `SelectPort`,
`FlushFifo`, `WriteByte`, `ReplyReady`, `AckSeen` or `AckTimeout`, `CheckReply`,
`EndRoutine`. The port shifts bytes (`Shift`), the card acknowledges
(`Acknowledge`), glitches, is late, or is pulled out (`Remove`).

**ExeImage** is the arithmetic on the executable's header in wrapping words: the
clamp to the file's size, `exe_file_okay`, the overlap test, the read.

**Screen** is `debug_write` character by character with `push_line`, `redraw` and
`debug_switch_standard`, next to what a reader of the screen expects: the last
lines written (`LastRows`).

**Format** puts `mini_vsprintf` in front of Screen: each turn of its loops is a step
(a character of the format, a copied character of `%s`, a digit collected, a digit
copied out), and when the format is used up the buffer becomes the message
Screen cuts into lines. A call is a sequence of *pieces*; each piece has its format,
its arguments and what it should print, so that what is expected is never taken from
the code's loops: for a number its decimal digits, with a minus sign if it is negative.
Division and remainder truncate, as in C. `PrintsAsDocumented` asks for exactly that, as
screen.h:15-16 promises, and fails (finding 4); `FormattedRight`, which holds, asks it of
calls without a negative number, and of the others that as many characters come out.

**Video** is the drawing half of screen.c with the functions of gpu.c. A call puts
its commands in `todo`, each command is a step, and vertical blanks (`VBlank`) come
between any two. `frame` is what is drawn in the visible part, a set of sprites with
the place in VRAM each was taken from; `ScreenReads` looks them up in the atlases
again and reads the screen, telling a sprite's place in the text by how many sprites are
above it and how many to its left. `FitAssumption` says that the fixed texts end inside
the screen and a log inside the text area; the code has it so by its constants: 20 + 19 * 12 and
20 + 37 * 6 of 320 columns for title and subtitle, `LOG_COLS` 46 and `LOG_ROWS` 22 of
`text_buffer` (screen.c:46-56). `gpu_wait_vblank` is `WaitVblank`, `AckVblank` and
`PollVblank`; `KernelAcks` is the ROM's interrupt handler, which may acknowledge a
blank that I_MASK lets through. `Reinitialize` clears I_MASK, as `bios_reinitialize` does,
and nothing in the loader sets the bit again: on that the waits rely. Which
rows the log has is left to Screen.

**Cnf** is `cfgparse.c` called four times over one text, as `loader_boot_disc` does.
`config` is the C pointer of the same name as an index; each loop is a value of
`at` and each turn of it an action: `NextLine`, `Found`, `Missing` are `find_wanted`,
`ParseDigit`, `EndOfDigits` the rest of `config_get_hex`, `SkipChar`, `EndOfSkip`,
`CopyChar`, `EndOfWord` that of `config_get_string`. The `\0` is the place behind the
last character. A word is its hexadecimal digits, shifted out on the left.

**GameIdText** is `build_game_id` for one boot file and disc after another, with
`get_psx_exe_gameid` as a map from known discs to serials and `"0"` for any other. `is_scps`
keeps its value between them, as the C global does: the table only ever sets it,
`build_game_id` clears it first. `Collect` starts one of the two
chains of `append_text`; `AppendChar`, `NoRoom`, `NextText`, `Built` walk through it. `IdOf`
says which ID a boot file and a disc should have.

Loader uses neither: there, `Info` says what the parser finds and which ID
belongs to a disc, and the two modules are the reason to believe it.

The `MC...` modules only give values to constants. Operators marked *Mutant* are
plausible mistakes; no specification uses them. Each shows that a property would
notice if the code had that mistake (`PROJECT.json`, "mutants").

## The runs

| Run | Question | Bounds | States |
|---|---|---|---|
| `loader` | default build on a PS1, WAIT_FOR_SWAP on a PS2: kernel ready for each call, files, hand-over, memory, prompt before each unlocked boot, and a game in the end | 4 discs, 2 unasked lid changes, 2 bad reads | 206 k |
| `cdrom` | no wait in vain, unlock state true, each command a call with its own whole answer | 8 drives, 0-2 foreign responses, lid moves unbounded | 421 k |
| `cardlink` | replies matched, whole ID taken, plain card only pinged, always returns | 3-character ID, 1 glitch, 1 late acknowledge, removal at any time | 2.7 k |
| `exe_image` | an executable at Kseg0 or Kseg1 never overwrites the loader | 7-bit words, windows of 16 bytes | 250 k |
| `screen` | each call without a negative number printed right, the last lines shown | 3 rows of 2 characters, 9 calls, 5 lines | 170 k |
| `video` | the screen reads title, subtitle and log, the standard never shows half-switched, each wait for a blank ends | screen of 64 by 76, 4 logs of up to 2 rows, calls unbounded | 590 |
| `cnf` | names found wherever they are, values of the first line with the name, cursor inside | every text of up to 5 of 6 characters, and all files of 3 out of 8 lines; words of 2 digits | 82 k |
| `game_id` | the ID whole and of this disc, refused only if too long | buffer of 8 bytes, 10 paths, 5 discs in any order | 532 |
| `loader_always`, `cardlink_pulled`, `exe_kuseg`, `screen_negative` | a comment says otherwise; see Findings | as above, the card run without glitches | - |

Why these bounds suffice to make the cases happen:

- *Discs.* One licensed disc, one unlicensed disc with a large PAL game, one
  licensed disc with `PSX.EXE` only and a known serial, one readable disc that does
  not boot: they differ in every field that the loader branches on, so that any
  value surviving from one attempt to the next shows. Asked-for disc changes are
  not bounded; `MaxMeddle` 2 lets the user open and close the lid once in the middle
  of an attempt, wherever he likes, `MaxErrors` 2 lets two attempts, or one
  attempt in two places, fail on a good disc.
- *Drives.* One for each branch of `loader_init_drive`: three that unlock with each
  of the three fifth strings, the old controllers with and without the laser
  command, a Japanese one, an unknown region, one of a known region that refuses.
- *Game-ID.* Every position of the string behaves alike; three characters give a
  first, a middle and a last one, and the middle one is the command code 21h itself.
- *Words.* The three windows, the loader between two addresses of each of them, and
  files from empty to one longer than a window. ExeImageProofs removes the bound.
- *Texts.* Five characters hold a line that begins with a name, a line break, and a
  second name; the long lines have more digits than a word, a name that begins a longer
  name, blanks before and after, no value. CnfProofs removes the bound.
- *Buffer.* Names and serials that leave the last byte for the zero, that would
  need it, and that are longer still; "px" stands for "psx.exe". There are few
  states because an ID is built letter by letter and nothing else happens.
- *Screen.* The longest message fills more rows than there are, so one message scrolls the
  whole screen; the calls have every conversion and escape, and the ends of the range
  of an `int`. ScreenProofs removes the bound for the rows.
- *Video.* The first and last character of the font, those beside them, both ends
  of a row of the atlas; a title at its margin and a centred subtitle; rows that
  are empty or full; every order of calls. VideoProofs removes the bound for the texts
  and the screen.

`CHECK_DEADLOCK FALSE` is set in all runs but `video`, since each other system really
may stop: a game is running, `game_id_send` has returned, an executable is refused, `MaxLines` is
used up.

### Fairness

- `Loader`: weak fairness of the loader's own steps (a single program that is never
  preempted for good; each call returns, since a CD call of the ROM ends with an
  error rather than not at all), and weak fairness of the user *only while asked*:
  the lid is opened while the prompt waits for it and closed over a bootable disc
  while it waits for that. Nothing forces reads to succeed: `MaxErrors` bounds the
  bad ones, an unreadable disc stays unreadable.
- `CdRom`: weak fairness of the console, of the controller executing a command it was
  given and of it raising a response that is due. The user has none. CdCalls asks that
  a call that can go on does (`WF(Take \/ Return)`); run `cdrom` shows that it follows.
- `Video`: weak fairness of the console's commands and returns, and of the vertical
  blank, which the GPU produces as long as its range ends inside the picture. Calls
  have none, and the kernel's handler has none: it can only take a blank away.
- `CardLink`: weak fairness of the console, of the port's shift register and of a
  card that owes an acknowledge. The card may vanish at any time, so nothing
  forces an acknowledge to arrive. The time-out is an action enabled from the
  moment the wait starts; it may fire before a card's acknowledge only `MaxLate`
  times, because 4500 polls are far longer than any card takes.
- `ExeImage`, `Screen`, `Format`, `Cnf`, `GameIdText`: safety only.

### Findings

1. `loader_always`: loader.c:39-40 and 281 promise a swap prompt before every boot
   with `WAIT_FOR_SWAP`; the prompt is inside `if (enable_unlock)`, so a drive that
   could not be unlocked is never prompted for.
2. `cardlink_pulled`: game_id.h:17 says `game_id_send` returns true only when a
   device accepted the command; the replies to the string are not looked at, so
   a card that vanishes after the length byte counts as success.
3. `exe_kuseg`: the overlap test at loader.c:437 compares unmasked addresses, so an
   executable with a KUSEG load address passes it and is read over the loader
   that is reading it, which loader.c:433-435 says cannot happen.
4. `screen_negative`: screen.h:15-16 calls `debug_write` a "printf-subset: %s %d %x %c",
   but `%d` of a negative number prints, after the sign, characters below `'0'`, since C's
   remainder is negative (str.c:99): -12 comes out as `-/.`. The numbers printed that way
   that might be negative are error codes (loader.c:406, 413 and 451, bios.c:162).

The passing runs hold without the clause in question: `SwapBeforeUnlockedBoot`,
`ReportedIdIsTaken`, `LoaderSurvives`, `FormattedRight`.

Two observations that are no findings:

- README.md:25-27 and loader.c:35-37 say that the loader falls back *once* to the prompt;
  the loop at loader.c:322 prompts after each failed read, as loader.c:318-319 says.
  `BootsEventually` relies on the loop.
- `UnlockIfPossible`, and the part of CdCalls about whole answers, hold only if nobody's
  command was under way at the start (`~foreign`), as the comment at cdrom.c:141 fears. With one,
  a late interrupt can be taken for the version command's, and a drive that could be
  unlocked may not be. `UnlockIsReal`, `AwaitedIsComing` and `NeverStuck` hold in both
  cases: the loader neither hangs nor thinks a drive unlocked that is not.

## The proofs

All eight proof modules are checked by TLAPS without assumptions other than the
named ASSUMEs of the modules.

**LoaderProofs** (for every set of discs, every `Info`, both builds, either
console, every bound). `KernelInv` says for each group of `pc` values what the kernel's
record looks like: `CdCallsReady` alone is not inductive, because the readiness
at `read4` follows from what `re_cd_init` left at `recd` and `cdinit`, and the
hand-over at `game` from what `CheckHeader` and `Start` do with the handler that
`bios_reinitialize` saved long before. `KernelInvariant` proves it with one step per
action; `Typed`, `CallsFindKernelReady`, `FilesClosed`, `GoodHandoff` and
`MemoryIsCleared` are its corollaries. `DiscInv` adds, for an attempt that was not
disturbed (`~upset`), that whatever the loader has taken over so far (buffer,
locals, video standard, Game-ID, configuration) belongs to the disc that is still
in the tray; it is needed because `HandoffOneDisc` speaks of the last state only.
`OneDisc` follows. `PromptInv` carries the answered prompt of the WAIT_FOR_SWAP build
through `re_cd_init` to the licence sector; `PromptFirst` follows.

**CdRomProofs** (for every set of drives, every user, and whoever ran before).
`WaitInv` counts what is due: while the console waits for one interrupt, or for two,
the flag, the queue and the command register together still hold as many.
`AwaitedIsComing` is its case at `poll`. `OwnInv` says where the own answer is: the
command is being executed (`Executing`), or its one response or its two are queued, in
the flag, or taken (`Answered`), and nothing else is there. It needs that nothing is left over
when a command is written, and that is what returning with a whole answer gives the
next command. It holds for a clean start, and in any case for the unlock commands:
`RegionInv` shows that the reply taken for the region command's can only be the last one due,
since no other would contain a region's name. From there `DoorInv` (how many unlock commands the drive took
when the i-th is issued) gives `UnlockTrue`, and `KnownInv` (what the loader knows of
the drive's version, region and name) gives `UnlockAll`. `CallsImplemented` is the safety
half of the refinement: every step of CdRom is a step of CdCalls or a stutter.

**CardLinkProofs** (for every Game-ID and any number of glitches and late acknowledges,
a card of any sort, removed at any time). `LinkInv` says that at
most one frame is on the link (`tx`, `fifo`) and, inside a routine, that it belongs to
the exchange under way; `RepliesMatch` follows. `HeardInv` says that a card that was
not removed heard exactly the bytes shifted out since it was selected, so that the
card and the console agree on the position. With that `SonyInv` shows that the ping
ends at the third byte with an ordinary card (`OrdinaryCardSafe`) and `TakenInv` that a
card has taken the whole packet when the send routine comes to its end without error
(`WholeIdTaken`, `SuccessMeansTaken`).

**ExeImageProofs** (for every word size, memory map, header and file size).
`ImageInvariant` carries through the stages what has been established: after the
clamp, the size is at most `Actual`; after the checks, the address lies in a window;
after the overlap test, the wrapped sum is below the loader. `LoaderIsSafe` needs
that the sum did not wrap, which follows from `InputAssumption`: no disc holds a
file as large as the gap above the last window. A file *shorter* than a header is
covered: `Actual` wraps, the size is not clamped, but nothing is read.

**ScreenProofs** (for every screen size and every message). `RowsInv` relates the
array to the history of lines: row `r` holds line `r + Len(written) - line_count + 1`.
`ShowsLastRows` is inductive only together with it. `ScreenTyped` shows that no line
outgrows its row and no row outside the array is used.

**CnfProofs** (for every text, every list of names, every digit table). `CursorInText` needs
`KindInv` (which loop belongs to which call) because `ParseDigit` stores into the
result of a hexadecimal call. `PresentIsStored` needs `FindInv`: while `find_wanted`
looks, the cursor is at the start of a line and no line before it begins with
the name; `NextLineStart` shows that the next newline skips no line, `LastLine` that
behind the last newline there is nothing left to find. `StoredIfPresent` is not inductive
without that, since it speaks of returned calls only. `FirstLineRead` says that the
value is the right one. Its reference finds a value by counting places (the digit with
`n - 1` digits behind it, the first place that is no blank), so nothing is defined by
recursion over the text. `ReadInv` says of each loop what it has read: the word is that
of the digits between the name and the cursor (`ShiftIsNextDigit`: a shift moves each digit one
place on), the skipped characters are blanks, the copied ones what stands between the first
that is none and the cursor. `FoundPlace` joins it to `FindInv`: the place where the name was
found is the first.

**GameIdTextProofs** (for every buffer size, path and table). `IdInv`: what is in the
buffer, then `rest`, then the texts in `todo` are together the whole ID. Each append
moves a character from one to the other (`MoveChar`, by associativity), the last
leaves only the buffer, and a refusal happens with `Size - 1` characters in it and at
least one left. The chains have two or four texts, so `Joined` is written out for up
to four of them and no induction is needed.

**VideoProofs** (for every header and log that fit, every size of the screen, and either
standard to start with). A call puts its whole list of commands in `todo`, so the
invariants speak of what is left of it. `QueueInv`: it sets up the GPU in order (`Stage`),
then uses it. `SetupInv`: the registers that come before the next stage have what
`is_pal` asks for, and the display is off while mode and range differ. `StandardKept` and
`BlankWillCome` follow, the latter with `MaskInv`: nothing in the loader unmasks the blank again.
`DrawInv` is what `ScreenIsRead` needs: either the rest of `todo` clears the screen and
draws the whole picture after that (`Draws`), or it clears nothing any more and what is in the
frame and what is still to come are together the picture (`Paints`); and no glyph is drawn
before its font is there and the cache has been flushed (`Loads`). With an empty `todo` the
frame is the picture. That the picture reads as it should is geometry: `EdgeFacts` and
`LineOrder` give the lines' places, `SpriteApart` that sprites of different places do not
touch and are ordered like these, `GlyphShows` that a cell of an atlas is that of one
character only, in spite of coordinates of eight bits, and `CountNames` turns the order
into the numbers that `ScreenReads` counts.

Model-checked only: `BootsEventually`, `SwapBootsEventually`, `NeverStuck`, `Returns`,
`CallsReturn` and the fairness half of `ImplementsCalls` (liveness under fairness is
beyond the prover), and `FormattedRight`: its reference flattens a sequence of
pieces of any length and its digits are those of powers of ten, both defined by
recursion over data, where the prover has no induction. ScreenProofs is about Screen
with any messages, so about what Format gives it, as far as that is text. All other
safety properties of the passing runs are theorems.

## What is not modelled

- `memmove` and `memset` of compiler_rt.c.
- How long a word `config_get_string` copies, and how long a message `mini_vsprintf` writes
  into the 128 bytes of `debug_write` (screen.c:302): neither code nor model bounds them.
- Which serial belongs to which timestamp: GameIdText takes any table. The bitmaps of
  font.c: Video takes a cell of the atlas for its character.
- Of graphics: horizontal range, display start, drawing offset, mask and DMA
  direction, which are written once each time with constants.
- `audio.c`, `start.S`: register writes without a decision.
- Functions that nothing calls: `cd_drive_reset`, `bios_get_syscall_handler`,
  `gpu_copy_rectangle`, `mini_sprintf`, `MemCardPro_NextCH`, `PrevCH`, `NextDIR`, `PrevDIR`.
- From which context the ROM calls the disc-error handler, so whether its `debug_write`
  may interrupt another, cannot be read from the repository.
- `tools/elf2psexe.py` runs on the developer's machine.
- In the kernel: heap, exception vectors and memory size, which are
  written once, with constants.

## Plan

The order is by what would hurt most.

1. *Done:* Kernel and Loader; CdRom, CardLink; ExeImage, Screen, Cnf, GameIdText; the
   proofs of all of them.
2. *Done:* CdCalls, and CdRom shown to implement it; Format (str.c); Video (gpu.c and the
   drawing of screen.c), with its proofs.
3. A proof for Format: a call given with the places where its pieces begin in the format, the
   arguments and the text, so that the reference needs no flattening, and the powers of
   ten as a table; then `FormattedRight` is an invariant over the current piece.
4. `LoaderSpec`: the promise in three states (prompting, booting, running one disc)
   and Loader shown to implement it; the refinement step proved from `DiscInv`.
5. `memmove` with overlapping areas against a reference definition.
6. `elf2psexe.py`, if it is still worth it then.
