------------------------------- MODULE Loader -------------------------------
(***************************************************************************)
(* The loader from main() to the jump into the game: main.c and the boot   *)
(* sequence of loader.c, one action per call that may block on the drive,  *)
(* with a user who opens the lid and changes discs at any moment.  The     *)
(* kernel state is the record of module Kernel.  The command sequences     *)
(* with the drive controller are refined in module CdRom, the exchange     *)
(* with the memory card in module CardLink.                                *)
(***************************************************************************)
EXTENDS Kernel

CONSTANTS
    Name,           \* boot file names
    DefaultBoot,    \* "cdrom:PSX.EXE;1"
    LookupNames,    \* the names that game_id_needs_disc_lookup accepts
    Info,           \* what is on each disc, see InfoType
    Setups,         \* builds and consoles: [swap, ps1], see SetupType
    MaxMeddle,      \* bound: lid and disc changes nobody asked for
    MaxErrors       \* bound: transient read errors

\*   licensed  the drive reads it without being unlocked
\*   pal       byte 3Ch of sector 4 is 'E'
\*   cnf       no SYSTEM.CNF, or one with or without a BOOT line
\*   boot      what the BOOT line says
\*   files     the boot files that exist on the disc
\*   serial    the volume timestamp is in the table of gameid_psx_exe.c
\*   exe       the executable's header: accepted, refused by exe_file_okay,
\*             or overlapping the loader
InfoType == [licensed: BOOLEAN, pal: BOOLEAN, cnf: {"none", "plain", "boot"},
             boot: Name, files: SUBSET Name, serial: BOOLEAN,
             exe: {"fits", "refused", "large"}]

\*   swap  the build option WAIT_FOR_SWAP
\*   ps1   bios_is_ps1()
SetupType == [swap: BOOLEAN, ps1: BOOLEAN]

ASSUME NameAssumption == DefaultBoot \in Name /\ LookupNames \subseteq Name
ASSUME InfoAssumption == Info \in [Disc -> InfoType]
ASSUME SetupAssumption == Setups \subseteq SetupType
ASSUME BoundAssumption == MaxMeddle \in Nat /\ MaxErrors \in Nat

VARIABLES
    setup,      \* the build and the console; never changes
    pc,         \* the call the loader is about to make
    ret,        \* where re_cd_init returns to
    k,          \* the kernel
    lid,        \* "open" or "closed"
    tray,       \* the disc in the tray, or NoDisc
    seen,       \* the lid bit a GETSTAT would still show, see PollLid
    stale,      \* the lid was opened after the last CdInit
    unlocked,   \* the drive accepted the backdoor sequence
    unlock,     \* enable_unlock
    buf,        \* what data_buffer holds
    pal,        \* the video standard on the screen
    game,       \* the locals of loader_boot_disc that come from the disc
    gid,        \* the Game-ID a card accepted in this attempt
    ram,        \* the memory from user_start up to the loader
    asked,      \* history: swap prompts answered in this attempt, up to 2
    upset,      \* history: this attempt saw a lid change or a read error
    meddled, errors     \* bounds: used up so far

machine == <<pc, ret, k, buf, pal, game, gid, ram, unlock, unlocked>>
world   == <<setup, lid, tray, seen>>
history == <<asked, upset, meddled, errors>>
vars    == <<machine, world, stale, history>>

WaitForSwap == setup.swap
IsPs1       == setup.ps1

Content(what, disc) == [what |-> what, disc |-> disc]
Junk == Content("junk", NoDisc)
Contents == [what: {"junk", "licence", "cnf", "pvd", "header", "zero", "image"},
             disc: Disc \cup {NoDisc}]

Locals == [conf: Disc \cup {NoDisc}, boot: Name]
Defaults == [conf |-> NoDisc, boot |-> DefaultBoot]

NoId == [by |-> "none", disc |-> NoDisc, name |-> DefaultBoot]
SerialId(d) == [by |-> "serial", disc |-> d, name |-> DefaultBoot]
LeafId(n) == [by |-> "leaf", disc |-> NoDisc, name |-> n]
GameIds == [by: {"none", "serial", "leaf"}, disc: Disc \cup {NoDisc}, name: Name]

CdCalls == {"cdinit", "read4", "cnflbn", "cnfopen", "cnfread", "gameid",
            "exelbn", "exeopen", "header", "body"}
Other   == {"main", "drive", "attempt", "waitopen", "waitclosed", "recd",
            "region", "cnfparse", "lookup", "setconf", "check", "large",
            "start", "lost"}
Running == {"game", "biosgame"}

-----------------------------------------------------------------------------
(* The drive, as the ROM's CD calls see it *)

Readable(d) == d # NoDisc /\ (unlocked \/ Info[d].licensed)

\* A CD call finds the disc, and the file if it opens one.
ReadOk == lid = "closed" /\ Readable(tray)

\* A CD call fails: nothing readable there, or a drive that was not
\* initialised again after the lid was open, or one of MaxErrors bad reads.
ReadFails ==
    /\ ~ReadOk \/ stale \/ errors < MaxErrors
    /\ errors' = IF ReadOk /\ ~stale THEN errors + 1 ELSE errors
    /\ upset' = TRUE

ReadSucceeds == ReadOk /\ UNCHANGED <<errors, upset>>

\* What a file read delivers.  After a disc change the file control block
\* describes a file of another disc: any sector may come.
FileData(what) == {Content(what, tray)} \cup (IF stale THEN {Junk} ELSE {})

CallReCdInit(from) == pc' = "recd" /\ ret' = from

\* loader_boot_disc returns and main() calls it again.
Retry == pc' = "attempt"

-----------------------------------------------------------------------------
(* main() *)

Init ==
    /\ setup \in Setups
    /\ pc = "main" /\ ret = "read4" /\ k \in InheritedKernel
    /\ lid \in {"open", "closed"} /\ tray \in Disc \cup {NoDisc}
    /\ seen = FALSE /\ stale = TRUE /\ unlocked \in BOOLEAN /\ unlock = TRUE
    /\ buf = Junk /\ pal \in BOOLEAN /\ game = Defaults /\ gid = NoId
    /\ ram = Junk
    /\ asked = 0 /\ upset = FALSE /\ meddled = 0 /\ errors = 0

\* main() up to loader_init_drive: the kernel, the sound and the screen.
\* debug_init takes the video standard the screen already has.
Main ==
    /\ pc = "main" /\ pc' = "drive"
    /\ k' = bios_reinitialize(k)
    /\ UNCHANGED <<ret, buf, pal, game, gid, ram, unlock, unlocked,
                   world, stale, history>>

\* loader_init_drive.  Either all seven backdoor commands are accepted, or
\* enable_unlock is cleared: VC0A/VC0B, a Japanese, unknown or silent drive,
\* or one of the seven refused.  The drive may have been unlocked before.
loader_init_drive ==
    /\ pc = "drive" /\ pc' = "attempt"
    /\ k' = bios_inject_disc_error(k)
    /\ unlock' \in BOOLEAN /\ unlocked' = (unlocked \/ unlock')
    /\ UNCHANGED <<ret, buf, pal, game, gid, ram, world, stale, history>>

-----------------------------------------------------------------------------
(* loader_boot_disc up to the licence sector *)

\* Mutant: the locals are static and keep the last attempt's values.
AttemptWithStaticLocals ==
    /\ pc = "attempt"
    /\ IF WaitForSwap /\ unlock THEN pc' = "waitopen" /\ UNCHANGED ret
                                ELSE CallReCdInit("read4")
    /\ gid' = NoId /\ asked' = 0 /\ upset' = FALSE
    /\ UNCHANGED <<k, buf, pal, game, ram, unlock, unlocked, world, stale,
                   meddled, errors>>

\* Mutant: the prompt of WAIT_FOR_SWAP is skipped.
AttemptWithoutPrompt ==
    /\ pc = "attempt" /\ CallReCdInit("read4")
    /\ game' = Defaults /\ gid' = NoId /\ asked' = 0 /\ upset' = FALSE
    /\ UNCHANGED <<k, buf, pal, ram, unlock, unlocked, world, stale,
                   meddled, errors>>

\* The session and laser commands for drives that are not unlocked leave
\* nothing that this module tracks.
Attempt ==
    /\ pc = "attempt"
    /\ IF WaitForSwap /\ unlock THEN pc' = "waitopen" /\ UNCHANGED ret
                                ELSE CallReCdInit("read4")
    /\ game' = Defaults /\ gid' = NoId /\ asked' = 0 /\ upset' = FALSE
    /\ UNCHANGED <<k, buf, pal, ram, unlock, unlocked, world, stale,
                   meddled, errors>>

\* The lid bit of GETSTAT.  A drive may show an open lid once more after it
\* was closed; the code does not rely on it either way.
LidBit == IF lid = "open" THEN {TRUE} ELSE {seen, FALSE}

\* One turn of the loop in wait_lid_status: it ends when the bit is as
\* expected, open first and then closed.
PollLid ==
    /\ \E bit \in LidBit :
          \/ pc = "waitopen" /\ bit
             /\ pc' = "waitclosed" /\ UNCHANGED <<ret, asked>>
          \/ pc = "waitclosed" /\ ~bit
             /\ asked' = AtMost(asked + 1, 2) /\ CallReCdInit("read4")
          \/ pc = (IF bit THEN "waitclosed" ELSE "waitopen")
             /\ UNCHANGED <<pc, ret, asked>>
    /\ seen' = (lid = "open")
    /\ UNCHANGED <<k, buf, pal, game, gid, ram, unlock, unlocked, setup, lid,
                   tray, stale, upset, meddled, errors>>

\* re_cd_init up to CdInit: kernel, handler, and the Stop command.
ReInit ==
    /\ pc = "recd" /\ pc' = "cdinit"
    /\ k' = bios_inject_disc_error(bios_reinitialize(k))
    /\ UNCHANGED <<ret, buf, pal, game, gid, ram, unlock, unlocked,
                   world, stale, history>>

\* The rest of re_cd_init; a failure is only logged.  The kernel reads
\* sectors into the buffer that the loader borrows.
CallCdInit ==
    /\ pc = "cdinit" /\ pc' = ret
    /\ k' = CdInit(k) /\ buf' = Junk
    /\ stale' = (lid = "open")
    /\ UNCHANGED <<ret, pal, game, gid, ram, unlock, unlocked, world, history>>

\* Mutant: a failed read is retried without a prompt.
ReadLicenceUnprompted ==
    /\ pc = "read4"
    /\ \/ ReadOk /\ pc' = "region" /\ buf' = Content("licence", tray)
          /\ upset' = stale /\ UNCHANGED errors
       \/ ReadFails /\ buf' = Junk /\ Retry
    /\ UNCHANGED <<ret, k, pal, game, gid, ram, unlock, unlocked, world, stale,
                   asked, meddled>>

\* while (CdReadSector(1, 4, data_buffer) != 1) ...
ReadLicence ==
    /\ pc = "read4"
    /\ \/ ReadOk /\ pc' = "region" /\ buf' = Content("licence", tray)
          /\ upset' = stale /\ UNCHANGED errors
       \/ ReadFails /\ buf' = Junk
          /\ IF WaitForSwap THEN Retry ELSE pc' = "waitopen"
    /\ UNCHANGED <<ret, k, pal, game, gid, ram, unlock, unlocked, world, stale,
                   asked, meddled>>

\* Video standard, from the licence sector.
SelectVideo ==
    /\ pc = "region" /\ pc' = "cnflbn"
    /\ LET wanted == buf.disc # NoDisc /\ Info[buf.disc].pal
       IN  pal' = IF IsPs1 THEN wanted ELSE pal
    /\ UNCHANGED <<ret, k, buf, game, gid, ram, unlock, unlocked,
                   world, stale, history>>

-----------------------------------------------------------------------------
(* SYSTEM.CNF *)

\* CdGetLbn and the seek assist use the sector buffer, found or not.
LocateCnf ==
    /\ pc = "cnflbn" /\ pc' = "cnfopen" /\ buf' = Junk
    /\ UNCHANGED <<ret, k, pal, game, gid, ram, unlock, unlocked,
                   world, stale, history>>

OpenCnf ==
    /\ pc = "cnfopen" /\ buf' = Junk
    /\ \/ ReadSucceeds /\ Info[tray].cnf # "none"
          /\ pc' = "cnfread" /\ k' = FileOpened(k)
       \/ ReadSucceeds /\ Info[tray].cnf = "none"
          /\ pc' = "lookup" /\ UNCHANGED k
       \/ ReadFails /\ pc' = "lookup" /\ UNCHANGED k
    /\ UNCHANGED <<ret, pal, game, gid, ram, unlock, unlocked, world, stale,
                   asked, meddled>>

\* FileRead and FileClose; nothing is parsed unless something was read.
ReadCnf ==
    /\ pc = "cnfread" /\ k' = FileClosed(k)
    /\ \/ ReadSucceeds /\ pc' = "cnfparse" /\ buf' \in FileData("cnf")
       \/ ReadFails /\ pc' = "lookup" /\ buf' = Junk
    /\ UNCHANGED <<ret, pal, game, gid, ram, unlock, unlocked, world, stale,
                   asked, meddled>>

\* TCB, EVENT, STACK and BOOT; what is missing keeps its default.
ParseCnf ==
    /\ pc = "cnfparse" /\ pc' = "lookup"
    /\ game' = IF buf.what # "cnf" \/ buf.disc = NoDisc THEN game
               ELSE [conf |-> buf.disc,
                     boot |-> IF Info[buf.disc].cnf = "boot"
                              THEN Info[buf.disc].boot ELSE game.boot]
    /\ UNCHANGED <<ret, k, buf, pal, gid, ram, unlock, unlocked,
                   world, stale, history>>

-----------------------------------------------------------------------------
(* Game-ID *)

\* if (game_id_needs_disc_lookup(bootfile)) re_cd_init();
CheckLookup ==
    /\ pc = "lookup"
    /\ IF game.boot \in LookupNames THEN CallReCdInit("gameid")
                                    ELSE pc' = "gameid" /\ UNCHANGED ret
    /\ UNCHANGED <<k, buf, pal, game, gid, ram, unlock, unlocked,
                   world, stale, history>>

\* build_game_id: the serial of a known PSX.EXE disc, else the file name.
GameIdOf(name, d) ==
    IF name \in LookupNames /\ Info[d].serial
    THEN SerialId(d) ELSE LeafId(name)

\* game_id_send and the re_cd_init after it.  The ping always uses the bus;
\* without a device nothing else happens; a device may still not accept.
SendGameId ==
    /\ pc = "gameid" /\ k' = [k EXCEPT !.card = "used"]
    /\ CallReCdInit("setconf")
    /\ \/ gid' = NoId /\ UNCHANGED <<buf, errors, upset>>
       \/ /\ game.boot \notin LookupNames
          /\ gid' = LeafId(game.boot) /\ UNCHANGED <<buf, errors, upset>>
       \/ /\ game.boot \in LookupNames /\ ReadSucceeds
          /\ buf' = Content("pvd", tray)
          /\ gid' \in {GameIdOf(game.boot, tray), NoId}
       \/ /\ game.boot \in LookupNames /\ ReadFails /\ buf' = Junk
          /\ gid' \in {LeafId(game.boot), NoId}
    /\ UNCHANGED <<pal, game, ram, unlock, unlocked, world, stale, asked, meddled>>

-----------------------------------------------------------------------------
(* The executable *)

\* Mutant: the memory is not cleared again.
ConfigureOverOldMemory ==
    /\ pc = "setconf" /\ pc' = "exelbn"
    /\ k' = SetConf(EnterCriticalSection(k), game.conf)
    /\ UNCHANGED <<ret, buf, pal, game, gid, ram, unlock, unlocked,
                   world, stale, history>>

\* EnterCriticalSection, SetConf, and the memory up to the loader cleared.
ConfigureKernel ==
    /\ pc = "setconf" /\ pc' = "exelbn"
    /\ k' = SetConf(EnterCriticalSection(k), game.conf)
    /\ ram' = Content("zero", NoDisc)
    /\ UNCHANGED <<ret, buf, pal, game, gid, unlock, unlocked,
                   world, stale, history>>

LocateExe ==
    /\ pc = "exelbn" /\ pc' = "exeopen" /\ buf' = Junk
    /\ UNCHANGED <<ret, k, pal, game, gid, ram, unlock, unlocked,
                   world, stale, history>>

OpenExe ==
    /\ pc = "exeopen" /\ buf' = Junk
    /\ \/ ReadSucceeds /\ game.boot \in Info[tray].files
          /\ pc' = "header" /\ k' = FileOpened(k)
       \/ ReadSucceeds /\ game.boot \notin Info[tray].files
          /\ Retry /\ UNCHANGED k
       \/ ReadFails /\ Retry /\ UNCHANGED k
    /\ UNCHANGED <<ret, pal, game, gid, ram, unlock, unlocked, world, stale,
                   asked, meddled>>

ReadHeader ==
    /\ pc = "header"
    /\ \/ ReadSucceeds /\ pc' = "check" /\ buf' \in FileData("header")
          /\ UNCHANGED k
       \/ ReadFails /\ Retry /\ buf' = Junk /\ k' = FileClosed(k)
    /\ UNCHANGED <<ret, pal, game, gid, ram, unlock, unlocked, world, stale,
                   asked, meddled>>

\* What exe_file_okay and the overlap test make of the header; a header of
\* junk may look like anything.
Verdicts == IF buf.what = "header" /\ buf.disc # NoDisc
            THEN {Info[buf.disc].exe} ELSE {"fits", "refused", "large"}

CheckHeader ==
    /\ pc = "check"
    /\ \/ "refused" \in Verdicts /\ Retry /\ k' = FileClosed(k)
       \/ "large" \in Verdicts /\ pc' = "large" /\ k' = bios_restore_disc_error(k)
       \/ "fits" \in Verdicts /\ pc' = "body" /\ UNCHANGED k
    /\ UNCHANGED <<ret, buf, pal, game, gid, ram, unlock, unlocked,
                   world, stale, history>>

\* LoadAndExecute opens the file again.  It returns when it cannot; an
\* error once it is loading over the loader leaves nothing to return to.
LoadAndExecute ==
    /\ pc = "large" /\ buf' = Junk
    /\ \/ ReadSucceeds /\ game.boot \in Info[tray].files
          /\ pc' = "biosgame" /\ ram' = Content("image", tray)
       \/ ReadSucceeds /\ game.boot \notin Info[tray].files
          /\ Retry /\ UNCHANGED ram
       \/ ReadFails /\ pc' \in {"attempt", "lost"} /\ ram' = Junk
    /\ UNCHANGED <<ret, k, pal, game, gid, unlock, unlocked, world, stale,
                   asked, meddled>>

\* The executable itself.  A failed read returns without FileClose.
ReadBody ==
    /\ pc = "body"
    /\ \/ ReadSucceeds /\ pc' = "start" /\ ram' \in FileData("image")
          /\ k' = FileClosed(k)
       \/ ReadFails /\ Retry /\ ram' = Junk /\ UNCHANGED k
    /\ UNCHANGED <<ret, buf, pal, game, gid, unlock, unlocked, world, stale,
                   asked, meddled>>

\* Disc-error handler, critical section, FlushCache, DoExecute.
Start ==
    /\ pc = "start" /\ pc' = "game"
    /\ k' = EnterCriticalSection(bios_restore_disc_error(k))
    /\ UNCHANGED <<ret, buf, pal, game, gid, ram, unlock, unlocked,
                   world, stale, history>>

-----------------------------------------------------------------------------
(* The user *)

Bootable(d) ==
    /\ Readable(d)
    /\ Info[d].exe # "refused"
    /\ (IF Info[d].cnf = "boot" THEN Info[d].boot ELSE DefaultBoot) \in Info[d].files

\* Asked for, or one of MaxMeddle times on the user's own account.
Allowed(answer) ==
    \/ answer /\ UNCHANGED meddled
    \/ meddled < MaxMeddle /\ meddled' = meddled + 1

OpenLid ==
    /\ lid = "closed" /\ pc \notin Running
    /\ Allowed(pc = "waitopen")
    /\ lid' = "open" /\ seen' = TRUE /\ stale' = TRUE /\ upset' = TRUE
    /\ UNCHANGED <<machine, setup, tray, asked, errors>>

CloseLid(d) ==
    /\ lid = "open" /\ pc \notin Running
    /\ Allowed(pc = "waitclosed" /\ Bootable(d))
    /\ lid' = "closed" /\ tray' = d
    /\ UNCHANGED <<machine, setup, seen, stale, asked, upset, errors>>

InsertDisc == \E d \in Disc \cup {NoDisc} : CloseLid(d)

-----------------------------------------------------------------------------
Boot  == Main \/ loader_init_drive \/ Attempt \/ PollLid \/ ReInit \/ CallCdInit
         \/ ReadLicence \/ SelectVideo
Cnf   == LocateCnf \/ OpenCnf \/ ReadCnf \/ ParseCnf
IdBroadcast == CheckLookup \/ SendGameId
Launch == ConfigureKernel \/ LocateExe \/ OpenExe \/ ReadHeader \/ CheckHeader
          \/ LoadAndExecute \/ ReadBody \/ Start

LoaderStep == Boot \/ Cnf \/ IdBroadcast \/ Launch
UserStep == OpenLid \/ InsertDisc

Next == LoaderStep \/ UserStep

Spec == Init /\ [][Next]_vars

\* The processor keeps running, and a user who is asked for the lid opens
\* it and closes it over a disc that can be booted.
Fairness ==
    /\ WF_vars(LoaderStep)
    /\ WF_vars(pc = "waitopen" /\ OpenLid)
    /\ WF_vars(pc = "waitclosed" /\ \E d \in Disc : Bootable(d) /\ CloseLid(d))

FairSpec == Spec /\ Fairness
-----------------------------------------------------------------------------
(* Properties *)

DataOK ==
    /\ pc \in CdCalls \cup Other \cup Running
    /\ ret \in {"read4", "gameid", "setconf"}
    /\ k \in KernelType
    /\ lid \in {"open", "closed"} /\ tray \in Disc \cup {NoDisc}
    /\ buf \in Contents /\ ram \in Contents
    /\ game \in Locals /\ gid \in GameIds

FlagsOK ==
    /\ setup \in SetupType
    /\ seen \in BOOLEAN /\ stale \in BOOLEAN /\ upset \in BOOLEAN
    /\ unlocked \in BOOLEAN /\ unlock \in BOOLEAN /\ pal \in BOOLEAN

CountsOK ==
    /\ asked \in 0 .. 2
    /\ meddled \in 0 .. MaxMeddle /\ errors \in 0 .. MaxErrors

\* Every variable has its type: in particular slot A1h never holds the null
\* pointer that original_disc_error starts with.
TypeOK == DataOK /\ FlagsOK /\ CountsOK

\* Whenever the loader calls into the ROM's CD code, interrupts are enabled,
\* the CD handler is in the chain exactly once (not at all before CdInit), the
\* real EnqueueCdIntr is in the table, and disc errors go to the loader's
\* logger: bios.c:68-75, on every path through every retry.
CdCallsReady ==
    pc \in CdCalls =>
        /\ k.ints = "on" /\ k.a1 = "logger" /\ k.a2 = "rom"
        /\ k.irqs = IF pc = "cdinit" THEN 0 ELSE 1

\* No file is open when SYSTEM.CNF or the executable is opened, although a
\* failed body read and LoadAndExecute leave one open: the next re_cd_init
\* takes care of it (loader.c:438-453).
NoLeakedFile == pc \in {"cnfopen", "exeopen"} => k.files = 0

\* A game gets the ROM's own disc-error handler and CD interrupt routine, one
\* CD handler, and a memory-card bus that was set up again after the Game-ID
\* (loader.c:378-379); one started by DoExecute also gets disabled interrupts
\* and no open file (loader.c:456-460).
HandoffKernel ==
    /\ pc \in Running => /\ k.a1 = "rom" /\ k.a2 = "rom" /\ k.irqs = 1 /\ k.card = "fresh"
    /\ pc = "game" => k.ints = "off" /\ k.files = 0

\* What a disc asks for.
WantedConf(d) == IF Info[d].cnf = "none" THEN NoDisc ELSE d
WantedBoot(d) == IF Info[d].cnf = "boot" THEN Info[d].boot ELSE DefaultBoot

\* If neither the lid nor a read error came between, the game that runs, the
\* kernel configuration, the video standard and the Game-ID all belong to one
\* disc, whatever earlier attempts with other discs left behind.
HandoffOneDisc ==
    (pc \in Running /\ ~upset) =>
        LET d == ram.disc
        IN  /\ ram.what = "image" /\ d \in Disc
            /\ k.conf = WantedConf(d) /\ game.boot = WantedBoot(d)
            /\ IsPs1 => pal = Info[d].pal
            /\ gid \in {NoId, LeafId(WantedBoot(d)), GameIdOf(WantedBoot(d), d)}
            /\ gid.by = "serial" => WantedBoot(d) \in LookupNames

\* From the first byte of the executable on, the memory it is loaded into is
\* clear of what a failed earlier attempt loaded there (loader.c:392-394).
MemoryCleared == pc \in {"header", "check", "large", "body"} => ram.what = "zero"

\* A user who answers the prompts gets a game, unless the disc in the tray can
\* be read but has nothing on it that the loader accepts (main.c:31-36,
\* loader.c:315-331).  Without WAIT_FOR_SWAP.
BootsEventually ==
    \/ WaitForSwap
    \/ <>(pc \in Running \cup {"lost"})
    \/ <>[](lid = "closed" /\ Readable(tray) /\ ~Bootable(tray))

\* With WAIT_FOR_SWAP, a drive that was unlocked only ever reads a disc after
\* a prompt of the same attempt was answered (loader.c:280-285).
SwapBeforeUnlockedBoot == (WaitForSwap /\ unlock /\ pc = "read4") => asked > 0

\* With WAIT_FOR_SWAP the prompt comes before every attempt, so a user who
\* answers gets a game, unless the drive was not unlocked: then there are no
\* prompts, and an open lid or a disc that does not boot stays.
SwapBootsEventually ==
    \/ ~WaitForSwap
    \/ <>(pc \in Running \cup {"lost"})
    \/ <>[](~unlock /\ (lid = "open" \/ ~Bootable(tray)))

\* "Set WAIT_FOR_SWAP to 1 to force the classic open and close the lid swap
\* before every boot" (loader.c:39-40).
SwapBeforeEveryBoot == (WaitForSwap /\ pc = "read4") => asked > 0
=============================================================================
