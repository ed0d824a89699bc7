---------------------------- MODULE LoaderProofs ----------------------------
(***************************************************************************)
(* For every set of discs, every build and both consoles: the kernel is    *)
(* ready whenever the loader calls its CD code, and what is handed to the  *)
(* game is a consistent kernel and one disc's data.                        *)
(***************************************************************************)
EXTENDS Loader, TLAPS

(* The kernel functions *)

\* The counters stay within their bounds.
LEMMA CounterFact ==
    ASSUME NEW x \in KernelType
    PROVE  /\ 0 \in 0 .. MaxIrqs /\ 0 \in 0 .. MaxFiles
           /\ AtMost(x.irqs + 1, MaxIrqs) \in 0 .. MaxIrqs
           /\ x.irqs = 0 => AtMost(x.irqs + 1, MaxIrqs) = 1
           /\ AtMost(x.files + 1, MaxFiles) \in 0 .. MaxFiles
           /\ x.files = 0 => AtMost(x.files + 1, MaxFiles) = 1
           /\ (IF x.files = 0 THEN 0 ELSE x.files - 1) \in 0 .. MaxFiles
           /\ x.files <= 1 => (IF x.files = 0 THEN 0 ELSE x.files - 1) = 0
BY MaxIrqsAssumption DEF KernelType, AtMost, MaxFiles

\* bios_reinitialize brings any kernel into one known state.
LEMMA ReinitFact ==
    ASSUME NEW x \in KernelType
    PROVE  LET y == bios_reinitialize(x)
           IN  /\ y \in KernelType
               /\ y.ints = "on" /\ y.a1 = "rom" /\ y.a2 = "rom" /\ y.orig = "rom"
               /\ y.irqs = 0 /\ y.files = 0 /\ y.conf = NoDisc /\ y.card = "fresh"
<1> USE CounterFact
<1> DEFINE e == EnterCriticalSection(x)
           c == CopyA0Table(e)
           r == InstallDevices(c)
           f == [r EXCEPT !.a2 = "fake"]
           g == [f EXCEPT !.irqs = 0, !.conf = NoDisc]
           s == [g EXCEPT !.a2 = r.a2]
           u == ExitCriticalSection(s)
<1>0. c \in KernelType /\ c.a1 = "rom" /\ c.a2 = "rom"
  <2>1. e \in KernelType
    BY DEF EnterCriticalSection, KernelType
  <2> HIDE DEF e
  <2> QED
    BY <2>1 DEF CopyA0Table, KernelType
<1>1. /\ r \in KernelType /\ r.a1 = "rom" /\ r.a2 = "rom"
      /\ r.files = 0 /\ r.card = "fresh"
  <2> HIDE DEF c
  <2> QED
    BY <1>0 DEF InstallDevices, KernelType
<1>2. /\ s \in KernelType /\ s.a1 = "rom" /\ s.a2 = "rom" /\ s.irqs = 0
      /\ s.files = 0 /\ s.conf = NoDisc /\ s.card = "fresh"
  <2> HIDE DEF r
  <2>1. /\ f \in KernelType /\ f.a1 = "rom" /\ f.files = 0 /\ f.card = "fresh"
    BY <1>1 DEF KernelType
  <2> HIDE DEF f
  <2>2. /\ g \in KernelType /\ g.a1 = "rom" /\ g.irqs = 0
        /\ g.files = 0 /\ g.conf = NoDisc /\ g.card = "fresh"
    BY <2>1 DEF KernelType
  <2> HIDE DEF g
  <2> QED
    BY <1>1, <2>2 DEF KernelType
<1>s. ConfigureWithoutCd(RebuildKernel(x)) = s
  <2>1. RebuildKernel(x) = r
    BY DEF RebuildKernel
  <2>2. ConfigureWithoutCd(r) = [SetConf(f, NoDisc) EXCEPT !.a2 = r.a2]
    BY DEF ConfigureWithoutCd
  <2>3. g.a2 = "fake"
    <3> HIDE DEF r
    <3>1. f \in KernelType /\ f.a2 = "fake"
      BY <1>1 DEF KernelType
    <3> HIDE DEF f
    <3> QED
      BY <3>1 DEF KernelType
  <2>4. SetConf(f, NoDisc) = g
    <3>1. SetConf(f, NoDisc) = SetupCd(g)
      BY DEF SetConf
    <3> HIDE DEF g
    <3> QED
      BY <2>3, <3>1 DEF SetupCd
  <2> HIDE DEF g, f, r
  <2> QED
    BY <2>1, <2>2, <2>4
<1>3. /\ u \in KernelType /\ u.ints = "on" /\ u.a1 = "rom" /\ u.a2 = "rom"
      /\ u.irqs = 0 /\ u.files = 0 /\ u.conf = NoDisc /\ u.card = "fresh"
  <2> HIDE DEF s
  <2> QED
    BY <1>2 DEF ExitCriticalSection, KernelType
<1>4. bios_reinitialize(x) = [u EXCEPT !.orig = u.a1]
  BY <1>s DEF bios_reinitialize
<1> HIDE DEF u
<1> QED
  BY <1>3, <1>4 DEF KernelType

\* After re_cd_init's first half the logger is in place, with no CD handler.
LEMMA InjectedFact ==
    ASSUME NEW x \in KernelType
    PROVE  LET y == bios_inject_disc_error(bios_reinitialize(x))
           IN  /\ y \in KernelType
               /\ y.ints = "on" /\ y.a1 = "logger" /\ y.a2 = "rom" /\ y.orig = "rom"
               /\ y.irqs = 0 /\ y.files = 0 /\ y.conf = NoDisc /\ y.card = "fresh"
<1> DEFINE r == bios_reinitialize(x)
<1>1. /\ r \in KernelType
      /\ r.ints = "on" /\ r.a1 = "rom" /\ r.a2 = "rom" /\ r.orig = "rom"
      /\ r.irqs = 0 /\ r.files = 0 /\ r.conf = NoDisc /\ r.card = "fresh"
  BY ReinitFact
<1> HIDE DEF r
<1>2. LET y == bios_inject_disc_error(r)
      IN  /\ y \in KernelType
          /\ y.ints = "on" /\ y.a1 = "logger" /\ y.a2 = "rom" /\ y.orig = "rom"
          /\ y.irqs = 0 /\ y.files = 0 /\ y.conf = NoDisc /\ y.card = "fresh"
  BY <1>1 DEF bios_inject_disc_error, KernelType
<1> QED
  BY <1>2 DEF r

\* CdInit with the real EnqueueCdIntr puts the handler in once.
LEMMA CdInitFact ==
    ASSUME NEW x \in KernelType
    PROVE  LET y == CdInit(x)
           IN  /\ y \in KernelType
               /\ y.a1 = x.a1 /\ y.a2 = x.a2 /\ y.orig = x.orig
               /\ y.files = x.files /\ y.conf = x.conf /\ y.card = x.card
               /\ (x.a2 = "rom" /\ x.irqs = 0) => y.irqs = 1 /\ y.ints = "on"
BY CounterFact DEF CdInit, SetupCd, KernelType

\* SetConf inside a critical section ends it, with one handler again.
LEMMA SetConfFact ==
    ASSUME NEW x \in KernelType, NEW c \in Disc \cup {NoDisc}, x.a2 = "rom"
    PROVE  LET y == SetConf(EnterCriticalSection(x), c)
           IN  /\ y \in KernelType
               /\ y.a1 = x.a1 /\ y.a2 = "rom" /\ y.orig = x.orig
               /\ y.files = x.files /\ y.conf = c /\ y.card = x.card
               /\ y.irqs = 1 /\ y.ints = "on"
<1> DEFINE e == EnterCriticalSection(x)
           g == [e EXCEPT !.irqs = 0, !.conf = c]
<1>1. /\ e \in KernelType /\ e.a1 = x.a1 /\ e.a2 = "rom" /\ e.orig = x.orig
      /\ e.files = x.files /\ e.card = x.card
  BY DEF EnterCriticalSection, KernelType
<1> HIDE DEF e
<1>2. /\ g \in KernelType /\ g.a1 = x.a1 /\ g.a2 = "rom" /\ g.orig = x.orig
      /\ g.files = x.files /\ g.conf = c /\ g.card = x.card /\ g.irqs = 0
  BY <1>1, CounterFact DEF KernelType
<1>3. SetConf(e, c) = CdInit(g)
  BY DEF SetConf, CdInit
<1> HIDE DEF g
<1> QED
  BY <1>2, <1>3, CdInitFact DEF e

\* Opening and closing a file changes the number of open files only.
LEMMA FileFact ==
    ASSUME NEW x \in KernelType
    PROVE  /\ LET y == FileOpened(x)
              IN  /\ y \in KernelType
                  /\ y.ints = x.ints /\ y.a1 = x.a1 /\ y.a2 = x.a2
                  /\ y.orig = x.orig /\ y.irqs = x.irqs /\ y.conf = x.conf
                  /\ y.card = x.card /\ (x.files = 0 => y.files = 1)
           /\ LET y == FileClosed(x)
              IN  /\ y \in KernelType
                  /\ y.ints = x.ints /\ y.a1 = x.a1 /\ y.a2 = x.a2
                  /\ y.orig = x.orig /\ y.irqs = x.irqs /\ y.conf = x.conf
                  /\ y.card = x.card /\ (x.files <= 1 => y.files = 0)
BY CounterFact DEF FileOpened, FileClosed, KernelType

\* The disc-error slot, the critical section and the card bus.
LEMMA SlotFact ==
    ASSUME NEW x \in KernelType
    PROVE  /\ LET y == bios_inject_disc_error(x)
              IN  /\ y \in KernelType /\ y.a1 = "logger" /\ y.ints = x.ints
                  /\ y.a2 = x.a2 /\ y.orig = x.orig /\ y.irqs = x.irqs
                  /\ y.files = x.files /\ y.conf = x.conf /\ y.card = x.card
           /\ x.orig = "rom" =>
              LET y == bios_restore_disc_error(x)
              IN  /\ y \in KernelType /\ y.a1 = "rom" /\ y.ints = x.ints
                  /\ y.a2 = x.a2 /\ y.orig = x.orig /\ y.irqs = x.irqs
                  /\ y.files = x.files /\ y.conf = x.conf /\ y.card = x.card
           /\ LET y == EnterCriticalSection(x)
              IN  /\ y \in KernelType /\ y.ints = "off" /\ y.a1 = x.a1
                  /\ y.a2 = x.a2 /\ y.orig = x.orig /\ y.irqs = x.irqs
                  /\ y.files = x.files /\ y.conf = x.conf /\ y.card = x.card
           /\ LET y == [x EXCEPT !.card = "used"]
              IN  /\ y \in KernelType /\ y.ints = x.ints /\ y.a1 = x.a1
                  /\ y.a2 = x.a2 /\ y.orig = x.orig /\ y.irqs = x.irqs
                  /\ y.files = x.files /\ y.conf = x.conf
BY DEF bios_inject_disc_error, bios_restore_disc_error, EnterCriticalSection,
       KernelType

-----------------------------------------------------------------------------
(* Types *)

\* What Info says of a disc.
LEMMA InfoFact ==
    ASSUME NEW d \in Disc
    PROVE  Info[d].boot \in Name /\ Info[d].pal \in BOOLEAN
BY InfoAssumption DEF InfoType

\* The values an attempt starts with.
LEMMA DefaultsFact ==
    Defaults \in Locals /\ NoId \in GameIds /\ Junk \in Contents
BY NameAssumption DEF Defaults, Locals, NoId, GameIds, Junk, Content, Contents

-----------------------------------------------------------------------------
(* The kernel along the boot sequence *)

\* The calls made with the logger, and the CD handler, in place ...
Ready == {"read4", "region", "cnflbn", "cnfopen", "cnfread", "cnfparse",
          "lookup", "gameid", "setconf", "exelbn", "exeopen", "header",
          "check", "body", "start"}
\* ... and those made with a file open.
FileOpen == {"cnfread", "header", "check", "body"}

KernelInv ==
    /\ pc # "main" => k.orig = "rom" /\ k.a2 = "rom"
    /\ pc = "cdinit" => /\ k.a1 = "logger" /\ k.ints = "on" /\ k.irqs = 0
                        /\ k.files = 0 /\ k.card = "fresh"
    /\ pc \in Ready => /\ k.a1 = "logger" /\ k.ints = "on" /\ k.irqs = 1
                       /\ k.files = IF pc \in FileOpen THEN 1 ELSE 0
                       /\ k.card = "fresh"
    /\ pc \in {"large"} \cup Running =>
                       k.a1 = "rom" /\ k.irqs = 1 /\ k.card = "fresh"
    /\ pc = "game" => k.ints = "off" /\ k.files = 0
    /\ pc \in {"exelbn", "exeopen", "header", "check", "large", "body"} =>
                       ram.what = "zero"

\* What a step of the loader does to the data and the kernel, in one place.
LEMMA DataStep ==
    ASSUME DataOK, KernelInv, [Next]_vars
    PROVE  DataOK' /\ KernelInv'
<1> USE DEF DataOK, KernelInv, CdCalls, Other, Running, Ready, FileOpen,
            machine, world, history, CallReCdInit, Retry
<1>1. CASE Main
  BY <1>1, ReinitFact DEF Main
<1>2. CASE loader_init_drive
  BY <1>2, SlotFact DEF loader_init_drive
<1>3. CASE Attempt
  BY <1>3, DefaultsFact DEF Attempt
<1>4. CASE PollLid
  BY <1>4 DEF PollLid
<1>5. CASE ReInit
  BY <1>5, InjectedFact DEF ReInit
<1>6. CASE CallCdInit
  BY <1>6, CdInitFact, DefaultsFact DEF CallCdInit
<1>7. CASE ReadLicence
  BY <1>7, DefaultsFact DEF ReadLicence, Content, Contents
<1>8. CASE SelectVideo
  BY <1>8 DEF SelectVideo
<1>9. CASE LocateCnf
  BY <1>9, DefaultsFact DEF LocateCnf
<1>10. CASE OpenCnf
  BY <1>10, DefaultsFact, FileFact DEF OpenCnf
<1>11. CASE ReadCnf
  BY <1>11, DefaultsFact, FileFact DEF ReadCnf, FileData, Content, Contents
<1>12. CASE ParseCnf
  BY <1>12, InfoFact DEF ParseCnf, Contents, Locals
<1>13. CASE CheckLookup
  BY <1>13 DEF CheckLookup
<1>14. CASE SendGameId
  BY <1>14, DefaultsFact, SlotFact, NameAssumption
     DEF SendGameId, GameIdOf, SerialId, LeafId, GameIds, Locals, Content, Contents
<1>15. CASE ConfigureKernel
  <2> DEFINE y == SetConf(EnterCriticalSection(k), game.conf)
  <2>1. /\ y \in KernelType /\ y.a1 = "logger" /\ y.a2 = "rom" /\ y.orig = "rom"
        /\ y.files = 0 /\ y.card = "fresh" /\ y.irqs = 1 /\ y.ints = "on"
    BY <1>15, SetConfFact DEF ConfigureKernel, Locals
  <2>2. ram' \in Contents /\ ram'.what = "zero"
    BY <1>15 DEF ConfigureKernel, Content, Contents
  <2>3. k' = y
    BY <1>15 DEF ConfigureKernel
  <2> HIDE DEF y
  <2> QED
    BY <1>15, <2>1, <2>2, <2>3 DEF ConfigureKernel
<1>16. CASE LocateExe
  BY <1>16, DefaultsFact DEF LocateExe
<1>17. CASE OpenExe
  BY <1>17, DefaultsFact, FileFact DEF OpenExe
<1>18. CASE ReadHeader
  BY <1>18, DefaultsFact, FileFact DEF ReadHeader, FileData, Content, Contents
<1>19. CASE CheckHeader
  <2>1. CASE pc' = "attempt" /\ k' = FileClosed(k)
    BY <1>19, <2>1, FileFact DEF CheckHeader
  <2>2. CASE pc' = "large" /\ k' = bios_restore_disc_error(k)
    <3>1. k.orig = "rom" /\ k.a2 = "rom" /\ k.irqs = 1 /\ k.card = "fresh"
      BY <1>19 DEF CheckHeader
    <3>2. /\ k' \in KernelType /\ k'.a1 = "rom" /\ k'.orig = "rom"
          /\ k'.a2 = "rom" /\ k'.irqs = 1 /\ k'.card = "fresh"
      BY <2>2, <3>1, SlotFact
    <3> QED
      BY <1>19, <2>2, <3>2 DEF CheckHeader
  <2>3. CASE pc' = "body" /\ k' = k
    BY <1>19, <2>3 DEF CheckHeader
  <2> QED
    BY <1>19, <2>1, <2>2, <2>3 DEF CheckHeader
<1>20. CASE LoadAndExecute
  BY <1>20, DefaultsFact DEF LoadAndExecute, Content, Contents
<1>21. CASE ReadBody
  BY <1>21, DefaultsFact, FileFact DEF ReadBody, FileData, Content, Contents
<1>22. CASE Start
  <2> DEFINE r == bios_restore_disc_error(k)
             e == EnterCriticalSection(r)
  <2>1. /\ k.orig = "rom" /\ k.a2 = "rom" /\ k.irqs = 1 /\ k.card = "fresh"
        /\ k.files = 0
    BY <1>22 DEF Start
  <2>2. /\ r \in KernelType /\ r.a1 = "rom" /\ r.orig = "rom" /\ r.a2 = "rom"
        /\ r.irqs = 1 /\ r.card = "fresh" /\ r.files = 0
    BY <2>1, SlotFact
  <2> HIDE DEF r
  <2>3. /\ e \in KernelType /\ e.a1 = "rom" /\ e.orig = "rom" /\ e.a2 = "rom"
        /\ e.irqs = 1 /\ e.card = "fresh" /\ e.files = 0 /\ e.ints = "off"
    BY <2>2 DEF EnterCriticalSection, KernelType
  <2>4. k' = e
    BY <1>22 DEF Start, r
  <2> HIDE DEF e
  <2> QED
    BY <1>22, <2>3, <2>4 DEF Start
<1>23. CASE OpenLid
  BY <1>23 DEF OpenLid
<1>24. CASE InsertDisc
  BY <1>24 DEF InsertDisc, CloseLid
<1>25. CASE UNCHANGED vars
  BY <1>25 DEF vars
<1> QED
  BY <1>1, <1>2, <1>3, <1>4, <1>5, <1>6, <1>7, <1>8, <1>9, <1>10, <1>11,
     <1>12, <1>13, <1>14, <1>15, <1>16, <1>17, <1>18, <1>19, <1>20, <1>21,
     <1>22, <1>23, <1>24, <1>25
     DEF Next, LoaderStep, Boot, Cnf, IdBroadcast, Launch, UserStep

\* The Boolean variables stay Boolean.
LEMMA FlagsStep ==
    ASSUME FlagsOK, [Next]_vars
    PROVE  FlagsOK'
<1> USE DEF FlagsOK, machine, world, history
<1>1. CASE Boot
  BY <1>1 DEF Boot, Main, loader_init_drive, Attempt, PollLid, ReInit, CallCdInit,
              ReadLicence, SelectVideo, ReadFails
<1>2. CASE Cnf
  BY <1>2 DEF Cnf, LocateCnf, OpenCnf, ReadCnf, ParseCnf, ReadSucceeds, ReadFails
<1>3. CASE IdBroadcast
  BY <1>3 DEF IdBroadcast, CheckLookup, SendGameId, ReadSucceeds, ReadFails
<1>4. CASE Launch
  BY <1>4 DEF Launch, ConfigureKernel, LocateExe, OpenExe, ReadHeader, CheckHeader,
              LoadAndExecute, ReadBody, Start, ReadSucceeds, ReadFails
<1>5. CASE UserStep
  BY <1>5 DEF UserStep, OpenLid, InsertDisc, CloseLid
<1>6. CASE UNCHANGED vars
  BY <1>6 DEF vars
<1> QED
  BY <1>1, <1>2, <1>3, <1>4, <1>5, <1>6 DEF Next, LoaderStep

\* The counters stay within their bounds.
LEMMA CountsStep ==
    ASSUME CountsOK, [Next]_vars
    PROVE  CountsOK'
<1> USE BoundAssumption DEF CountsOK, machine, world, history, AtMost
<1>1. CASE Boot
  BY <1>1 DEF Boot, Main, loader_init_drive, Attempt, PollLid, ReInit, CallCdInit,
              ReadLicence, SelectVideo, ReadOk, ReadFails
<1>2. CASE Cnf
  BY <1>2 DEF Cnf, LocateCnf, OpenCnf, ReadCnf, ParseCnf, ReadSucceeds, ReadFails
<1>3. CASE IdBroadcast
  BY <1>3 DEF IdBroadcast, CheckLookup, SendGameId, ReadSucceeds, ReadFails
<1>4. CASE Launch
  BY <1>4 DEF Launch, ConfigureKernel, LocateExe, OpenExe, ReadHeader, CheckHeader,
              LoadAndExecute, ReadBody, Start, ReadSucceeds, ReadFails
<1>5. CASE UserStep
  BY <1>5 DEF UserStep, OpenLid, InsertDisc, CloseLid, Allowed
<1>6. CASE UNCHANGED vars
  BY <1>6 DEF vars
<1> QED
  BY <1>1, <1>2, <1>3, <1>4, <1>5, <1>6 DEF Next, LoaderStep

\* The invariant of the whole boot sequence, and what it implies.
THEOREM KernelInvariant == Spec => [](TypeOK /\ KernelInv)
<1>1. Init => DataOK /\ KernelInv
  BY DefaultsFact DEF Init, DataOK, KernelInv, InheritedKernel, CdCalls, Other,
     Running, Ready, FileOpen
<1>2. Init => FlagsOK
  BY SetupAssumption DEF Init, FlagsOK
<1>3. Init => CountsOK
  BY BoundAssumption DEF Init, CountsOK
<1>4. TypeOK /\ KernelInv /\ [Next]_vars => (TypeOK /\ KernelInv)'
  BY DataStep, FlagsStep, CountsStep DEF TypeOK
<1>5. Init => TypeOK /\ KernelInv
  BY <1>1, <1>2, <1>3 DEF TypeOK
<1> QED
  BY <1>4, <1>5, PTL DEF Spec

\* Every variable keeps its type on every path through every retry.
THEOREM Typed == Spec => []TypeOK
BY KernelInvariant, PTL

\* The ROM's CD code is only ever called on a kernel that is ready for it.
THEOREM CallsFindKernelReady == Spec => []CdCallsReady
<1>1. KernelInv => CdCallsReady
  BY DEF KernelInv, CdCallsReady, CdCalls, Ready
<1> QED
  BY <1>1, KernelInvariant, PTL

\* No file of an earlier attempt is open when a file is opened.
THEOREM FilesClosed == Spec => []NoLeakedFile
<1>1. KernelInv => NoLeakedFile
  BY DEF KernelInv, NoLeakedFile, Ready, FileOpen
<1> QED
  BY <1>1, KernelInvariant, PTL

\* The game inherits the kernel the comments promise it.
THEOREM GoodHandoff == Spec => []HandoffKernel
<1>1. KernelInv => HandoffKernel
  BY DEF KernelInv, HandoffKernel, Running
<1> QED
  BY <1>1, KernelInvariant, PTL

\* The executable always goes into cleared memory.
THEOREM MemoryIsCleared == Spec => []MemoryCleared
<1>1. KernelInv => MemoryCleared
  BY DEF KernelInv, MemoryCleared
<1> QED
  BY <1>1, KernelInvariant, PTL

-----------------------------------------------------------------------------
(* One disc *)

\* From the licence sector to the game: the calls during which nothing may
\* come between, re_cd_init for the Game-ID and before SetConf included.
Booting ==
    \/ pc \in {"region", "cnflbn", "cnfopen", "cnfread", "cnfparse", "lookup",
               "gameid", "setconf", "exelbn", "exeopen", "header", "check",
               "large", "body", "start"} \cup Running
    \/ pc \in {"recd", "cdinit"} /\ ret # "read4"

CnfDone == pc \notin {"region", "cnflbn", "cnfopen", "cnfread", "cnfparse"}

WantedIds(d) == {NoId, LeafId(WantedBoot(d)), GameIdOf(WantedBoot(d), d)}

\* While nothing came between, everything taken from a disc was taken from
\* the one in the tray.
Fresh ==
    \/ pc \in {"waitopen", "waitclosed", "read4"}
    \/ pc \in {"recd", "cdinit"} /\ ret = "read4"

DiscInv ==
    /\ Fresh => game = Defaults /\ gid = NoId
    /\ (Booting /\ ~upset) =>
        /\ lid = "closed" /\ tray \in Disc /\ ~stale
        /\ pc = "region" => buf = Content("licence", tray)
        /\ (pc # "region" /\ IsPs1) => pal = Info[tray].pal
        /\ pc \in {"cnfread", "cnfparse"} => Info[tray].cnf # "none"
        /\ pc = "cnfparse" => buf = Content("cnf", tray)
        /\ ~CnfDone => game = Defaults
        /\ CnfDone => game.conf = WantedConf(tray) /\ game.boot = WantedBoot(tray)
        /\ gid \in WantedIds(tray)
        /\ gid.by = "serial" => WantedBoot(tray) \in LookupNames
        /\ pc \in {"exelbn", "exeopen", "header", "check", "large", "body", "start"}
                  \cup Running => k.conf = WantedConf(tray)
        /\ pc \in {"start"} \cup Running => ram = Content("image", tray)

\* Reads either find the disc or upset the attempt.
LEMMA ReadFact ==
    /\ ReadFails => upset' = TRUE
    /\ ReadSucceeds => upset' = upset
    /\ ReadOk => lid = "closed" /\ tray # NoDisc
BY DEF ReadFails, ReadSucceeds, ReadOk, Readable

\* The build and the console stay what they are.
LEMMA SetupStep ==
    ASSUME [Next]_vars
    PROVE  IsPs1' = IsPs1 /\ WaitForSwap' = WaitForSwap
<1> USE DEF world
<1>1. CASE Boot
  BY <1>1 DEF Boot, Main, loader_init_drive, Attempt, PollLid, ReInit, CallCdInit,
              ReadLicence, SelectVideo, IsPs1, WaitForSwap
<1>2. CASE Cnf
  BY <1>2 DEF Cnf, LocateCnf, OpenCnf, ReadCnf, ParseCnf, IsPs1, WaitForSwap
<1>3. CASE IdBroadcast
  BY <1>3 DEF IdBroadcast, CheckLookup, SendGameId, IsPs1, WaitForSwap
<1>4. CASE Launch
  BY <1>4 DEF Launch, ConfigureKernel, LocateExe, OpenExe, ReadHeader, CheckHeader,
              LoadAndExecute, ReadBody, Start, IsPs1, WaitForSwap
<1>5. CASE UserStep
  BY <1>5 DEF UserStep, OpenLid, InsertDisc, CloseLid, IsPs1, WaitForSwap
<1>6. CASE UNCHANGED vars
  BY <1>6 DEF vars, IsPs1, WaitForSwap
<1> QED
  BY <1>1, <1>2, <1>3, <1>4, <1>5, <1>6 DEF Next, LoaderStep

\* Every step keeps what belongs to one disc together, or upsets the attempt.
LEMMA DiscStep ==
    ASSUME DataOK, FlagsOK, KernelInv, DiscInv, [Next]_vars
    PROVE  DiscInv'
<1> USE ReadFact, SetupStep
    DEF DiscInv, Fresh, Booting, CnfDone, WantedIds, Running, DataOK, FlagsOK,
        machine, world, history, CallReCdInit, Retry
<1>1. CASE Main
  BY <1>1 DEF Main
<1>2. CASE loader_init_drive
  BY <1>2 DEF loader_init_drive
<1>3. CASE Attempt
  BY <1>3 DEF Attempt
<1>4. CASE PollLid
  BY <1>4 DEF PollLid
<1>5. CASE ReInit
  BY <1>5 DEF ReInit
<1>6. CASE CallCdInit
  BY <1>6 DEF CallCdInit
<1>7. CASE ReadLicence
  <2>1. CASE ReadFails
    BY <1>7, <2>1 DEF ReadLicence
  <2>2. CASE ~ReadFails
    BY <1>7, <2>2 DEF ReadLicence, NoId
  <2> QED
    BY <2>1, <2>2
<1>8. CASE SelectVideo
  <2> SUFFICES ASSUME ~upset PROVE DiscInv'
    BY <1>8 DEF SelectVideo
  <2>1. buf.disc = tray /\ tray # NoDisc
    BY <1>8, NoDiscAssumption DEF SelectVideo, Content
  <2>2. IsPs1 => pal' = Info[tray].pal
    BY <1>8, <2>1, InfoFact DEF SelectVideo
  <2> QED
    BY <1>8, <2>2 DEF SelectVideo
<1>9. CASE LocateCnf
  BY <1>9 DEF LocateCnf
<1>10. CASE OpenCnf
  BY <1>10 DEF OpenCnf, Defaults, WantedConf, WantedBoot
<1>11. CASE ReadCnf
  BY <1>11 DEF ReadCnf, FileData
<1>12. CASE ParseCnf
  BY <1>12, NoDiscAssumption DEF ParseCnf, Content, Defaults, WantedConf, WantedBoot
<1>13. CASE CheckLookup
  BY <1>13 DEF CheckLookup
<1>14. CASE SendGameId
  BY <1>14 DEF SendGameId, GameIdOf, LeafId, NoId, SerialId
<1>15. CASE ConfigureKernel
  BY <1>15, SetConfFact DEF ConfigureKernel, Locals, KernelInv, Ready
<1>16. CASE LocateExe
  BY <1>16 DEF LocateExe
<1>17. CASE OpenExe
  BY <1>17, FileFact DEF OpenExe
<1>18. CASE ReadHeader
  BY <1>18 DEF ReadHeader
<1>19. CASE CheckHeader
  <2>1. bios_restore_disc_error(k).conf = k.conf
    BY DEF bios_restore_disc_error, KernelType
  <2> QED
    BY <1>19, <2>1 DEF CheckHeader
<1>20. CASE LoadAndExecute
  BY <1>20 DEF LoadAndExecute
<1>21. CASE ReadBody
  BY <1>21, FileFact DEF ReadBody, FileData
<1>22. CASE Start
  <2>1. k'.conf = k.conf
    BY <1>22 DEF Start, bios_restore_disc_error, EnterCriticalSection, KernelType
  <2> QED
    BY <1>22, <2>1 DEF Start
<1>23. CASE OpenLid
  BY <1>23 DEF OpenLid
<1>24. CASE InsertDisc
  BY <1>24 DEF InsertDisc, CloseLid
<1>25. CASE UNCHANGED vars
  BY <1>25 DEF vars
<1> QED
  BY <1>1, <1>2, <1>3, <1>4, <1>5, <1>6, <1>7, <1>8, <1>9, <1>10, <1>11,
     <1>12, <1>13, <1>14, <1>15, <1>16, <1>17, <1>18, <1>19, <1>20, <1>21,
     <1>22, <1>23, <1>24, <1>25
     DEF Next, LoaderStep, Boot, Cnf, IdBroadcast, Launch, UserStep

\* Nothing of another disc reaches a game that was loaded undisturbed.
THEOREM OneDisc == Spec => []HandoffOneDisc
<1>1. Init => DiscInv
  BY DEF Init, DiscInv, Fresh, Booting, Running
<1>2. TypeOK /\ KernelInv /\ DiscInv /\ [Next]_vars => DiscInv'
  BY DiscStep DEF TypeOK
<1>3. DiscInv => HandoffOneDisc
  BY DEF DiscInv, HandoffOneDisc, Booting, CnfDone, Running, WantedIds, Content
<1> QED
  BY <1>1, <1>2, <1>3, KernelInvariant, PTL DEF Spec

-----------------------------------------------------------------------------
(* The prompt *)

\* The answered prompt that SwapBeforeUnlockedBoot speaks of lies two calls
\* back: re_cd_init comes between.
PromptInv ==
    WaitForSwap /\ unlock /\ (pc = "read4" \/ (pc \in {"recd", "cdinit"} /\ ret = "read4"))
        => asked > 0

\* Only an answered prompt leads a WAIT_FOR_SWAP build with an unlocked drive
\* to the licence sector.
LEMMA PromptStep ==
    ASSUME TypeOK, PromptInv, [Next]_vars
    PROVE  PromptInv'
<1> USE SetupStep DEF PromptInv, machine, world, history, CallReCdInit, Retry
<1>1. CASE Main
  BY <1>1 DEF Main
<1>2. CASE loader_init_drive
  BY <1>2 DEF loader_init_drive
<1>3. CASE Attempt
  BY <1>3 DEF Attempt
<1>4. CASE PollLid
  <2>1. AtMost(asked + 1, 2) > 0
    BY DEF TypeOK, CountsOK, AtMost
  <2> QED
    BY <1>4, <2>1 DEF PollLid
<1>5. CASE ReInit
  BY <1>5 DEF ReInit
<1>6. CASE CallCdInit
  BY <1>6 DEF CallCdInit
<1>7. CASE ReadLicence
  BY <1>7 DEF ReadLicence
<1>8. CASE SelectVideo
  BY <1>8 DEF SelectVideo
<1>9. CASE Cnf
  BY <1>9 DEF Cnf, LocateCnf, OpenCnf, ReadCnf, ParseCnf
<1>10. CASE IdBroadcast
  BY <1>10 DEF IdBroadcast, CheckLookup, SendGameId
<1>11. CASE Launch
  BY <1>11 DEF Launch, ConfigureKernel, LocateExe, OpenExe, ReadHeader, CheckHeader,
               LoadAndExecute, ReadBody, Start
<1>12. CASE UserStep
  BY <1>12 DEF UserStep, OpenLid, InsertDisc, CloseLid
<1>13. CASE UNCHANGED vars
  BY <1>13 DEF vars
<1> QED
  BY <1>1, <1>2, <1>3, <1>4, <1>5, <1>6, <1>7, <1>8, <1>9, <1>10, <1>11,
     <1>12, <1>13 DEF Next, LoaderStep, Boot

\* An unlocked drive reads no disc of an attempt before its prompt was answered.
THEOREM PromptFirst == Spec => []SwapBeforeUnlockedBoot
<1>1. Init => PromptInv
  BY DEF Init, PromptInv
<1>2. TypeOK /\ KernelInv /\ PromptInv /\ [Next]_vars => PromptInv'
  BY PromptStep
<1>3. PromptInv => SwapBeforeUnlockedBoot
  BY DEF PromptInv, SwapBeforeUnlockedBoot
<1> QED
  BY <1>1, <1>2, <1>3, KernelInvariant, PTL DEF Spec
=============================================================================
