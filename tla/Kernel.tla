------------------------------- MODULE Kernel -------------------------------
(***************************************************************************)
(* The part of the PlayStation kernel's state that the loader patches,     *)
(* rebuilds and hands over to the game, as a record, and the functions of  *)
(* bios.c that change it.  The ROM calls themselves are not in the         *)
(* repository: they do what the comments of bios.c and bios.h say they do. *)
(*                                                                         *)
(*   ints   interrupts are "on", or "off" in a critical section            *)
(*   a1     A0 table slot A1h, the disc-error handler: the ROM's, the      *)
(*          loader's logging one, or what the previous program left there  *)
(*   a2     A0 table slot A2h, EnqueueCdIntr: the ROM's or                 *)
(*          FakeEnqueueCdIntr                                              *)
(*   orig   the variable original_disc_error                               *)
(*   irqs   how often the CD interrupt handler is in the handler chain     *)
(*   files  file control blocks in use                                     *)
(*   conf   the disc whose SYSTEM.CNF configured threads, events and       *)
(*          stack; NoDisc stands for the BIOS_DEFAULT_... values           *)
(*   card   the memory-card bus was used since the devices were installed  *)
(*                                                                         *)
(* The kernel heap, the exception vectors, I_MASK and SetMemSize are       *)
(* written once, with constants, and no property reads them.               *)
(***************************************************************************)
EXTENDS Naturals

CONSTANTS
    Disc,       \* the discs a user may put into the tray
    NoDisc,     \* an empty tray; also: "no disc's values", the defaults
    MaxIrqs     \* bound: copies of the CD handler that are told apart

ASSUME NoDiscAssumption == NoDisc \notin Disc
ASSUME MaxIrqsAssumption == MaxIrqs \in Nat /\ MaxIrqs >= 2

MaxFiles == 2   \* bound: open files that are told apart

KernelType ==
    [ints: {"on", "off"},
     a1: {"rom", "logger", "foreign"}, a2: {"rom", "fake", "foreign"},
     orig: {"null", "rom", "logger", "foreign"},
     irqs: 0 .. MaxIrqs, files: 0 .. MaxFiles,
     conf: Disc \cup {NoDisc}, card: {"fresh", "used"}]

\* What the program that started the loader may leave behind.
InheritedKernel ==
    {k \in KernelType : k.a1 \in {"rom", "foreign"} /\ k.a2 \in {"rom", "foreign"}
                        /\ k.orig = "null" /\ k.conf = NoDisc}

AtMost(n, max) == IF n > max THEN max ELSE n

-----------------------------------------------------------------------------
(* ROM calls *)

EnterCriticalSection(k) == [k EXCEPT !.ints = "off"]
ExitCriticalSection(k)  == [k EXCEPT !.ints = "on"]

\* bios_copy_a0_table: the ROM's own table again, every patch is gone.
CopyA0Table(k) == [k EXCEPT !.a1 = "rom", !.a2 = "rom"]

\* Mutant: the devices keep what is open.
DevicesKeepingFiles(k) == [k EXCEPT !.card = "fresh"]

\* TTY, CDROM and memory-card drivers: no file is open afterwards.
InstallDevices(k) == [k EXCEPT !.files = 0, !.card = "fresh"]

\* The CD part of SetConf, which is also all of CdInit that the kernel
\* remembers.  It calls through slot A2h.  FakeEnqueueCdIntr drops its caller's
\* frame, so nothing after the call happens: no handler, no events, and
\* interrupts stay as they are.
SetupCd(k) ==
    IF k.a2 = "fake" THEN k
    ELSE [k EXCEPT !.irqs = AtMost(@ + 1, MaxIrqs), !.ints = "on"]

\* Rebuilds memory and the handler chain, then the CD part.
SetConf(k, conf) == SetupCd([k EXCEPT !.irqs = 0, !.conf = conf])

CdInit(k) == SetupCd(k)

FileOpened(k) == [k EXCEPT !.files = AtMost(@ + 1, MaxFiles)]
FileClosed(k) == [k EXCEPT !.files = IF @ = 0 THEN 0 ELSE @ - 1]

-----------------------------------------------------------------------------
(* bios.c *)

bios_inject_disc_error(k)  == [k EXCEPT !.a1 = "logger"]
bios_restore_disc_error(k) == [k EXCEPT !.a1 = k.orig]

\* Mutant: SetConf as the ROM has it.
ConfigureWithCd(k) == SetConf(k, NoDisc)

\* SetConf with slot A2h replaced around it.
ConfigureWithoutCd(k) ==
    LET saved == k.a2
        done  == SetConf([k EXCEPT !.a2 = "fake"], NoDisc)
    IN  [done EXCEPT !.a2 = saved]

\* Mutant: the A0 table is left as it is.
RebuildOnOldTable(k) == InstallDevices(EnterCriticalSection(k))

RebuildKernel(k) == InstallDevices(CopyA0Table(EnterCriticalSection(k)))

\* Mutants: original_disc_error is never saved, or saved too early.
ReinitUnsaved(k) == ExitCriticalSection(ConfigureWithoutCd(RebuildKernel(k)))
ReinitSavingFirst(k) == [ReinitUnsaved(k) EXCEPT !.orig = k.a1]

bios_reinitialize(k) ==
    LET up == ExitCriticalSection(ConfigureWithoutCd(RebuildKernel(k)))
    IN  [up EXCEPT !.orig = up.a1]

=============================================================================
