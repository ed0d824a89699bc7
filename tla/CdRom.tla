------------------------------- MODULE CdRom -------------------------------
(***************************************************************************)
(* Every CD command that the loader issues itself, register access by      *)
(* register access: cd_command, cd_wait_int, their _race variants and      *)
(* cd_read_reply of cdrom.c, against the drive's controller; and the order *)
(* in which loader.c issues them: loader_init_drive with unlock_drive,     *)
(* then for each attempt the session commands, re_cd_init and, when the    *)
(* disc cannot be read, wait_for_swap.                                     *)
(*                                                                         *)
(* The controller answers a command with one or two interrupts, each with  *)
(* a reply.  Nothing in the registers says which command an interrupt      *)
(* belongs to: the code relies on having waited for all of those before.   *)
(***************************************************************************)
EXTENDS Integers, Sequences

CONSTANTS
    Drives,         \* the drives considered, see DriveType
    MaxForeign      \* bound: responses still due to whoever ran before us

Regions == {"for Europe", "for U/C", "for NETEU", "for NETNA", "for Japan", "other"}

Versions == {"94", "95-C1", "C2/C3", "later"}
Names == {"none", "(Europe)", "of America", "World wide"}

\* version: what the four bytes of the controller version say about the drive;
\* name: the fifth string that its unlock commands expect, if it has them.
DriveType == [version: Versions, region: Regions, name: Names]

\* The name is that of the drive's region.
Sold == {<<"for Europe", "(Europe)">>, <<"for U/C", "of America">>,
         <<"for NETEU", "World wide">>, <<"for NETNA", "World wide">>}

ASSUME DrivesAssumption ==
    /\ Drives \subseteq DriveType /\ Drives # {}
    /\ \A d \in Drives : d.name = "none" \/ <<d.region, d.name>> \in Sold
ASSUME ForeignAssumption == MaxForeign \in 0 .. 2

\* Mutant: two names exchanged.
P5Exchanged(region) == CASE region = "for Europe" -> "of America"
                         [] region = "for U/C" -> "(Europe)"
                         [] region \in {"for NETEU", "for NETNA"} -> "World wide"

\* p5_localized, for the regions that get one.
P5(region) == CASE region = "for Europe" -> "(Europe)"
                [] region = "for U/C" -> "of America"
                [] region \in {"for NETEU", "for NETNA"} -> "World wide"

Door == <<"bd50", "bd51", "bd52", "bd53", "bd54", "bd55", "bd56">>
DoorCmds == {Door[i] : i \in 1 .. 7}
Sessions == {"session1", "session2"}
Cmds == {"init", "version", "region", "laser", "stop", "getstat"} \cup DoorCmds \cup Sessions

VARIABLES
    step,       \* where the console is within the command, or between two
    cmd,        \* the command being issued
    got,        \* the responses whose interrupts its cd_wait_int calls returned
    reply,      \* what cd_read_reply stored
    goal,       \* wait_lid_status: the lid position waited for
    unlock, bugged, laser, p5,  \* loader.c:54-58
    busy,       \* status bit 7: a command was written and not executed
    sent,       \* that command
    irq,        \* the interrupt flag and what it reports, or Quiet
    fifo,       \* the reply FIFO
    queue,      \* responses that wait for the flag to be acknowledged
    serial,     \* how often a command was written, modulo 4
    drive, door,    \* the drive; how many unlock commands it took in order
    lid, disc,  \* the shell; whether a readable disc is in it
    foreign     \* somebody else's command was under way at the start

console == <<step, cmd, got, reply, goal>>
settings == <<unlock, bugged, laser, p5>>
controller == <<busy, sent, irq, fifo, queue, serial>>
tray == <<lid, disc>>
vars == <<console, settings, controller, drive, door, tray, foreign>>

\* One interrupt and its reply: the command, its serial number, which of its
\* responses, the flag, and what a check of the reply would find.
Response(c, s, n, int, ok) == [cmd |-> c, serial |-> s, n |-> n, int |-> int, ok |-> ok]
Quiet == Response("none", 0, 0, 0, FALSE)
Responses == [cmd: Cmds \cup {"none", "foreign"}, serial: 0 .. 3, n: 0 .. 2,
              int: {0, 2, 3, 5}, ok: BOOLEAN]
Due == {r \in Responses : r.int # 0}
Foreign(n, int) == Response("foreign", 0, n, int, TRUE)

Init ==
    /\ step = "prepare" /\ cmd = "init" /\ got = <<>> /\ reply = Quiet /\ goal = "open"
    /\ unlock = TRUE /\ bugged = FALSE /\ laser = FALSE /\ p5 = "none"
    /\ fifo = Quiet /\ serial = 0 /\ door = 0
    /\ drive \in Drives /\ lid \in {"open", "closed"} /\ disc \in BOOLEAN
    /\ \E left \in 0 .. MaxForeign :
          /\ foreign = (left > 0)
          /\ IF left = 0 THEN busy = FALSE /\ sent = Quiet /\ irq = Quiet /\ queue = <<>>
             ELSE \/ /\ busy = TRUE /\ sent = Foreign(left, 3)
                     /\ irq = Quiet /\ queue = <<>>
                  \/ /\ busy = FALSE /\ sent = Quiet
                     /\ irq \in {Quiet, Foreign(1, 3)}
                     /\ queue = [i \in 1 .. left |-> Foreign(i, 2)]

-----------------------------------------------------------------------------
(* cdrom.c *)

Call(c) == cmd' = c /\ step' = "prepare" /\ got' = <<>>

\* Until the previous command was executed, unless in cd_command_race; the
\* reply FIFO is cleared.
Prepare ==
    /\ step = "prepare" /\ (cmd = "init" \/ ~busy)
    /\ step' = "clear" /\ fifo' = Quiet
    /\ UNCHANGED <<cmd, got, reply, goal, settings, busy, sent, irq, queue, serial,
                   drive, door, tray, foreign>>

\* Interrupts of anything earlier are acknowledged and forgotten.
Clear ==
    /\ step = "clear" /\ step' = "write" /\ irq' = Quiet
    /\ UNCHANGED <<cmd, got, reply, goal, settings, busy, sent, fifo, queue, serial,
                   drive, door, tray, foreign>>

Write ==
    /\ step = "write" /\ step' = "wait"
    /\ busy' = TRUE /\ serial' = (serial + 1) % 4
    /\ sent' = Response(cmd, serial', 1, 0, cmd = "bd55" => p5 = drive.name)
    /\ UNCHANGED <<cmd, got, reply, goal, settings, irq, fifo, queue,
                   drive, door, tray, foreign>>

\* Mutant: whatever is pending is acknowledged before the polling starts.
WaitIdleAcking ==
    /\ step = "wait" /\ (cmd = "init" \/ ~busy)
    /\ step' = "poll" /\ irq' = Quiet
    /\ UNCHANGED <<cmd, got, reply, goal, settings, busy, sent, fifo, queue, serial,
                   drive, door, tray, foreign>>

\* cd_wait_int waits for the command first, cd_wait_int_race does not.
WaitIdle ==
    /\ step = "wait" /\ (cmd = "init" \/ ~busy)
    /\ step' = "poll"
    /\ UNCHANGED <<cmd, got, reply, goal, settings, controller, drive, door, tray, foreign>>

Poll ==
    /\ step = "poll" /\ irq # Quiet
    /\ step' = "ack" /\ got' = Append(got, irq)
    /\ UNCHANGED <<cmd, reply, goal, settings, controller, drive, door, tray, foreign>>

TwoAnswers == Sessions \cup {"stop"}

\* Mutant: cd_drive_init waits three times.
WaitAgainTwice == (cmd = "init" /\ Len(got) <= 2)
                  \/ (Len(got) = 1 /\ cmd \in TwoAnswers /\ got[1].int # 5)

\* Mutant: the first interrupt of a session command is taken for its end.
WaitAgainNotForSession == Len(got) = 1 /\ (cmd = "init" \/ (cmd = "stop" /\ got[1].int # 5))

\* Mutant: the second interrupt is waited for, whatever the first one was.
WaitAgainAlways == Len(got) = 1 /\ cmd \in TwoAnswers \cup {"init"}

\* The caller waits for a second interrupt: cd_drive_init always, the others
\* unless the first one was an error.
WaitAgain == Len(got) = 1 /\ (cmd = "init" \/ (cmd \in TwoAnswers /\ got[1].int # 5))

WantReply ==
    \/ cmd \in {"version", "getstat"}
    \/ cmd = "region" /\ got[1].int = 3
    \/ cmd \in DoorCmds /\ got[1].int = 5

\* The interrupt is acknowledged.
Ack ==
    /\ step = "ack" /\ irq' = Quiet
    /\ step' = IF WaitAgain THEN "wait" ELSE IF WantReply THEN "read" ELSE "done"
    /\ UNCHANGED <<cmd, got, reply, goal, settings, busy, sent, fifo, queue, serial,
                   drive, door, tray, foreign>>

\* cd_read_reply, into a buffer on the stack: what the reply does not fill
\* keeps whatever was there.
ReadReply ==
    /\ step = "read" /\ step' = "done" /\ reply' = fifo /\ fifo' = Quiet
    /\ UNCHANGED <<cmd, got, goal, settings, busy, sent, irq, queue, serial,
                   drive, door, tray, foreign>>

-----------------------------------------------------------------------------
(* loader.c *)

\* In every action below the command is done with, and the controller and the
\* drive are left alone.
Done(c) ==
    /\ step = "done" /\ cmd = c
    /\ UNCHANGED <<reply, controller, drive, door, tray, foreign>>

\* loader_init_drive returns, loader_boot_disc is called.
ToAttempt == step' = "attempt" /\ UNCHANGED <<cmd, got>>

AfterInit == Done("init") /\ Call("version") /\ UNCHANGED <<goal, settings>>

\* If the reply is another command's, the four bytes were not all written.
AfterVersion ==
    /\ Done("version")
    /\ \E v \in (IF reply.cmd = "version" THEN {drive.version} ELSE Versions) :
          /\ bugged' = (v \in {"94", "95-C1"}) /\ laser' = (v = "C2/C3")
          /\ unlock' = (v # "94")
          /\ IF v = "94" THEN ToAttempt ELSE Call("region")
    /\ UNCHANGED <<goal, p5>>

AfterRegion ==
    /\ Done("region")
    /\ LET region == IF got[1].int = 3 /\ reply.cmd = "region" THEN drive.region ELSE "other"
       IN  IF region \in {"for Japan", "other"}
           THEN unlock' = FALSE /\ ToAttempt /\ UNCHANGED p5
           ELSE p5' = P5(region) /\ Call("bd50") /\ UNCHANGED unlock
    /\ UNCHANGED <<goal, bugged, laser>>

\* Mutant: backdoor_cmd looks at the interrupt but not into the reply.
AfterDoorUnread ==
    \E i \in 1 .. 7 :
        /\ Done(Door[i])
        /\ IF got[1].int # 5 THEN unlock' = FALSE /\ ToAttempt
           ELSE UNCHANGED unlock /\ IF i = 7 THEN ToAttempt ELSE Call(Door[i + 1])
        /\ UNCHANGED <<goal, bugged, laser, p5>>

\* backdoor_cmd wants an error of two bytes, 40h in the second.
AfterDoor ==
    \E i \in 1 .. 7 :
        /\ Done(Door[i])
        /\ IF got[1].int # 5 \/ ~reply.ok THEN unlock' = FALSE /\ ToAttempt
           ELSE UNCHANGED unlock /\ IF i = 7 THEN ToAttempt ELSE Call(Door[i + 1])
        /\ UNCHANGED <<goal, bugged, laser, p5>>

Attempt ==
    /\ step = "attempt"
    /\ Call(IF unlock THEN "stop" ELSE IF bugged THEN "session2" ELSE "session1")
    /\ UNCHANGED <<reply, goal, settings, controller, drive, door, tray, foreign>>

AfterSession2 == Done("session2") /\ Call("session1") /\ UNCHANGED <<goal, settings>>

AfterSession1 ==
    /\ Done("session1") /\ Call(IF laser THEN "laser" ELSE "stop")
    /\ UNCHANGED <<goal, settings>>

AfterLaser == Done("laser") /\ Call("stop") /\ UNCHANGED <<goal, settings>>

\* The kernel's CdInit and CdReadSector: its own driver takes the controller
\* over and leaves nothing pending.  The read may fail for any reason; a disc
\* that was read may still not start, and the next attempt follows.
KernelReads ==
    /\ step = "done" /\ cmd = "stop"
    /\ busy' = FALSE /\ sent' = Quiet /\ irq' = Quiet /\ queue' = <<>>
    /\ fifo' = Quiet /\ UNCHANGED serial
    /\ \/ lid = "closed" /\ disc /\ step' \in {"attempt", "booted"} /\ UNCHANGED <<cmd, got, goal>>
       \/ Call("getstat") /\ goal' = "open"
    /\ UNCHANGED <<reply, settings, drive, door, tray, foreign>>

AfterGetstat ==
    /\ Done("getstat")
    /\ IF reply.ok # (goal = "open") THEN Call("getstat") /\ UNCHANGED goal
       ELSE IF goal = "open" THEN Call("getstat") /\ goal' = "closed"
       ELSE Call("stop") /\ UNCHANGED goal
    /\ UNCHANGED settings

-----------------------------------------------------------------------------
(* The controller, and the user *)

Answer(n, int, ok) == Response(sent.cmd, sent.serial, n, int, ok)
One(int, ok) == <<Answer(1, int, ok)>>
Two(int) == <<Answer(1, 3, TRUE), Answer(2, int, TRUE)>>
Opens == \E i \in 1 .. 7 : sent.cmd = Door[i] /\ door = i - 1 /\ drive.name # "none" /\ sent.ok

Answers ==
    CASE sent.cmd = "foreign" -> {IF sent.n = 2 THEN <<Foreign(1, 3), Foreign(2, 2)>>
                                                ELSE <<Foreign(1, 3)>>}
      [] sent.cmd = "init" -> {Two(2)}
      [] sent.cmd \in {"version", "laser"} -> {One(3, TRUE)}
      [] sent.cmd = "region" -> {One(IF drive.version = "94" THEN 5 ELSE 3, TRUE)}
      [] sent.cmd \in DoorCmds -> IF Opens THEN {One(5, TRUE)} ELSE {One(5, FALSE), One(3, TRUE)}
      [] sent.cmd \in Sessions -> {One(5, TRUE), Two(2), Two(5)}
      [] sent.cmd = "stop" -> (IF lid = "closed" THEN {Two(2)} ELSE {})
                              \cup (IF disc /\ lid = "closed" THEN {} ELSE {One(5, TRUE)})
      [] sent.cmd = "getstat" -> {One(3, lid = "open")}

\* The command written last is executed; init may drop what is still queued.
Execute ==
    /\ busy /\ busy' = FALSE /\ sent' = Quiet
    /\ \E kept \in {queue} \cup (IF sent.cmd = "init" THEN {<<>>} ELSE {}), a \in Answers :
          queue' = kept \o a
    /\ door' = IF sent.cmd \notin DoorCmds THEN door ELSE IF Opens THEN door + 1 ELSE 0
    /\ UNCHANGED <<console, settings, irq, fifo, serial, drive, tray, foreign>>

Raise ==
    /\ irq = Quiet /\ queue # <<>>
    /\ irq' = Head(queue) /\ fifo' = Head(queue) /\ queue' = Tail(queue)
    /\ UNCHANGED <<console, settings, busy, sent, serial, drive, door, tray, foreign>>

User ==
    /\ \/ lid = "closed" /\ lid' = "open" /\ UNCHANGED disc
       \/ lid = "open" /\ lid' = "closed" /\ disc' \in BOOLEAN
    /\ UNCHANGED <<console, settings, controller, drive, door, foreign>>

-----------------------------------------------------------------------------
Port == Prepare \/ Clear \/ Write \/ WaitIdle \/ Poll \/ Ack \/ ReadReply

Loader ==
    \/ AfterInit \/ AfterVersion \/ AfterRegion \/ AfterDoor \/ Attempt
    \/ AfterSession2 \/ AfterSession1 \/ AfterLaser \/ KernelReads \/ AfterGetstat

Next == Port \/ Loader \/ Execute \/ Raise \/ User

Spec == Init /\ [][Next]_vars

\* The processor keeps executing and the controller keeps working.
FairSpec == Spec /\ WF_vars(Port \/ Loader) /\ WF_vars(Execute) /\ WF_vars(Raise)

-----------------------------------------------------------------------------
(* Properties *)

\* The variables keep their types; no command collects more than two responses.
TypeOK ==
    /\ step \in {"prepare", "clear", "write", "wait", "poll", "ack", "read", "done",
                 "attempt", "booted"}
    /\ cmd \in Cmds /\ got \in Seq(Due) /\ Len(got) <= 2
    /\ reply \in Due \cup {Quiet} /\ goal \in {"open", "closed"}
    /\ unlock \in BOOLEAN /\ bugged \in BOOLEAN /\ laser \in BOOLEAN /\ p5 \in Names
    /\ busy \in BOOLEAN /\ sent \in Responses /\ {irq, fifo} \subseteq Due \cup {Quiet}
    /\ queue \in Seq(Due) /\ serial \in 0 .. 3
    /\ drive \in Drives /\ door \in 0 .. 7
    /\ lid \in {"open", "closed"} /\ disc \in BOOLEAN /\ foreign \in BOOLEAN

\* All the interrupts that may answer a command.
Final == [c \in Cmds |->
    CASE c = "init" -> {<<3, 2>>}
      [] c \in {"version", "laser", "getstat"} -> {<<3>>}
      [] c \in {"region"} \cup DoorCmds -> {<<3>>, <<5>>}
      [] c \in Sessions -> {<<5>>, <<3, 2>>, <<3, 5>>}
      [] c = "stop" -> {<<5>>, <<3, 2>>}]

InCall == step \in {"wait", "poll", "ack", "read"}

Taken(r) == [own |-> r.cmd = cmd /\ r.serial = serial, n |-> r.n, int |-> r.int]

Calls == INSTANCE CdCalls WITH
    None <- "none",
    call <- IF InCall THEN cmd ELSE "none",
    taken <- IF InCall THEN [i \in DOMAIN got |-> Taken(got[i])] ELSE <<>>,
    clean <- ~foreign

\* A command is a call that returns with exactly its own responses, all of
\* them: none is left for the next command to take for its own, and none of an
\* earlier command is taken, whatever was acknowledged or polled in between
\* (cdrom.c:31-121); unless somebody else's command was under way when the
\* loader started, it then still returns.
ImplementsCalls == Calls!Spec

\* Nobody waits for an interrupt that is not coming: cd_drive_init waits twice
\* whatever it gets, stop on an empty drive answers only once.
AwaitedIsComing == step = "poll" => irq # Quiet \/ busy \/ queue # <<>>

\* The loader goes on without the session commands only if the drive took the
\* seven unlock commands in their order.
UnlockIsReal == step = "attempt" /\ unlock => door = 7

\* A drive that can be unlocked is, unless a late answer to somebody else's
\* command was taken for one to ours.
Unlockable == /\ drive.version # "94" /\ drive.region \notin {"for Japan", "other"}
              /\ drive.name # "none"
UnlockIfPossible == step = "attempt" /\ ~foreign => (unlock <=> Unlockable)

\* The loader is never stuck in a command, also if a command of somebody else
\* was under way when it started (cdrom.c:141), if the drive is empty, or if
\* the lid is moved meanwhile.
NeverStuck == []<>(step \in {"done", "booted"})
=============================================================================
