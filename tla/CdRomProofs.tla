----------------------------- MODULE CdRomProofs -----------------------------
(***************************************************************************)
(* For every set of drives and whoever ran before: nobody waits in vain,   *)
(* the loader's unlock state is true, and the register accesses implement  *)
(* the calls of CdCalls (safety; that every call returns is left to TLC).  *)
(*                                                                         *)
(* The inductive invariant has a part for each question.  WaitInv counts   *)
(* the responses still due.  OwnInv says where the answer to the command   *)
(* under way is: unwritten, executing, queued, in the flag, taken or read; *)
(* it holds unless somebody else's command was under way at the start.     *)
(* RegionInv says that after the reply to the region command nothing of    *)
(* somebody else's is left, so that OwnInv holds for the unlock commands   *)
(* in any case.  DoorInv and KnownInv relate what the loader concluded to  *)
(* the drive.                                                              *)
(***************************************************************************)
EXTENDS CdRom, SequenceTheorems, TLAPS

-----------------------------------------------------------------------------
(* Waiting: this part holds whoever ran before. *)

\* The caller waits for two interrupts; two are due, or one that is an error.
WantsTwo == cmd = "init" \/ cmd \in TwoAnswers
Enough ==
    IF irq # Quiet THEN queue # <<>> \/ (irq.int = 5 /\ cmd # "init")
    ELSE queue # <<>> /\ (Len(queue) >= 2 \/ (queue[1].int = 5 /\ cmd # "init"))

WaitInv ==
    /\ busy => sent.cmd # "none"
    /\ busy /\ step \in {"wait", "poll", "ack"} => sent.cmd = cmd
    /\ busy /\ step \in {"wait", "poll", "ack"} /\ cmd # "init" => step = "wait" /\ got = <<>>
    /\ busy /\ sent.cmd # "foreign" => sent.int = 0 /\ sent.n = 1
    /\ step \in {"read", "done", "attempt"} /\ cmd # "init" => ~busy
    /\ step \in {"prepare", "clear", "write"} /\ cmd \notin {"init", "version"} => ~busy
    /\ step \in {"clear", "write"} /\ cmd # "init" => ~busy
    /\ busy /\ cmd \notin {"init", "version"} => step = "wait"
    /\ step = "attempt" => cmd # "init"
    /\ step \in {"wait", "poll"} => Len(got) <= 1 /\ (got # <<>> => WantsTwo)
    /\ step \in {"wait", "poll"} /\ got = <<>> /\ ~busy =>
          IF WantsTwo THEN Enough ELSE irq # Quiet \/ queue # <<>>
    /\ step \in {"wait", "poll"} /\ got # <<>> => busy \/ irq # Quiet \/ queue # <<>>
    /\ step = "ack" => irq # Quiet /\ got # <<>>
    /\ step = "read" => got # <<>>
    /\ step = "ack" /\ WaitAgain => busy \/ queue # <<>>
    /\ step \in {"prepare", "clear", "write"} => got = <<>>

-----------------------------------------------------------------------------
(* The region: a reply that is taken for the region's is the last one due. *)

IsRegion(r) == r.cmd = "region"
NoRegion ==
    /\ ~IsRegion(irq) /\ ~IsRegion(fifo) /\ ~IsRegion(reply)
    /\ \A i \in DOMAIN queue : ~IsRegion(queue[i])

RegionInv ==
    /\ cmd \in {"init", "version"} \/ (cmd = "region" /\ (busy \/ step \in {"prepare", "clear", "write"}))
          => NoRegion
    /\ cmd \in {"init", "version"} => sent.cmd # "region"
    /\ cmd = "region" =>
          /\ IsRegion(irq) \/ IsRegion(fifo) \/ IsRegion(reply) => queue = <<>>
          /\ \A i \in DOMAIN queue : IsRegion(queue[i]) => i = Len(queue)

-----------------------------------------------------------------------------
(* Own answers: if nothing was under way, and for the unlock commands. *)

Clean == ~foreign \/ cmd \in DoorCmds

First(r) == r.cmd = cmd /\ r.serial = serial /\ r.n = 1
Second(r) == r.cmd = cmd /\ r.serial = serial /\ r.n = 2
Single(r) ==
    /\ First(r)
    /\ \/ cmd \in {"version", "laser", "getstat"} /\ r.int = 3
       \/ cmd = "region" /\ r.int = (IF drive.version = "94" THEN 5 ELSE 3)
       \/ cmd \in DoorCmds /\ r.int \in {3, 5}
       \/ cmd \in TwoAnswers /\ r.int = 5
Pair(r, s) ==
    /\ First(r) /\ Second(s) /\ r.int = 3
    /\ \/ cmd \in {"init", "stop"} /\ s.int = 2
       \/ cmd \in Sessions /\ s.int \in {2, 5}

NotYet == step \in {"wait", "poll"}

\* Where the one answer is, or the two.
OneDue(r) ==
    \/ NotYet /\ got = <<>> /\ irq = Quiet /\ queue = <<r>>
    \/ NotYet /\ got = <<>> /\ irq = r /\ fifo = r /\ queue = <<>>
    \/ step = "ack" /\ got = <<r>> /\ irq = r /\ fifo = r /\ queue = <<>>
    \/ step = "read" /\ got = <<r>> /\ irq = Quiet /\ fifo = r /\ queue = <<>>
    \/ step = "done" /\ got = <<r>> /\ irq = Quiet /\ queue = <<>> /\ (WantReply => reply = r)
TwoDue(r, s) ==
    \/ NotYet /\ got = <<>> /\ irq = Quiet /\ queue = <<r, s>>
    \/ NotYet /\ got = <<>> /\ irq = r /\ queue = <<s>>
    \/ step = "ack" /\ got = <<r>> /\ irq = r /\ queue = <<s>>
    \/ NotYet /\ got = <<r>> /\ irq = Quiet /\ queue = <<s>>
    \/ NotYet /\ got = <<r>> /\ irq = s /\ queue = <<>>
    \/ step = "ack" /\ got = <<r, s>> /\ irq = s /\ queue = <<>>
    \/ step = "done" /\ got = <<r, s>> /\ irq = Quiet /\ queue = <<>>

\* What the answer to an unlock command says about the drive.
Opened(r) == r.int = 5 /\ r.ok
DoorEffect(r) ==
    \A i \in 1 .. 7 : cmd = Door[i] =>
        /\ Opened(r) => door = i /\ drive.name # "none" /\ (cmd = "bd55" => p5 = drive.name)
        /\ ~Opened(r) => drive.name = "none" \/ (cmd = "bd55" /\ p5 # drive.name)

\* The command was written, or executed and its answer is under way.
Executing ==
    /\ busy /\ step \in {"wait", "poll"} /\ irq = Quiet /\ queue = <<>> /\ got = <<>>
    /\ sent = Response(cmd, serial, 1, 0, cmd = "bd55" => p5 = drive.name)
Answered ==
    /\ ~busy
    /\ \/ \E r \in Due : Single(r) /\ DoorEffect(r) /\ OneDue(r)
       \/ \E r, s \in Due : Pair(r, s) /\ TwoDue(r, s)

Within == {"wait", "poll", "ack", "read", "done"}

OwnInv ==
    Clean =>
        /\ step \in {"prepare", "clear", "attempt"} => queue = <<>> /\ ~busy
        /\ step = "write" => queue = <<>> /\ ~busy /\ irq = Quiet
        /\ step \in Within => Executing \/ Answered

-----------------------------------------------------------------------------
(* What the loader knows about the drive. *)

Early == {"init", "version", "region"}

DoorInv ==
    /\ cmd \in Early /\ step # "attempt" => unlock /\ door = 0
    /\ \A i \in 1 .. 7 : cmd = Door[i] /\ step # "attempt" =>
          unlock /\ (busy \/ step \in {"prepare", "clear", "write"} => door = i - 1)
    /\ step # "attempt" /\ cmd \notin Early \cup DoorCmds => (unlock => door = 7)
    /\ busy /\ sent.cmd \in DoorCmds => cmd = sent.cmd

Reach == drive.region \notin {"for Japan", "other"}

KnownInv ==
    ~foreign =>
        /\ cmd = "region" /\ step # "attempt" => drive.version # "94"
        /\ cmd \in DoorCmds /\ step # "attempt" =>
              drive.version # "94" /\ Reach /\ p5 = P5(drive.region)
        /\ step # "attempt" /\ cmd \notin Early \cup DoorCmds => (unlock <=> Unlockable)

CdInvariant ==
    TypeOK /\ WaitInv /\ RegionInv /\ OwnInv /\ DoorInv /\ KnownInv /\ UnlockIsReal /\ UnlockIfPossible

-----------------------------------------------------------------------------
(* The controller's answers *)

\* One response to the command that was executed, or two.
OneAnswer(a) ==
    \E r \in Due :
        /\ a = <<r>> /\ r.cmd = sent.cmd /\ r.serial = sent.serial /\ r.n = 1
        /\ \/ sent.cmd \in {"version", "laser", "getstat"} /\ r.int = 3
           \/ sent.cmd = "region" /\ r.int = (IF drive.version = "94" THEN 5 ELSE 3)
           \/ sent.cmd \in DoorCmds /\ r.int \in {3, 5} /\ (Opened(r) <=> Opens)
           \/ sent.cmd \in TwoAnswers /\ r.int = 5
TwoAnswer(a) ==
    \E r, s \in Due :
        /\ a = <<r, s>> /\ r.cmd = sent.cmd /\ r.serial = sent.serial /\ r.n = 1 /\ r.int = 3
        /\ s.cmd = sent.cmd /\ s.serial = sent.serial /\ s.n = 2
        /\ \/ sent.cmd \in {"init", "stop"} /\ s.int = 2
           \/ sent.cmd \in Sessions /\ s.int \in {2, 5}
ForeignAnswer(a) ==
    /\ sent.cmd = "foreign" /\ a \in Seq(Due) /\ a # <<>>
    /\ \A i \in DOMAIN a : a[i].cmd = "foreign"

\* The seven unlock commands, by name.
LEMMA DoorFact ==
    /\ DoorCmds = {"bd50", "bd51", "bd52", "bd53", "bd54", "bd55", "bd56"}
    /\ Door[1] = "bd50" /\ Door[2] = "bd51" /\ Door[3] = "bd52" /\ Door[4] = "bd53"
    /\ Door[5] = "bd54" /\ Door[6] = "bd55" /\ Door[7] = "bd56"
<1>1. /\ Door[1] = "bd50" /\ Door[2] = "bd51" /\ Door[3] = "bd52" /\ Door[4] = "bd53"
      /\ Door[5] = "bd54" /\ Door[6] = "bd55" /\ Door[7] = "bd56"
  BY DEF Door
<1>2. 1 .. 7 = {1, 2, 3, 4, 5, 6, 7}
  OBVIOUS
<1>3. DoorCmds = {Door[1], Door[2], Door[3], Door[4], Door[5], Door[6], Door[7]}
  BY <1>2, Zenon DEF DoorCmds
<1> QED
  BY <1>1, <1>3

\* A response with an interrupt in it is one that may be due.
LEMMA ResponseFact ==
    ASSUME NEW c \in Cmds, NEW s \in 0 .. 3, NEW n \in 0 .. 2, NEW int \in {2, 3, 5},
           NEW ok \in BOOLEAN
    PROVE  LET r == Response(c, s, n, int, ok)
           IN  /\ r \in Due /\ r.cmd = c /\ r.serial = s /\ r.n = n
               /\ r.int = int /\ r.ok = ok
BY DEF Response, Responses, Due

\* The controller answers with one response, with two, or to somebody else.
LEMMA AnswerFact ==
    ASSUME sent \in Responses, sent.cmd # "none", NEW a \in Answers
    PROVE  OneAnswer(a) \/ TwoAnswer(a) \/ ForeignAnswer(a)
<1>0. sent.cmd \in Cmds \cup {"foreign"} /\ sent.serial \in 0 .. 3
  BY DEF Responses
<1>1. CASE sent.cmd = "foreign"
  <2> DEFINE r == Foreign(1, 3)
             s == Foreign(2, 2)
  <2>1. r \in Due /\ r.cmd = "foreign"
    BY DEF Foreign, Response, Due, Responses
  <2>2. s \in Due /\ s.cmd = "foreign"
    BY DEF Foreign, Response, Due, Responses
  <2>3. a = <<r, s>> \/ a = <<r>>
    BY <1>1, DoorFact DEF Answers, Sessions
  <2> HIDE DEF r, s
  <2>4. CASE a = <<r>>
    BY <1>1, <2>1, <2>4 DEF ForeignAnswer
  <2>5. CASE a = <<r, s>>
    <3>1. a \in Seq(Due) /\ a # <<>> /\ DOMAIN a = {1, 2} /\ a[1] = r /\ a[2] = s
      BY <2>1, <2>2, <2>5
    <3> QED
      BY <1>1, <2>1, <2>2, <3>1 DEF ForeignAnswer
  <2> QED
    BY <2>3, <2>4, <2>5
<1>2. ASSUME sent.cmd \in Cmds, NEW int \in {3, 5}, NEW ok \in BOOLEAN, a = One(int, ok),
             \/ sent.cmd \in {"version", "laser", "getstat"} /\ int = 3
             \/ sent.cmd = "region" /\ int = (IF drive.version = "94" THEN 5 ELSE 3)
             \/ sent.cmd \in DoorCmds /\ (int = 5 /\ ok <=> Opens)
             \/ sent.cmd \in TwoAnswers /\ int = 5
      PROVE  OneAnswer(a)
  <2> DEFINE r == Answer(1, int, ok)
  <2>1. sent.cmd \in Cmds /\ sent.serial \in 0 .. 3
    BY <1>2, <1>0
  <2>2. r \in Due /\ r.cmd = sent.cmd /\ r.serial = sent.serial /\ r.n = 1 /\ r.int = int /\ r.ok = ok
    BY <2>1, ResponseFact DEF Answer
  <2>3. a = <<r>>
    BY <1>2 DEF One
  <2> HIDE DEF r
  <2> QED
    BY <1>2, <2>1, <2>2, <2>3 DEF OneAnswer, Opened
<1>3. ASSUME sent.cmd \in Cmds, NEW int \in {2, 5}, a = Two(int),
             \/ sent.cmd \in {"init", "stop"} /\ int = 2
             \/ sent.cmd \in Sessions
      PROVE  TwoAnswer(a)
  <2> DEFINE r == Answer(1, 3, TRUE)
             s == Answer(2, int, TRUE)
  <2>0. sent.cmd \in Cmds /\ sent.serial \in 0 .. 3
    BY <1>3, <1>0
  <2>1. r \in Due /\ r.cmd = sent.cmd /\ r.serial = sent.serial /\ r.n = 1 /\ r.int = 3
    BY <2>0 DEF Answer, Response, Responses, Due
  <2>2. s \in Due /\ s.cmd = sent.cmd /\ s.serial = sent.serial /\ s.n = 2 /\ s.int = int
    BY <2>0 DEF Answer, Response, Responses, Due
  <2>3. a = <<r, s>>
    BY <1>3 DEF Two
  <2> HIDE DEF r, s
  <2> QED
    BY <1>3, <2>1, <2>2, <2>3 DEF TwoAnswer
<1>40. sent.cmd # "foreign" => sent.cmd \in Cmds
  BY <1>0
<1>4. CASE sent.cmd = "init"
  <2>1. a = Two(2)
    BY <1>4, DoorFact DEF Answers, Sessions
  <2> QED
    BY <1>40, <1>3, <1>4, <2>1
<1>5. CASE sent.cmd \in {"version", "laser"}
  <2>1. a = One(3, TRUE)
    BY <1>5, DoorFact DEF Answers, Sessions
  <2> QED
    BY <1>40, <1>2, <1>5, <2>1
<1>6. CASE sent.cmd = "region"
  <2>1. a = One(IF drive.version = "94" THEN 5 ELSE 3, TRUE)
    BY <1>6, DoorFact DEF Answers, Sessions
  <2> QED
    BY <1>40, <1>2, <1>6, <2>1
<1>7. CASE sent.cmd \in DoorCmds
  <2>2. IF Opens THEN a = One(5, TRUE) ELSE a = One(5, FALSE) \/ a = One(3, TRUE)
    BY <1>7, DoorFact DEF Answers, Sessions
  <2> QED
    BY <1>40, <1>2, <1>7, <2>2, DoorFact
<1>8. CASE sent.cmd \in Sessions
  <2>2. a = One(5, TRUE) \/ a = Two(2) \/ a = Two(5)
    BY <1>8, DoorFact DEF Answers, Sessions
  <2> QED
    BY <1>40, <1>2, <1>3, <1>8, <2>2 DEF TwoAnswers, Sessions
<1>9. CASE sent.cmd = "stop"
  <2>2. a = One(5, TRUE) \/ a = Two(2)
    BY <1>9, DoorFact DEF Answers, Sessions
  <2> QED
    BY <1>40, <1>2, <1>3, <1>9, <2>2 DEF TwoAnswers
<1>10. CASE sent.cmd = "getstat"
  <2>2. a = One(3, lid = "open")
    BY <1>10, DoorFact DEF Answers, Sessions
  <2>3. (lid = "open") \in BOOLEAN
    OBVIOUS
  <2> QED
    BY <1>40, <1>2, <1>10, <2>2, <2>3
<1> QED
  BY <1>1, <1>4, <1>5, <1>6, <1>7, <1>8, <1>9, <1>10 DEF Responses, Cmds
-----------------------------------------------------------------------------
(* Sequences of responses *)

\* What appending a non-empty answer does to the queue.
LEMMA ConcatFact ==
    ASSUME NEW T, NEW q \in Seq(T), NEW a \in Seq(T), a # <<>>
    PROVE  /\ q \o a \in Seq(T) /\ q \o a # <<>> /\ Len(q \o a) = Len(q) + Len(a)
           /\ q # <<>> => (q \o a)[1] = q[1] /\ Len(q \o a) >= 2
           /\ q = <<>> => q \o a = a
<1>1. q \o a \in Seq(T) /\ Len(q \o a) = Len(q) + Len(a)
  OBVIOUS
<1>2. Len(a) >= 1 /\ q \o a # <<>>
  BY <1>1
<1>3. ASSUME q # <<>>
      PROVE  (q \o a)[1] = q[1] /\ Len(q \o a) >= 2
  <2>1. Len(q) >= 1
    BY <1>3
  <2> QED
    BY <1>1, <1>2, <2>1
<1>4. ASSUME q = <<>>
      PROVE  q \o a = a
  BY <1>4, ConcatEmptySeq
<1> QED
  BY <1>1, <1>2, <1>3, <1>4

\* What taking the head of a queue leaves.
LEMMA TailFact ==
    ASSUME NEW T, NEW q \in Seq(T), q # <<>>
    PROVE  /\ Head(q) = q[1] /\ Head(q) \in T /\ Tail(q) \in Seq(T)
           /\ Len(q) >= 2 => Tail(q) # <<>>
<1>1. Len(q) \in Nat /\ Len(q) >= 1 /\ Head(q) = q[1] /\ q[1] \in T
  OBVIOUS
<1>2. Tail(q) \in Seq(T) /\ Len(Tail(q)) = Len(q) - 1
  BY HeadTailProperties
<1>3. ASSUME Len(q) >= 2
      PROVE  Tail(q) # <<>>
  <2> DEFINE t == Tail(q)
  <2>1. t \in Seq(T) /\ Len(t) = Len(q) - 1
    BY <1>2
  <2> HIDE DEF t
  <2>2. t # <<>>
    BY <1>1, <1>3, <2>1
  <2> QED
    BY <2>2 DEF t
<1> QED
  BY <1>1, <1>2, <1>3

\* Quiet is no response, and every response has one of three interrupts.
LEMMA DueFact ==
    /\ Quiet \in Responses /\ Quiet \notin Due /\ Quiet.int = 0 /\ Quiet.cmd = "none"
    /\ \A r \in Due : r \in Responses /\ r.int \in {2, 3, 5}
<1>1. Quiet \in Responses /\ Quiet.int = 0 /\ Quiet.cmd = "none"
  BY DEF Quiet, Response, Responses
<1>2. \A r \in Due : r \in Responses /\ r.int \in {2, 3, 5}
  BY DEF Due, Responses
<1> QED
  BY <1>1, <1>2

\* An answer is never empty, and a command that is waited for twice answers
\* twice or with an error.
LEMMA AnswerType ==
    ASSUME sent \in Responses, sent.cmd # "none", NEW a \in Answers
    PROVE  /\ a \in Seq(Due) /\ a # <<>>
           /\ sent.cmd \in TwoAnswers \cup {"init"} =>
                Len(a) = 2 \/ (a[1].int = 5 /\ sent.cmd # "init")
<1>1. CASE OneAnswer(a)
  <2> PICK r \in Due : /\ a = <<r>>
                       /\ \/ sent.cmd \in {"version", "laser", "getstat"}
                          \/ sent.cmd = "region"
                          \/ sent.cmd \in DoorCmds
                          \/ sent.cmd \in TwoAnswers /\ r.int = 5
    BY <1>1 DEF OneAnswer
  <2>1. sent.cmd \in TwoAnswers \cup {"init"} => r.int = 5 /\ sent.cmd # "init"
    BY DoorFact DEF TwoAnswers, Sessions
  <2> QED
    BY <2>1
<1>2. CASE TwoAnswer(a)
  <2> PICK r \in Due, s \in Due : a = <<r, s>>
    BY <1>2 DEF TwoAnswer
  <2> QED
    OBVIOUS
<1>3. CASE ForeignAnswer(a)
  BY <1>3 DEF ForeignAnswer, TwoAnswers, Sessions
<1> QED
  BY <1>1, <1>2, <1>3, AnswerFact

-----------------------------------------------------------------------------
(* Types, and waiting *)

\* The groups of commands are disjoint.
LEMMA CmdFact ==
    /\ DoorCmds \subseteq Cmds /\ Sessions \subseteq Cmds
    /\ \A i \in 1 .. 7 : Door[i] \in DoorCmds
    /\ \A i \in 1 .. 6 : i + 1 \in 1 .. 7
    /\ DoorCmds \cap ({"init", "version", "region", "laser", "stop", "getstat", "none", "foreign"}
                      \cup Sessions) = {}
    /\ Sessions \cap {"init", "version", "region", "laser", "stop", "getstat", "none", "foreign"} = {}
<1>1. /\ DoorCmds \subseteq Cmds /\ Sessions \subseteq Cmds
  BY DEF Cmds
<1>2. \A i \in 1 .. 7 : Door[i] \in DoorCmds
  BY DEF DoorCmds
<1>3. \A i \in 1 .. 6 : i + 1 \in 1 .. 7
  OBVIOUS
<1>4. DoorCmds \cap ({"init", "version", "region", "laser", "stop", "getstat", "none", "foreign"}
                     \cup Sessions) = {}
  BY DoorFact DEF Sessions
<1>5. Sessions \cap {"init", "version", "region", "laser", "stop", "getstat", "none", "foreign"} = {}
  BY DEF Sessions
<1> QED
  BY <1>1, <1>2, <1>3, <1>4, <1>5

\* A drive has a version, a region and a name.
LEMMA DriveFact ==
    ASSUME drive \in Drives
    PROVE  drive.version \in Versions /\ drive.region \in Regions /\ drive.name \in Names
BY DrivesAssumption DEF DriveType

\* The fifth string is one of the names.
LEMMA P5Fact ==
    ASSUME NEW region \in Regions \ {"for Japan", "other"}
    PROVE  P5(region) \in Names
BY DEF P5, Regions, Names

\* The variables start within their types.
LEMMA TypeInit == Init => TypeOK
<1> SUFFICES ASSUME Init PROVE TypeOK
  OBVIOUS
<1>1. got \in Seq(Due) /\ Len(got) <= 2
  BY DEF Init
<1>2. PICK left \in 0 .. MaxForeign :
        IF left = 0 THEN busy = FALSE /\ sent = Quiet /\ irq = Quiet /\ queue = <<>>
        ELSE \/ /\ busy = TRUE /\ sent = Foreign(left, 3)
                /\ irq = Quiet /\ queue = <<>>
             \/ /\ busy = FALSE /\ sent = Quiet
                /\ irq \in {Quiet, Foreign(1, 3)}
                /\ queue = [i \in 1 .. left |-> Foreign(i, 2)]
  BY DEF Init
<1>3. left \in 0 .. 2
  BY ForeignAssumption
<1>4. \A i \in 1 .. 2 : Foreign(i, 2) \in Due /\ Foreign(i, 3) \in Due
  BY DEF Foreign, Response, Due, Responses
<1>5. left # 0 => [i \in 1 .. left |-> Foreign(i, 2)] \in Seq(Due)
  <2>1. SUFFICES ASSUME left # 0 PROVE [i \in 1 .. left |-> Foreign(i, 2)] \in Seq(Due)
    OBVIOUS
  <2>2. \A i \in 1 .. left : Foreign(i, 2) \in Due
    BY <1>3, <1>4
  <2> QED
    BY <1>3, <2>2
<1>6. busy \in BOOLEAN /\ sent \in Responses /\ irq \in Due \cup {Quiet} /\ queue \in Seq(Due)
  <2>1. CASE left = 0
    <3>1. busy = FALSE /\ sent = Quiet /\ irq = Quiet /\ queue = <<>>
      BY <1>2, <2>1
    <3>2. <<>> \in Seq(Due)
      OBVIOUS
    <3> QED
      BY <3>1, <3>2, DueFact
  <2>2. CASE left # 0 /\ busy = TRUE /\ sent = Foreign(left, 3) /\ irq = Quiet /\ queue = <<>>
    BY <1>3, <1>4, <2>2, DueFact
  <2>3. CASE /\ left # 0 /\ busy = FALSE /\ sent = Quiet /\ irq \in {Quiet, Foreign(1, 3)}
             /\ queue = [i \in 1 .. left |-> Foreign(i, 2)]
    <3>1. queue \in Seq(Due)
      BY <1>5, <2>3
    <3>2. irq \in Due \cup {Quiet}
      BY <1>4, <2>3
    <3> QED
      BY <3>1, <3>2, <2>3, DueFact
  <2> QED
    BY <1>2, <2>1, <2>2, <2>3
<1>7. unlock \in BOOLEAN /\ bugged \in BOOLEAN /\ laser \in BOOLEAN /\ p5 \in Names
  BY DEF Init, Names
<1>9. foreign \in BOOLEAN
  <2>1. PICK n \in 0 .. MaxForeign : foreign = (n > 0)
    BY DEF Init
  <2>2. CASE n > 0
    BY <2>1, <2>2
  <2>3. CASE ~(n > 0)
    BY <2>1, <2>3
  <2> QED
    BY <2>2, <2>3
<1>8. fifo = Quiet /\ reply = Quiet /\ serial \in 0 .. 3 /\ door \in 0 .. 7
  BY DEF Init
<1> QED
  BY <1>1, <1>6, <1>7, <1>8, <1>9 DEF Init, TypeOK, Cmds

\* Nobody waits at the start.
LEMMA WaitInit == Init => WaitInv
<1> SUFFICES ASSUME Init PROVE WaitInv
  OBVIOUS
<1>1. busy => sent.cmd = "foreign"
  BY DEF Init, Foreign, Response, Quiet
<1>2. step = "prepare" /\ cmd = "init" /\ got = <<>>
  BY DEF Init
<1> QED
  BY <1>1, <1>2 DEF WaitInv

\* Every step keeps the types; that nobody waits a third time is WaitInv's.
LEMMA TypeStep == TypeOK /\ WaitInv /\ [Next]_vars => TypeOK'
<1> SUFFICES ASSUME TypeOK, WaitInv, [Next]_vars PROVE TypeOK'
  OBVIOUS
<1>0. <<>> \in Seq(Due) /\ Len(<<>>) = 0 /\ Quiet \in Due \cup {Quiet} /\ Quiet \in Responses
  BY DueFact
<1>01. ASSUME ToAttempt \/ \E c \in Cmds : Call(c)
       PROVE  /\ step' \in {"attempt", "prepare"} /\ cmd' \in Cmds
              /\ got' \in Seq(Due) /\ Len(got') <= 2
  <2>1. CASE ToAttempt
    BY <2>1 DEF ToAttempt, TypeOK
  <2>2. CASE \E c \in Cmds : Call(c)
    BY <1>0, <2>2 DEF Call
  <2> QED
    BY <1>01, <2>1, <2>2
<1>1. CASE Prepare
  BY <1>0, <1>1 DEF TypeOK, Prepare, settings, tray
<1>2. CASE Clear
  BY <1>0, <1>2 DEF TypeOK, Clear, settings, tray
<1>3. CASE Write
  <2>1. (serial + 1) % 4 \in 0 .. 3
    BY DEF TypeOK
  <2>2. PICK ok \in BOOLEAN : sent' = Response(cmd, serial', 1, 0, ok)
    <3>1. (cmd = "bd55" => p5 = drive.name) \in BOOLEAN
      OBVIOUS
    <3> QED
      BY <1>3, <3>1 DEF Write
  <2>3. sent' \in Responses
    BY <1>3, <2>1, <2>2 DEF Write, TypeOK, Response, Responses
  <2> QED
    BY <1>3, <2>1, <2>3 DEF TypeOK, Write, settings, tray
<1>4. CASE WaitIdle
  BY <1>4 DEF TypeOK, WaitIdle, settings, controller, tray
<1>5. CASE Poll
  <2>1. got' \in Seq(Due) /\ Len(got') <= 2
    <3>1. got \in Seq(Due) /\ Len(got) <= 1 /\ irq \in Due
      BY <1>5 DEF Poll, TypeOK, WaitInv
    <3>2. got' = Append(got, irq)
      BY <1>5 DEF Poll
    <3> QED
      BY <3>1, <3>2
  <2> QED
    BY <1>5, <2>1 DEF TypeOK, Poll, settings, controller, tray
<1>6. CASE Ack
  BY <1>0, <1>6 DEF TypeOK, Ack, settings, tray
<1>7. CASE ReadReply
  BY <1>0, <1>7 DEF TypeOK, ReadReply, settings, tray
<1>8. CASE AfterInit
  BY <1>0, <1>8 DEF TypeOK, AfterInit, Done, Call, Cmds, settings, controller, tray
<1>9. CASE AfterVersion
  <2>1. PICK v : /\ bugged' = (v \in {"94", "95-C1"}) /\ laser' = (v = "C2/C3")
                 /\ unlock' = (v # "94")
                 /\ IF v = "94" THEN ToAttempt ELSE Call("region")
    BY <1>9 DEF AfterVersion
  <2>2. bugged' \in BOOLEAN /\ laser' \in BOOLEAN /\ unlock' \in BOOLEAN
    <3>1. (v \in {"94", "95-C1"}) \in BOOLEAN /\ (v = "C2/C3") \in BOOLEAN /\ (v # "94") \in BOOLEAN
      OBVIOUS
    <3> QED
      BY <2>1, <3>1, Zenon
  <2>3. UNCHANGED <<goal, p5, reply, controller, drive, door, tray, foreign>>
    BY <1>9 DEF AfterVersion, Done
  <2>4. step' \in {"attempt", "prepare"} /\ cmd' \in Cmds /\ got' \in Seq(Due) /\ Len(got') <= 2
    <3>1. "region" \in Cmds
      BY DEF Cmds
    <3> QED
      BY <1>01, <2>1, <3>1
  <2> QED
    BY <2>2, <2>3, <2>4 DEF TypeOK, controller, tray
<1>10. CASE AfterRegion
  <2>1. PICK region \in Regions :
          /\ IF region \in {"for Japan", "other"}
             THEN unlock' = FALSE /\ ToAttempt /\ UNCHANGED p5
             ELSE p5' = P5(region) /\ Call("bd50") /\ UNCHANGED unlock
          /\ UNCHANGED <<goal, bugged, laser>>
    <3> DEFINE region == IF got[1].int = 3 /\ reply.cmd = "region" THEN drive.region ELSE "other"
    <3>1. region \in Regions
      BY DriveFact DEF TypeOK, Regions
    <3> QED
      BY <1>10, <3>1 DEF AfterRegion
  <2>2. UNCHANGED <<reply, controller, drive, door, tray, foreign>>
    BY <1>10 DEF AfterRegion, Done
  <2>3. step' \in {"attempt", "prepare"} /\ cmd' \in Cmds /\ got' \in Seq(Due) /\ Len(got') <= 2
    <3>1. "bd50" \in Cmds
      BY DoorFact, CmdFact
    <3> QED
      BY <1>01, <2>1, <3>1
  <2>4. unlock' \in BOOLEAN /\ p5' \in Names
    BY <2>1, P5Fact DEF TypeOK
  <2> QED
    BY <2>1, <2>2, <2>3, <2>4 DEF TypeOK, controller, tray
<1>11. CASE AfterDoor
  <2>1. PICK i \in 1 .. 7 :
          IF got[1].int # 5 \/ ~reply.ok THEN unlock' = FALSE /\ ToAttempt
          ELSE UNCHANGED unlock /\ IF i = 7 THEN ToAttempt ELSE Call(Door[i + 1])
    BY <1>11 DEF AfterDoor
  <2>2. UNCHANGED <<goal, bugged, laser, p5, reply, controller, drive, door, tray, foreign>>
    BY <1>11 DEF AfterDoor, Done
  <2>3. i # 7 => Door[i + 1] \in Cmds
    BY CmdFact
  <2>4. step' \in {"attempt", "prepare"} /\ cmd' \in Cmds /\ got' \in Seq(Due) /\ Len(got') <= 2
    BY <1>01, <2>1, <2>3
  <2>5. unlock' \in BOOLEAN
    BY <2>1 DEF TypeOK
  <2> QED
    BY <2>2, <2>4, <2>5 DEF TypeOK, controller, tray
<1>12. CASE Attempt
  <2>1. step' = "prepare" /\ cmd' \in {"stop", "session1", "session2"} /\ got' = <<>>
    BY <1>12 DEF Attempt, Call
  <2>2. UNCHANGED <<reply, goal, settings, controller, drive, door, tray, foreign>>
    BY <1>12 DEF Attempt
  <2> QED
    BY <1>0, <2>1, <2>2 DEF TypeOK, Cmds, Sessions, settings, controller, tray
<1>13. CASE AfterSession2 \/ AfterSession1 \/ AfterLaser
  <2>1. step' = "prepare" /\ cmd' \in {"stop", "session1", "laser"} /\ got' = <<>>
    BY <1>13 DEF AfterSession2, AfterSession1, AfterLaser, Call
  <2>2. UNCHANGED <<reply, goal, settings, controller, drive, door, tray, foreign>>
    BY <1>13 DEF AfterSession2, AfterSession1, AfterLaser, Done
  <2> QED
    BY <1>0, <2>1, <2>2 DEF TypeOK, Cmds, Sessions, settings, controller, tray
<1>14. CASE KernelReads
  <2>1. /\ step' \in {"attempt", "booted", "prepare"} /\ cmd' \in {cmd, "getstat"} /\ got' \in {got, <<>>}
        /\ goal' \in {goal, "open"}
    BY <1>14 DEF KernelReads, Call
  <2>2. /\ busy' = FALSE /\ sent' = Quiet /\ irq' = Quiet /\ queue' = <<>> /\ fifo' = Quiet
        /\ UNCHANGED <<serial, reply, settings, drive, door, tray, foreign>>
    BY <1>14 DEF KernelReads
  <2>3. step' \in {"attempt", "booted", "prepare"} /\ cmd' \in Cmds
    BY <2>1 DEF TypeOK, Cmds
  <2>4. got' \in Seq(Due) /\ Len(got') <= 2
    <3>1. CASE got' = got
      BY <3>1 DEF TypeOK
    <3>2. CASE got' = <<>>
      BY <1>0, <3>2
    <3> QED
      BY <2>1, <3>1, <3>2
  <2>5. goal' \in {"open", "closed"}
    BY <2>1 DEF TypeOK
  <2> QED
    BY <1>0, <2>2, <2>3, <2>4, <2>5 DEF TypeOK, settings, tray
<1>15. CASE AfterGetstat
  <2>1. step' = "prepare" /\ cmd' \in {"getstat", "stop"} /\ got' = <<>> /\ goal' \in {goal, "closed"}
    BY <1>15 DEF AfterGetstat, Call
  <2>2. UNCHANGED <<reply, settings, controller, drive, door, tray, foreign>>
    BY <1>15 DEF AfterGetstat, Done
  <2> QED
    BY <1>0, <2>1, <2>2 DEF TypeOK, Cmds, settings, controller, tray
<1>16. CASE Execute
  <2>1. PICK kept \in {queue, <<>>}, a \in Answers : queue' = kept \o a
    BY <1>16 DEF Execute
  <2>2. a \in Seq(Due) /\ a # <<>>
    BY <1>16, AnswerType DEF Execute, TypeOK, WaitInv
  <2>3. queue' \in Seq(Due)
    BY <1>0, <2>1, <2>2, ConcatFact DEF TypeOK
  <2>4. door' \in 0 .. 7
    <3>1. Opens => door + 1 \in 0 .. 7
      BY DEF Opens, TypeOK
    <3> QED
      BY <1>16, <3>1 DEF Execute, TypeOK
  <2> QED
    BY <1>0, <1>16, <2>3, <2>4 DEF Execute, TypeOK, console, settings, tray
<1>17. CASE Raise
  <2>1. Head(queue) \in Due /\ Tail(queue) \in Seq(Due)
    BY <1>17, TailFact DEF Raise, TypeOK
  <2> QED
    BY <1>17, <2>1 DEF Raise, TypeOK, console, settings, tray
<1>18. CASE User
  BY <1>18 DEF User, TypeOK, console, settings, controller
<1>19. CASE UNCHANGED vars
  BY <1>19 DEF TypeOK, vars, console, settings, controller, tray
<1> QED
  BY <1>1, <1>2, <1>3, <1>4, <1>5, <1>6, <1>7, <1>8, <1>9, <1>10, <1>11, <1>12, <1>13, <1>14,
     <1>15, <1>16, <1>17, <1>18, <1>19 DEF Next, Port, Loader

\* Every step leaves enough responses for those who wait.
LEMMA WaitStep == TypeOK /\ WaitInv /\ [Next]_vars => WaitInv'
<1> SUFFICES ASSUME TypeOK, WaitInv, [Next]_vars PROVE WaitInv'
  OBVIOUS
<1> USE DEF WaitInv
<1>1. CASE Prepare
  BY <1>1 DEF Prepare
<1>2. CASE Clear
  BY <1>2 DEF Clear
<1>3. CASE Write
  <2>1. sent'.cmd = cmd /\ sent'.int = 0 /\ sent'.n = 1 /\ cmd # "none"
    BY <1>3, CmdFact DEF Write, Response, TypeOK, Cmds
  <2> QED
    BY <1>3, <2>1 DEF Write
<1>4. CASE WaitIdle
  BY <1>4 DEF WaitIdle, controller, Enough, WantsTwo
<1>5. CASE Poll
  <2>1. got \in Seq(Due) /\ got' = Append(got, irq) /\ irq \in Due
    BY <1>5 DEF Poll, TypeOK
  <2>2. got' # <<>> /\ (Len(got') = 1 => got = <<>> /\ got'[1] = irq)
    BY <2>1
  <2>3. WaitAgain' => busy \/ queue # <<>>
    <3>1. SUFFICES ASSUME WaitAgain', ~busy PROVE queue # <<>>
      OBVIOUS
    <3>2. got = <<>> /\ (cmd = "init" \/ (cmd \in TwoAnswers /\ irq.int # 5))
      BY <1>5, <2>2, <3>1 DEF WaitAgain, Poll
    <3> QED
      BY <1>5, <3>1, <3>2 DEF Poll, WantsTwo, Enough
  <2> QED
    BY <1>5, <2>2, <2>3 DEF Poll, controller
<1>6. CASE Ack
  <2>1. WaitAgain => got # <<>> /\ Len(got) <= 1 /\ WantsTwo
    <3>1. Len(got) = 1 => got # <<>> /\ Len(got) <= 1
      OBVIOUS
    <3> QED
      BY <3>1 DEF WaitAgain, WantsTwo
  <2> QED
    BY <1>6, <2>1 DEF Ack, WantsTwo
<1>7. CASE ReadReply
  BY <1>7 DEF ReadReply
<1>8. CASE AfterInit
  BY <1>8 DEF AfterInit, Done, Call, controller
<1>90. ASSUME step = "done", cmd # "init", step' \in {"prepare", "attempt"},
              step' = "prepare" => got' = <<>>, cmd' # "init", UNCHANGED controller
       PROVE  WaitInv'
  BY <1>90 DEF controller
<1>9. CASE AfterVersion \/ AfterRegion \/ AfterDoor
  <2>1. ASSUME NEW c \in Cmds \ {"init"}, step = "done", cmd # "init", UNCHANGED controller,
               Call(c) \/ ToAttempt
        PROVE  WaitInv'
    BY <1>90, <2>1 DEF Call, ToAttempt
  <2>2. CASE AfterVersion
    <3>1. (Call("region") \/ ToAttempt) /\ step = "done" /\ cmd = "version" /\ UNCHANGED controller
      BY <2>2 DEF AfterVersion, Done
    <3> QED
      BY <2>1, <3>1 DEF Cmds
  <2>3. CASE AfterRegion
    <3>1. (Call("bd50") \/ ToAttempt) /\ step = "done" /\ cmd = "region" /\ UNCHANGED controller
      BY <2>3 DEF AfterRegion, Done
    <3>2. "bd50" \in Cmds \ {"init"}
      BY DoorFact, CmdFact
    <3> QED
      BY <2>1, <3>1, <3>2
  <2>4. CASE AfterDoor
    <3>1. PICK i \in 1 .. 7 : /\ step = "done" /\ cmd = Door[i] /\ UNCHANGED controller
                              /\ ToAttempt \/ (i # 7 /\ Call(Door[i + 1]))
      BY <2>4 DEF AfterDoor, Done
    <3>2. cmd # "init"
      BY <3>1, CmdFact
    <3>3. i # 7 => Door[i + 1] \in Cmds \ {"init"}
      BY CmdFact
    <3> QED
      BY <2>1, <3>1, <3>2, <3>3, CmdFact
  <2> QED
    BY <1>9, <2>2, <2>3, <2>4
<1>10. CASE Attempt
  BY <1>10, CmdFact DEF Attempt, Call, controller, Sessions
<1>11. CASE AfterSession2 \/ AfterSession1 \/ AfterLaser \/ AfterGetstat
  <2>1. /\ step = "done" /\ cmd # "init" /\ UNCHANGED controller
        /\ step' = "prepare" /\ cmd' # "init" /\ got' = <<>>
    BY <1>11 DEF AfterSession2, AfterSession1, AfterLaser, AfterGetstat, Done, Call
  <2> QED
    BY <1>90, <2>1
<1>12. CASE KernelReads
  <2>1. busy' = FALSE /\ step' \in {"attempt", "booted", "prepare"} /\ cmd' # "init"
    BY <1>12 DEF KernelReads, Call
  <2>2. step' = "prepare" => got' = <<>>
    BY <1>12 DEF KernelReads, Call
  <2> QED
    BY <2>1, <2>2
<1>13. CASE Execute
  <2>1. PICK kept \in {queue, <<>>}, a \in Answers : queue' = kept \o a
    BY <1>13 DEF Execute
  <2>2. /\ sent \in Responses /\ sent.cmd # "none" /\ <<>> \in Seq(Due) /\ kept \in Seq(Due)
    <3>1. sent \in Responses /\ queue \in Seq(Due) /\ busy
      BY <1>13 DEF Execute, TypeOK
    <3>2. <<>> \in Seq(Due)
      OBVIOUS
    <3> QED
      BY <2>1, <3>1, <3>2
  <2>3. /\ a \in Seq(Due) /\ a # <<>>
        /\ sent.cmd \in TwoAnswers \cup {"init"} => Len(a) = 2 \/ (a[1].int = 5 /\ sent.cmd # "init")
    BY <2>2, AnswerType
  <2>4. /\ queue' # <<>>
        /\ sent.cmd \in TwoAnswers \cup {"init"} =>
              Len(queue') >= 2 \/ (queue'[1].int = 5 /\ sent.cmd # "init")
    <3>1. CASE kept = <<>>
      <4>1. queue' = a
        BY <2>1, <2>3, <3>1, ConcatEmptySeq
      <4> QED
        BY <2>3, <4>1
    <3>2. CASE kept # <<>>
      BY <2>1, <2>2, <2>3, <3>2, ConcatFact
    <3> QED
      BY <3>1, <3>2
  <2>5. step \in {"wait", "poll"} => sent.cmd = cmd
    BY <1>13 DEF Execute
  <2>6. step \in {"wait", "poll"} /\ WantsTwo => Enough'
    BY <1>13, <2>4, <2>5 DEF Execute, Enough, WantsTwo, console
  <2>7. WantsTwo' = WantsTwo
    BY <1>13 DEF Execute, WantsTwo, console
  <2> QED
    BY <1>13, <2>4, <2>6, <2>7 DEF Execute, console
<1>14. CASE Raise
  <2>1. /\ irq' = queue[1] /\ irq' # Quiet
        /\ Len(queue) >= 2 => queue' # <<>>
    BY <1>14, TailFact, DueFact DEF Raise, TypeOK
  <2>2. Enough => Enough'
    BY <1>14, <2>1 DEF Enough, Raise, console
  <2>3. WantsTwo' = WantsTwo
    BY <1>14 DEF Raise, WantsTwo, console
  <2> QED
    BY <1>14, <2>1, <2>2, <2>3 DEF Raise, console
<1>15. CASE User
  BY <1>15 DEF User, console, controller, Enough, WantsTwo, WaitAgain
<1>16. CASE UNCHANGED vars
  BY <1>16 DEF vars, console, controller, Enough, WantsTwo, WaitAgain
<1> QED
  BY <1>1, <1>2, <1>3, <1>4, <1>5, <1>6, <1>7, <1>8, <1>9, <1>10, <1>11, <1>12, <1>13, <1>14,
     <1>15, <1>16 DEF Next, Port, Loader

-----------------------------------------------------------------------------
(* Own answers *)

\* Sequences of one and of two responses.
LEMMA ShortSeqs ==
    ASSUME NEW r \in Due, NEW s \in Due
    PROVE  /\ Append(<<>>, r) = <<r>> /\ Append(<<r>>, s) = <<r, s>>
           /\ Head(<<r>>) = r /\ Tail(<<r>>) = <<>> /\ Head(<<r, s>>) = r /\ Tail(<<r, s>>) = <<s>>
           /\ <<r>> # <<>> /\ <<r, s>> # <<>> /\ <<r>>[1] = r /\ <<r, s>>[1] = r
           /\ Len(<<r>>) = 1 /\ Len(<<r, s>>) = 2
<1>1. <<>> \in Seq(Due) /\ <<r>> \in Seq(Due) /\ <<r, s>> \in Seq(Due)
  OBVIOUS
<1>2. Append(<<>>, r) = <<r>>
  BY <1>1
<1>3. Append(<<r>>, s) = <<r, s>>
  <2> DEFINE q == Append(<<r>>, s)
  <2>1. q \in Seq(Due) /\ Len(q) = 2 /\ q[1] = r /\ q[2] = s
    BY <1>1, AppendProperties
  <2> HIDE DEF q
  <2>2. Len(<<r, s>>) = 2 /\ <<r, s>>[1] = r /\ <<r, s>>[2] = s /\ 1 .. 2 = {1, 2}
    OBVIOUS
  <2>3. q = <<r, s>>
    BY <1>1, <2>1, <2>2, SeqEqual
  <2> QED
    BY <2>3 DEF q
<1>4. Head(<<r>>) = r /\ Head(<<r, s>>) = r /\ <<r>>[1] = r /\ <<r, s>>[1] = r
  BY <1>1
<1>5. Len(<<r>>) = 1 /\ Len(<<r, s>>) = 2 /\ <<r>> # <<>> /\ <<r, s>> # <<>>
  BY <1>1
<1>6. Tail(<<r>>) = <<>>
  BY <1>1
<1>7. Tail(<<r, s>>) = <<s>>
  BY <1>1
<1> QED
  BY <1>2, <1>3, <1>4, <1>5, <1>6, <1>7

\* An answer stays one to the command as long as the command is the same.
LEMMA KeepAnswer ==
    ASSUME UNCHANGED <<cmd, serial, door, drive, p5>>, NEW r, NEW s
    PROVE  /\ Single(r) => Single(r)'
           /\ DoorEffect(r) => DoorEffect(r)'
           /\ Pair(r, s) => Pair(r, s)'
<1>1. Single(r) => Single(r)'
  BY DEF Single, First
<1>2. DoorEffect(r) => DoorEffect(r)'
  BY DEF DoorEffect
<1>3. Pair(r, s) => Pair(r, s)'
  BY DEF Pair, First, Second
<1> QED
  BY <1>1, <1>2, <1>3

\* A step within a command keeps the invariant if it keeps the three cases.
LEMMA KeepOwn ==
    ASSUME OwnInv, UNCHANGED <<cmd, serial, door, drive, p5, foreign>>,
           step \in Within, step' \in Within,
           Executing => Executing', ~busy => ~busy',
           \A r \in Due : ~busy /\ Single(r) /\ OneDue(r) => OneDue(r)',
           \A r, s \in Due : ~busy /\ Pair(r, s) /\ TwoDue(r, s) => TwoDue(r, s)'
    PROVE  OwnInv'
<1> SUFFICES ASSUME Clean' PROVE Executing' \/ Answered'
  BY DEF OwnInv, Within
<1>1. Executing \/ Answered
  BY DEF OwnInv, Clean
<1>2. CASE Executing
  BY <1>2
<1>3. ASSUME ~busy, NEW r \in Due, Single(r), DoorEffect(r), OneDue(r)
      PROVE  Answered'
  <2>1. Single(r)' /\ DoorEffect(r)'
    BY <1>3, KeepAnswer
  <2>2. OneDue(r)' /\ ~busy'
    BY <1>3
  <2> QED
    BY <2>1, <2>2 DEF Answered
<1>4. ASSUME ~busy, NEW r \in Due, NEW s \in Due, Pair(r, s), TwoDue(r, s)
      PROVE  Answered'
  <2>1. Pair(r, s)'
    BY <1>4, KeepAnswer
  <2>2. TwoDue(r, s)' /\ ~busy'
    BY <1>4
  <2> QED
    BY <2>1, <2>2 DEF Answered
<1> QED
  BY <1>1, <1>2, <1>3, <1>4 DEF Answered

\* Polling takes the response that the flag shows.
LEMMA OwnPoll ==
    ASSUME TypeOK, OwnInv, Poll
    PROVE  OwnInv'
<1>1. /\ UNCHANGED <<cmd, serial, door, drive, p5, foreign, busy, irq, fifo, queue>>
      /\ step = "poll" /\ step' = "ack" /\ irq # Quiet /\ got' = Append(got, irq)
  BY DEF Poll, controller, settings
<1>2. ~Executing
  BY <1>1 DEF Executing
<1>3. ASSUME NEW r \in Due, OneDue(r)
      PROVE  OneDue(r)'
  <2>1. got = <<>> /\ irq = r /\ fifo = r /\ queue = <<>>
    BY <1>1, <1>3 DEF OneDue
  <2>2. got' = <<r>>
    BY <1>1, <2>1, ShortSeqs
  <2> QED
    BY <1>1, <2>1, <2>2 DEF OneDue
<1>4. ASSUME NEW r \in Due, NEW s \in Due, TwoDue(r, s)
      PROVE  TwoDue(r, s)'
  <2>1. \/ got = <<>> /\ irq = r /\ queue = <<s>>
        \/ got = <<r>> /\ irq = s /\ queue = <<>>
    BY <1>1, <1>4 DEF TwoDue
  <2>2. CASE got = <<>> /\ irq = r /\ queue = <<s>>
    <3>1. got' = <<r>>
      BY <1>1, <2>2, ShortSeqs
    <3> QED
      BY <1>1, <2>2, <3>1 DEF TwoDue
  <2>3. CASE got = <<r>> /\ irq = s /\ queue = <<>>
    <3>1. got' = <<r, s>>
      BY <1>1, <2>3, ShortSeqs
    <3> QED
      BY <1>1, <2>3, <3>1 DEF TwoDue
  <2> QED
    BY <2>1, <2>2, <2>3
<1>5. step \in Within /\ step' \in Within
  BY <1>1 DEF Within
<1> QED
  BY <1>1, <1>2, <1>3, <1>4, <1>5, KeepOwn

\* After the only response nobody waits again.
LEMMA SingleFact ==
    ASSUME NEW r \in Due, Single(r), got = <<r>>
    PROVE  ~WaitAgain
<1>1. got[1] = r /\ (cmd \in TwoAnswers => r.int = 5) /\ cmd # "init"
  BY ShortSeqs, DoorFact DEF Single, TwoAnswers, Sessions
<1> QED
  BY <1>1 DEF WaitAgain

\* After the first of two responses the caller waits again.
LEMMA PairFact ==
    ASSUME NEW r \in Due, NEW s \in Due, Pair(r, s)
    PROVE  got = <<r>> => WaitAgain
<1>1. cmd \in {"init"} \cup TwoAnswers /\ r.int = 3
  BY DEF Pair, TwoAnswers
<1>2. ASSUME got = <<r>> PROVE Len(got) = 1 /\ got[1] = r
  BY <1>2, ShortSeqs
<1> QED
  BY <1>1, <1>2 DEF WaitAgain

\* After the second of two responses nobody waits again or reads a reply.
LEMMA PairFact2 ==
    ASSUME NEW r \in Due, NEW s \in Due, Pair(r, s)
    PROVE  ~WantReply /\ (got = <<r, s>> => ~WaitAgain)
<1>1. ~WantReply
  BY DoorFact DEF Pair, WantReply, Sessions
<1>2. ASSUME got = <<r, s>> PROVE Len(got) = 2
  BY <1>2, ShortSeqs
<1> QED
  BY <1>1, <1>2 DEF WaitAgain

\* Acknowledging removes the response that was taken and no other.
LEMMA OwnAck ==
    ASSUME TypeOK, OwnInv, WaitInv, Ack
    PROVE  OwnInv'
<1>1. /\ UNCHANGED <<cmd, got, reply, serial, door, drive, p5, foreign, busy, fifo, queue>>
      /\ step = "ack" /\ irq' = Quiet
      /\ step' = IF WaitAgain THEN "wait" ELSE IF WantReply THEN "read" ELSE "done"
  BY DEF Ack, settings
<1>2. ~Executing
  BY <1>1 DEF Executing
<1>3. ASSUME NEW r \in Due, Single(r), OneDue(r)
      PROVE  OneDue(r)'
  <2>1. got = <<r>> /\ irq = r /\ fifo = r /\ queue = <<>>
    BY <1>1, <1>3 DEF OneDue, NotYet
  <2>2. step' = IF WantReply THEN "read" ELSE "done"
    BY <1>1, <1>3, <2>1, SingleFact
  <2>3. WantReply' = WantReply
    BY <1>1 DEF WantReply
  <2> QED
    BY <1>1, <2>1, <2>2, <2>3 DEF OneDue
<1>4. ASSUME NEW r \in Due, NEW s \in Due, Pair(r, s), TwoDue(r, s)
      PROVE  TwoDue(r, s)'
  <2>1. \/ got = <<r>> /\ irq = r /\ queue = <<s>>
        \/ got = <<r, s>> /\ irq = s /\ queue = <<>>
    BY <1>1, <1>4 DEF TwoDue, NotYet
  <2>2. CASE got = <<r>> /\ irq = r /\ queue = <<s>>
    <3>1. step' = "wait"
      BY <1>1, <1>4, <2>2, PairFact
    <3> QED
      BY <1>1, <2>2, <3>1 DEF TwoDue, NotYet
  <2>3. CASE got = <<r, s>> /\ irq = s /\ queue = <<>>
    <3>1. step' = "done"
      BY <1>1, <1>4, <2>3, PairFact2
    <3> QED
      BY <1>1, <2>3, <3>1 DEF TwoDue
  <2> QED
    BY <2>1, <2>2, <2>3
<1>5. step \in Within /\ step' \in Within
  BY <1>1 DEF Within
<1> QED
  BY <1>1, <1>2, <1>3, <1>4, <1>5, KeepOwn

\* Up to the write nothing is due; from then on the command is executing.
LEMMA OwnStart ==
    ASSUME TypeOK, OwnInv, WaitInv, Prepare \/ Clear \/ Write
    PROVE  OwnInv'
<1>1. CASE Prepare
  BY <1>1 DEF Prepare, OwnInv, Clean, Within
<1>2. CASE Clear
  BY <1>2 DEF Clear, OwnInv, Clean, Within
<1>3. CASE Write
  <2>1. /\ step' = "wait" /\ busy' /\ got' = <<>>
        /\ UNCHANGED <<cmd, irq, queue, p5, drive, foreign>>
        /\ sent' = Response(cmd, serial', 1, 0, cmd = "bd55" => p5 = drive.name)
    BY <1>3 DEF Write, WaitInv, settings
  <2>2. Clean' => irq = Quiet /\ queue = <<>>
    BY <1>3, <2>1 DEF OwnInv, Clean, Write
  <2> QED
    BY <2>1, <2>2 DEF OwnInv, Executing
<1> QED
  BY <1>1, <1>2, <1>3

\* Waiting for the command to be executed leaves its answer alone.
LEMMA OwnWaitIdle ==
    ASSUME OwnInv, WaitIdle
    PROVE  OwnInv'
<1>1. /\ UNCHANGED <<cmd, got, reply, busy, sent, irq, fifo, queue, serial, door, drive, p5, foreign>>
      /\ step = "wait" /\ step' = "poll"
  BY DEF WaitIdle, settings, controller
<1>2. step \in Within /\ step' \in Within
  BY <1>1 DEF Within
<1>3. Executing => Executing'
  BY <1>1 DEF Executing
<1>4. \A r \in Due : OneDue(r) => OneDue(r)'
  BY <1>1 DEF OneDue, NotYet
<1>5. \A r, s \in Due : TwoDue(r, s) => TwoDue(r, s)'
  BY <1>1 DEF TwoDue, NotYet
<1> QED
  BY <1>1, <1>2, <1>3, <1>4, <1>5, KeepOwn

\* The reply that is read belongs to the interrupt that was taken.
LEMMA OwnReadReply ==
    ASSUME OwnInv, ReadReply
    PROVE  OwnInv'
<1>1. /\ UNCHANGED <<cmd, got, busy, sent, irq, queue, serial, door, drive, p5, foreign>>
      /\ step = "read" /\ step' = "done" /\ reply' = fifo
  BY DEF ReadReply, settings
<1>2. step \in Within /\ step' \in Within
  BY <1>1 DEF Within
<1>3. ~Executing
  BY <1>1 DEF Executing
<1>4. \A r \in Due : OneDue(r) => OneDue(r)'
  BY <1>1 DEF OneDue, NotYet
<1>5. \A r, s \in Due : ~TwoDue(r, s)
  BY <1>1 DEF TwoDue, NotYet
<1> QED
  BY <1>1, <1>2, <1>3, <1>4, <1>5, KeepOwn

\* The next response that is due is raised, and its reply is in the FIFO.
LEMMA OwnRaise ==
    ASSUME OwnInv, WaitInv, Raise
    PROVE  OwnInv'
<1>1. /\ UNCHANGED <<step, cmd, got, reply, busy, sent, serial, door, drive, p5, foreign>>
      /\ irq = Quiet /\ queue # <<>>
      /\ irq' = Head(queue) /\ fifo' = Head(queue) /\ queue' = Tail(queue)
  BY DEF Raise, settings, console
<1>2. ~Executing
  BY <1>1 DEF Executing
<1>3. CASE step \in Within
  <2>1. ASSUME NEW r \in Due, OneDue(r), ~busy, Single(r)
        PROVE  OneDue(r)' \/ ~Clean
    <3>1. CASE step = "done" \/ step = "read" \/ step = "ack"
      BY <1>1, <2>1, <3>1, DueFact DEF OneDue, NotYet
    <3>2. CASE NotYet /\ got = <<>> /\ queue = <<r>>
      <4>1. irq' = r /\ fifo' = r /\ queue' = <<>>
        BY <1>1, <3>2, ShortSeqs
      <4> QED
        BY <1>1, <3>2, <4>1 DEF OneDue, NotYet
    <3> QED
      BY <1>1, <2>1, <3>1, <3>2, DueFact DEF OneDue
  <2>2. ASSUME NEW r \in Due, NEW s \in Due, TwoDue(r, s)
        PROVE  TwoDue(r, s)'
    <3>1. \/ NotYet /\ got = <<>> /\ queue = <<r, s>>
          \/ NotYet /\ got = <<r>> /\ queue = <<s>>
      BY <1>1, <2>2, DueFact DEF TwoDue
    <3>2. CASE NotYet /\ got = <<>> /\ queue = <<r, s>>
      <4>1. irq' = r /\ queue' = <<s>>
        BY <1>1, <3>2, ShortSeqs
      <4> QED
        BY <1>1, <3>2, <4>1 DEF TwoDue, NotYet
    <3>3. CASE NotYet /\ got = <<r>> /\ queue = <<s>>
      <4>1. irq' = s /\ queue' = <<>>
        BY <1>1, <3>3, ShortSeqs
      <4> QED
        BY <1>1, <3>3, <4>1 DEF TwoDue, NotYet
    <3> QED
      BY <3>1, <3>2, <3>3
  <2>3. CASE Clean
    <3>1. step' \in Within
      BY <1>1, <1>3
    <3> QED
      BY <1>1, <1>2, <1>3, <2>1, <2>2, <2>3, <3>1, KeepOwn
  <2>4. CASE ~Clean
    BY <1>1, <2>4 DEF OwnInv, Clean
  <2> QED
    BY <2>3, <2>4
<1>4. CASE step \notin Within
  BY <1>1, <1>4 DEF OwnInv, Clean, Within
<1> QED
  BY <1>3, <1>4

\* The lid moves no response.
LEMMA OwnOutside ==
    ASSUME OwnInv, User \/ UNCHANGED vars
    PROVE  OwnInv'
<1>1. UNCHANGED <<step, cmd, got, reply, busy, sent, irq, fifo, queue, serial, door, drive, p5, foreign>>
  BY DEF User, vars, settings, console, controller
<1>2. CASE step \in Within
  <2>1. Executing => Executing'
    BY <1>1 DEF Executing
  <2>2. \A r \in Due : OneDue(r) => OneDue(r)'
    BY <1>1 DEF OneDue, NotYet, WantReply
  <2>3. \A r, s \in Due : TwoDue(r, s) => TwoDue(r, s)'
    BY <1>1 DEF TwoDue, NotYet
  <2>4. step' \in Within
    BY <1>1, <1>2
  <2> QED
    BY <1>1, <1>2, <2>1, <2>2, <2>3, <2>4, KeepOwn
<1>3. CASE step \notin Within
  BY <1>1, <1>3 DEF OwnInv, Clean, Within
<1> QED
  BY <1>2, <1>3

\* Once a command is done, nothing of it is left.
LEMMA OwnDone ==
    ASSUME OwnInv, step = "done", Clean
    PROVE  /\ queue = <<>> /\ irq = Quiet /\ ~busy
           /\ \/ \E r \in Due : Single(r) /\ DoorEffect(r) /\ got[1] = r /\ (WantReply => reply = r)
              \/ \E r, s \in Due : Pair(r, s) /\ got[1] = r
<1>1. Answered
  BY DEF OwnInv, Within, Executing
<1>2. ASSUME NEW r \in Due, Single(r), DoorEffect(r), OneDue(r)
      PROVE  queue = <<>> /\ irq = Quiet /\ got[1] = r /\ (WantReply => reply = r)
  <2>1. got = <<r>> /\ irq = Quiet /\ queue = <<>> /\ (WantReply => reply = r)
    BY <1>2 DEF OneDue, NotYet
  <2> QED
    BY <2>1, ShortSeqs
<1>3. ASSUME NEW r \in Due, NEW s \in Due, Pair(r, s), TwoDue(r, s)
      PROVE  queue = <<>> /\ irq = Quiet /\ got[1] = r
  <2>1. got = <<r, s>> /\ irq = Quiet /\ queue = <<>>
    BY <1>3 DEF TwoDue, NotYet
  <2> QED
    BY <2>1, ShortSeqs
<1>4. CASE \E r \in Due : Single(r) /\ DoorEffect(r) /\ OneDue(r)
  BY <1>1, <1>2, <1>4 DEF Answered
<1>5. CASE \E r, s \in Due : Pair(r, s) /\ TwoDue(r, s)
  BY <1>1, <1>3, <1>5 DEF Answered
<1> QED
  BY <1>1, <1>4, <1>5 DEF Answered

\* The next command starts with nothing due, unless a foreign one may be.
LEMMA OwnNext ==
    ASSUME OwnInv, step \in {"done", "attempt"}, step' \in {"prepare", "attempt"},
           UNCHANGED <<controller, drive, foreign>>,
           Clean' => Clean \/ (queue = <<>> /\ ~busy)
    PROVE  OwnInv'
<1>1. Clean' => queue = <<>> /\ ~busy
  <2>1. CASE step = "done"
    BY <2>1, OwnDone
  <2>2. CASE step = "attempt"
    BY <2>2 DEF OwnInv
  <2> QED
    BY <2>1, <2>2
<1> QED
  BY <1>1 DEF OwnInv, controller, Within

\* A reply that names the region is the last thing due.
LEMMA RegionDone ==
    ASSUME WaitInv, RegionInv, AfterRegion, cmd' \in DoorCmds
    PROVE  queue = <<>> /\ ~busy
<1>1. /\ step = "done" /\ cmd = "region"
      /\ (got[1].int = 3 /\ reply.cmd = "region") \/ ToAttempt
  BY DEF AfterRegion, Done
<1>2. ~ToAttempt
  BY <1>1, CmdFact DEF ToAttempt
<1> QED
  BY <1>1, <1>2 DEF RegionInv, IsRegion, WaitInv

\* Between two commands nothing is due.
LEMMA OwnAfter ==
    ASSUME TypeOK, OwnInv, WaitInv, RegionInv, Loader
    PROVE  OwnInv'
<1>1. CASE AfterInit
  <2>1. step = "done" /\ step' = "prepare" /\ cmd' = "version" /\ UNCHANGED <<controller, drive, foreign>>
    BY <1>1 DEF AfterInit, Done, Call
  <2> QED
    BY <2>1, OwnNext, CmdFact DEF Clean
<1>2. CASE AfterVersion
  <2>1. /\ step = "done" /\ cmd = "version" /\ step' \in {"prepare", "attempt"}
        /\ cmd' \in {"version", "region"} /\ UNCHANGED <<controller, drive, foreign>>
    BY <1>2 DEF AfterVersion, Done, Call, ToAttempt
  <2> QED
    BY <2>1, OwnNext, CmdFact DEF Clean
<1>3. CASE AfterRegion
  <2>1. step = "done" /\ step' \in {"prepare", "attempt"} /\ UNCHANGED <<controller, drive, foreign>>
    BY <1>3 DEF AfterRegion, Done, Call, ToAttempt
  <2> QED
    BY <1>3, <2>1, OwnNext, RegionDone DEF Clean
<1>4. CASE AfterDoor
  <2>1. PICK i \in 1 .. 7 : /\ step = "done" /\ cmd = Door[i] /\ UNCHANGED <<controller, drive, foreign>>
                            /\ ToAttempt \/ (i # 7 /\ Call(Door[i + 1]))
    BY <1>4 DEF AfterDoor, Done
  <2>2. step' \in {"prepare", "attempt"} /\ Clean
    BY <2>1, CmdFact DEF ToAttempt, Call, Clean
  <2> QED
    BY <2>1, <2>2, OwnNext
<1>5. CASE Attempt
  <2>1. /\ step = "attempt" /\ step' = "prepare" /\ cmd' \in {"stop"} \cup Sessions
        /\ UNCHANGED <<controller, drive, foreign>>
    BY <1>5 DEF Attempt, Call, Sessions
  <2> QED
    BY <2>1, OwnNext, CmdFact DEF Clean
<1>6. CASE AfterSession2 \/ AfterSession1 \/ AfterLaser \/ AfterGetstat
  <2>1. /\ step = "done" /\ step' = "prepare" /\ cmd' \in {"stop", "laser", "getstat"} \cup Sessions
        /\ UNCHANGED <<controller, drive, foreign>>
    BY <1>6 DEF AfterSession2, AfterSession1, AfterLaser, AfterGetstat, Done, Call, Sessions
  <2> QED
    BY <2>1, OwnNext, CmdFact DEF Clean
<1>7. CASE KernelReads
  <2>1. queue' = <<>> /\ ~busy' /\ step' \in {"attempt", "booted", "prepare"}
    BY <1>7 DEF KernelReads, Call
  <2> QED
    BY <2>1 DEF OwnInv, Within
<1> QED
  BY <1>1, <1>2, <1>3, <1>4, <1>5, <1>6, <1>7 DEF Loader

\* No unlock command occurs twice.
LEMMA DoorIndex ==
    ASSUME NEW i \in 1 .. 7, NEW j \in 1 .. 7, Door[i] = Door[j]
    PROVE  i = j
<1>1. 1 .. 7 = {1, 2, 3, 4, 5, 6, 7}
  OBVIOUS
<1> QED
  BY <1>1, DoorFact

\* What the drive does with an unlock command shows in its answer.
LEMMA DoorAnswer ==
    ASSUME TypeOK, DoorInv, step # "attempt", Executing, Execute,
           NEW r \in Due, cmd \in DoorCmds => (Opened(r) <=> Opens)
    PROVE  DoorEffect(r)'
<1>1. UNCHANGED <<cmd, p5, drive>> /\ busy
  BY DEF Execute, console, settings
<1>2. sent.cmd = cmd /\ sent.ok = (cmd = "bd55" => p5 = drive.name)
  BY DEF Executing, Response
<1>3. SUFFICES ASSUME NEW i \in 1 .. 7, cmd = Door[i]
               PROVE  /\ Opened(r) => /\ door' = i /\ drive.name # "none"
                                      /\ cmd = "bd55" => p5 = drive.name
                      /\ ~Opened(r) => drive.name = "none" \/ (cmd = "bd55" /\ p5 # drive.name)
  BY <1>1 DEF DoorEffect, Opened
<1>4. cmd \in DoorCmds /\ door = i - 1
  BY <1>1, <1>3, CmdFact DEF DoorInv
<1>5. door' = IF Opens THEN door + 1 ELSE 0
  BY <1>2, <1>4 DEF Execute
<1>6. Opens => /\ drive.name # "none" /\ (cmd = "bd55" => p5 = drive.name)
  BY <1>2 DEF Opens
<1>7. ~Opens => drive.name = "none" \/ (cmd = "bd55" /\ p5 # drive.name)
  BY <1>2, <1>3, <1>4 DEF Opens
<1>8. Opens => door' = i
  BY <1>4, <1>5
<1> QED
  BY <1>4, <1>6, <1>7, <1>8

\* Executing the command makes its answer due.
LEMMA OwnExecute ==
    ASSUME TypeOK, OwnInv, WaitInv, DoorInv, Execute
    PROVE  OwnInv'
<1>1. /\ UNCHANGED <<step, cmd, got, irq, serial, p5, drive, foreign>> /\ busy /\ ~busy'
  BY DEF Execute, console, settings
<1>2. CASE step \in Within /\ Clean
  <2>1. Executing
    BY <1>1, <1>2 DEF OwnInv, Answered
  <2>2. sent.cmd = cmd /\ sent.serial = serial /\ cmd \in Cmds /\ cmd # "none" /\ cmd # "foreign"
    BY <2>1, CmdFact DEF Executing, Response, TypeOK, Cmds
  <2>3. PICK kept \in {queue, <<>>}, a \in Answers : queue' = kept \o a
    BY DEF Execute
  <2>4. sent \in Responses /\ sent.cmd # "none"
    BY <2>2 DEF TypeOK
  <2>5. queue' = a
    <3>1. a \in Seq(Due) /\ kept = <<>>
      BY <2>1, <2>3, <2>4, AnswerType DEF Executing
    <3> QED
      BY <2>3, <3>1, ConcatEmptySeq
  <2>6. CASE OneAnswer(a)
    <3>1. PICK r \in Due :
            /\ a = <<r>> /\ r.cmd = cmd /\ r.serial = serial /\ r.n = 1
            /\ \/ cmd \in {"version", "laser", "getstat"} /\ r.int = 3
               \/ cmd = "region" /\ r.int = (IF drive.version = "94" THEN 5 ELSE 3)
               \/ cmd \in DoorCmds /\ r.int \in {3, 5} /\ (Opened(r) <=> Opens)
               \/ cmd \in TwoAnswers /\ r.int = 5
      BY <2>2, <2>6 DEF OneAnswer
    <3>2. Single(r)
      BY <3>1 DEF Single, First
    <3>3. cmd \in DoorCmds => (Opened(r) <=> Opens)
      BY <3>1, CmdFact DEF TwoAnswers
    <3>4. DoorEffect(r)'
      BY <1>2, <2>1, <3>3, DoorAnswer DEF Within
    <3>5. Single(r)'
      BY <1>1, <3>2 DEF Single, First
    <3>6. OneDue(r)'
      BY <1>1, <2>1, <2>5, <3>1 DEF OneDue, NotYet, Executing
    <3> QED
      BY <1>1, <1>2, <3>4, <3>5, <3>6 DEF OwnInv, Answered, Within
  <2>7. CASE TwoAnswer(a)
    <3>1. PICK r \in Due, s \in Due :
            /\ a = <<r, s>> /\ r.cmd = cmd /\ r.serial = serial /\ r.n = 1 /\ r.int = 3
            /\ s.cmd = cmd /\ s.serial = serial /\ s.n = 2
            /\ \/ cmd \in {"init", "stop"} /\ s.int = 2
               \/ cmd \in Sessions /\ s.int \in {2, 5}
      BY <2>2, <2>7 DEF TwoAnswer
    <3>2. Pair(r, s)'
      BY <1>1, <3>1 DEF Pair, First, Second
    <3>3. TwoDue(r, s)'
      BY <1>1, <2>1, <2>5, <3>1 DEF TwoDue, NotYet, Executing
    <3> QED
      BY <1>1, <1>2, <3>2, <3>3 DEF OwnInv, Answered, Within
  <2>8. ~ForeignAnswer(a)
    BY <2>2 DEF ForeignAnswer
  <2> QED
    BY <2>4, <2>6, <2>7, <2>8, AnswerFact
<1>3. CASE step \notin Within /\ Clean
  BY <1>1, <1>3 DEF OwnInv, Within, Clean
<1>4. CASE ~Clean
  BY <1>1, <1>4 DEF OwnInv, Clean
<1> QED
  BY <1>2, <1>3, <1>4

\* Every step keeps the answers those of the command under way.
LEMMA OwnStep ==
    TypeOK /\ OwnInv /\ WaitInv /\ RegionInv /\ DoorInv /\ [Next]_vars => OwnInv'
BY OwnStart, OwnWaitIdle, OwnPoll, OwnAck, OwnReadReply, OwnAfter, OwnExecute, OwnRaise, OwnOutside
   DEF Next, Port

-----------------------------------------------------------------------------
(* The region *)

\* Quiet is no reply to the region command.
LEMMA QuietFact == ~IsRegion(Quiet)
BY DEF IsRegion, Quiet, Response

\* Register accesses keep the region's reply the last one due.
LEMMA RegionPort ==
    ASSUME TypeOK, WaitInv, RegionInv, Port
    PROVE  RegionInv'
<1> USE QuietFact
<1>1. CASE Prepare
  BY <1>1 DEF Prepare, RegionInv, NoRegion, IsRegion
<1>2. CASE Clear
  BY <1>2 DEF Clear, RegionInv, NoRegion, IsRegion
<1>3. CASE Write
  <2>1. /\ step = "write" /\ sent'.cmd = cmd /\ step' = "wait"
        /\ UNCHANGED <<cmd, irq, fifo, reply, queue>>
    BY <1>3 DEF Write, Response
  <2> QED
    BY <2>1 DEF RegionInv, NoRegion, IsRegion
<1>4. CASE WaitIdle
  BY <1>4 DEF WaitIdle, controller, RegionInv, NoRegion, IsRegion
<1>5. CASE Poll
  BY <1>5 DEF Poll, controller, RegionInv, NoRegion, IsRegion
<1>6. CASE Ack
  BY <1>6 DEF Ack, RegionInv, NoRegion, IsRegion
<1>7. CASE ReadReply
  BY <1>7 DEF ReadReply, RegionInv, NoRegion, IsRegion
<1> QED
  BY <1>1, <1>2, <1>3, <1>4, <1>5, <1>6, <1>7 DEF Port

\* The region command is issued before any of its replies exists.
LEMMA RegionAfter ==
    ASSUME TypeOK, WaitInv, RegionInv, Loader
    PROVE  RegionInv'
<1>1. CASE AfterInit
  BY <1>1 DEF AfterInit, Done, Call, controller, RegionInv, NoRegion, IsRegion
<1>2. CASE AfterVersion
  <2>1. /\ step = "done" /\ cmd = "version" /\ UNCHANGED <<controller, reply>>
        /\ cmd' \in {"version", "region"} /\ (cmd' = "region" => step' = "prepare")
    BY <1>2 DEF AfterVersion, Done, Call, ToAttempt
  <2>2. ~busy /\ NoRegion
    BY <2>1 DEF WaitInv, RegionInv
  <2>3. \A i \in DOMAIN queue : ~IsRegion(queue[i])
    BY <2>2 DEF NoRegion
  <2> QED
    BY <2>1, <2>2, <2>3 DEF controller, RegionInv, NoRegion, IsRegion
<1>3. ASSUME cmd' \notin {"init", "version", "region"}
      PROVE  RegionInv'
  BY <1>3 DEF RegionInv
<1>4. CASE AfterRegion
  <2>1. CASE ToAttempt
    BY <1>4, <2>1 DEF AfterRegion, Done, ToAttempt, controller, RegionInv, NoRegion, IsRegion, WaitInv
  <2>2. CASE Call("bd50")
    <3>1. cmd' \in DoorCmds
      BY <2>2, DoorFact DEF Call
    <3> QED
      BY <1>3, <3>1, CmdFact
  <2> QED
    BY <1>4, <2>1, <2>2 DEF AfterRegion
<1>5. CASE AfterDoor
  <2>1. PICK i \in 1 .. 7 : cmd = Door[i] /\ (ToAttempt \/ (i # 7 /\ Call(Door[i + 1])))
    BY <1>5 DEF AfterDoor, Done
  <2>2. cmd' \in DoorCmds
    BY <2>1, CmdFact DEF ToAttempt, Call
  <2> QED
    BY <1>3, <2>2, CmdFact
<1>6. CASE Attempt \/ AfterSession2 \/ AfterSession1 \/ AfterLaser \/ AfterGetstat \/ KernelReads
  <2>1. cmd' \in {"stop", "session1", "session2", "laser", "getstat"}
    BY <1>6 DEF Attempt, AfterSession2, AfterSession1, AfterLaser, AfterGetstat, KernelReads, Call
  <2> QED
    BY <1>3, <2>1
<1> QED
  BY <1>1, <1>2, <1>4, <1>5, <1>6 DEF Loader

\* Executing appends the region's reply at the end of the queue.
LEMMA RegionExecute ==
    ASSUME TypeOK, WaitInv, RegionInv, Execute
    PROVE  RegionInv'
<1>1. /\ UNCHANGED <<step, cmd, irq, fifo, reply>> /\ busy /\ ~busy' /\ sent' = Quiet
  BY DEF Execute, console
<1>2. PICK kept \in {queue} \cup (IF sent.cmd = "init" THEN {<<>>} ELSE {}), a \in Answers :
        queue' = kept \o a
  BY DEF Execute
<1>3. sent \in Responses /\ sent.cmd # "none" /\ queue \in Seq(Due) /\ <<>> \in Seq(Due)
  BY <1>1 DEF WaitInv, TypeOK
<1>4. a \in Seq(Due) /\ kept \in Seq(Due)
  BY <1>2, <1>3, AnswerType
<1>5. CASE cmd \in {"init", "version"}
  <2>1. NoRegion /\ sent.cmd # "region"
    BY <1>5 DEF RegionInv
  <2>2. \A i \in DOMAIN a : ~IsRegion(a[i])
    <3>1. CASE OneAnswer(a)
      BY <2>1, <3>1 DEF OneAnswer, IsRegion
    <3>2. CASE TwoAnswer(a)
      BY <2>1, <3>2 DEF TwoAnswer, IsRegion
    <3>3. CASE ForeignAnswer(a)
      BY <3>3 DEF ForeignAnswer, IsRegion
    <3> QED
      BY <1>3, <3>1, <3>2, <3>3, AnswerFact
  <2>3. \A i \in DOMAIN kept : ~IsRegion(kept[i])
    BY <1>2, <2>1 DEF NoRegion
  <2>4. \A i \in DOMAIN (kept \o a) : ~IsRegion((kept \o a)[i])
    <3> SUFFICES ASSUME NEW i \in DOMAIN (kept \o a) PROVE ~IsRegion((kept \o a)[i])
      OBVIOUS
    <3>1. i \in 1 .. Len(kept) + Len(a) /\ Len(kept) \in Nat /\ Len(a) \in Nat
      BY <1>4
    <3>2. (kept \o a)[i] = IF i <= Len(kept) THEN kept[i] ELSE a[i - Len(kept)]
      BY <1>4, <3>1, ConcatProperties
    <3>3. CASE i <= Len(kept)
      <4>1. i \in DOMAIN kept
        BY <1>4, <3>1, <3>3
      <4> QED
        BY <2>3, <3>2, <3>3, <4>1
    <3>4. CASE ~(i <= Len(kept))
      <4>1. i - Len(kept) \in DOMAIN a
        BY <1>4, <3>1, <3>4
      <4> QED
        BY <2>2, <3>2, <3>4, <4>1
    <3> QED
      BY <3>3, <3>4
  <2> QED
    BY <1>1, <1>2, <1>5, <2>1, <2>4, QuietFact DEF RegionInv, NoRegion, IsRegion, Quiet, Response
<1>6. CASE cmd = "region"
  <2>1. NoRegion /\ step = "wait" /\ sent.cmd = "region"
    BY <1>1, <1>6 DEF RegionInv, WaitInv
  <2>2. kept = queue
    BY <1>2, <2>1
  <2>3. PICK r \in Due : a = <<r>>
    BY <1>3, <2>1, AnswerFact, CmdFact DEF OneAnswer, TwoAnswer, ForeignAnswer
  <2>4. \A i \in DOMAIN queue' : IsRegion(queue'[i]) => i = Len(queue')
    <3> SUFFICES ASSUME NEW i \in DOMAIN (queue \o a), i # Len(queue \o a)
                 PROVE  ~IsRegion((queue \o a)[i])
      BY <1>2, <2>2
    <3>1. i \in 1 .. Len(queue) + Len(a) /\ Len(queue \o a) = Len(queue) + Len(a) /\ Len(queue) \in Nat
      BY <1>3, <1>4
    <3>2. Len(a) = 1
      BY <2>3
    <3>3. (queue \o a)[i] = IF i <= Len(queue) THEN queue[i] ELSE a[i - Len(queue)]
      BY <1>3, <1>4, <3>1, ConcatProperties
    <3>4. i <= Len(queue)
      BY <3>1, <3>2
    <3>5. i \in DOMAIN queue
      BY <1>3, <3>1, <3>4
    <3> QED
      BY <2>1, <3>3, <3>4, <3>5 DEF NoRegion
  <2> QED
    BY <1>1, <1>6, <2>1, <2>4 DEF RegionInv, NoRegion, IsRegion
<1>7. CASE cmd \notin {"init", "version", "region"}
  BY <1>1, <1>7 DEF RegionInv
<1> QED
  BY <1>5, <1>6, <1>7

\* If the region's reply is raised, the queue was empty but for it.
LEMMA RegionRaise ==
    ASSUME TypeOK, WaitInv, RegionInv, Raise
    PROVE  RegionInv'
<1>1. /\ UNCHANGED <<step, cmd, reply, busy, sent>> /\ queue # <<>> /\ queue \in Seq(Due)
      /\ irq' = queue[1] /\ fifo' = queue[1] /\ queue' = Tail(queue)
  BY TailFact DEF Raise, console, TypeOK
<1>2. Len(queue) \in Nat /\ Len(queue) >= 1 /\ DOMAIN queue = 1 .. Len(queue)
  BY <1>1
<1>3. /\ Len(queue') = Len(queue) - 1 /\ DOMAIN queue' = 1 .. Len(queue) - 1
      /\ \A i \in 1 .. Len(queue) - 1 : queue'[i] = queue[i + 1]
  <2>1. Tail(queue) \in Seq(Due) /\ Len(Tail(queue)) = Len(queue) - 1
    BY <1>1, HeadTailProperties
  <2>2. \A i \in 1 .. Len(Tail(queue)) : Tail(queue)[i] = queue[i + 1]
    BY <1>1, HeadTailProperties
  <2> DEFINE t == Tail(queue)
  <2>3. t \in Seq(Due) /\ Len(t) = Len(queue) - 1
    BY <2>1
  <2>4. \A i \in 1 .. Len(t) : t[i] = queue[i + 1]
    BY <2>2
  <2> HIDE DEF t
  <2>5. DOMAIN t = 1 .. Len(t)
    BY <2>3
  <2>6. queue' = t
    BY <1>1 DEF t
  <2> QED
    BY <2>3, <2>4, <2>5, <2>6
<1>4. ASSUME NEW i \in 1 .. Len(queue) - 1
      PROVE  i + 1 \in DOMAIN queue
  BY <1>2
<1>5. NoRegion => NoRegion'
  <2> SUFFICES ASSUME NoRegion PROVE NoRegion'
    OBVIOUS
  <2>1. ~IsRegion(irq') /\ ~IsRegion(fifo') /\ ~IsRegion(reply')
    BY <1>1, <1>2 DEF NoRegion
  <2>2. \A i \in DOMAIN queue' : ~IsRegion(queue'[i])
    BY <1>3, <1>4 DEF NoRegion
  <2> QED
    BY <2>1, <2>2 DEF NoRegion, IsRegion
<1>6. ASSUME cmd = "region"
      PROVE  /\ IsRegion(irq') \/ IsRegion(fifo') \/ IsRegion(reply') => queue' = <<>>
             /\ \A i \in DOMAIN queue' : IsRegion(queue'[i]) => i = Len(queue')
  <2>1. \A i \in DOMAIN queue : IsRegion(queue[i]) => i = Len(queue)
    BY <1>6 DEF RegionInv
  <2>2. ~IsRegion(reply)
    BY <1>1, <1>6 DEF RegionInv
  <2>3. ASSUME IsRegion(queue[1]) PROVE queue' = <<>>
    <3>1. Len(queue) = 1
      BY <1>2, <2>1, <2>3
    <3>2. queue' \in Seq(Due)
      BY <1>1, TailFact
    <3>3. Len(queue') = 0
      BY <1>3, <3>1
    <3> QED
      BY <3>2, <3>3
  <2>4. \A i \in DOMAIN queue' : IsRegion(queue'[i]) => i = Len(queue')
    <3> SUFFICES ASSUME NEW i \in 1 .. Len(queue) - 1, IsRegion(queue[i + 1])
                 PROVE  i = Len(queue) - 1
      BY <1>3
    <3>1. i + 1 = Len(queue)
      BY <1>4, <2>1
    <3> DEFINE n == Len(queue)
    <3>2. n \in Nat /\ i + 1 = n /\ i \in 1 .. n - 1
      BY <1>2, <3>1
    <3> HIDE DEF n
    <3>3. i = n - 1
      BY <3>2
    <3> QED
      BY <3>3 DEF n
  <2> QED
    BY <1>1, <2>2, <2>3, <2>4
<1> QED
  BY <1>1, <1>5, <1>6 DEF RegionInv, IsRegion

\* Every step keeps the region's reply the last one due.
LEMMA RegionStep ==
    TypeOK /\ WaitInv /\ RegionInv /\ [Next]_vars => RegionInv'
<1>1. TypeOK /\ WaitInv /\ RegionInv /\ (User \/ UNCHANGED vars) => RegionInv'
  BY DEF User, vars, console, controller, RegionInv, NoRegion, IsRegion
<1> QED
  BY <1>1, RegionPort, RegionAfter, RegionExecute, RegionRaise DEF Next

-----------------------------------------------------------------------------
(* What the loader knows about the drive *)

\* Register accesses change neither the drive nor what is known about it.
LEMMA DoorPort ==
    ASSUME TypeOK, WaitInv, DoorInv, UnlockIsReal, Port
    PROVE  DoorInv' /\ UnlockIsReal'
<1>1. CASE Write
  <2>1. sent'.cmd = cmd /\ step = "write" /\ step' = "wait" /\ UNCHANGED <<cmd, unlock, door>>
    BY <1>1 DEF Write, Response, settings
  <2> QED
    BY <2>1 DEF DoorInv, UnlockIsReal
<1>2. CASE Prepare \/ Clear \/ WaitIdle \/ Poll \/ Ack \/ ReadReply
  <2>1. /\ UNCHANGED <<cmd, unlock, door, busy, sent>> /\ step # "attempt" /\ step' # "attempt"
        /\ step' \in {"prepare", "clear", "write"} => step \in {"prepare", "clear", "write"}
    BY <1>2 DEF Prepare, Clear, WaitIdle, Poll, Ack, ReadReply, settings, controller
  <2> QED
    BY <2>1 DEF DoorInv, UnlockIsReal
<1> QED
  BY <1>1, <1>2 DEF Port

\* A reply to an unlock command that is accepted says that the door opened.
LEMMA DoorReply ==
    ASSUME OwnInv, step = "done", NEW i \in 1 .. 7, cmd = Door[i]
    PROVE  IF got[1].int = 5 /\ reply.ok
           THEN door = i /\ drive.name # "none"
           ELSE drive.name = "none" \/ (cmd = "bd55" /\ p5 # drive.name)
<1>1. cmd \in DoorCmds /\ Clean
  BY CmdFact DEF Clean
<1>2. PICK r \in Due : Single(r) /\ DoorEffect(r) /\ got[1] = r /\ (WantReply => reply = r)
  <2>1. \A r, s \in Due : ~Pair(r, s)
    BY <1>1, CmdFact DEF Pair
  <2> QED
    BY <1>1, <2>1, OwnDone
<1>3. Opened(r) => door = i /\ drive.name # "none"
  BY <1>2 DEF DoorEffect
<1>4. ~Opened(r) => drive.name = "none" \/ (cmd = "bd55" /\ p5 # drive.name)
  BY <1>2 DEF DoorEffect
<1>5. got[1].int = 5 => reply = r
  BY <1>1, <1>2 DEF WantReply
<1>6. got[1].int = 5 /\ reply.ok <=> Opened(r)
  BY <1>2, <1>5 DEF Opened
<1> QED
  BY <1>3, <1>4, <1>6

\* The version that is read is the drive's.
LEMMA VersionReply ==
    ASSUME OwnInv, step = "done", cmd = "version", ~foreign
    PROVE  reply.cmd = "version"
<1>1. \A r, s \in Due : ~Pair(r, s)
  BY DEF Pair, Sessions
<1>2. PICK r \in Due : Single(r) /\ (WantReply => reply = r)
  BY <1>1, OwnDone DEF Clean
<1> QED
  BY <1>2 DEF WantReply, Single, First

\* The region that is read is the drive's.
LEMMA RegionReply ==
    ASSUME OwnInv, step = "done", cmd = "region", ~foreign, drive.version # "94"
    PROVE  got[1].int = 3 /\ reply.cmd = "region"
<1>1. \A r, s \in Due : ~Pair(r, s)
  BY DEF Pair, Sessions
<1>2. PICK r \in Due : Single(r) /\ got[1] = r /\ (WantReply => reply = r)
  BY <1>1, OwnDone DEF Clean
<1>3. r.int = 3 /\ r.cmd = "region"
  BY <1>2, CmdFact, DoorFact DEF Single, First, TwoAnswers, Sessions
<1> QED
  BY <1>2, <1>3 DEF WantReply

\* The loader goes on exactly as far as the drive's unlock sequence.
LEMMA DoorAfter ==
    ASSUME TypeOK, WaitInv, OwnInv, RegionInv, DoorInv, UnlockIsReal, Loader
    PROVE  DoorInv' /\ UnlockIsReal'
<1>1. CASE AfterInit
  <2>1. /\ step = "done" /\ cmd = "init" /\ step' = "prepare" /\ cmd' = "version"
        /\ UNCHANGED <<unlock, door, busy, sent>>
    BY <1>1 DEF AfterInit, Done, Call, settings, controller
  <2>2. unlock /\ door = 0 /\ ~(busy /\ sent.cmd \in DoorCmds)
    BY <2>1, CmdFact DEF DoorInv, Early
  <2> QED
    BY <2>1, <2>2, CmdFact DEF DoorInv, UnlockIsReal, Early
<1>2. CASE AfterVersion
  <2>1. PICK v : unlock' = (v # "94") /\ IF v = "94" THEN ToAttempt ELSE Call("region")
    BY <1>2 DEF AfterVersion
  <2>2. step = "done" /\ cmd = "version" /\ UNCHANGED <<door, busy, sent>>
    BY <1>2 DEF AfterVersion, Done, controller
  <2>3. ~busy /\ door = 0
    BY <2>2 DEF WaitInv, DoorInv, Early
  <2>4. CASE v = "94"
    BY <2>1, <2>2, <2>3, <2>4, CmdFact DEF DoorInv, UnlockIsReal, Early, ToAttempt
  <2>5. CASE v # "94"
    BY <2>1, <2>2, <2>3, <2>5, CmdFact DEF DoorInv, UnlockIsReal, Early, Call
  <2> QED
    BY <2>4, <2>5
<1>3. CASE AfterRegion
  <2>1. /\ step = "done" /\ cmd = "region" /\ UNCHANGED <<door, busy, sent>>
        /\ (unlock' = FALSE /\ ToAttempt) \/ (Call("bd50") /\ UNCHANGED unlock)
    BY <1>3 DEF AfterRegion, Done, controller
  <2>2. ~busy /\ door = 0 /\ unlock
    BY <2>1 DEF WaitInv, DoorInv, Early
  <2>3. CASE unlock' = FALSE /\ ToAttempt
    BY <2>1, <2>2, <2>3, CmdFact DEF DoorInv, UnlockIsReal, Early, ToAttempt
  <2>4. CASE Call("bd50") /\ UNCHANGED unlock
    <3>1. cmd' \in DoorCmds /\ cmd' = Door[1] /\ step' = "prepare"
      BY <2>4, DoorFact DEF Call
    <3>2. \A i \in 1 .. 7 : cmd' = Door[i] => i = 1
      <4>1. 1 \in 1 .. 7
        OBVIOUS
      <4> QED
        BY <3>1, <4>1, DoorIndex
    <3> QED
      BY <2>1, <2>2, <2>4, <3>1, <3>2, CmdFact DEF DoorInv, UnlockIsReal, Early
  <2> QED
    BY <2>1, <2>3, <2>4
<1>4. CASE AfterDoor
  <2>1. PICK i \in 1 .. 7 :
          /\ step = "done" /\ cmd = Door[i] /\ UNCHANGED <<door, busy, sent>>
          /\ IF got[1].int # 5 \/ ~reply.ok THEN unlock' = FALSE /\ ToAttempt
             ELSE UNCHANGED unlock /\ IF i = 7 THEN ToAttempt ELSE Call(Door[i + 1])
    BY <1>4 DEF AfterDoor, Done, controller
  <2>2. cmd \in DoorCmds /\ ~busy
    BY <2>1, CmdFact DEF WaitInv
  <2>3. CASE unlock' = FALSE /\ ToAttempt
    BY <2>1, <2>2, <2>3, CmdFact DEF DoorInv, UnlockIsReal, Early, ToAttempt
  <2>4. CASE got[1].int = 5 /\ reply.ok
    <3>1. door = i /\ unlock
      BY <2>1, <2>4, DoorReply DEF DoorInv
    <3>2. CASE i = 7
      BY <2>1, <2>2, <2>4, <3>1, <3>2, CmdFact DEF DoorInv, UnlockIsReal, Early, ToAttempt
    <3>3. CASE i # 7
      <4>1. i + 1 \in 1 .. 7 /\ cmd' = Door[i + 1] /\ step' = "prepare"
        BY <2>1, <2>4, <3>3 DEF Call
      <4>2. \A j \in 1 .. 7 : cmd' = Door[j] => j = i + 1
        BY <4>1, DoorIndex
      <4>3. cmd' \in DoorCmds /\ unlock' /\ door' = i + 1 - 1 /\ ~busy'
        BY <2>1, <2>2, <2>4, <3>1, <4>1, CmdFact
      <4> QED
        BY <4>1, <4>2, <4>3, CmdFact DEF DoorInv, UnlockIsReal, Early
    <3> QED
      BY <3>2, <3>3
  <2> QED
    BY <2>1, <2>3, <2>4
<1>5. CASE Attempt \/ AfterSession2 \/ AfterSession1 \/ AfterLaser \/ AfterGetstat \/ KernelReads
  <2>1. /\ cmd' \in {"stop", "laser", "getstat"} \cup Sessions /\ UNCHANGED <<unlock, door>>
        /\ UNCHANGED <<busy, sent>> \/ ~busy'
        /\ step = "attempt" \/ (step = "done" /\ cmd \in {"stop", "laser", "getstat"} \cup Sessions)
    BY <1>5 DEF Attempt, AfterSession2, AfterSession1, AfterLaser, AfterGetstat, KernelReads, Call,
                Done, settings, controller, Sessions
  <2>2. unlock => door = 7
    BY <2>1, CmdFact DEF DoorInv, UnlockIsReal, Early
  <2>3. ~busy'
    BY <2>1, CmdFact DEF WaitInv
  <2>4. \A i \in 1 .. 7 : cmd' # Door[i]
    BY <2>1, CmdFact
  <2> QED
    BY <2>1, <2>2, <2>3, <2>4, CmdFact DEF DoorInv, UnlockIsReal, Early
<1> QED
  BY <1>1, <1>2, <1>3, <1>4, <1>5 DEF Loader

\* Every step keeps the count of unlock commands the drive's own.
LEMMA DoorStep ==
    TypeOK /\ WaitInv /\ OwnInv /\ RegionInv /\ DoorInv /\ UnlockIsReal /\ [Next]_vars
        => DoorInv' /\ UnlockIsReal'
<1> SUFFICES ASSUME TypeOK, WaitInv, OwnInv, RegionInv, DoorInv, UnlockIsReal, [Next]_vars
             PROVE  DoorInv' /\ UnlockIsReal'
  OBVIOUS
<1>1. CASE Execute
  <2>1. UNCHANGED <<step, cmd, unlock>> /\ busy /\ ~busy'
    BY <1>1 DEF Execute, console, settings
  <2>2. CASE sent.cmd \in DoorCmds
    <3>1. cmd \in DoorCmds /\ step = "wait"
      BY <2>1, <2>2, CmdFact DEF DoorInv, WaitInv
    <3> QED
      BY <2>1, <3>1, CmdFact DEF DoorInv, UnlockIsReal, Early
  <2>3. CASE sent.cmd \notin DoorCmds
    <3>1. door' = door
      BY <1>1, <2>3 DEF Execute
    <3> QED
      BY <2>1, <3>1 DEF DoorInv, UnlockIsReal
  <2> QED
    BY <2>2, <2>3
<1>2. CASE Raise \/ User \/ UNCHANGED vars
  <2>1. UNCHANGED <<step, cmd, unlock, busy, sent, door>>
    BY <1>2 DEF Raise, User, vars, console, settings, controller
  <2> QED
    BY <2>1 DEF DoorInv, UnlockIsReal
<1> QED
  BY <1>1, <1>2, DoorPort, DoorAfter DEF Next

\* The fifth string chosen for the region is the one such a drive expects.
LEMMA P5IsName ==
    ASSUME TypeOK, Reach, drive.name # "none"
    PROVE  P5(drive.region) = drive.name
<1>1. <<drive.region, drive.name>> \in Sold
  BY DrivesAssumption DEF TypeOK
<1>2. \/ drive.region = "for Europe" /\ drive.name = "(Europe)"
      \/ drive.region = "for U/C" /\ drive.name = "of America"
      \/ drive.region \in {"for NETEU", "for NETNA"} /\ drive.name = "World wide"
  BY <1>1 DEF Sold
<1> QED
  BY <1>2 DEF P5

\* What is known about the drive changes only between two commands.
LEMMA KnownKept ==
    ASSUME KnownInv, UnlockIfPossible, UNCHANGED <<cmd, unlock, p5, drive, foreign>>,
           step' = "attempt" <=> step = "attempt"
    PROVE  KnownInv' /\ UnlockIfPossible'
<1>1. Unlockable' = Unlockable /\ Reach' = Reach
  BY DEF Unlockable, Reach
<1> QED
  BY <1>1 DEF KnownInv, UnlockIfPossible

\* The loader draws the right conclusion from each reply.
LEMMA KnownAfter ==
    ASSUME TypeOK, WaitInv, OwnInv, RegionInv, DoorInv, UnlockIsReal, KnownInv, UnlockIfPossible, Loader
    PROVE  KnownInv' /\ UnlockIfPossible'
<1>0. UNCHANGED <<drive, foreign>>
  BY DEF Loader, AfterInit, AfterVersion, AfterRegion, AfterDoor, Attempt, AfterSession2, AfterSession1,
         AfterLaser, KernelReads, AfterGetstat, Done
<1>1. Unlockable' = Unlockable /\ Reach' = Reach
  BY <1>0 DEF Unlockable, Reach
<1>2. SUFFICES ASSUME ~foreign PROVE KnownInv' /\ UnlockIfPossible'
  BY <1>0 DEF KnownInv, UnlockIfPossible
<1>3. CASE AfterInit
  <2>1. cmd' = "version" /\ step' = "prepare"
    BY <1>3 DEF AfterInit, Call
  <2> QED
    BY <2>1, CmdFact DEF KnownInv, UnlockIfPossible, Early
<1>4. CASE AfterVersion
  <2>1. step = "done" /\ cmd = "version"
    BY <1>4 DEF AfterVersion, Done
  <2>2. reply.cmd = "version"
    BY <1>2, <2>1, VersionReply
  <2>3. /\ unlock' = (drive.version # "94")
        /\ IF drive.version = "94" THEN ToAttempt ELSE Call("region")
    BY <1>4, <2>2 DEF AfterVersion
  <2>4. CASE drive.version = "94"
    <3>1. step' = "attempt" /\ ~unlock' /\ ~Unlockable
      BY <2>3, <2>4 DEF ToAttempt, Unlockable
    <3> QED
      BY <1>1, <3>1 DEF KnownInv, UnlockIfPossible
  <2>5. CASE drive.version # "94"
    <3>1. step' = "prepare" /\ cmd' = "region"
      BY <2>3, <2>5 DEF Call
    <3> QED
      BY <1>0, <2>5, <3>1, CmdFact DEF KnownInv, UnlockIfPossible, Early
  <2> QED
    BY <2>4, <2>5
<1>5. CASE AfterRegion
  <2>1. step = "done" /\ cmd = "region"
    BY <1>5 DEF AfterRegion, Done
  <2>2. drive.version # "94"
    BY <1>2, <2>1 DEF KnownInv
  <2>3. got[1].int = 3 /\ reply.cmd = "region"
    BY <1>2, <2>1, <2>2, RegionReply
  <2>4. IF drive.region \in {"for Japan", "other"}
        THEN unlock' = FALSE /\ ToAttempt
        ELSE p5' = P5(drive.region) /\ Call("bd50")
    BY <1>5, <2>3 DEF AfterRegion
  <2>5. CASE Reach
    <3>1. p5' = P5(drive.region) /\ step' = "prepare" /\ cmd' \in DoorCmds
      BY <2>4, <2>5, DoorFact DEF Call, Reach
    <3> QED
      BY <1>0, <1>1, <2>2, <2>5, <3>1, CmdFact DEF KnownInv, UnlockIfPossible, Early
  <2>6. CASE ~Reach
    <3>1. step' = "attempt" /\ ~unlock' /\ ~Unlockable
      BY <2>4, <2>6 DEF ToAttempt, Unlockable, Reach
    <3> QED
      BY <1>1, <3>1 DEF KnownInv, UnlockIfPossible
  <2> QED
    BY <2>5, <2>6
<1>6. CASE AfterDoor
  <2>1. PICK i \in 1 .. 7 :
          /\ step = "done" /\ cmd = Door[i] /\ UNCHANGED p5
          /\ IF got[1].int # 5 \/ ~reply.ok THEN unlock' = FALSE /\ ToAttempt
             ELSE UNCHANGED unlock /\ IF i = 7 THEN ToAttempt ELSE Call(Door[i + 1])
    BY <1>6 DEF AfterDoor, Done
  <2>2. cmd \in DoorCmds
    BY <2>1, CmdFact
  <2>3. drive.version # "94" /\ Reach /\ p5 = P5(drive.region) /\ unlock
    BY <1>2, <2>1, <2>2 DEF KnownInv, DoorInv
  <2>4. IF got[1].int = 5 /\ reply.ok THEN drive.name # "none"
        ELSE drive.name = "none" \/ (cmd = "bd55" /\ p5 # drive.name)
    BY <2>1, DoorReply
  <2>5. CASE ~(got[1].int = 5 /\ reply.ok)
    <3>1. drive.name = "none"
      BY <2>3, <2>4, <2>5, P5IsName
    <3>2. step' = "attempt" /\ ~unlock' /\ ~Unlockable
      BY <2>1, <2>5, <3>1 DEF ToAttempt, Unlockable
    <3> QED
      BY <1>1, <3>2 DEF KnownInv, UnlockIfPossible
  <2>6. CASE got[1].int = 5 /\ reply.ok
    <3>1. CASE i = 7
      <4>1. step' = "attempt" /\ unlock' /\ Unlockable
        BY <2>1, <2>3, <2>4, <2>6, <3>1 DEF ToAttempt, Unlockable, Reach
      <4> QED
        BY <1>1, <4>1 DEF KnownInv, UnlockIfPossible
    <3>2. CASE i # 7
      <4>1. step' = "prepare" /\ cmd' \in DoorCmds
        BY <2>1, <2>6, <3>2, CmdFact DEF Call
      <4> QED
        BY <1>0, <1>1, <2>1, <2>3, <4>1, CmdFact DEF KnownInv, UnlockIfPossible, Early
    <3> QED
      BY <3>1, <3>2
  <2> QED
    BY <2>5, <2>6
<1>7. CASE Attempt \/ AfterSession2 \/ AfterSession1 \/ AfterLaser \/ AfterGetstat \/ KernelReads
  <2>1. /\ step' # "attempt" => cmd' \in {"stop", "laser", "getstat"} \cup Sessions
        /\ UNCHANGED unlock
        /\ step = "attempt" \/ (step = "done" /\ cmd \in {"stop", "laser", "getstat"} \cup Sessions)
    BY <1>7 DEF Attempt, AfterSession2, AfterSession1, AfterLaser, AfterGetstat, KernelReads, Call,
                Done, settings, Sessions
  <2>2. unlock <=> Unlockable
    BY <1>2, <2>1, CmdFact DEF KnownInv, UnlockIfPossible, Early
  <2> QED
    BY <1>1, <2>1, <2>2, CmdFact DEF KnownInv, UnlockIfPossible
<1> QED
  BY <1>3, <1>4, <1>5, <1>6, <1>7 DEF Loader

\* Every step keeps what the loader knows true of the drive.
LEMMA KnownStep ==
    TypeOK /\ WaitInv /\ OwnInv /\ RegionInv /\ DoorInv /\ UnlockIsReal /\ KnownInv /\ UnlockIfPossible
        /\ [Next]_vars => KnownInv' /\ UnlockIfPossible'
<1>1. Port \/ Execute \/ Raise \/ User \/ UNCHANGED vars =>
        /\ UNCHANGED <<cmd, unlock, p5, drive, foreign>>
        /\ step' = "attempt" <=> step = "attempt"
  BY DEF Port, Prepare, Clear, Write, WaitIdle, Poll, Ack, ReadReply, Execute, Raise, User, vars,
         console, settings
<1> QED
  BY <1>1, KnownKept, KnownAfter DEF Next

-----------------------------------------------------------------------------
(* Theorems *)

\* The invariant holds at the start.
LEMMA CdInit == Init => CdInvariant
<1> SUFFICES ASSUME Init PROVE CdInvariant
  OBVIOUS
<1>1. step = "prepare" /\ cmd = "init" /\ unlock /\ door = 0
  BY DEF Init
<1>2. ~foreign => queue = <<>> /\ ~busy
  <2>1. PICK left \in 0 .. MaxForeign :
           /\ foreign = (left > 0)
           /\ left = 0 => busy = FALSE /\ queue = <<>>
    BY DEF Init
  <2>2. left \in Nat
    BY <2>1, ForeignAssumption
  <2>3. left = 0 \/ left > 0
    BY <2>2
  <2>4. CASE left = 0
    BY <2>1, <2>4, Zenon
  <2>5. CASE left > 0
    BY <2>1, <2>5, Zenon
  <2> QED
    BY <2>3, <2>4, <2>5
<1>3. irq.cmd # "region" /\ fifo.cmd # "region" /\ reply.cmd # "region" /\ sent.cmd \notin DoorCmds
      /\ sent.cmd # "region"
  BY CmdFact DEF Init, Foreign, Quiet, Response
<1>4. \A i \in DOMAIN queue : queue[i].cmd # "region"
  BY DEF Init, Foreign, Response
<1>5. RegionInv
  BY <1>1, <1>3, <1>4 DEF RegionInv, NoRegion, IsRegion
<1>6. OwnInv
  BY <1>1, <1>2, CmdFact DEF OwnInv, Clean, Within
<1>7. DoorInv /\ UnlockIsReal
  BY <1>1, <1>3, CmdFact DEF DoorInv, UnlockIsReal, Early
<1>8. KnownInv /\ UnlockIfPossible
  BY <1>1, CmdFact DEF KnownInv, UnlockIfPossible, Early
<1> QED
  BY <1>5, <1>6, <1>7, <1>8, TypeInit, WaitInit DEF CdInvariant

\* The invariant: who waits for what, where the answers are, and what the
\* loader knows, for every set of drives and whoever ran before.
THEOREM CommandInvariant == Spec => []CdInvariant
<1>1. CdInvariant /\ [Next]_vars => CdInvariant'
  BY TypeStep, WaitStep, RegionStep, OwnStep, DoorStep, KnownStep DEF CdInvariant
<1> QED
  BY <1>1, CdInit, PTL DEF Spec

\* Every variable keeps its type, and no command collects more than two responses.
THEOREM CdTyped == Spec => []TypeOK
<1>1. CdInvariant => TypeOK
  BY DEF CdInvariant
<1> QED
  BY <1>1, CommandInvariant, PTL

\* Nobody waits for an interrupt that is not coming.
THEOREM NoVainWait == Spec => []AwaitedIsComing
<1>1. CdInvariant => AwaitedIsComing
  BY DEF CdInvariant, WaitInv, AwaitedIsComing, Enough
<1> QED
  BY <1>1, CommandInvariant, PTL

\* The loader thinks only those drives unlocked that are, also if somebody
\* else's command was under way.
THEOREM UnlockTrue == Spec => []UnlockIsReal
<1>1. CdInvariant => UnlockIsReal
  BY DEF CdInvariant
<1> QED
  BY <1>1, CommandInvariant, PTL

\* Every drive that can be unlocked is, if nothing was under way.
THEOREM UnlockAll == Spec => []UnlockIfPossible
<1>1. CdInvariant => UnlockIfPossible
  BY DEF CdInvariant
<1> QED
  BY <1>1, CommandInvariant, PTL

-----------------------------------------------------------------------------
(* Commands are calls *)

\* What CdCalls sees of the responses taken.
TakenOf(s) == [i \in DOMAIN s |-> Taken(s[i])]

\* A single response is a whole answer.
LEMMA FinalOne ==
    ASSUME NEW r \in Due, Single(r), cmd \in Cmds
    PROVE  <<r.int>> \in Final[cmd]
<1>1. CASE cmd \in {"version", "laser", "getstat"}
  BY <1>1, DoorFact DEF Single, TwoAnswers, Sessions, Final
<1>2. CASE cmd = "region" \/ cmd \in DoorCmds
  BY <1>2, DoorFact DEF Single, TwoAnswers, Sessions, Final
<1>3. CASE cmd \in TwoAnswers
  BY <1>3, DoorFact DEF Single, TwoAnswers, Sessions, Final
<1> QED
  BY <1>1, <1>2, <1>3 DEF Single

\* Two responses are a whole answer.
LEMMA FinalTwo ==
    ASSUME NEW r \in Due, NEW s \in Due, Pair(r, s), cmd \in Cmds
    PROVE  <<r.int, s.int>> \in Final[cmd]
<1>1. CASE cmd = "init"
  BY <1>1, DoorFact DEF Pair, Sessions, Final
<1>2. CASE cmd = "stop"
  BY <1>2, DoorFact DEF Pair, Sessions, Final
<1>3. CASE cmd \in Sessions
  BY <1>3, DoorFact DEF Pair, Sessions, Final
<1> QED
  BY <1>1, <1>2, <1>3 DEF Pair

\* The n-th response to the command under way.
Own(n, int) == [own |-> TRUE, n |-> n, int |-> int]

\* A response to the command under way is taken as its own.
LEMMA OwnTaken ==
    ASSUME NEW r, NEW n, r.cmd = cmd, r.serial = serial, r.n = n
    PROVE  Taken(r) = Own(n, r.int)
<1>1. (r.cmd = cmd /\ r.serial = serial) = TRUE
  BY Zenon
<1> QED
  BY <1>1 DEF Taken, Own

\* A single response to the command is an answer of its own.
LEMMA OneIsOwn ==
    ASSUME NEW r \in Due, First(r)
    PROVE  TakenOf(<<r>>) = Calls!OwnAnswer(<<r.int>>)
<1>1. Taken(r) = Own(1, r.int)
  BY OwnTaken DEF First
<1>2. TakenOf(<<r>>) = [i \in {1} |-> Own(1, r.int)]
  BY <1>1 DEF TakenOf
<1>3. Calls!OwnAnswer(<<r.int>>) = [i \in {1} |-> Own(1, r.int)]
  <2>1. DOMAIN <<r.int>> = {1} /\ \A i \in {1} : Own(i, <<r.int>>[i]) = Own(1, r.int)
    OBVIOUS
  <2> QED
    BY <2>1 DEF Calls!OwnAnswer, Own
<1> QED
  BY <1>2, <1>3

\* So are two, and the first is the beginning of both.
LEMMA TwoAreOwn ==
    ASSUME NEW r \in Due, NEW s \in Due, First(r), Second(s)
    PROVE  /\ TakenOf(<<r, s>>) = Calls!OwnAnswer(<<r.int, s.int>>)
           /\ Calls!Begins(TakenOf(<<r>>), Calls!OwnAnswer(<<r.int, s.int>>))
<1> DEFINE a == [i \in {1, 2} |-> IF i = 1 THEN Own(1, r.int) ELSE Own(2, s.int)]
<1>1. Taken(r) = Own(1, r.int) /\ Taken(s) = Own(2, s.int)
  BY OwnTaken DEF First, Second
<1>2. TakenOf(<<r, s>>) = a
  <2>1. DOMAIN <<r, s>> = {1, 2} /\ <<r, s>>[1] = r /\ <<r, s>>[2] = s
    OBVIOUS
  <2>2. \A i \in {1, 2} : Taken(<<r, s>>[i]) = a[i]
    BY <1>1, <2>1
  <2> QED
    BY <2>1, <2>2 DEF TakenOf
<1>3. Calls!OwnAnswer(<<r.int, s.int>>) = a
  <2>1. DOMAIN <<r.int, s.int>> = {1, 2} /\ <<r.int, s.int>>[1] = r.int /\ <<r.int, s.int>>[2] = s.int
    OBVIOUS
  <2>2. \A i \in {1, 2} : Own(i, <<r.int, s.int>>[i]) = a[i]
    BY <2>1
  <2> QED
    BY <2>1, <2>2 DEF Calls!OwnAnswer, Own
<1>4. Len(a) = 2 /\ a[1] = Own(1, r.int)
  BY DEF a
<1>5. TakenOf(<<r>>) = <<Own(1, r.int)>>
  BY <1>1 DEF TakenOf
<1> HIDE DEF a
<1>6. Calls!Begins(<<Own(1, r.int)>>, a)
  BY <1>4 DEF Calls!Begins
<1> QED
  BY <1>2, <1>3, <1>5, <1>6

\* A command that is done with took a whole answer of its own.
LEMMA DoneIsWhole ==
    TypeOK /\ OwnInv /\ ~foreign /\ step = "done"
        => \E answer \in Final[cmd] : TakenOf(got) = Calls!OwnAnswer(answer)
<1> SUFFICES ASSUME TypeOK, OwnInv, ~foreign, step = "done"
             PROVE  \E answer \in Final[cmd] : TakenOf(got) = Calls!OwnAnswer(answer)
  OBVIOUS
<1>1. Answered
  BY DEF OwnInv, Clean, Within, Executing
<1>2. cmd \in Cmds
  BY DEF TypeOK
<1>3. ASSUME NEW r \in Due, Single(r), OneDue(r)
      PROVE  \E answer \in Final[cmd] : TakenOf(got) = Calls!OwnAnswer(answer)
  <2>1. got = <<r>> /\ First(r)
    BY <1>3 DEF OneDue, NotYet, Single
  <2> QED
    BY <1>2, <1>3, <2>1, FinalOne, OneIsOwn
<1>4. ASSUME NEW r \in Due, NEW s \in Due, Pair(r, s), TwoDue(r, s)
      PROVE  \E answer \in Final[cmd] : TakenOf(got) = Calls!OwnAnswer(answer)
  <2>1. got = <<r, s>> /\ First(r) /\ Second(s)
    BY <1>4 DEF TwoDue, NotYet, Pair
  <2> QED
    BY <1>2, <1>4, <2>1, FinalTwo, TwoAreOwn
<1> QED
  BY <1>1, <1>3, <1>4 DEF Answered

\* What was taken when an interrupt was polled is the beginning of such an answer.
LEMMA AckIsConsistent ==
    TypeOK /\ OwnInv /\ ~foreign /\ step = "ack"
        => \E answer \in Final[cmd] : Calls!Begins(TakenOf(got), Calls!OwnAnswer(answer))
<1> SUFFICES ASSUME TypeOK, OwnInv, ~foreign, step = "ack"
             PROVE  \E answer \in Final[cmd] : Calls!Begins(TakenOf(got), Calls!OwnAnswer(answer))
  OBVIOUS
<1>1. Answered
  BY DEF OwnInv, Clean, Within, Executing
<1>2. cmd \in Cmds
  BY DEF TypeOK
<1>3. ASSUME NEW r \in Due, Single(r), OneDue(r)
      PROVE  \E answer \in Final[cmd] : Calls!Begins(TakenOf(got), Calls!OwnAnswer(answer))
  <2>1. got = <<r>> /\ First(r)
    BY <1>3 DEF OneDue, NotYet, Single
  <2>2. Calls!Begins(Calls!OwnAnswer(<<r.int>>), Calls!OwnAnswer(<<r.int>>))
    BY DEF Calls!Begins, Calls!OwnAnswer
  <2> QED
    BY <1>2, <1>3, <2>1, <2>2, FinalOne, OneIsOwn
<1>4. ASSUME NEW r \in Due, NEW s \in Due, Pair(r, s), TwoDue(r, s)
      PROVE  \E answer \in Final[cmd] : Calls!Begins(TakenOf(got), Calls!OwnAnswer(answer))
  <2>1. (got = <<r>> \/ got = <<r, s>>) /\ First(r) /\ Second(s)
    BY <1>4 DEF TwoDue, NotYet, Pair
  <2>2. Calls!Begins(Calls!OwnAnswer(<<r.int, s.int>>), Calls!OwnAnswer(<<r.int, s.int>>))
    BY DEF Calls!Begins, Calls!OwnAnswer
  <2> QED
    BY <1>2, <1>4, <2>1, <2>2, FinalTwo, TwoAreOwn
<1> QED
  BY <1>1, <1>3, <1>4 DEF Answered

\* A step that CdCalls does not see.
LEMMA CallsKept ==
    ASSUME InCall' = InCall, InCall => UNCHANGED <<cmd, got, serial>>, UNCHANGED foreign
    PROVE  UNCHANGED Calls!vars
<1>1. CASE ~InCall
  BY <1>1 DEF Calls!vars
<1>2. CASE InCall
  BY <1>2 DEF Calls!vars, Taken
<1> QED
  BY <1>1, <1>2

\* Writing a command issues the call.
LEMMA CallsIssue ==
    ASSUME TypeOK, WaitInv, Write
    PROVE  Calls!Issue
<1>1. ~InCall /\ InCall' /\ cmd' = cmd /\ got' = <<>> /\ foreign' = foreign /\ cmd \in Cmds
  BY DEF Write, InCall, WaitInv, TypeOK
<1>2. [i \in DOMAIN got' |-> Taken(got[i])'] = <<>>
  BY <1>1
<1> QED
  BY <1>1, <1>2 DEF Calls!Issue

\* A command is not None.
LEMMA CmdIsSome == "none" \notin Cmds
BY DoorFact DEF Cmds, Sessions

\* What was taken are responses.
LEMMA TakenType ==
    ASSUME NEW s \in Seq(Due)
    PROVE  TakenOf(s) \in Seq(Calls!Response) /\ Len(TakenOf(s)) = Len(s)
<1>1. Len(s) \in Nat /\ DOMAIN s = 1 .. Len(s) /\ \A i \in 1 .. Len(s) : s[i] \in Due
  OBVIOUS
<1>2. \A r \in Due : Taken(r) \in Calls!Response
  BY DEF Taken, Due, Responses, Calls!Response
<1>3. TakenOf(s) = [i \in 1 .. Len(s) |-> Taken(s[i])]
  BY <1>1 DEF TakenOf
<1> QED
  BY <1>1, <1>2, <1>3

\* One more response taken is one more for the call.
LEMMA TakenAppend ==
    ASSUME NEW s \in Seq(Due), NEW r \in Due
    PROVE  TakenOf(Append(s, r)) = Append(TakenOf(s), Taken(r))
<1>1. Append(s, r) \in Seq(Due) /\ Len(Append(s, r)) = Len(s) + 1 /\ Len(s) \in Nat
  OBVIOUS
<1>2. Taken(r) \in Calls!Response
  BY DEF Taken, Due, Responses, Calls!Response
<1>3. TakenOf(s) \in Seq(Calls!Response) /\ Len(TakenOf(s)) = Len(s)
  BY TakenType
<1>4. TakenOf(Append(s, r)) \in Seq(Calls!Response) /\ Len(TakenOf(Append(s, r))) = Len(s) + 1
  BY <1>1, TakenType
<1>5. ASSUME NEW i \in 1 .. Len(s) + 1
      PROVE  TakenOf(Append(s, r))[i] = Append(TakenOf(s), Taken(r))[i]
  <2>1. CASE i = Len(s) + 1
    BY <1>1, <1>2, <1>3, <2>1 DEF TakenOf
  <2>2. CASE i \in 1 .. Len(s)
    BY <1>1, <1>2, <1>3, <2>2 DEF TakenOf
  <2>3. i = Len(s) + 1 \/ i \in 1 .. Len(s)
    BY <1>1
  <2> QED
    BY <2>1, <2>2, <2>3
<1> QED
  BY <1>2, <1>3, <1>4, <1>5, SeqEqual

\* Polling an interrupt takes a response.
LEMMA CallsTake ==
    ASSUME TypeOK, WaitInv, OwnInv, TypeOK', OwnInv', Poll
    PROVE  Calls!Take
<1>1. /\ InCall /\ InCall' /\ cmd' = cmd /\ serial' = serial /\ foreign' = foreign
      /\ got' = Append(got, irq) /\ step' = "ack" /\ Len(got) <= 1
  BY DEF Poll, InCall, WaitInv, controller
<1>2. cmd \in Cmds /\ got \in Seq(Due) /\ irq \in Due
  BY DEF TypeOK, Poll
<1>3. Taken(irq) \in Calls!Response
  BY <1>2 DEF Taken, Due, Responses, Calls!Response
<1>4. Len(TakenOf(got)) = Len(got)
  BY <1>2, TakenType
<1>5. TakenOf(got)' = Append(TakenOf(got), Taken(irq))
  <2>1. TakenOf(got)' = TakenOf(Append(got, irq))
    BY <1>1 DEF TakenOf, Taken
  <2> QED
    BY <1>2, <2>1, TakenAppend
<1>6. ~foreign => \E answer \in Final[cmd] :
         Calls!Begins(Append(TakenOf(got), Taken(irq)), Calls!OwnAnswer(answer))
  <2>1. (TypeOK /\ OwnInv /\ ~foreign /\ step = "ack"
            => \E answer \in Final[cmd] : Calls!Begins(TakenOf(got), Calls!OwnAnswer(answer)))'
    BY AckIsConsistent, PTL
  <2>2. ~foreign => \E answer \in Final[cmd] : Calls!Begins(TakenOf(got)', Calls!OwnAnswer(answer))
    BY <1>1, <2>1 DEF Calls!Begins, Calls!OwnAnswer
  <2> QED
    BY <1>5, <2>2
<1>7. Calls!Take <=>
        /\ cmd # "none" /\ Len(TakenOf(got)) < 2
        /\ \E r \in Calls!Response :
              /\ TakenOf(got)' = Append(TakenOf(got), r)
              /\ ~foreign => \E answer \in Final[cmd] :
                    Calls!Begins(Append(TakenOf(got), r), Calls!OwnAnswer(answer))
        /\ UNCHANGED <<cmd, foreign>>
  BY <1>1 DEF Calls!Take, Calls!Consistent, TakenOf
<1> QED
  BY <1>1, <1>2, <1>3, <1>4, <1>5, <1>6, <1>7, CmdIsSome

\* The call returns when the last response was acknowledged, or its reply read.
LEMMA CallsReturn ==
    ASSUME TypeOK, TypeOK', OwnInv', InCall, step' = "done", got # <<>>,
           UNCHANGED <<cmd, got, serial, foreign>>
    PROVE  Calls!Return
<1>1. ~InCall' /\ cmd \in Cmds /\ got \in Seq(Due)
  BY DEF InCall, TypeOK
<1>2. TakenOf(got) # <<>>
  BY <1>1 DEF TakenOf
<1>3. ~foreign => \E answer \in Final[cmd] : TakenOf(got) = Calls!OwnAnswer(answer)
  <2>1. (TypeOK /\ OwnInv /\ ~foreign /\ step = "done"
            => \E answer \in Final[cmd] : TakenOf(got) = Calls!OwnAnswer(answer))'
    BY DoneIsWhole, PTL
  <2>2. TakenOf(got)' = TakenOf(got)
    BY DEF TakenOf, Taken
  <2> QED
    BY <2>1, <2>2
<1> QED
  BY <1>1, <1>2, <1>3, CmdIsSome DEF Calls!Return, Calls!Whole, TakenOf

\* Every step of the registers is a step of the calls, or none.
LEMMA CallsStep ==
    CdInvariant /\ CdInvariant' /\ [Next]_vars => [Calls!Next]_(Calls!vars)
<1> SUFFICES ASSUME CdInvariant, CdInvariant', [Next]_vars
             PROVE  Calls!Next \/ UNCHANGED Calls!vars
  OBVIOUS
<1>1. CASE Prepare \/ Clear
  BY <1>1, CallsKept DEF Prepare, Clear, InCall
<1>2. CASE Write
  BY <1>2, CallsIssue DEF CdInvariant, Calls!Next
<1>3. CASE WaitIdle
  BY <1>3, CallsKept DEF WaitIdle, InCall, controller
<1>4. CASE Poll
  BY <1>4, CallsTake DEF CdInvariant, Calls!Next
<1>5. CASE Ack
  <2>1. InCall /\ got # <<>> /\ UNCHANGED <<cmd, got, serial, foreign>>
    BY <1>5 DEF Ack, InCall, CdInvariant, WaitInv
  <2>2. CASE step' = "done"
    BY <2>1, <2>2, CallsReturn DEF CdInvariant, Calls!Next
  <2>3. CASE step' # "done"
    BY <1>5, <2>1, <2>3, CallsKept DEF Ack, InCall
  <2> QED
    BY <2>2, <2>3
<1>6. CASE ReadReply
  <2>1. InCall /\ step' = "done" /\ UNCHANGED <<cmd, got, serial, foreign>>
    BY <1>6 DEF ReadReply, InCall
  <2>2. got # <<>>
    BY <1>6 DEF ReadReply, CdInvariant, WaitInv
  <2> QED
    BY <2>1, <2>2, CallsReturn DEF CdInvariant, Calls!Next
<1>7. CASE Loader
  <2>1. step \in {"done", "attempt"} /\ step' \in {"prepare", "attempt", "booted"} /\ UNCHANGED foreign
    BY <1>7 DEF Loader, AfterInit, AfterVersion, AfterRegion, AfterDoor, Attempt, AfterSession2,
                AfterSession1, AfterLaser, KernelReads, AfterGetstat, Done, Call, ToAttempt
  <2> QED
    BY <2>1, CallsKept DEF InCall
<1>8. CASE Execute \/ Raise \/ User \/ UNCHANGED vars
  BY <1>8, CallsKept DEF Execute, Raise, User, vars, console, controller, InCall
<1> QED
  BY <1>1, <1>2, <1>3, <1>4, <1>5, <1>6, <1>7, <1>8 DEF Next, Port

\* A command is a call that takes exactly its own responses, all of them, and
\* returns (cdrom.c:31-121): the safety half of ImplementsCalls, for every set
\* of drives and whoever ran before.
THEOREM CallsImplemented == Spec => Calls!Init /\ [][Calls!Next]_(Calls!vars)
<1>1. Init => Calls!Init
  BY DEF Init, InCall, Calls!Init
<1>2. CdInvariant /\ CdInvariant' /\ [Next]_vars => [Calls!Next]_(Calls!vars)
  BY CallsStep
<1> QED
  BY <1>1, <1>2, CommandInvariant, PTL DEF Spec
=============================================================================
