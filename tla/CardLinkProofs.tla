--------------------------- MODULE CardLinkProofs ---------------------------
(***************************************************************************)
(* For every Game-ID, and whatever is garbled, late or pulled out on the   *)
(* way: each reply is the one to the byte just written, a card takes the   *)
(* whole ID or nothing, an ordinary card never sees the Game-ID command,   *)
(* and success with the card still there means that it has the ID.         *)
(*                                                                         *)
(* The inductive invariant says what is on the link at each step, and that *)
(* a card that was not removed heard exactly the bytes shifted out since   *)
(* it was selected.                                                        *)
(***************************************************************************)
EXTENDS CardLink, SequenceTheorems, TLAPS

\* Before, between and after the routines; within one.
Outside == {"called", "pinged", "delay", "delayed", "sent", "returned"}
Inside == {"flush", "write", "receive", "ack", "check", "end"}

\* What is under way between the console and the card: nothing, the byte just
\* written, the reply to it, or something that nobody waits for.
Nothing == tx = <<>> /\ fifo = <<>>
OnItsWay == tx = <<Frame(Current.out, call, pos)>> /\ fifo = <<>>
Replied == tx = <<>> /\ \E v \in 0 .. 255 : fifo = <<Frame(v, call, pos)>>
Stale == tx = <<>> /\ Len(fifo) <= 1
EndByte == tx = <<Frame(0, "end", 0)>> /\ fifo = <<>>

LinkInv ==
    /\ selected <=> step \in Inside
    /\ step \in {"called", "flush"} => Stale /\ pos = 1
    /\ step = "delayed" => Stale
    /\ step \in {"pinged", "delay", "sent", "returned"} => Stale \/ EndByte
    /\ step \in {"write", "check", "end"} => Nothing
    /\ step = "receive" => OnItsWay \/ Replied
    /\ step = "ack" => Replied
    /\ step = "check" => reply.of = <<call, pos>>
    /\ step = "pinged" => call = "ping"

\* How many bytes of the routine were shifted out.
Shifted == IF step \in {"flush", "write"} \/ tx # <<>> THEN pos - 1 ELSE pos

HeardInv ==
    kind # "none" =>
        IF selected THEN /\ Len(heard) = Shifted
                         /\ \A i \in 1 .. Shifted : heard[i] = Routine(call)[i].out
        ELSE heard = <<>>

\* A card that does not know the ping refuses its third byte.
SonyInv ==
    kind = "sony" =>
        /\ call = "ping" /\ pos <= 3 /\ step \notin {"delay", "delayed", "sent"}
        /\ step \in {"end", "pinged"} => result # 0
        /\ pos = 3 /\ step \in {"receive", "ack"} /\ fifo # <<>> => fifo[1].value # 0
        /\ pos = 3 /\ step = "check" => reply.value # 0

TakenInv ==
    /\ taken \in {<<>>, Packet}
    /\ kind = "pro" /\ call = "send" /\ selected /\ Len(heard) = Len(SendBytes) => taken = Packet
    /\ kind = "pro" /\ call = "send" /\ step \in {"end", "sent", "returned"} /\ result = 0
          => taken = Packet

LinkInvariant == TypeOK /\ LinkInv /\ HeardInv /\ SonyInv /\ TakenInv

-----------------------------------------------------------------------------
(* The routines *)

\* The packet is the Game-ID and a zero.
LEMMA PacketFact ==
    /\ Packet \in Seq(0 .. 255) /\ Packet # <<>> /\ Len(Packet) = Len(GameId) + 1
    /\ Len(GameId) \in 1 .. 250 /\ Len(Packet) \in 2 .. 251
<1>1. GameId \in Seq(0 .. 255)
  BY GameIdAssumption
<1>2. Len(GameId) \in 1 .. 250
  BY GameIdAssumption
<1>3. 0 \in 0 .. 255
  OBVIOUS
<1>4. Packet \in Seq(0 .. 255) /\ Packet # <<>>
  BY <1>1, <1>3, AppendProperties DEF Packet
<1>5. Len(Packet) = Len(GameId) + 1
  BY <1>1, <1>3, AppendProperties DEF Packet
<1>6. Len(Packet) \in 2 .. 251
  <2> DEFINE n == Len(GameId)
  <2>1. n \in 1 .. 250
    BY <1>2
  <2>2. Len(Packet) = n + 1
    BY <1>5
  <2> HIDE DEF n
  <2>3. n + 1 \in 2 .. 251
    BY <2>1
  <2> QED
    BY <2>2, <2>3
<1> QED
  BY <1>2, <1>4, <1>5, <1>6

\* An exchange of the routines: its byte, its replies, its error.
Exch == [out: 0 .. 255, ok: SUBSET (0 .. 255), err: 1 .. 5, last: BOOLEAN]

\* Every exchange of a ping.
LEMMA PingFact ==
    /\ PingBytes \in Seq(Exch) /\ Len(PingBytes) = 6
    /\ \A i \in 1 .. 6 : PingBytes[i].out # SendId
    /\ PingBytes[1].out = Select /\ PingBytes[2].out = Ping /\ PingBytes[3].ok = {0}
<1> DEFINE e1 == Exchange(Select, {255}, 1)
           e2 == Exchange(Ping, {0, 8}, 2)
           e3 == Exchange(0, {0}, 3)
           e5 == Exchange(0, {Present}, 4)
           e6 == [out |-> 0, ok |-> {255}, err |-> 5, last |-> TRUE]
<1>1. e1 \in Exch /\ e1.out = Select
  BY DEF Exchange, Exch, Select
<1>2. e2 \in Exch /\ e2.out = Ping
  BY DEF Exchange, Exch, Ping
<1>3. e3 \in Exch /\ e3.out = 0 /\ e3.ok = {0}
  BY DEF Exchange, Exch
<1>4. e5 \in Exch /\ e5.out = 0
  BY DEF Exchange, Exch, Present
<1>5. e6 \in Exch /\ e6.out = 0
  BY DEF Exch
<1>6. PingBytes = <<e1, e2, e3, e3, e5, e6>>
  BY DEF PingBytes
<1> HIDE DEF e1, e2, e3, e5, e6
<1>7. /\ PingBytes \in Seq(Exch) /\ Len(PingBytes) = 6
      /\ PingBytes[1] = e1 /\ PingBytes[2] = e2 /\ PingBytes[3] = e3
      /\ PingBytes[4] = e3 /\ PingBytes[5] = e5 /\ PingBytes[6] = e6
  BY <1>1, <1>2, <1>3, <1>4, <1>5, <1>6
<1>8. \A i \in 1 .. 6 : i = 1 \/ i = 2 \/ i = 3 \/ i = 4 \/ i = 5 \/ i = 6
  OBVIOUS
<1> QED
  BY <1>1, <1>2, <1>3, <1>4, <1>5, <1>7, <1>8 DEF Select, Ping, SendId

\* Every exchange of a transmission.
LEMMA SendFact ==
    /\ SendBytes \in Seq(Exch) /\ Len(SendBytes) = 4 + Len(Packet)
    /\ SendBytes[1].out = Select /\ SendBytes[2].out = SendId /\ SendBytes[4].out = Len(Packet)
    /\ \A i \in 1 .. Len(Packet) : SendBytes[4 + i].out = Packet[i]
<1> DEFINE e1 == Exchange(Select, {255}, 1)
           e2 == Exchange(SendId, {0, 8}, 2)
           e3 == Exchange(0, {0}, 3)
           e4 == Exchange(Len(Packet), {0}, 4)
           d(i) == Exchange(Packet[i], Any, 5)
           head == <<e1, e2, e3, e4>>
           body == [i \in 1 .. Len(Packet) |-> d(i)]
<1>1. e1 \in Exch /\ e1.out = Select
  BY DEF Exchange, Exch, Select
<1>2. e2 \in Exch /\ e2.out = SendId
  BY DEF Exchange, Exch, SendId
<1>3. e3 \in Exch
  BY DEF Exchange, Exch
<1>4. e4 \in Exch /\ e4.out = Len(Packet)
  BY PacketFact DEF Exchange, Exch
<1>5. ASSUME NEW i \in 1 .. Len(Packet)
      PROVE  d(i) \in Exch /\ d(i).out = Packet[i]
  <2>1. Packet[i] \in 0 .. 255
    BY PacketFact, ElementOfSeq
  <2> QED
    BY <2>1 DEF Exchange, Exch, Any
<1>6. SendBytes = head \o body
  BY DEF SendBytes
<1> HIDE DEF e1, e2, e3, e4, d
<1>7. /\ head \in Seq(Exch) /\ Len(head) = 4
      /\ head[1] = e1 /\ head[2] = e2 /\ head[4] = e4
  BY <1>1, <1>2, <1>3, <1>4
<1>8. /\ body \in Seq(Exch) /\ Len(body) = Len(Packet)
      /\ \A i \in 1 .. Len(Packet) : body[i] = d(i)
  BY <1>5, PacketFact
<1> HIDE DEF head, body
<1>9. /\ SendBytes \in Seq(Exch) /\ Len(SendBytes) = 4 + Len(Packet)
      /\ \A i \in 1 .. 4 : SendBytes[i] = head[i]
      /\ \A i \in 5 .. 4 + Len(Packet) : SendBytes[i] = body[i - 4]
  <2>0. head \in Seq(Exch) /\ body \in Seq(Exch)
    BY <1>7, <1>8
  <2>1. /\ head \o body \in Seq(Exch) /\ Len(head \o body) = Len(head) + Len(body)
        /\ \A i \in 1 .. Len(head) + Len(body) :
              (head \o body)[i] = IF i <= Len(head) THEN head[i] ELSE body[i - Len(head)]
    BY <2>0, ConcatProperties, Zenon
  <2>2. Len(head) = 4 /\ Len(body) = Len(Packet)
    BY <1>7, <1>8
  <2>3. Len(Packet) \in Nat
    BY PacketFact
  <2> QED
    BY <1>6, <2>1, <2>2, <2>3
<1>10. ASSUME NEW i \in 1 .. Len(Packet)
       PROVE  SendBytes[4 + i].out = Packet[i]
  <2>1. 4 + i \in 5 .. 4 + Len(Packet) /\ 4 + i - 4 = i
    BY PacketFact
  <2> QED
    BY <1>5, <1>8, <1>9, <2>1
<1> QED
  BY <1>1, <1>2, <1>4, <1>7, <1>9, <1>10

\* Whichever routine it is, its length and the current exchange.
LEMMA RoutineFact ==
    ASSUME NEW c \in {"ping", "send"}
    PROVE  /\ Routine(c) \in Seq(Exch) /\ Len(Routine(c)) \in 6 .. Len(GameId) + 6
           /\ \A i \in 1 .. Len(Routine(c)) : Routine(c)[i] \in Exch
           /\ Routine(c)[1].out = Select
<1>1. CASE c = "ping"
  <2>1. /\ PingBytes \in Seq(Exch) /\ Len(PingBytes) = 6 /\ PingBytes[1].out = Select
        /\ 6 \in 6 .. Len(GameId) + 6
    BY PingFact, PacketFact
  <2>2. Routine(c) = PingBytes
    BY <1>1 DEF Routine
  <2> QED
    BY <2>1, <2>2, ElementOfSeq
<1>2. CASE c = "send"
  <2>1. SendBytes \in Seq(Exch) /\ SendBytes[1].out = Select
    BY SendFact
  <2>3. Len(SendBytes) \in 6 .. Len(GameId) + 6
    <3>1. Len(SendBytes) = 4 + Len(Packet)
      BY SendFact
    <3>2. Len(Packet) = Len(GameId) + 1
      BY PacketFact
    <3> DEFINE n == Len(GameId)
    <3>3. n \in 1 .. 250
      BY PacketFact
    <3>4. Len(SendBytes) = 4 + (n + 1)
      BY <3>1, <3>2
    <3> HIDE DEF n
    <3>5. 4 + (n + 1) \in 6 .. n + 6
      BY <3>3
    <3> QED
      BY <3>4, <3>5 DEF n
  <2>2. Routine(c) = SendBytes
    BY <1>2 DEF Routine
  <2> QED
    BY <2>1, <2>2, <2>3, ElementOfSeq
<1> QED
  BY <1>1, <1>2

-----------------------------------------------------------------------------
(* The link *)

\* A sequence of one frame.
LEMMA OneFrame ==
    ASSUME NEW f \in Frames
    PROVE  /\ <<f>> \in Seq(Frames) /\ Len(<<f>>) = 1 /\ <<f>> # <<>> /\ <<f>>[1] = f
           /\ Head(<<f>>) = f /\ Tail(<<f>>) = <<>> /\ Append(<<>>, f) = <<f>>
<1>1. <<>> \in Seq(Frames) /\ Append(<<>>, f) = <<f>>
  OBVIOUS
<1> QED
  BY <1>1

\* The frames that the console and the card make.
LEMMA FrameFact ==
    ASSUME NEW v \in 0 .. 255, NEW c \in {"ping", "send"}, NEW i \in 1 .. Len(Routine(c))
    PROVE  /\ Frame(v, c, i) \in Frames /\ Frame(v, c, i).value = v /\ Frame(v, c, i).of = <<c, i>>
           /\ Frame(0, "end", 0) \in Frames
<1> DEFINE n == Len(GameId)
           m == Len(Routine(c))
<1>1. m \in 6 .. n + 6
  BY RoutineFact
<1>2. n \in 1 .. 250
  BY PacketFact
<1> HIDE DEF n
<1>3. i \in 1 .. m
  OBVIOUS
<1> HIDE DEF m
<1>4. i \in 0 .. n + 6 /\ 0 \in 0 .. n + 6
  BY <1>1, <1>2, <1>3
<1> HIDE DEF n
<1>5. <<c, i>> \in Exchanges /\ <<"end", 0>> \in Exchanges
  BY <1>4 DEF Exchanges, n
<1> HIDE DEF Exchanges
<1> QED
  BY <1>5 DEF Frame, Frames

\* Where a routine is, one of its exchanges is the current one.
LEMMA CurrentFact ==
    ASSUME TypeOK
    PROVE  /\ Current \in Exch /\ Current.out \in 0 .. 255 /\ Current.err \in 1 .. 5
           /\ Frame(Current.out, call, pos) \in Frames
           /\ Frame(Current.out, call, pos).value = Current.out
           /\ Frame(Current.out, call, pos).of = <<call, pos>>
<1>1. call \in {"ping", "send"} /\ pos \in 1 .. Len(Routine(call))
  BY DEF TypeOK
<1>2. Current \in Exch
  BY <1>1, RoutineFact DEF Current
<1>3. Current.out \in 0 .. 255 /\ Current.err \in 1 .. 5
  BY <1>2 DEF Exch
<1> QED
  BY <1>1, <1>2, <1>3, FrameFact

\* What comes back is a byte.
LEMMA AnswersFact ==
    ASSUME TypeOK
    PROVE  Answers \cup {255, Garbled} \subseteq 0 .. 255
<1>1. heard # <<>> => heard[Len(heard)] \in 0 .. 255
  <2>1. heard \in Seq(0 .. 255)
    BY DEF TypeOK
  <2>2. heard # <<>> => Len(heard) \in 1 .. Len(heard)
    BY <2>1
  <2> QED
    BY <2>1, <2>2, ElementOfSeq
<1>2. Addressed => heard # <<>>
  BY DEF Addressed
<1>3. ASSUME NEW v \in Answers
      PROVE  v \in 0 .. 255
  <2>1. v \in {255, 0, 8, Present} \/ (heard # <<>> /\ v = heard[Len(heard)])
    BY <1>2, <1>3 DEF Answers
  <2>2. CASE v \in {255, 0, 8, Present}
    BY <2>2 DEF Present
  <2> QED
    BY <1>1, <2>1, <2>2
<1>4. 255 \in 0 .. 255 /\ Garbled \in 0 .. 255
  BY DEF Garbled
<1> QED
  BY <1>3, <1>4

\* What is shifted is the byte just written, or the end byte that nobody hears.
LEMMA ShiftFact ==
    ASSUME TypeOK, LinkInv, Shift
    PROVE  /\ tx' = <<>> /\ fifo = <<>>
           /\ UNCHANGED <<step, call, pos, reply, result, selected, latch, kind, late>>
           /\ \/ /\ selected /\ step = "receive" /\ tx = <<Frame(Current.out, call, pos)>>
                 /\ Hear(Current.out)
                 /\ \E v \in 0 .. 255 : v \in Answers \cup {Garbled} /\ fifo' = <<Frame(v, call, pos)>>
              \/ /\ ~selected /\ step \in Outside /\ tx = <<Frame(0, "end", 0)>>
                 /\ UNCHANGED <<heard, due, taken>>
                 /\ \E v \in 0 .. 255 : fifo' = <<Frame(v, "end", 0)>>
<1>1. /\ tx # <<>> /\ tx' = Tail(tx)
      /\ UNCHANGED <<step, call, pos, reply, result, selected, latch, kind, late>>
      /\ IF selected THEN Hear(Head(tx).value) ELSE UNCHANGED <<heard, due, taken>>
  BY DEF Shift, console
<1>2. PICK v \in (IF selected THEN Answers ELSE {255}) \cup {Garbled} :
         fifo' = Append(fifo, [Head(tx) EXCEPT !.value = v])
  BY DEF Shift
<1>3. v \in 0 .. 255
  BY <1>2, AnswersFact
<1>4. step \in Inside \cup Outside
  BY DEF TypeOK, Inside, Outside
<1>5. CASE OnItsWay /\ step = "receive"
  <2> DEFINE f == Frame(Current.out, call, pos)
  <2>1. selected
    BY <1>5 DEF LinkInv, Inside
  <2>2. f \in Frames /\ f.value = Current.out /\ tx = <<f>> /\ fifo = <<>>
    BY <1>5, CurrentFact DEF OnItsWay
  <2>3. Head(tx) = f /\ Tail(tx) = <<>>
    BY <2>2, OneFrame
  <2>4. [f EXCEPT !.value = v] = Frame(v, call, pos)
    BY DEF Frame
  <2>5. fifo' = <<Frame(v, call, pos)>>
    BY <1>2, <2>2, <2>3, <2>4, OneFrame
  <2> HIDE DEF f
  <2> QED
    BY <1>1, <1>2, <1>3, <1>5, <2>1, <2>2, <2>3, <2>5 DEF f
<1>6. CASE EndByte /\ step \in Outside
  <2> DEFINE f == Frame(0, "end", 0)
  <2>1. ~selected
    BY <1>6 DEF LinkInv, Inside, Outside
  <2>2. f \in Frames /\ tx = <<f>> /\ fifo = <<>>
    <3>0. Len(Routine("ping")) = 6
      BY PingFact DEF Routine
    <3>1. "ping" \in {"ping", "send"} /\ 1 \in 1 .. Len(Routine("ping")) /\ 0 \in 0 .. 255
      BY <3>0
    <3> QED
      BY <1>6, <3>1, FrameFact DEF EndByte
  <2>3. Head(tx) = f /\ Tail(tx) = <<>>
    BY <2>2, OneFrame
  <2>4. [f EXCEPT !.value = v] = Frame(v, "end", 0)
    BY DEF Frame
  <2>5. fifo' = <<Frame(v, "end", 0)>>
    BY <1>2, <2>2, <2>3, <2>4, OneFrame
  <2> HIDE DEF f
  <2> QED
    BY <1>1, <1>3, <1>6, <2>1, <2>2, <2>3, <2>5 DEF f
<1> QED
  BY <1>1, <1>4, <1>5, <1>6 DEF LinkInv, Inside, Outside, Stale, Nothing, Replied

\* The reply that is taken is the only one there.
LEMMA TakeFact ==
    ASSUME TypeOK, Replied, TakeReply
    PROVE  reply' \in Frames /\ reply'.of = <<call, pos>> /\ reply' = fifo[1] /\ fifo' = <<>>
<1>1. PICK v \in 0 .. 255 : fifo = <<Frame(v, call, pos)>>
  BY DEF Replied
<1>2. Frame(v, call, pos) \in Frames /\ Frame(v, call, pos).of = <<call, pos>>
  BY FrameFact DEF TypeOK
<1> QED
  BY <1>1, <1>2, OneFrame DEF TakeReply

\* At most one stale reply is there at the start.
LEMMA BootFact ==
    ASSUME Init
    PROVE  Frame(0, "boot", 0) \in Frames /\ fifo \in Seq(Frames) /\ Len(fifo) <= 1
<1> DEFINE n == Len(GameId)
           f == Frame(0, "boot", 0)
<1>1. n \in 1 .. 250
  BY PacketFact
<1> HIDE DEF n
<1>2. 0 \in 0 .. n + 6
  BY <1>1
<1>3. <<"boot", 0>> \in Exchanges
  BY <1>2 DEF Exchanges, n
<1>4. f \in Frames
  <2> HIDE DEF Exchanges
  <2> QED
    BY <1>3 DEF Frame, Frames
<1>5. fifo \in {<<>>, <<f>>}
  BY DEF Init
<1> HIDE DEF f
<1>6. <<>> \in Seq(Frames) /\ Len(<<>>) = 0 /\ <<f>> \in Seq(Frames) /\ Len(<<f>>) = 1
  BY <1>4, OneFrame
<1>7. fifo \in Seq(Frames) /\ (Len(fifo) = 0 \/ Len(fifo) = 1)
  BY <1>5, <1>6, Zenon
<1>8. \A k : k = 0 \/ k = 1 => k <= 1
  OBVIOUS
<1>9. Len(fifo) <= 1
  BY <1>7, <1>8, Zenon
<1> QED
  BY <1>4, <1>7, <1>9 DEF f

\* Nothing but a stale reply is there at the start.
LEMMA LinkInit == Init => LinkInv
<1> SUFFICES ASSUME Init PROVE LinkInv
  OBVIOUS
<1>3. Len(fifo) <= 1
  BY BootFact
<1>4. step = "called" /\ pos = 1 /\ ~selected /\ tx = <<>>
  BY DEF Init
<1> QED
  BY <1>3, <1>4 DEF LinkInv, Inside, Stale

\* Every step keeps at most one byte on the link, of the current exchange.
LEMMA LinkStep == TypeOK /\ LinkInv /\ [Next]_vars => LinkInv'
<1> SUFFICES ASSUME TypeOK, LinkInv, [Next]_vars PROVE LinkInv'
  OBVIOUS
<1>0. Len(<<>>) <= 1
  OBVIOUS
<1>1. CASE SelectPort
  <2>1. Stale
    BY <1>1 DEF SelectPort, LinkInv
  <2>2. Stale' /\ pos' = 1 /\ step' = "flush" /\ selected'
    BY <1>1, <2>1 DEF SelectPort, Stale
  <2> QED
    BY <2>2 DEF LinkInv, Inside
<1>2. CASE FlushFifo
  <2>1. Stale
    BY <1>2 DEF FlushFifo, LinkInv
  <2>2. Nothing' /\ step' = "write" /\ selected' = selected /\ selected
    BY <1>2, <2>1 DEF FlushFifo, Stale, Nothing, LinkInv, Inside
  <2> QED
    BY <2>2 DEF LinkInv, Inside
<1>3. CASE WriteByte
  <2>1. Nothing /\ selected
    BY <1>3 DEF WriteByte, LinkInv, Inside
  <2>2. OnItsWay'
    <3>1. tx' = <<Frame(Current.out, call, pos)>> /\ UNCHANGED <<fifo, call, pos>>
      BY <1>3, <2>1, CurrentFact, OneFrame DEF WriteByte, Nothing
    <3> QED
      BY <2>1, <3>1 DEF OnItsWay, Nothing, Current
  <2>3. step' = "receive" /\ selected'
    BY <1>3, <2>1 DEF WriteByte
  <2> QED
    BY <2>2, <2>3 DEF LinkInv, Inside
<1>4. CASE ReplyReady
  <2>1. Replied /\ selected
    BY <1>4 DEF ReplyReady, LinkInv, OnItsWay, Inside
  <2>2. UNCHANGED <<call, pos, selected, tx>>
    BY <1>4 DEF ReplyReady
  <2>3. CASE Current.last
    <3>1. step' = "check" /\ TakeReply
      BY <1>4, <2>3 DEF ReplyReady
    <3>2. reply'.of = <<call, pos>> /\ fifo' = <<>>
      BY <2>1, <3>1, TakeFact
    <3>3. Nothing'
      BY <2>1, <2>2, <3>2 DEF Nothing, Replied
    <3> QED
      BY <2>1, <2>2, <3>1, <3>2, <3>3 DEF LinkInv, Inside
  <2>4. CASE ~Current.last
    <3>1. step' = "ack" /\ fifo' = fifo
      BY <1>4, <2>4 DEF ReplyReady
    <3>2. Replied'
      BY <2>1, <2>2, <3>1 DEF Replied
    <3> QED
      BY <2>1, <2>2, <3>1, <3>2 DEF LinkInv, Inside
  <2> QED
    BY <2>3, <2>4
<1>5. CASE AckSeen \/ AckTimeout
  <2>1. Replied /\ selected /\ step' = "check" /\ TakeReply /\ UNCHANGED <<call, pos, selected, tx>>
    BY <1>5 DEF AckSeen, AckTimeout, LinkInv, Inside
  <2>2. reply'.of = <<call, pos>> /\ fifo' = <<>>
    BY <2>1, TakeFact
  <2>3. Nothing'
    BY <2>1, <2>2 DEF Nothing, Replied
  <2> QED
    BY <2>1, <2>2, <2>3 DEF LinkInv, Inside
<1>6. CASE CheckReply
  <2>1. /\ step' \in {"write", "end"} /\ UNCHANGED <<selected, tx, fifo>>
        /\ step = "check"
    BY <1>6 DEF CheckReply, port
  <2>2. Nothing' /\ selected
    BY <2>1 DEF LinkInv, Inside, Nothing
  <2> QED
    BY <2>1, <2>2 DEF LinkInv, Inside
<1>7. CASE EndRoutine
  <2>1. /\ Nothing /\ step' \in {"pinged", "sent"} /\ ~selected' /\ fifo' = fifo
        /\ step' = "pinged" => call' = "ping"
    BY <1>7 DEF EndRoutine, LinkInv
  <2>2. tx' = <<Frame(0, "end", 0)>>
    <3>1. Frame(0, "end", 0) \in Frames
      BY FrameFact DEF TypeOK
    <3> QED
      BY <1>7, <2>1, <3>1, OneFrame DEF EndRoutine, Nothing
  <2>3. EndByte'
    BY <2>1, <2>2 DEF EndByte, Nothing
  <2> QED
    BY <2>1, <2>3 DEF LinkInv, Inside
<1>8. CASE AfterPing \/ InterCommandDelay \/ AfterSend
  <2>1. /\ step \in {"pinged", "delay", "sent"} /\ step' \in {"returned", "delay", "delayed"}
        /\ UNCHANGED <<selected, tx, fifo>> /\ (step' = "delayed" => tx = <<>>)
    BY <1>8 DEF AfterPing, InterCommandDelay, AfterSend, port
  <2>2. (Stale \/ EndByte) /\ ~selected
    BY <2>1 DEF LinkInv, Inside
  <2>3. (Stale \/ EndByte)' /\ (step' = "delayed" => Stale')
    BY <2>1, <2>2 DEF Stale, EndByte
  <2> QED
    BY <2>1, <2>2, <2>3 DEF LinkInv, Inside
<1>9. CASE Shift
  <2>1. CASE /\ selected /\ step = "receive"
             /\ \E v \in 0 .. 255 : fifo' = <<Frame(v, call, pos)>>
    <3>1. Replied' /\ UNCHANGED <<step, selected>>
      BY <1>9, <2>1, ShiftFact DEF Replied
    <3> QED
      BY <2>1, <3>1 DEF LinkInv, Inside
  <2>2. CASE /\ ~selected /\ step \in Outside /\ tx = <<Frame(0, "end", 0)>>
             /\ \E v \in 0 .. 255 : fifo' = <<Frame(v, "end", 0)>>
    <3>1. tx # <<>>
      BY <2>2
    <3>2. step \in {"pinged", "delay", "sent", "returned"}
      BY <2>2, <3>1 DEF LinkInv, Stale, Outside
    <3>3. Stale' /\ UNCHANGED <<step, selected, call>>
      BY <1>9, <2>2, ShiftFact DEF Stale
    <3> QED
      BY <2>2, <3>2, <3>3 DEF LinkInv, Inside
  <2> QED
    BY <1>9, <2>1, <2>2, ShiftFact
<1>10. CASE Acknowledge \/ Remove \/ UNCHANGED vars
  <2>1. UNCHANGED <<step, call, pos, reply, selected, tx, fifo>>
    BY <1>10 DEF Acknowledge, Remove, vars, console, port
  <2> QED
    BY <2>1 DEF LinkInv, Stale, EndByte, Nothing, OnItsWay, Replied, Current
<1> QED
  BY <1>1, <1>2, <1>3, <1>4, <1>5, <1>6, <1>7, <1>8, <1>9, <1>10 DEF Next, Console

-----------------------------------------------------------------------------
(* What the card heard *)

\* The first routine is a ping, and every exchange belongs to one of the two.
LEMMA HeardInit == Init => HeardInv /\ SonyInv /\ TakenInv
<1> SUFFICES ASSUME Init PROVE HeardInv /\ SonyInv /\ TakenInv
  OBVIOUS
<1>1. /\ step = "called" /\ call = "ping" /\ pos = 1 /\ ~selected /\ heard = <<>> /\ taken = <<>>
  BY DEF Init
<1> QED
  BY <1>1 DEF HeardInv, SonyInv, TakenInv

\* Steps of the console: the card hears nothing, and the bytes shifted are the same.
LEMMA HeardKept ==
    ASSUME HeardInv, UNCHANGED <<kind, heard, selected>>,
           selected => Shifted' = Shifted /\ call' = call
    PROVE  HeardInv'
<1>1. CASE selected
  <2>1. Shifted' = Shifted /\ call' = call
    BY <1>1
  <2> HIDE DEF Shifted
  <2>2. Routine(call)' = Routine(call)
    BY <2>1 DEF Routine, SendBytes, PingBytes
  <2> QED
    BY <1>1, <2>1, <2>2 DEF HeardInv
<1>2. CASE ~selected
  BY <1>2 DEF HeardInv
<1> QED
  BY <1>1, <1>2

\* The byte shifted out is the next one that the card hears.
LEMMA HeardShift ==
    ASSUME TypeOK, LinkInv, HeardInv, Shift
    PROVE  HeardInv'
<1>1. /\ UNCHANGED <<step, call, pos, selected, kind>> /\ tx' = <<>>
      /\ \/ /\ selected /\ step = "receive" /\ tx = <<Frame(Current.out, call, pos)>>
            /\ Hear(Current.out)
         \/ ~selected /\ UNCHANGED heard
  BY ShiftFact
<1>2. CASE ~selected
  BY <1>1, <1>2 DEF HeardInv
<1>3. CASE selected /\ kind # "none"
  <2>1. tx # <<>> /\ heard' = Append(heard, Current.out) /\ step = "receive"
    BY <1>1, <1>3, CurrentFact, OneFrame DEF Hear
  <2>2. Shifted = pos - 1 /\ Shifted' = pos /\ pos \in Nat
    BY <1>1, <2>1, RoutineFact DEF Shifted, TypeOK
  <2>3. Len(heard) = pos - 1 /\ \A i \in 1 .. pos - 1 : heard[i] = Routine(call)[i].out
    BY <1>3, <2>2 DEF HeardInv
  <2>4. heard \in Seq(0 .. 255) /\ Current.out \in 0 .. 255
    BY CurrentFact DEF TypeOK
  <2>5. /\ Len(heard') = Len(heard) + 1 /\ heard'[Len(heard) + 1] = Current.out
        /\ \A i \in 1 .. Len(heard) : heard'[i] = heard[i]
    BY <2>1, <2>4, AppendProperties
  <2>6. Len(heard') = pos /\ \A i \in 1 .. pos : heard'[i] = Routine(call)[i].out
    <3>1. \A i \in 1 .. pos : i = pos \/ i \in 1 .. pos - 1
      BY <2>2
    <3>2. pos - 1 + 1 = pos
      BY <2>2
    <3> QED
      BY <2>3, <2>5, <3>1, <3>2 DEF Current
  <2>7. Routine(call)' = Routine(call)
    BY <1>1 DEF Routine, SendBytes, PingBytes
  <2> QED
    BY <1>1, <1>3, <2>2, <2>6, <2>7 DEF HeardInv
<1>4. CASE kind = "none"
  BY <1>1, <1>4 DEF HeardInv
<1> QED
  BY <1>2, <1>3, <1>4

\* Every step keeps what was heard the beginning of the routine.
LEMMA HeardStep == TypeOK /\ LinkInv /\ HeardInv /\ [Next]_vars => HeardInv'
<1> SUFFICES ASSUME TypeOK, LinkInv, HeardInv, [Next]_vars PROVE HeardInv'
  OBVIOUS
<1>0. pos \in Nat
  BY RoutineFact DEF TypeOK
<1>1. CASE SelectPort
  <2>1. ~selected /\ Shifted' = 0 /\ UNCHANGED <<kind, heard>>
    BY <1>1 DEF SelectPort, LinkInv, Inside, Shifted, card
  <2>2. Len(<<>>) = 0
    OBVIOUS
  <2> QED
    BY <1>1, <2>1, <2>2 DEF HeardInv, SelectPort
<1>2. CASE FlushFifo
  <2>1. Shifted' = Shifted /\ UNCHANGED <<kind, heard, selected, call>>
    BY <1>2 DEF FlushFifo, Shifted, card
  <2> QED
    BY <2>1, HeardKept
<1>3. CASE WriteByte
  <2>1. tx' # <<>>
    <3>1. tx' = <<Frame(Current.out, call, pos)>>
      BY <1>3, CurrentFact, OneFrame DEF WriteByte, LinkInv, Nothing
    <3> QED
      BY <3>1
  <2>2. Shifted' = Shifted /\ UNCHANGED <<kind, heard, selected, call>>
    BY <1>3, <2>1 DEF WriteByte, Shifted, card
  <2> QED
    BY <2>2, HeardKept
<1>4. CASE ReplyReady \/ AckSeen \/ AckTimeout
  <2>1. /\ step \in {"receive", "ack"} /\ step' \in {"ack", "check"}
        /\ UNCHANGED <<call, pos, selected, tx, kind, heard>>
    BY <1>4 DEF ReplyReady, AckSeen, AckTimeout, card
  <2>2. Shifted' = Shifted
    BY <2>1 DEF Shifted
  <2> QED
    BY <2>1, <2>2, HeardKept
<1>5. CASE CheckReply
  <2>1. /\ step = "check" /\ tx = <<>> /\ UNCHANGED <<call, selected, tx, kind, heard>>
        /\ \/ step' = "write" /\ pos' = pos + 1
           \/ step' = "end" /\ pos' = pos
    BY <1>5 DEF CheckReply, port, card, LinkInv, Nothing
  <2>2. Shifted' = Shifted
    BY <1>0, <2>1 DEF Shifted
  <2> QED
    BY <2>1, <2>2, HeardKept
<1>6. CASE EndRoutine
  BY <1>6 DEF EndRoutine, HeardInv
<1>7. CASE AfterPing \/ InterCommandDelay \/ AfterSend
  <2>1. step \in Outside /\ UNCHANGED <<kind, heard, selected>>
    BY <1>7 DEF AfterPing, InterCommandDelay, AfterSend, port, card, Outside
  <2>2. ~selected
    BY <2>1 DEF LinkInv, Inside, Outside
  <2> QED
    BY <2>1, <2>2, HeardKept
<1>8. CASE Shift
  BY <1>8, HeardShift
<1>9. CASE Acknowledge \/ UNCHANGED vars
  <2>1. UNCHANGED <<step, call, pos, selected, tx, kind, heard>>
    BY <1>9 DEF Acknowledge, vars, console, port, card
  <2>2. Shifted' = Shifted
    BY <2>1 DEF Shifted
  <2> QED
    BY <2>1, <2>2, HeardKept
<1>10. CASE Remove
  BY <1>10 DEF Remove, HeardInv
<1> QED
  BY <1>1, <1>2, <1>3, <1>4, <1>5, <1>6, <1>7, <1>8, <1>9, <1>10 DEF Next, Console

-----------------------------------------------------------------------------
(* The ordinary card *)

\* After the second byte an ordinary card answers nothing.
LEMMA SonyAnswers ==
    ASSUME TypeOK, HeardInv, kind = "sony", selected, call = "ping", step = "receive", pos = 3, tx # <<>>,
           NEW v \in Answers \cup {Garbled}
    PROVE  v # 0
<1>1. Len(heard) = 2
  BY DEF HeardInv, Shifted
<1>2. ~Knows(heard)
  BY DEF Knows
<1>3. Answers = {255}
  BY <1>1, <1>2 DEF Answers
<1> QED
  BY <1>3 DEF Garbled

\* Every step keeps an ordinary card from more than the first three bytes of a ping.
LEMMA SonyStep == TypeOK /\ LinkInv /\ HeardInv /\ SonyInv /\ [Next]_vars => SonyInv'
<1> SUFFICES ASSUME TypeOK, LinkInv, HeardInv, SonyInv, [Next]_vars, kind' = "sony" PROVE SonyInv'
  BY DEF SonyInv
<1>0. kind = "sony"
  <2>1. kind' = kind \/ kind' = "none"
    BY DEF Next, Console, SelectPort, FlushFifo, WriteByte, ReplyReady, AckSeen, AckTimeout, CheckReply,
           EndRoutine, AfterPing, InterCommandDelay, AfterSend, Shift, Acknowledge, Remove, vars, card
  <2> QED
    BY <2>1
<1>i. /\ call = "ping" /\ pos <= 3 /\ step \notin {"delay", "delayed", "sent"}
      /\ step \in {"end", "pinged"} => result # 0
      /\ pos = 3 /\ step \in {"receive", "ack"} /\ fifo # <<>> => fifo[1].value # 0
      /\ pos = 3 /\ step = "check" => reply.value # 0
  BY <1>0 DEF SonyInv
<1>p. pos \in {1, 2, 3} /\ Len(Routine(call)) = 6 /\ Routine(call) = PingBytes
  BY <1>i, PingFact DEF TypeOK, Routine
<1>1. CASE SelectPort
  <2>1. step' = "flush" /\ pos' = 1 /\ call' = "ping"
    BY <1>1, <1>i DEF SelectPort
  <2> QED
    BY <2>1 DEF SonyInv
<1>2. CASE FlushFifo
  <2>1. step' = "write" /\ UNCHANGED <<pos, call>>
    BY <1>2 DEF FlushFifo
  <2> QED
    BY <1>i, <2>1 DEF SonyInv
<1>3. CASE WriteByte
  <2>1. step' = "receive" /\ UNCHANGED <<pos, call>> /\ fifo' = <<>>
    BY <1>3 DEF WriteByte, LinkInv, Nothing
  <2> QED
    BY <1>i, <2>1 DEF SonyInv
<1>4. CASE ReplyReady \/ AckSeen \/ AckTimeout
  <2>1. step \in {"receive", "ack"} /\ Replied /\ UNCHANGED <<pos, call, result>>
    BY <1>4 DEF ReplyReady, AckSeen, AckTimeout, LinkInv, OnItsWay
  <2>2. fifo # <<>>
    <3>1. PICK v \in 0 .. 255 : fifo = <<Frame(v, call, pos)>>
      BY <2>1 DEF Replied
    <3> QED
      BY <3>1
  <2>3. \/ step' = "ack" /\ fifo' = fifo
        \/ step' = "check" /\ TakeReply
    BY <1>4 DEF ReplyReady, AckSeen, AckTimeout
  <2>4. CASE step' = "ack" /\ fifo' = fifo
    BY <1>i, <2>1, <2>2, <2>4 DEF SonyInv
  <2>5. CASE step' = "check" /\ TakeReply
    <3>1. reply' = fifo[1]
      BY <2>1, <2>5, TakeFact
    <3> QED
      BY <1>i, <2>1, <2>2, <2>5, <3>1 DEF SonyInv
  <2> QED
    BY <2>3, <2>4, <2>5
<1>5. CASE CheckReply
  <2>1. step = "check" /\ call' = call /\ pos # 6
    BY <1>5, <1>p DEF CheckReply
  <2>2. pos = 3 => Current.ok = {0} /\ reply.value # 0
    BY <1>i, <1>p, <2>1, PingFact DEF Current
  <2>3. CASE reply.value \notin Current.ok
    <3>1. step' = "end" /\ result' = Current.err /\ pos' = pos
      BY <1>5, <2>3 DEF CheckReply
    <3>2. result' # 0
      BY <3>1, CurrentFact
    <3> QED
      BY <1>i, <2>1, <3>1, <3>2 DEF SonyInv
  <2>4. CASE reply.value \in Current.ok
    <3>1. step' = "write" /\ pos' = pos + 1
      BY <1>5, <1>p, <2>1, <2>4 DEF CheckReply
    <3>2. pos \in {1, 2}
      BY <1>p, <2>2, <2>4
    <3> QED
      BY <1>i, <2>1, <3>1, <3>2 DEF SonyInv
  <2> QED
    BY <2>3, <2>4
<1>6. CASE EndRoutine
  <2>1. step = "end" /\ step' = "pinged" /\ UNCHANGED <<call, pos, result>>
    BY <1>6, <1>i DEF EndRoutine
  <2> QED
    BY <1>i, <2>1 DEF SonyInv
<1>7. CASE AfterPing
  <2>1. step' = "returned" /\ UNCHANGED <<call, pos>>
    BY <1>7, <1>i DEF AfterPing
  <2> QED
    BY <1>i, <2>1 DEF SonyInv
<1>8. CASE InterCommandDelay \/ AfterSend
  BY <1>8, <1>i DEF InterCommandDelay, AfterSend
<1>9. CASE Shift
  <2>1. UNCHANGED <<step, call, pos, reply, result>>
    BY <1>9, ShiftFact
  <2>2. pos = 3 /\ step \in {"receive", "ack"} => fifo'[1].value # 0
    <3> SUFFICES ASSUME pos = 3, step \in {"receive", "ack"} PROVE fifo'[1].value # 0
      OBVIOUS
    <3>1. /\ selected /\ step = "receive" /\ tx = <<Frame(Current.out, call, pos)>>
          /\ \E v \in 0 .. 255 : v \in Answers \cup {Garbled} /\ fifo' = <<Frame(v, call, pos)>>
      BY <1>9, ShiftFact DEF Outside
    <3>2. PICK v \in 0 .. 255 : v \in Answers \cup {Garbled} /\ fifo' = <<Frame(v, call, pos)>>
      BY <3>1
    <3>3. tx # <<>>
      BY <3>1
    <3>4. v # 0
      BY <1>0, <1>i, <3>1, <3>2, <3>3, SonyAnswers
    <3>5. Frame(v, call, pos) \in Frames /\ Frame(v, call, pos).value = v
      BY FrameFact DEF TypeOK
    <3>6. fifo'[1] = Frame(v, call, pos)
      BY <3>2, <3>5, OneFrame
    <3> QED
      BY <3>4, <3>5, <3>6
  <2> QED
    BY <1>i, <2>1, <2>2 DEF SonyInv
<1>10. CASE Acknowledge \/ Remove \/ UNCHANGED vars
  <2>1. UNCHANGED <<step, call, pos, reply, result, fifo>>
    BY <1>10 DEF Acknowledge, Remove, vars, console, port
  <2> QED
    BY <1>i, <2>1 DEF SonyInv
<1> QED
  BY <1>1, <1>2, <1>3, <1>4, <1>5, <1>6, <1>7, <1>8, <1>9, <1>10 DEF Next, Console

-----------------------------------------------------------------------------
(* What the card took *)

\* What is behind the first four of a sequence.
LEMMA BehindFour ==
    ASSUME NEW T, NEW h \in Seq(T), NEW n \in Nat, Len(h) = 4 + n
    PROVE  /\ SubSeq(h, 5, 4 + n) \in Seq(T) /\ Len(SubSeq(h, 5, 4 + n)) = n
           /\ \A i \in 1 .. n : SubSeq(h, 5, 4 + n)[i] = h[4 + i]
OBVIOUS

\* Behind the four bytes of a transmission's head there is the packet.
LEMMA WholeIsPacket ==
    ASSUME NEW h \in Seq(0 .. 255), Len(h) = Len(SendBytes),
           \A i \in 1 .. Len(SendBytes) : h[i] = SendBytes[i].out
    PROVE  SubSeq(h, 5, Len(h)) = Packet
<1> DEFINE p == Packet
           n == Len(p)
           s == SubSeq(h, 5, Len(h))
<1>1. n \in 2 .. 251
  BY PacketFact
<1>2. p \in Seq(0 .. 255)
  BY PacketFact
<1>3. Len(h) = 4 + n
  BY SendFact
<1>3a. \A i \in 1 .. n : SendBytes[4 + i].out = p[i]
  BY SendFact
<1> HIDE DEF p, n, s
<1>4. \A i \in 1 .. n : h[4 + i] = p[i]
  <2>1. \A i \in 1 .. n : 4 + i \in 1 .. 4 + n
    BY <1>1
  <2> QED
    BY <1>3, <1>3a, <2>1
<1>5. /\ s \in Seq(0 .. 255) /\ Len(s) = n
      /\ \A i \in 1 .. n : s[i] = h[4 + i]
  <2>1. n \in Nat
    BY <1>1
  <2>2. s = SubSeq(h, 5, 4 + n)
    BY <1>3 DEF s
  <2> QED
    BY <1>3, <2>1, <2>2, BehindFour
<1>6. s = p
  BY <1>1, <1>2, <1>4, <1>5, SeqEqual DEF n
<1> QED
  BY <1>6 DEF s, p

\* A card takes the packet, whole, with the last byte of the transmission.
LEMMA TakenShift ==
    ASSUME TypeOK, LinkInv, HeardInv, TakenInv, Shift
    PROVE  TakenInv'
<1>1. /\ UNCHANGED <<step, call, pos, selected, kind, result>> /\ tx' = <<>>
      /\ \/ selected /\ step = "receive" /\ Hear(Current.out)
         \/ ~selected /\ UNCHANGED <<heard, taken>>
  BY ShiftFact
<1>2. CASE ~selected
  BY <1>1, <1>2 DEF TakenInv
<1>3. CASE selected /\ kind # "pro"
  <2>1. taken' = taken
    BY <1>1, <1>3 DEF Hear, Knows
  <2> QED
    BY <1>1, <1>3, <2>1 DEF TakenInv
<1>4. CASE selected /\ kind = "pro"
  <2>0. HeardInv'
    BY HeardShift
  <2>1. /\ step = "receive" /\ Shifted' = pos
        /\ heard' = Append(heard, Current.out)
        /\ taken' = IF /\ Knows(heard') /\ heard'[1] = Select /\ heard'[2] = SendId
                       /\ Len(heard') > 4 /\ Len(heard') = Total(heard')
                    THEN SubSeq(heard', 5, Len(heard')) ELSE taken
    BY <1>1, <1>4 DEF Hear, Shifted
  <2>2. heard' \in Seq(0 .. 255)
    <3>1. heard \in Seq(0 .. 255) /\ Current.out \in 0 .. 255
      BY CurrentFact DEF TypeOK
    <3> QED
      BY <2>1, <3>1
  <2>3. Len(heard') = pos /\ \A i \in 1 .. pos : heard'[i] = Routine(call)[i].out
    BY <1>1, <1>4, <2>0, <2>1 DEF HeardInv
  <2>4. pos \in 1 .. Len(Routine(call)) /\ call \in {"ping", "send"} /\ pos \in Nat
    BY RoutineFact DEF TypeOK
  <2>5. CASE call = "ping"
    <3>1. pos > 4 => heard'[2] # SendId
      <4>1. Routine(call) = PingBytes
        BY <2>5 DEF Routine
      <4>2. pos > 4 => 2 \in 1 .. pos
        BY <2>4
      <4> QED
        BY <2>3, <4>1, <4>2, PingFact
    <3>2. taken' = taken
      BY <2>1, <2>3, <3>1
    <3> QED
      BY <1>1, <2>1, <2>5, <3>2 DEF TakenInv
  <2>6. CASE call = "send" /\ pos <= 4
    <3>1. taken' = taken
      BY <2>1, <2>3, <2>4, <2>6
    <3>2. Len(heard') # Len(SendBytes)
      <4> DEFINE n == Len(Packet)
      <4>1. n \in 2 .. 251 /\ Len(SendBytes) = 4 + n
        BY SendFact, PacketFact
      <4> HIDE DEF n
      <4> QED
        BY <2>3, <2>4, <2>6, <4>1
    <3> QED
      BY <1>1, <2>1, <3>1, <3>2 DEF TakenInv
  <2>7. CASE call = "send" /\ pos > 4
    <3>1. heard'[1] = Select /\ heard'[2] = SendId /\ heard'[4] = Len(Packet)
      <4>1. Routine(call) = SendBytes
        BY <2>7 DEF Routine
      <4>2. 1 \in 1 .. pos /\ 2 \in 1 .. pos /\ 4 \in 1 .. pos
        BY <2>4, <2>7
      <4> QED
        BY <2>3, <4>1, <4>2, SendFact
    <3>2. Knows(heard') /\ Total(heard') = Len(SendBytes)
      <4>1. Total(heard') = 4 + heard'[4]
        BY <2>3, <2>4, <2>7, <3>1 DEF Total, SendId, Ping
      <4>2. Total(heard') = Len(SendBytes)
        BY <3>1, <4>1, SendFact
      <4>3. Knows(heard')
        BY <1>4, <2>3, <2>4, <2>7, <3>1 DEF Knows
      <4> QED
        BY <4>2, <4>3
    <3>3. CASE pos = Len(SendBytes)
      <4>1. taken' = SubSeq(heard', 5, Len(heard'))
        BY <2>1, <2>3, <2>7, <3>1, <3>2, <3>3
      <4>2. taken' = Packet
        BY <2>2, <2>3, <2>7, <3>3, <4>1, WholeIsPacket DEF Routine
      <4> QED
        BY <4>2 DEF TakenInv
    <3>4. CASE pos # Len(SendBytes)
      <4>1. taken' = taken /\ Len(heard') # Len(SendBytes)
        BY <2>1, <2>3, <3>2, <3>4
      <4> QED
        BY <1>1, <2>1, <4>1 DEF TakenInv
    <3> QED
      BY <3>3, <3>4
  <2> QED
    BY <2>4, <2>5, <2>6, <2>7
<1> QED
  BY <1>2, <1>3, <1>4

\* Every step keeps what the card took whole.
LEMMA TakenStep == TypeOK /\ LinkInv /\ HeardInv /\ TakenInv /\ [Next]_vars => TakenInv'
<1> SUFFICES ASSUME TypeOK, LinkInv, HeardInv, TakenInv, [Next]_vars PROVE TakenInv'
  OBVIOUS
<1>1. CASE SelectPort
  <2>1. ~selected /\ step' = "flush" /\ UNCHANGED <<kind, heard, taken>>
    BY <1>1 DEF SelectPort, LinkInv, Inside, card
  <2>2. kind = "pro" => Len(heard) # Len(SendBytes)
    <3>1. Len(SendBytes) = 4 + Len(Packet) /\ Len(Packet) \in 2 .. 251
      BY SendFact, PacketFact
    <3>2. Len(<<>>) = 0
      OBVIOUS
    <3> DEFINE n == Len(Packet)
    <3>3. Len(SendBytes) = 4 + n /\ n \in 2 .. 251
      BY <3>1
    <3> HIDE DEF n
    <3>4. Len(SendBytes) # 0
      BY <3>3
    <3> QED
      BY <2>1, <3>2, <3>4 DEF HeardInv
  <2> QED
    BY <2>1, <2>2 DEF TakenInv
<1>2. CASE FlushFifo \/ WriteByte \/ ReplyReady \/ AckSeen \/ AckTimeout
  <2>1. /\ step' \in {"write", "receive", "ack", "check"}
        /\ UNCHANGED <<call, selected, kind, heard, taken>>
    BY <1>2 DEF FlushFifo, WriteByte, ReplyReady, AckSeen, AckTimeout, card
  <2> QED
    BY <2>1 DEF TakenInv
<1>3. CASE CheckReply
  <2>1. /\ step = "check" /\ tx = <<>> /\ UNCHANGED <<call, selected, kind, heard, taken>>
        /\ step' \in {"write", "end"}
        /\ step' = "end" /\ result' = 0 => pos = Len(Routine(call))
    <3>1. Current.err # 0
      BY CurrentFact
    <3> QED
      BY <1>3, <3>1 DEF CheckReply, port, card, LinkInv, Nothing
  <2>2. kind = "pro" /\ call = "send" /\ pos = Len(Routine(call)) => taken = Packet
    <3>1. selected /\ Shifted = pos
      BY <2>1 DEF LinkInv, Inside, Shifted
    <3>2. call = "send" => Routine(call) = SendBytes
      BY DEF Routine
    <3> QED
      BY <3>1, <3>2 DEF HeardInv, TakenInv
  <2> QED
    BY <2>1, <2>2 DEF TakenInv
<1>4. CASE EndRoutine
  <2>1. /\ step = "end" /\ step' \in {"pinged", "sent"} /\ ~selected'
        /\ UNCHANGED <<call, kind, taken, result>>
    BY <1>4 DEF EndRoutine
  <2> QED
    BY <2>1 DEF TakenInv
<1>5. CASE AfterPing
  <2>1. UNCHANGED <<call, selected, kind, heard, taken>> /\ call = "ping"
    BY <1>5 DEF AfterPing, LinkInv, port, card
  <2> QED
    BY <2>1 DEF TakenInv
<1>6. CASE InterCommandDelay \/ AfterSend
  <2>1. /\ UNCHANGED <<call, selected, kind, heard, taken, result>>
        /\ step' = "delayed" \/ step = "sent"
    BY <1>6 DEF InterCommandDelay, AfterSend, port, card
  <2>2. step' \in {"end", "sent", "returned"} => step = "sent"
    BY <2>1
  <2> QED
    BY <2>1, <2>2 DEF TakenInv
<1>7. CASE Shift
  BY <1>7, TakenShift
<1>8. CASE Acknowledge \/ UNCHANGED vars
  <2>1. UNCHANGED <<step, call, selected, kind, heard, taken, result>>
    BY <1>8 DEF Acknowledge, vars, console, port, card
  <2> QED
    BY <2>1 DEF TakenInv
<1>9. CASE Remove
  BY <1>9 DEF Remove, TakenInv
<1> QED
  BY <1>1, <1>2, <1>3, <1>4, <1>5, <1>6, <1>7, <1>8, <1>9 DEF Next, Console

-----------------------------------------------------------------------------
(* Types *)

\* The variables start within their types.
LEMMA TypeInit == Init => TypeOK
<1> SUFFICES ASSUME Init PROVE TypeOK
  OBVIOUS
<1>1. /\ step = "called" /\ call = "ping" /\ pos = 1 /\ result = -1 /\ reply = Frame(0, "boot", 0)
      /\ selected = FALSE /\ tx = <<>> /\ latch \in BOOLEAN /\ kind \in {"none", "sony", "pro"}
      /\ heard = <<>> /\ due = FALSE /\ taken = <<>> /\ glitches = 0 /\ late = 0
  BY DEF Init
<1>2. 1 \in 1 .. Len(Routine("ping"))
  BY PingFact DEF Routine
<1>3. reply \in Frames /\ fifo \in Seq(Frames) /\ Len(fifo) <= 1
  BY <1>1, BootFact
<1>4. Len(fifo) <= 8
  BY <1>3, LenProperties
<1>5. glitches \in 0 .. MaxGlitches /\ late \in 0 .. MaxLate
  BY <1>1, BoundAssumption
<1>6. tx \in Seq(Frames) /\ heard \in Seq(0 .. 255) /\ taken \in Seq(0 .. 255)
  BY <1>1
<1>7. pos \in 1 .. Len(Routine(call)) /\ call \in {"ping", "send"}
  BY <1>1, <1>2
<1>8. result \in -1 .. 5
  BY <1>1
<1>9. selected \in BOOLEAN /\ due \in BOOLEAN
  BY <1>1, Zenon
<1> HIDE DEF Frames
<1> QED
  BY <1>1, <1>3, <1>4, <1>5, <1>6, <1>7, <1>8, <1>9 DEF TypeOK

\* Every step of the console keeps the types.
LEMMA ConsoleTyped == TypeOK /\ LinkInv /\ Console => TypeOK'
<1> SUFFICES ASSUME TypeOK, LinkInv, Console PROVE TypeOK'
  OBVIOUS
<1>0. /\ call \in {"ping", "send"} /\ pos \in 1 .. Len(Routine(call)) /\ pos \in Nat
      /\ Len(Routine(call)) \in Nat
      /\ reply \in Frames /\ result \in -1 .. 5 /\ selected \in BOOLEAN /\ latch \in BOOLEAN /\ due \in BOOLEAN
      /\ tx \in Seq(Frames) /\ fifo \in Seq(Frames) /\ Len(fifo) <= 8
      /\ kind \in {"none", "sony", "pro"}
      /\ heard \in Seq(0 .. 255) /\ taken \in Seq(0 .. 255)
      /\ glitches \in 0 .. MaxGlitches /\ late \in 0 .. MaxLate
  BY RoutineFact DEF TypeOK
<1>e. <<>> \in Seq(Frames) /\ Len(<<>>) <= 8 /\ <<>> \in Seq(0 .. 255)
  OBVIOUS
<1>c. Current.err \in -1 .. 5 /\ 0 \in -1 .. 5
  BY CurrentFact
<1> HIDE DEF Frames
<1>1. CASE SelectPort
  <2>1. /\ step' = "flush" /\ selected' = TRUE /\ pos' = 1 /\ call' \in {"ping", "send"}
        /\ UNCHANGED <<reply, result, tx, fifo, latch, kind, heard, due, taken, glitches, late>>
    BY <1>1 DEF SelectPort, card, bounds
  <2>2. \A c \in {"ping", "send"} : 1 \in 1 .. Len(Routine(c))
    <3> SUFFICES ASSUME NEW c \in {"ping", "send"} PROVE 1 \in 1 .. Len(Routine(c))
      OBVIOUS
    <3> DEFINE n == Len(GameId)
               m == Len(Routine(c))
    <3>1. m \in 6 .. n + 6 /\ n \in 1 .. 250
      BY RoutineFact, PacketFact
    <3> HIDE DEF m, n
    <3>2. 1 \in 1 .. m
      BY <3>1
    <3> QED
      BY <3>2 DEF m
  <2> QED
    BY <1>0, <2>1, <2>2 DEF TypeOK
<1>2. CASE FlushFifo
  <2>1. /\ step' = "write" /\ fifo' = <<>> /\ latch' = FALSE
        /\ UNCHANGED <<call, pos, reply, result, selected, tx, kind, heard, due, taken, glitches, late>>
    BY <1>2 DEF FlushFifo, card, bounds
  <2> QED
    BY <1>0, <1>e, <2>1 DEF TypeOK
<1>3. CASE WriteByte
  <2>1. /\ step' = "receive" /\ tx' = Append(tx, Frame(Current.out, call, pos))
        /\ UNCHANGED <<call, pos, reply, result, selected, fifo, latch, kind, heard, due, taken, glitches, late>>
    BY <1>3 DEF WriteByte, card, bounds
  <2>2. tx' \in Seq(Frames)
    BY <1>0, <2>1, CurrentFact
  <2> QED
    BY <1>0, <2>1, <2>2 DEF TypeOK
<1>4. CASE ReplyReady \/ AckSeen \/ AckTimeout
  <2>1. /\ Replied /\ step' \in {"ack", "check"} /\ latch' \in BOOLEAN
        /\ TakeReply \/ UNCHANGED <<reply, fifo>>
        /\ UNCHANGED <<call, pos, result, selected, tx, kind, heard, due, taken, glitches>>
    BY <1>0, <1>4 DEF ReplyReady, AckSeen, AckTimeout, LinkInv, OnItsWay, card, bounds
  <2>2. reply' \in Frames /\ fifo' \in Seq(Frames) /\ Len(fifo') <= 8
    BY <1>0, <1>e, <2>1, TakeFact
  <2>3. late' \in 0 .. MaxLate
    <3>1. late' = late \/ (late < MaxLate /\ late' = late + 1)
      BY <1>4 DEF ReplyReady, AckSeen, AckTimeout, bounds
    <3>2. late \in 0 .. MaxLate /\ MaxLate \in Nat
      BY <1>0, BoundAssumption
    <3> QED
      BY <3>1, <3>2
  <2> QED
    BY <1>0, <2>1, <2>2, <2>3 DEF TypeOK
<1>5. CASE CheckReply
  <2>1. /\ step' \in {"write", "end"}
        /\ UNCHANGED <<call, reply, selected, tx, fifo, latch, kind, heard, due, taken, glitches, late>>
        /\ pos' = pos \/ (pos # Len(Routine(call)) /\ pos' = pos + 1)
        /\ result' \in {result, Current.err, 0}
    BY <1>5 DEF CheckReply, port, card, bounds
  <2>2. pos' \in 1 .. Len(Routine(call))
    <3> DEFINE m == Len(Routine(call))
    <3>1. pos \in 1 .. m /\ m \in Nat /\ (pos' = pos \/ (pos # m /\ pos' = pos + 1))
      BY <1>0, <2>1
    <3> HIDE DEF m
    <3>2. pos' \in 1 .. m
      BY <3>1
    <3> QED
      BY <3>2 DEF m
  <2>3. result' \in -1 .. 5
    BY <1>0, <1>c, <2>1
  <2> QED
    BY <1>0, <2>1, <2>2, <2>3 DEF TypeOK
<1>6. CASE EndRoutine
  <2>1. /\ step' \in {"pinged", "sent"} /\ tx' = Append(tx, Frame(0, "end", 0)) /\ selected' = FALSE
        /\ heard' = <<>> /\ due' = FALSE
        /\ UNCHANGED <<call, pos, reply, result, fifo, latch, kind, taken, glitches, late>>
    BY <1>6 DEF EndRoutine, bounds
  <2>2. tx' \in Seq(Frames)
    <3>1. 0 \in 0 .. 255
      OBVIOUS
    <3>2. Frame(0, "end", 0) \in Frames
      BY <1>0, <3>1, FrameFact
    <3> QED
      BY <1>0, <2>1, <3>2
  <2> QED
    BY <1>0, <1>e, <2>1, <2>2 DEF TypeOK
<1>7. CASE AfterPing \/ InterCommandDelay \/ AfterSend
  <2>1. /\ step' \in {"returned", "delay", "delayed"}
        /\ UNCHANGED <<call, pos, reply, result, selected, tx, fifo, latch, kind, heard, due, taken,
                       glitches, late>>
    BY <1>7 DEF AfterPing, InterCommandDelay, AfterSend, port, card, bounds
  <2> QED
    BY <1>0, <2>1 DEF TypeOK
<1> QED
  BY <1>1, <1>2, <1>3, <1>4, <1>5, <1>6, <1>7 DEF Console

\* Every step of the port, the card and the user keeps the types.
LEMMA LinkTyped ==
    TypeOK /\ LinkInv /\ TakenInv' /\ (Shift \/ Acknowledge \/ Remove \/ UNCHANGED vars) => TypeOK'
<1> SUFFICES ASSUME TypeOK, LinkInv, TakenInv', Shift \/ Acknowledge \/ Remove \/ UNCHANGED vars
             PROVE  TypeOK'
  OBVIOUS
<1>1. CASE Shift
  <2>1. UNCHANGED <<step, call, pos, reply, result, selected, latch, kind, late>> /\ tx' = <<>>
    BY <1>1, ShiftFact
  <2>2. fifo' \in Seq(Frames) /\ Len(fifo') <= 8
    <3>1. call \in {"ping", "send"} /\ pos \in 1 .. Len(Routine(call))
      BY DEF TypeOK
    <3>2. \E f \in Frames : fifo' = <<f>>
      <4>1. \A v \in 0 .. 255 : Frame(v, call, pos) \in Frames
        BY <3>1, FrameFact
      <4>2. \A v \in 0 .. 255 : Frame(v, "end", 0) \in Frames
        <5>1. Frame(0, "end", 0) \in Frames
          BY <3>1, FrameFact
        <5>2. <<"end", 0>> \in Exchanges
          BY <5>1 DEF Frame, Frames
        <5> HIDE DEF Exchanges
        <5> QED
          BY <5>2 DEF Frame, Frames
      <4> QED
        BY <1>1, <4>1, <4>2, ShiftFact
    <3>3. PICK f \in Frames : fifo' = <<f>>
      BY <3>2
    <3>4. 1 <= 8
      OBVIOUS
    <3> QED
      BY <3>3, <3>4, OneFrame
  <2>3. heard' \in Seq(0 .. 255) /\ due' \in BOOLEAN
    <3>1. \/ heard' = Append(heard, Current.out) /\ due' = Acknowledges(heard')
          \/ UNCHANGED <<heard, due>>
      BY <1>1, ShiftFact DEF Hear
    <3>2. heard \in Seq(0 .. 255) /\ Current.out \in 0 .. 255 /\ due \in BOOLEAN
      BY CurrentFact DEF TypeOK
    <3>3. Acknowledges(heard') \in BOOLEAN
      BY DEF Acknowledges
    <3>4. Append(heard, Current.out) \in Seq(0 .. 255)
      BY <3>2
    <3> QED
      BY <3>1, <3>2, <3>3, <3>4, Zenon
  <2>4. taken' \in Seq(0 .. 255)
    <3>1. taken' \in {<<>>, Packet}
      BY DEF TakenInv
    <3>2. <<>> \in Seq(0 .. 255)
      OBVIOUS
    <3> QED
      BY <3>1, <3>2, PacketFact
  <2>5. glitches' \in 0 .. MaxGlitches
    <3>1. (glitches' = glitches \/ glitches' = glitches + 1) /\ glitches' <= MaxGlitches
      BY <1>1 DEF Shift
    <3>2. glitches \in 0 .. MaxGlitches /\ MaxGlitches \in Nat
      BY BoundAssumption DEF TypeOK
    <3> QED
      BY <3>1, <3>2
  <2>6. tx' \in Seq(Frames)
    BY <2>1
  <2> HIDE DEF Frames
  <2> QED
    BY <2>1, <2>2, <2>3, <2>4, <2>5, <2>6 DEF TypeOK
<1>2. CASE Acknowledge \/ Remove \/ UNCHANGED vars
  <2>1. /\ UNCHANGED <<step, call, pos, reply, result, selected, tx, fifo, taken, glitches, late>>
        /\ latch' \in {latch, TRUE} /\ due' \in {due, FALSE} /\ heard' \in {heard, <<>>}
        /\ kind' \in {kind, "none"}
    BY <1>2 DEF Acknowledge, Remove, vars, console, port, card, bounds
  <2>2. <<>> \in Seq(0 .. 255)
    OBVIOUS
  <2>3. latch' \in BOOLEAN /\ due' \in BOOLEAN
    BY <2>1, Zenon DEF TypeOK
  <2>4. heard' \in Seq(0 .. 255)
    BY <2>1, <2>2, Zenon DEF TypeOK
  <2>5. kind' \in {"none", "sony", "pro"}
    BY <2>1, Zenon DEF TypeOK
  <2> HIDE DEF Frames
  <2> QED
    BY <2>1, <2>3, <2>4, <2>5 DEF TypeOK
<1> QED
  BY <1>1, <1>2

-----------------------------------------------------------------------------
(* Theorems *)

\* The invariant: what is on the link, and what the card heard and took of it.
THEOREM LinkInvariantHolds == Spec => []LinkInvariant
<1>1. Init => LinkInvariant
  BY TypeInit, LinkInit, HeardInit DEF LinkInvariant
<1>2. LinkInvariant /\ [Next]_vars => LinkInvariant'
  <2> SUFFICES ASSUME LinkInvariant, [Next]_vars PROVE LinkInvariant'
    OBVIOUS
  <2>1. LinkInv' /\ HeardInv' /\ SonyInv' /\ TakenInv'
    BY LinkStep, HeardStep, SonyStep, TakenStep DEF LinkInvariant
  <2>2. TypeOK'
    BY <2>1, ConsoleTyped, LinkTyped DEF LinkInvariant, Next
  <2> QED
    BY <2>1, <2>2 DEF LinkInvariant
<1> QED
  BY <1>1, <1>2, PTL DEF Spec

\* Every variable keeps its type, and the FIFO is never fuller than the port allows.
THEOREM LinkTypes == Spec => []TypeOK
<1>1. LinkInvariant => TypeOK
  BY DEF LinkInvariant
<1> QED
  BY <1>1, LinkInvariantHolds, PTL

\* Each reply that is looked at belongs to the byte just written.
THEOREM RepliesMatch == Spec => []ReplyMatches
<1>1. LinkInvariant => ReplyMatches
  BY DEF LinkInvariant, LinkInv, ReplyMatches
<1> QED
  BY <1>1, LinkInvariantHolds, PTL

\* A card takes the whole Game-ID with its zero, or nothing.
THEOREM WholeIdTaken == Spec => []TakenIdIsWhole
<1>1. LinkInvariant => TakenIdIsWhole
  BY DEF LinkInvariant, TakenInv, TakenIdIsWhole, Packet
<1> QED
  BY <1>1, LinkInvariantHolds, PTL

\* An ordinary card is never sent the byte of the Game-ID command.
THEOREM OrdinaryCardSafe == Spec => []PlainCardIsOnlyPinged
<1>1. LinkInvariant => PlainCardIsOnlyPinged
  <2> SUFFICES ASSUME LinkInvariant, kind = "sony", NEW i \in DOMAIN heard
               PROVE  heard[i] # SendId
    BY DEF PlainCardIsOnlyPinged
  <2>1. heard \in Seq(0 .. 255) /\ call = "ping" /\ pos \in 1 .. Len(Routine(call))
    BY DEF LinkInvariant, TypeOK, SonyInv
  <2>2. Routine(call) = PingBytes /\ pos \in 1 .. 6
    BY <2>1, PingFact DEF Routine
  <2>3. CASE ~selected
    <3>1. heard = <<>>
      BY <2>3 DEF LinkInvariant, HeardInv
    <3> QED
      BY <3>1
  <2>4. CASE selected
    <3>1. Len(heard) = Shifted /\ \A j \in 1 .. Shifted : heard[j] = PingBytes[j].out
      BY <2>2, <2>4 DEF LinkInvariant, HeardInv
    <3>2. Shifted \in 0 .. 6
      BY <2>2 DEF Shifted
    <3> HIDE DEF Shifted
    <3>3. i \in 1 .. Shifted
      BY <2>1, <3>1
    <3>4. i \in 1 .. 6
      BY <3>2, <3>3
    <3> QED
      BY <3>1, <3>3, <3>4, PingFact
  <2> QED
    BY <2>3, <2>4
<1> QED
  BY <1>1, LinkInvariantHolds, PTL

\* If the transmission reports success and the card is still there, it has the ID.
THEOREM SuccessMeansTaken == Spec => []ReportedIdIsTaken
<1>1. LinkInvariant => ReportedIdIsTaken
  BY DEF LinkInvariant, TakenInv, ReportedIdIsTaken, Packet
<1> QED
  BY <1>1, LinkInvariantHolds, PTL
=============================================================================
