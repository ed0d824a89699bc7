------------------------------ MODULE CardLink ------------------------------
(***************************************************************************)
(* game_id_send and the exchange with the memory card in slot 1:           *)
(* MemCardPro_Ping, MemCardPro_SendGameID and MemCardPro_Exchng of         *)
(* memcardpro.S, against the serial port and whatever is plugged in.       *)
(*                                                                         *)
(* A routine is a sequence of bytes to exchange.  Each exchange writes the *)
(* byte, waits for the port to have shifted a reply in, then waits for the *)
(* card's acknowledge, but no longer than 4500 polls: a card that is not   *)
(* there, or does not know the command, never acknowledges.                *)
(***************************************************************************)
EXTENDS Integers, Sequences

CONSTANTS
    GameId,         \* the string to send, a sequence of character codes
    Fits,           \* what build_game_id may return, a set of Booleans
    MaxGlitches,    \* bound: replies garbled on the wire
    MaxLate         \* bound: acknowledges later than the time-out

Select  == 129      \* 81h
Ping    == 32       \* 20h
SendId  == 33       \* 21h
Present == 39       \* 27h, the last but one answer to a ping
Garbled == 85       \* a reply that no check accepts

ASSUME GameIdAssumption == GameId \in Seq(1 .. 255) /\ Len(GameId) \in 1 .. 250
ASSUME FitsAssumption == Fits \in (SUBSET BOOLEAN) \ {{}}
ASSUME BoundAssumption == MaxGlitches \in Nat /\ MaxLate \in Nat

VARIABLES
    step,       \* where game_id_send and the routine it called are
    call,       \* the routine: "ping" or "send"
    pos,        \* which of the routine's bytes is being exchanged
    reply,      \* what MemCardPro_Exchng returned
    result,     \* what the routine returned
    selected,   \* JOY_CTRL holds 1003h, else 0
    tx,         \* bytes written and not yet shifted out
    fifo,       \* replies shifted in and not yet read
    latch,      \* JOY_STAT bit 9: an acknowledge was seen
    kind,       \* what is plugged in: "none", "sony" or "pro"
    heard,      \* the bytes it was sent since it was selected
    due,        \* it is about to acknowledge the last of them
    taken,      \* the game ID it took, <<>> until then
    glitches, late      \* bounds: used up so far

console == <<step, call, pos, reply, result>>
port    == <<selected, tx, fifo, latch>>
card    == <<kind, heard, due, taken>>
bounds  == <<glitches, late>>
vars    == <<console, port, card, bounds>>

\* A byte on the link, and the exchange that it belongs to.
Exchanges == ({"ping", "send", "end", "boot"} \X (0 .. Len(GameId) + 6))
Frame(v, c, i) == [value |-> v, of |-> <<c, i>>]
Frames == [value: 0 .. 255, of: Exchanges]

-----------------------------------------------------------------------------
(* The routines *)

\* One exchange: the byte, the replies that are accepted (all, if the code
\* does not look), the routine's result if it is another one, and whether
\* the acknowledge is not waited for.
Exchange(out, ok, err) == [out |-> out, ok |-> ok, err |-> err, last |-> FALSE]
Any == 0 .. 255

PingBytes ==
    <<Exchange(Select, {255}, 1), Exchange(Ping, {0, 8}, 2),
      Exchange(0, {0}, 3), Exchange(0, {0}, 3), Exchange(0, {Present}, 4),
      [out |-> 0, ok |-> {255}, err |-> 5, last |-> TRUE]>>

\* Mutant: the trailing zero is neither counted nor sent.
PacketWithoutZero == GameId

\* The length byte counts the trailing zero, and so does the loop.
Packet == Append(GameId, 0)

\* Mutant: the loop ends a byte early.
SendBytesButOne ==
    <<Exchange(Select, {255}, 1), Exchange(SendId, {0, 8}, 2),
      Exchange(0, {0}, 3), Exchange(Len(Packet), {0}, 4)>>
    \o [i \in 1 .. Len(Packet) - 1 |-> Exchange(Packet[i], Any, 5)]

SendBytes ==
    <<Exchange(Select, {255}, 1), Exchange(SendId, {0, 8}, 2),
      Exchange(0, {0}, 3), Exchange(Len(Packet), {0}, 4)>>
    \o [i \in 1 .. Len(Packet) |-> Exchange(Packet[i], Any, 5)]

Routine(c) == IF c = "ping" THEN PingBytes ELSE SendBytes
Current == Routine(call)[pos]

Init ==
    /\ step = "called" /\ call = "ping" /\ pos = 1 /\ result = -1
    /\ reply = Frame(0, "boot", 0)
    /\ selected = FALSE /\ tx = <<>> /\ fifo \in {<<>>, <<Frame(0, "boot", 0)>>}
    /\ latch \in BOOLEAN
    /\ kind \in {"none", "sony", "pro"} /\ heard = <<>> /\ due = FALSE /\ taken = <<>>
    /\ glitches = 0 /\ late = 0

\* JOY_CTRL = 1003h.
SelectPort ==
    /\ step \in {"called", "delayed"} /\ step' = "flush"
    /\ selected' = TRUE /\ pos' = 1
    /\ call' = IF step = "called" THEN "ping" ELSE "send"
    /\ UNCHANGED <<reply, result, tx, fifo, latch, card, bounds>>

\* The receive FIFO is read until empty and the latch cleared.
FlushFifo ==
    /\ step = "flush" /\ step' = "write"
    /\ fifo' = <<>> /\ latch' = FALSE
    /\ UNCHANGED <<call, pos, reply, result, selected, tx, card, bounds>>

\* MemCardPro_Exchng, up to the write of JOY_TXRX.
WriteByte ==
    /\ step = "write" /\ step' = "receive"
    /\ tx' = Append(tx, Frame(Current.out, call, pos))
    /\ UNCHANGED <<call, pos, reply, result, selected, fifo, latch, card, bounds>>

TakeReply == reply' = Head(fifo) /\ fifo' = Tail(fifo)

\* A reply is there; the last byte needs no acknowledge.
ReplyReady ==
    /\ step = "receive" /\ fifo # <<>>
    /\ IF Current.last THEN step' = "check" /\ TakeReply /\ latch' = FALSE
                       ELSE step' = "ack" /\ UNCHANGED <<reply, fifo, latch>>
    /\ UNCHANGED <<call, pos, result, selected, tx, card, bounds>>

\* .Ldone: the reply is read, the latch cleared.
AckSeen ==
    /\ step = "ack" /\ latch /\ step' = "check"
    /\ TakeReply /\ latch' = FALSE
    /\ UNCHANGED <<call, pos, result, selected, tx, card, bounds>>

\* Mutant: the polls are not counted.
PollForever ==
    /\ step = "ack" /\ ~latch /\ UNCHANGED vars

\* .Ltimeout: the reply is read, the latch left alone.
AckTimeout ==
    /\ step = "ack" /\ ~latch /\ step' = "check"
    /\ due => late < MaxLate
    /\ late' = IF due THEN late + 1 ELSE late
    /\ TakeReply
    /\ UNCHANGED <<call, pos, result, selected, tx, latch, card, glitches>>

\* Mutant: the loop goes on for a byte too many.
CheckReplyOneMore ==
    /\ step = "check"
    /\ IF reply.value \notin Current.ok
       THEN step' = "end" /\ result' = Current.err /\ UNCHANGED pos
       ELSE IF pos > Len(Routine(call))
       THEN step' = "end" /\ result' = 0 /\ UNCHANGED pos
       ELSE step' = "write" /\ pos' = pos + 1 /\ UNCHANGED result
    /\ UNCHANGED <<call, reply, port, card, bounds>>

\* A reply that is not the expected one ends the routine with an error; after
\* the last byte it ends with 0.
CheckReply ==
    /\ step = "check"
    /\ IF reply.value \notin Current.ok
       THEN step' = "end" /\ result' = Current.err /\ UNCHANGED pos
       ELSE IF pos = Len(Routine(call))
       THEN step' = "end" /\ result' = 0 /\ UNCHANGED pos
       ELSE step' = "write" /\ pos' = pos + 1 /\ UNCHANGED result
    /\ UNCHANGED <<call, reply, port, card, bounds>>

\* The end byte goes out as the port is deselected; nobody reads its reply.
EndRoutine ==
    /\ step = "end" /\ step' = (IF call = "ping" THEN "pinged" ELSE "sent")
    /\ tx' = Append(tx, Frame(0, "end", 0)) /\ selected' = FALSE
    /\ heard' = <<>> /\ due' = FALSE
    /\ UNCHANGED <<call, pos, reply, result, fifo, latch, kind, taken, bounds>>

-----------------------------------------------------------------------------
(* game_id_send *)

\* Mutant: the ping's result is not looked at.
AfterPingUnchecked ==
    /\ step = "pinged"
    /\ \E fits \in Fits : step' = IF fits THEN "delay" ELSE "returned"
    /\ UNCHANGED <<call, pos, reply, result, port, card, bounds>>

\* No card of the right kind, or an ID that is too long: nothing is sent.
AfterPing ==
    /\ step = "pinged"
    /\ IF result # 0 THEN step' = "returned"
       ELSE \E fits \in Fits : step' = IF fits THEN "delay" ELSE "returned"
    /\ UNCHANGED <<call, pos, reply, result, port, card, bounds>>

\* Mutant: the delay is left out.
NoDelay ==
    /\ step = "delay" /\ step' = "delayed"
    /\ UNCHANGED <<call, pos, reply, result, port, card, bounds>>

\* MemcardPro_InterCommandDelay: longer than anything still under way.
InterCommandDelay ==
    /\ step = "delay" /\ step' = "delayed" /\ tx = <<>>
    /\ UNCHANGED <<call, pos, reply, result, port, card, bounds>>

AfterSend ==
    /\ step = "sent" /\ step' = "returned"
    /\ UNCHANGED <<call, pos, reply, result, port, card, bounds>>

-----------------------------------------------------------------------------
(* The card, and the port's shift register *)

Addressed == heard # <<>> /\ heard[1] = Select
Knows(h) == kind = "pro" /\ Len(h) > 1 /\ h[2] \in {Ping, SendId}
Total(h) == IF h[2] = Ping THEN 6 ELSE IF Len(h) < 4 THEN 5 ELSE 4 + h[4]

\* What comes back as the next byte goes out.  An open line reads FFh; a card
\* answers with its flag byte, then, if it knows the command, goes on.
Answers ==
    IF kind = "none" \/ ~Addressed \/ (Len(heard) > 1 /\ ~Knows(heard)) THEN {255}
    ELSE IF Len(heard) = 1 THEN {0, 8}
    ELSE IF heard[2] = Ping THEN {CASE Len(heard) < 4 -> 0
                                    [] Len(heard) = 4 -> Present
                                    [] OTHER -> 255}
    ELSE IF Len(heard) < 4 THEN {0} ELSE {heard[Len(heard)]}

\* Every byte of a command but its last is acknowledged.
Acknowledges(h) ==
    /\ kind # "none" /\ h[1] = Select
    /\ Len(h) > 1 => Knows(h) /\ Len(h) < Total(h)

Hear(b) ==
    /\ heard' = Append(heard, b) /\ due' = Acknowledges(heard')
    /\ taken' = IF /\ Knows(heard') /\ heard'[1] = Select /\ heard'[2] = SendId
                   /\ Len(heard') > 4 /\ Len(heard') = Total(heard')
                THEN SubSeq(heard', 5, Len(heard')) ELSE taken

\* A byte is shifted out, and the reply in.
Shift ==
    /\ tx # <<>> /\ tx' = Tail(tx)
    /\ IF selected THEN Hear(Head(tx).value) ELSE UNCHANGED <<heard, due, taken>>
    /\ \E v \in (IF selected THEN Answers ELSE {255}) \cup {Garbled} :
          /\ glitches' = IF v = Garbled THEN glitches + 1 ELSE glitches
          /\ glitches' <= MaxGlitches
          /\ fifo' = Append(fifo, [Head(tx) EXCEPT !.value = v])
    /\ UNCHANGED <<console, selected, latch, kind, late>>

Acknowledge ==
    /\ due /\ due' = FALSE /\ latch' = TRUE
    /\ UNCHANGED <<console, selected, tx, fifo, kind, heard, taken, bounds>>

\* The card is pulled out.
Remove ==
    /\ kind # "none" /\ kind' = "none"
    /\ heard' = <<>> /\ due' = FALSE
    /\ UNCHANGED <<console, port, taken, bounds>>

-----------------------------------------------------------------------------
Console ==
    \/ SelectPort \/ FlushFifo \/ WriteByte \/ ReplyReady \/ AckSeen \/ AckTimeout
    \/ CheckReply \/ EndRoutine \/ AfterPing \/ InterCommandDelay \/ AfterSend

Next == Console \/ Shift \/ Acknowledge \/ Remove

Spec == Init /\ [][Next]_vars

\* The processor keeps executing, the port keeps shifting, and a card that
\* owes an acknowledge gives it.
FairSpec == Spec /\ WF_vars(Console) /\ WF_vars(Shift) /\ WF_vars(Acknowledge)

-----------------------------------------------------------------------------
(* Properties *)

\* The variables keep their types; the FIFO never holds more than the eight
\* bytes that the port has room for.
TypeOK ==
    /\ step \in {"called", "flush", "write", "receive", "ack", "check", "end",
                 "pinged", "delay", "delayed", "sent", "returned"}
    /\ call \in {"ping", "send"} /\ pos \in 1 .. Len(Routine(call))
    /\ reply \in Frames /\ result \in -1 .. 5
    /\ selected \in BOOLEAN /\ latch \in BOOLEAN /\ due \in BOOLEAN
    /\ tx \in Seq(Frames) /\ fifo \in Seq(Frames) /\ Len(fifo) <= 8
    /\ kind \in {"none", "sony", "pro"}
    /\ heard \in Seq(0 .. 255) /\ taken \in Seq(0 .. 255)
    /\ glitches \in 0 .. MaxGlitches /\ late \in 0 .. MaxLate

\* The reply MemCardPro_Exchng returns belongs to the byte it wrote, never to
\* an earlier one: a late acknowledge, or the end byte of the ping that nobody
\* read, must not shift the replies of the next command by one.
ReplyMatches == step = "check" => reply.of = <<call, pos>>

\* What a card takes for the game ID is the whole string and the zero after
\* it, whatever is garbled, late or pulled out on the way.
TakenIdIsWhole == taken # <<>> => taken = Append(GameId, 0)

\* A card that did not answer the ping is never sent the Game-ID command
\* (game_id_send: "non-fatal", nothing of an ordinary card is disturbed).
PlainCardIsOnlyPinged ==
    kind = "sony" => \A i \in DOMAIN heard : heard[i] # SendId

\* If the transmission reports success and the card is still there, the card
\* has the ID.
ReportedIdIsTaken ==
    step \in {"sent", "returned"} /\ call = "send" /\ result = 0 /\ kind = "pro"
        => taken = Append(GameId, 0)

\* game_id_send returns, whatever is plugged in and whenever it is pulled out.
Returns == <>(step = "returned")

\* game_id.h:17: "Returns true only when a compatible device accepted the
\* Game-ID command."
TrueMeansAccepted ==
    step = "returned" /\ call = "send" /\ result = 0 => taken # <<>>
=============================================================================
