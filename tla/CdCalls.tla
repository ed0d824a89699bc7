------------------------------- MODULE CdCalls -------------------------------
(***************************************************************************)
(* What a CD command is to the loader: a call that returns when all the    *)
(* responses to this command, and no others, were taken, in their order.   *)
(* The registers promise nothing of the kind; module CdRom shows that the  *)
(* code of cdrom.c and loader.c makes it so.                               *)
(***************************************************************************)
EXTENDS Naturals, Sequences

CONSTANTS
    None, Cmds,     \* no command; the commands
    Final           \* the interrupts that may answer a command, all of them

VARIABLES
    call,           \* the command under way, or None
    taken,          \* the responses taken for it
    clean           \* nobody else's command was under way at the start

vars == <<call, taken, clean>>

\* A response: whether it is one to this command, which one, and the interrupt.
Response == [own: BOOLEAN, n: 0 .. 2, int: {2, 3, 5}]

\* What was taken is the beginning of a whole answer.
Begins(s, answer) == Len(s) <= Len(answer) /\ \A i \in DOMAIN s : s[i] = answer[i]
OwnAnswer(answer) == [i \in DOMAIN answer |-> [own |-> TRUE, n |-> i, int |-> answer[i]]]
Consistent(s) == \E answer \in Final[call] : Begins(s, OwnAnswer(answer))
Whole(s) == \E answer \in Final[call] : s = OwnAnswer(answer)

Init == call = None /\ taken = <<>> /\ clean \in BOOLEAN

Issue ==
    /\ call = None /\ call' \in Cmds /\ taken' = <<>> /\ UNCHANGED clean

\* Someone else's late responses may be taken too, if there are any.
Take ==
    /\ call # None /\ Len(taken) < 2
    /\ \E r \in Response : taken' = Append(taken, r) /\ (clean => Consistent(Append(taken, r)))
    /\ UNCHANGED <<call, clean>>

Return ==
    /\ call # None /\ taken # <<>> /\ (clean => Whole(taken))
    /\ call' = None /\ taken' = <<>> /\ UNCHANGED clean

Next == Issue \/ Take \/ Return

\* Every call returns.
Spec == Init /\ [][Next]_vars /\ WF_vars(Take \/ Return)
=============================================================================
