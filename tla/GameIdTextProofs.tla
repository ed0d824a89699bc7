--------------------------- MODULE GameIdTextProofs ---------------------------
(***************************************************************************)
(* For every path, table and buffer size: the text stays in the buffer, an *)
(* ID that was built is the right one, and one that was refused would not  *)
(* have fitted.                                                            *)
(***************************************************************************)
EXTENDS GameIdText, SequenceTheorems, FiniteSetTheorems, TLAPS

\* Up to four texts, one after the other.
Joined(texts) ==
    IF texts = <<>> THEN <<>>
    ELSE IF Len(texts) = 1 THEN texts[1]
    ELSE IF Len(texts) = 2 THEN texts[1] \o texts[2]
    ELSE IF Len(texts) = 3 THEN texts[1] \o texts[2] \o texts[3]
    ELSE texts[1] \o texts[2] \o texts[3] \o texts[4]

\* What is in the buffer and what is still to be appended make up the ID.
IdInv ==
    /\ at = "look" => disc = {}
    /\ at = "append" =>
          Len(todo) <= 4 /\ game_id \o (rest \o Joined(todo)) = IdOf(bootfile, disc)

IdInvariant == TypeOK /\ IdInv /\ IdIsCanonical /\ RefusedIfTooLong

\* Texts can be joined in any grouping.
LEMMA TextConcat ==
    ASSUME NEW a \in Text, NEW b \in Text
    PROVE  a \o b \in Text /\ Len(a \o b) = Len(a) + Len(b) /\ a \o <<>> = a /\ <<>> \o a = a
  BY ConcatProperties, ConcatEmptySeq DEF Text

\* Texts may be put together in any order of the joins.
LEMMA TextAssociative ==
    ASSUME NEW a \in Text, NEW b \in Text, NEW c \in Text
    PROVE  (a \o b) \o c = a \o (b \o c)
  BY ConcatAssociative DEF Text

\* A list of texts without its first.
LEMMA TailOfTexts ==
    ASSUME NEW t \in Seq(Text), t # <<>>
    PROVE  /\ Len(t) \in Nat \ {0} /\ Head(t) = t[1] /\ Head(t) \in Text
           /\ \A i \in 1 .. Len(t) : t[i] \in Text
           /\ Tail(t) \in Seq(Text) /\ Len(Tail(t)) = Len(t) - 1
           /\ \A i \in 1 .. Len(t) - 1 : Tail(t)[i] = t[i + 1]
           /\ Tail(t) = <<>> <=> Len(t) = 1
<1>1. Len(t) \in Nat \ {0} /\ Head(t) = t[1]
  BY EmptySeq
<1>2. \A i \in 1 .. Len(t) : t[i] \in Text
  BY ElementOfSeq
<1>3. /\ Head(t) \in Text /\ Tail(t) \in Seq(Text) /\ Len(Tail(t)) = Len(t) - 1
      /\ \A i \in 1 .. Len(Tail(t)) : Tail(t)[i] = t[i + 1]
  BY HeadTailProperties
<1>4. Tail(t) = <<>> <=> Len(Tail(t)) = 0
  <2>1. \A u \in Seq(Text) : u = <<>> <=> Len(u) = 0
    BY EmptySeq
  <2> QED
    BY <1>3, <2>1
<1>5. Tail(t) = <<>> <=> Len(t) = 1
  BY <1>1, <1>3, <1>4
<1>6. \A i \in 1 .. Len(t) - 1 : Tail(t)[i] = t[i + 1]
  BY <1>3
<1> QED
  BY <1>1, <1>2, <1>3, <1>5, <1>6

\* The first text can be taken off.
LEMMA JoinedHead ==
    ASSUME NEW t \in Seq(Text), t # <<>>, Len(t) <= 4
    PROVE  /\ Joined(Tail(t)) \in Text /\ Joined(t) = Head(t) \o Joined(Tail(t))
<1>1. /\ Len(t) \in 1 .. 4 /\ Head(t) = t[1]
      /\ \A i \in 1 .. Len(t) : t[i] \in Text
  <2> DEFINE n == Len(t)
  <2>1. n \in Nat \ {0} /\ n <= 4
    BY TailOfTexts
  <2>2. n \in 1 .. 4
    <3> HIDE DEF n
    <3> QED
      BY <2>1
  <2> QED
    BY <2>2, TailOfTexts
<1> DEFINE u == Tail(t)
<1>2. /\ Len(u) = Len(t) - 1 /\ (u = <<>> <=> Len(t) = 1)
      /\ \A i \in 1 .. Len(t) - 1 : u[i] = t[i + 1]
  BY TailOfTexts
<1> HIDE DEF u
<1>3. CASE Len(t) = 1
  <2>1. Joined(u) = <<>> /\ Joined(t) = t[1]
    BY <1>2, <1>3 DEF Joined
  <2>2. t[1] \in Text /\ <<>> \in Text
    BY <1>1, <1>3 DEF Text
  <2>3. t[1] \o <<>> = t[1]
    BY <2>2, TextConcat
  <2> QED
    BY <1>1, <2>1, <2>2, <2>3 DEF u
<1>4. CASE Len(t) = 2
  <2>1. u[1] = t[2] /\ Len(u) = 1 /\ u # <<>>
    BY <1>2, <1>4
  <2>2. Joined(u) = t[2] /\ Joined(t) = t[1] \o t[2]
    BY <1>4, <2>1 DEF Joined
  <2> QED
    BY <1>1, <1>4, <2>2 DEF u
<1>5. CASE Len(t) = 3
  <2>1. u[1] = t[2] /\ u[2] = t[3] /\ Len(u) = 2 /\ u # <<>>
    BY <1>2, <1>5
  <2>2. Joined(u) = t[2] \o t[3] /\ Joined(t) = t[1] \o t[2] \o t[3]
    BY <1>5, <2>1 DEF Joined
  <2>3. t[1] \in Text /\ t[2] \in Text /\ t[3] \in Text
    BY <1>1, <1>5
  <2>4. t[2] \o t[3] \in Text
    BY <2>3, TextConcat
  <2>5. (t[1] \o t[2]) \o t[3] = t[1] \o (t[2] \o t[3])
    BY <2>3, TextAssociative
  <2> QED
    BY <1>1, <2>2, <2>4, <2>5 DEF u
<1>6. CASE Len(t) = 4
  <2>1. u[1] = t[2] /\ u[2] = t[3] /\ u[3] = t[4] /\ Len(u) = 3 /\ u # <<>>
    BY <1>2, <1>6
  <2>2. Joined(u) = t[2] \o t[3] \o t[4] /\ Joined(t) = t[1] \o t[2] \o t[3] \o t[4]
    BY <1>6, <2>1 DEF Joined
  <2>3. t[1] \in Text /\ t[2] \in Text /\ t[3] \in Text /\ t[4] \in Text
    BY <1>1, <1>6
  <2>4. /\ (t[2] \o t[3]) \o t[4] \in Text
        /\ ((t[1] \o t[2]) \o t[3]) \o t[4] = t[1] \o ((t[2] \o t[3]) \o t[4])
    <3> DEFINE a == t[1]
               b == t[2]
               c == t[3]
               d == t[4]
    <3>1. a \in Text /\ b \in Text /\ c \in Text /\ d \in Text
      BY <2>3
    <3>2. /\ (b \o c) \o d \in Text
          /\ ((a \o b) \o c) \o d = a \o ((b \o c) \o d)
      <4> HIDE DEF a, b, c, d
      <4>1. b \o c \in Text
        BY <3>1, TextConcat
      <4>2. (b \o c) \o d \in Text
        BY <3>1, <4>1, TextConcat
      <4>3. (a \o b) \o c = a \o (b \o c)
        BY <3>1, TextAssociative
      <4>4. (a \o (b \o c)) \o d = a \o ((b \o c) \o d)
        BY <3>1, <4>1, TextAssociative
      <4> QED
        BY <4>2, <4>3, <4>4
    <3> QED
      BY <3>2
  <2> QED
    BY <1>1, <2>2, <2>4 DEF u
<1> QED
  BY <1>1, <1>3, <1>4, <1>5, <1>6

\* The texts still to be appended make one text.
LEMMA JoinedIsText ==
    ASSUME NEW t \in Seq(Text), Len(t) <= 4
    PROVE  Joined(t) \in Text
<1>1. CASE t = <<>>
  BY <1>1 DEF Joined, Text
<1>2. CASE t # <<>>
  <2>1. Joined(t) = Head(t) \o Joined(Tail(t)) /\ Joined(Tail(t)) \in Text
    BY <1>2, JoinedHead
  <2>2. Head(t) \in Text
    BY <1>2, TailOfTexts
  <2> QED
    BY <2>1, <2>2, TextConcat
<1> QED
  BY <1>1, <1>2

\* A character taken from one text and put behind another leaves them the
\* same together.
LEMMA MoveChar ==
    ASSUME NEW s \in Text, NEW r \in Text, NEW u \in Text, r # <<>>
    PROVE  Append(s, Head(r)) \o (Tail(r) \o u) = s \o (r \o u)
<1>1. Head(r) \in Char /\ Tail(r) \in Text /\ <<Head(r)>> \in Text
  BY HeadTailProperties DEF Text
<1>2. Append(s, Head(r)) = s \o <<Head(r)>>
  BY <1>1, AppendIsConcat DEF Text
<1>3. r = <<Head(r)>> \o Tail(r)
  <2>1. Len(r) \in Nat \ {0} /\ Len(Tail(r)) = Len(r) - 1 /\ Head(r) = r[1]
    BY HeadTailProperties, EmptySeq DEF Text
  <2>2. /\ <<Head(r)>> \o Tail(r) \in Text /\ Len(<<Head(r)>> \o Tail(r)) = Len(r)
    BY <1>1, <2>1, ConcatProperties DEF Text
  <2>3. ASSUME NEW i \in 1 .. Len(r) PROVE (<<Head(r)>> \o Tail(r))[i] = r[i]
    <3>1. (<<Head(r)>> \o Tail(r))[i] = IF i <= 1 THEN r[1] ELSE Tail(r)[i - 1]
      BY <1>1, <2>1, ConcatProperties DEF Text
    <3>2. CASE i = 1
      BY <3>1, <3>2
    <3>3. CASE i # 1
      BY <2>1, <3>1, <3>3, HeadTailProperties DEF Text
    <3> QED
      BY <3>2, <3>3
  <2> QED
    BY <2>2, <2>3, SeqEqual DEF Text
<1>4. Tail(r) \o u \in Text
  BY <1>1, TextConcat
<1>5. (s \o <<Head(r)>>) \o (Tail(r) \o u) = s \o (<<Head(r)>> \o (Tail(r) \o u))
  BY <1>1, <1>4, TextAssociative
<1>6. <<Head(r)>> \o (Tail(r) \o u) = (<<Head(r)>> \o Tail(r)) \o u
  BY <1>1, TextAssociative
<1> QED
  BY <1>2, <1>3, <1>5, <1>6

\* What disc_leaf returns is part of the path.
LEMMA LeafIsText == ASSUME NEW path \in Paths PROVE Leaf(path) \in Text
<1>1. path \in Seq(Char)
  BY TextAssumption DEF Text
<1> DEFINE n == Cardinality(Directories(path))
<1>2. n \in Nat
  <2>1. Directories(path) \subseteq 1 .. Len(path)
    BY <1>1 DEF Directories
  <2>2. IsFiniteSet(1 .. Len(path))
    BY <1>1, FS_Interval
  <2>3. IsFiniteSet(Directories(path))
    BY <2>1, <2>2, FS_Subset
  <2> QED
    BY <2>3, FS_CardinalityType
<1>3. SubSeq(path, n + 1, Len(path)) \in Seq(Char)
  <2> HIDE DEF n
  <2>1. \A i \in n + 1 .. Len(path) : path[i] \in Char
    BY <1>1, <1>2, ElementOfSeq
  <2> QED
    BY <1>1, <1>2, <2>1, SubSeqProperties
<1> QED
  BY <1>3 DEF Leaf, Text

\* The texts that are joined to an ID.
LEMMA LeafTexts ==
    ASSUME NEW path \in Paths
    PROVE  /\ <<Cdrom, Leaf(path)>> \in Seq(Text) /\ Len(<<Cdrom, Leaf(path)>>) = 2
           /\ Joined(<<Cdrom, Leaf(path)>>) = Cdrom \o Leaf(path)
<1>1. Cdrom \in Text /\ Leaf(path) \in Text
  BY TextAssumption, LeafIsText
<1>2. Len(<<Cdrom, Leaf(path)>>) = 2 /\ <<Cdrom, Leaf(path)>> # <<>>
  OBVIOUS
<1> QED
  BY <1>1, <1>2 DEF Joined

\* So do the four that the name of a PSX.EXE is made of.
LEMMA SerialTexts ==
    ASSUME NEW d \in Known, NEW prefix \in {Scps, Slps}
    PROVE  LET texts == <<Cdrom, prefix, SerialOf[d], Version>>
           IN  /\ texts \in Seq(Text) /\ Len(texts) = 4
               /\ Joined(texts) = Cdrom \o prefix \o SerialOf[d] \o Version
<1> DEFINE serial == SerialOf[d]
           texts == <<Cdrom, prefix, serial, Version>>
<1>1. Cdrom \in Text /\ prefix \in Text /\ serial \in Text /\ Version \in Text
  BY TextAssumption, TableAssumption
<1> HIDE DEF serial
<1>2. Len(texts) = 4 /\ texts # <<>>
  OBVIOUS
<1>3. texts \in Seq(Text)
  BY <1>1
<1>4. Joined(texts) = Cdrom \o prefix \o serial \o Version
  BY <1>2 DEF Joined
<1> QED
  BY <1>2, <1>3, <1>4 DEF serial

\* Collecting them establishes the invariant.
LEMMA CollectStep ==
    ASSUME NEW texts \in Seq(Text), Len(texts) <= 4, Collect(texts),
           Joined(texts) = IdOf(bootfile', disc')
    PROVE  (IdInv /\ IdIsCanonical /\ RefusedIfTooLong)'
           /\ at' = "append" /\ todo' \in Seq(Text) /\ rest' \in Text
           /\ game_id' \in Text /\ Len(game_id') < Size
<1>1. at' = "append" /\ todo' = texts /\ rest' = <<>> /\ game_id' = <<>>
  BY DEF Collect
<1>2. Joined(texts) \in Text /\ <<>> \in Text
  BY JoinedIsText DEF Text
<1>3. <<>> \o (<<>> \o Joined(texts)) = Joined(texts)
  BY <1>2, TextConcat
<1>4. Len(<<>>) < Size
  BY SizeAssumption
<1> QED
  BY <1>1, <1>2, <1>3, <1>4 DEF IdInv, IdIsCanonical, RefusedIfTooLong

\* The ID of a disc.
LEMMA IdOfDisc ==
    ASSUME NEW path, NEW d
    PROVE  /\ IdOf(path, {}) = Cdrom \o Leaf(path)
           /\ d \notin Known => IdOf(path, {d}) = Cdrom \o Leaf(path)
           /\ d \in Known => IdOf(path, {d}) =
                 Cdrom \o (IF d \in ScpsDiscs THEN Scps ELSE Slps) \o SerialOf[d] \o Version
<1>1. IdOf(path, {}) = Cdrom \o Leaf(path)
  BY DEF IdOf
<1>2. ASSUME d \notin Known PROVE IdOf(path, {d}) = Cdrom \o Leaf(path)
  <2>1. {d} \cap Known = {}
    BY <1>2
  <2> QED
    BY <2>1 DEF IdOf
<1>3. ASSUME d \in Known PROVE IdOf(path, {d}) =
                 Cdrom \o (IF d \in ScpsDiscs THEN Scps ELSE Slps) \o SerialOf[d] \o Version
  <2> DEFINE k == CHOOSE e \in Known : e \in {d}
  <2>1. {d} \cap Known # {} /\ k = d
    BY <1>3
  <2>2. IdOf(path, {d}) = Cdrom \o (IF k \in ScpsDiscs THEN Scps ELSE Slps) \o SerialOf[k] \o Version
    BY <2>1 DEF IdOf
  <2> QED
    BY <2>1, <2>2
<1> QED
  BY <1>1, <1>2, <1>3

\* From the file's name.
LEMMA FromLeafStep ==
    ASSUME bootfile \in Paths, FromLeaf,
           IdOf(bootfile', disc') = Cdrom \o Leaf(bootfile)
    PROVE  (IdInv /\ IdIsCanonical /\ RefusedIfTooLong)'
           /\ at' = "append" /\ todo' \in Seq(Text) /\ rest' \in Text
           /\ game_id' \in Text /\ Len(game_id') < Size
<1> DEFINE texts == <<Cdrom, Leaf(bootfile)>>
<1>1. texts \in Seq(Text) /\ Len(texts) <= 4 /\ Joined(texts) = IdOf(bootfile', disc')
  <2>1. texts \in Seq(Text) /\ Len(texts) = 2 /\ Joined(texts) = Cdrom \o Leaf(bootfile)
    BY LeafTexts
  <2> HIDE DEF texts
  <2> QED
    BY <2>1
<1>2. Collect(texts)
  BY DEF FromLeaf
<1> HIDE DEF texts
<1> QED
  BY <1>1, <1>2, CollectStep

\* From the serial of the table.
LEMMA FromSerialStep ==
    ASSUME NEW d \in Known, FromSerial(SerialOf[d], d \in ScpsDiscs), disc' = {d}
    PROVE  (IdInv /\ IdIsCanonical /\ RefusedIfTooLong)'
           /\ at' = "append" /\ todo' \in Seq(Text) /\ rest' \in Text
           /\ game_id' \in Text /\ Len(game_id') < Size
<1> DEFINE prefix == IF d \in ScpsDiscs THEN Scps ELSE Slps
           texts == <<Cdrom, prefix, SerialOf[d], Version>>
<1>1. prefix \in {Scps, Slps}
  OBVIOUS
<1>2. IdOf(bootfile', disc') = Cdrom \o prefix \o SerialOf[d] \o Version
  BY IdOfDisc
<1>3. Collect(texts)
  BY DEF FromSerial
<1> HIDE DEF prefix
<1>4. texts \in Seq(Text) /\ Len(texts) = 4
      /\ Joined(texts) = Cdrom \o prefix \o SerialOf[d] \o Version
  BY <1>1, SerialTexts
<1> HIDE DEF texts
<1>5. Len(texts) <= 4 /\ Joined(texts) = IdOf(bootfile', disc')
  <2>1. Len(texts) = 4 /\ Joined(texts) = IdOf(bootfile', disc')
    BY <1>2, <1>4
  <2> QED
    BY <2>1
<1> QED
  BY <1>3, <1>4, <1>5, CollectStep

\* What is in the buffer and what is to come, while a text is appended.
LEMMA AppendFacts ==
    ASSUME TypeOK, IdInv, at = "append"
    PROVE  /\ game_id \in Text /\ rest \in Text /\ todo \in Seq(Text) /\ Len(todo) <= 4
           /\ Joined(todo) \in Text
           /\ game_id \o (rest \o Joined(todo)) = IdOf(bootfile, disc)
<1>1. /\ game_id \in Text /\ rest \in Text /\ todo \in Seq(Text) /\ Len(todo) <= 4
      /\ game_id \o (rest \o Joined(todo)) = IdOf(bootfile, disc)
  BY DEF TypeOK, IdInv
<1>2. Joined(todo) \in Text
  BY <1>1, JoinedIsText
<1> QED
  BY <1>1, <1>2

\* A character moves from what is to be appended to game_id.
LEMMA AppendCharStep == IdInvariant /\ AppendChar => IdInvariant'
<1> SUFFICES ASSUME IdInvariant, AppendChar PROVE IdInvariant'
  OBVIOUS
<1> DEFINE u == Joined(todo)
<1>1. /\ game_id \in Text /\ rest \in Text /\ u \in Text /\ rest # <<>>
      /\ Len(todo) <= 4 /\ game_id \o (rest \o u) = IdOf(bootfile, disc)
  BY AppendFacts DEF IdInvariant, AppendChar
<1>2. game_id' = Append(game_id, Head(rest)) /\ rest' = Tail(rest) /\ at' = "append"
      /\ UNCHANGED <<bootfile, disc, is_scps, todo>>
  BY DEF AppendChar
<1>3. Head(rest) \in Char /\ Tail(rest) \in Text
  BY <1>1, HeadTailProperties DEF Text
<1>4. game_id' \in Text /\ Len(game_id') < Size
  <2>1. game_id' \in Text /\ Len(game_id') = Len(game_id) + 1
    BY <1>1, <1>2, <1>3, AppendProperties DEF Text
  <2> QED
    BY <2>1 DEF AppendChar
<1>5. game_id' \o (rest' \o u) = IdOf(bootfile, disc)
  BY <1>1, <1>2, MoveChar
<1>6. TypeOK'
  BY <1>2, <1>3, <1>4 DEF IdInvariant, TypeOK
<1>7. (IdInv /\ IdIsCanonical /\ RefusedIfTooLong)'
  BY <1>1, <1>2, <1>5 DEF IdInv, IdIsCanonical, RefusedIfTooLong
<1> QED
  BY <1>6, <1>7 DEF IdInvariant

\* A full buffer refuses the text.
LEMMA NoRoomStep == IdInvariant /\ NoRoom => IdInvariant'
<1> SUFFICES ASSUME IdInvariant, NoRoom PROVE IdInvariant'
  OBVIOUS
<1> DEFINE u == Joined(todo)
<1>1. /\ game_id \in Text /\ rest \in Text /\ u \in Text /\ rest # <<>>
      /\ game_id \o (rest \o u) = IdOf(bootfile, disc)
  BY AppendFacts DEF IdInvariant, NoRoom
<1>2. Len(rest) \in Nat \ {0} /\ Len(game_id) \in Nat /\ Len(u) \in Nat
  BY <1>1, EmptySeq DEF Text
<1>3. Len(IdOf(bootfile, disc)) = Len(game_id) + (Len(rest) + Len(u))
  <2>1. rest \o u \in Text /\ Len(rest \o u) = Len(rest) + Len(u)
    BY <1>1, TextConcat
  <2>2. Len(game_id \o (rest \o u)) = Len(game_id) + Len(rest \o u)
    BY <1>1, <2>1, TextConcat
  <2> QED
    BY <1>1, <2>1, <2>2
<1>4. Len(game_id) + 1 >= Size
  BY DEF NoRoom
<1>5. Len(IdOf(bootfile, disc)) >= Size
  BY <1>2, <1>3, <1>4, SizeAssumption
<1>6. TypeOK'
  BY DEF IdInvariant, TypeOK, NoRoom
<1>7. (IdInv /\ IdIsCanonical /\ RefusedIfTooLong)'
  BY <1>5 DEF IdInv, IdIsCanonical, RefusedIfTooLong, NoRoom
<1> QED
  BY <1>6, <1>7 DEF IdInvariant

\* The next text is appended.
LEMMA NextTextStep == IdInvariant /\ NextText => IdInvariant'
<1> SUFFICES ASSUME IdInvariant, NextText PROVE IdInvariant'
  OBVIOUS
<1>1. /\ game_id \in Text /\ todo \in Seq(Text) /\ Len(todo) <= 4 /\ todo # <<>>
      /\ rest = <<>> /\ Joined(todo) \in Text
      /\ game_id \o (<<>> \o Joined(todo)) = IdOf(bootfile, disc)
  BY AppendFacts DEF IdInvariant, NextText
<1>2. /\ rest' = Head(todo) /\ todo' = Tail(todo) /\ at' = "append"
      /\ UNCHANGED <<bootfile, disc, is_scps, game_id>>
  BY DEF NextText
<1>3. Head(todo) \in Text /\ Tail(todo) \in Seq(Text) /\ Len(Tail(todo)) <= 4
  <2>1. /\ Len(todo) \in Nat /\ Len(Tail(todo)) = Len(todo) - 1
        /\ Head(todo) \in Text /\ Tail(todo) \in Seq(Text)
    BY <1>1, TailOfTexts
  <2> DEFINE n == Len(todo)
  <2>2. n - 1 <= 4
    <3>1. n \in Nat /\ n <= 4
      BY <1>1, <2>1
    <3> HIDE DEF n
    <3> QED
      BY <3>1
  <2> QED
    BY <2>1, <2>2
<1>4. Joined(todo) = Head(todo) \o Joined(Tail(todo))
  BY <1>1, JoinedHead
<1>5. <<>> \o Joined(todo) = Joined(todo)
  BY <1>1, TextConcat
<1>6. game_id' \o (rest' \o Joined(todo')) = IdOf(bootfile, disc)
  BY <1>1, <1>2, <1>4, <1>5
<1>7. TypeOK'
  BY <1>2, <1>3 DEF IdInvariant, TypeOK
<1>8. (IdInv /\ IdIsCanonical /\ RefusedIfTooLong)'
  BY <1>2, <1>3, <1>6 DEF IdInv, IdIsCanonical, RefusedIfTooLong
<1> QED
  BY <1>7, <1>8 DEF IdInvariant

\* Everything is appended, or did not fit.
LEMMA BuiltStep == IdInvariant /\ Built => IdInvariant'
<1> SUFFICES ASSUME IdInvariant, Built PROVE IdInvariant'
  OBVIOUS
<1>1. /\ game_id \in Text /\ rest = <<>> /\ todo = <<>>
      /\ game_id \o (<<>> \o Joined(<<>>)) = IdOf(bootfile, disc)
  BY AppendFacts DEF IdInvariant, Built
<1>2. game_id = IdOf(bootfile, disc)
  <2>1. Joined(<<>>) = <<>> /\ <<>> \in Text
    BY DEF Joined, Text
  <2>2. <<>> \o <<>> = <<>> /\ game_id \o <<>> = game_id
    BY <1>1, <2>1, TextConcat
  <2> QED
    BY <1>1, <2>1, <2>2
<1>3. TypeOK'
  BY DEF IdInvariant, TypeOK, Built
<1> QED
  BY <1>2, <1>3 DEF IdInvariant, IdInv, IdIsCanonical, RefusedIfTooLong, Built

\* A new game_id is begun.
LEMMA BuildStep ==
    ASSUME IdInvariant, NEW path \in Paths, Build(path)
    PROVE  IdInvariant'
<1>1. at' = "look" /\ bootfile' = path /\ disc' = {} /\ UNCHANGED <<is_scps, todo, rest, game_id>>
  BY DEF Build
<1>2. TypeOK'
  BY <1>1 DEF IdInvariant, TypeOK
<1> QED
  BY <1>1, <1>2 DEF IdInvariant, IdInv, IdIsCanonical, RefusedIfTooLong

\* The file's name decides.
LEMMA NameStep == IdInvariant /\ (NoLookup \/ LookupFails) => IdInvariant'
<1> SUFFICES ASSUME IdInvariant, NoLookup \/ LookupFails PROVE IdInvariant'
  OBVIOUS
<1>1. /\ FromLeaf /\ UNCHANGED <<bootfile, disc, is_scps>> /\ at = "look"
      /\ bootfile \in Paths /\ disc = {}
  BY DEF IdInvariant, NoLookup, LookupFails, IdInv, TypeOK
<1>2. IdOf(bootfile', disc') = Cdrom \o Leaf(bootfile)
  BY <1>1, IdOfDisc
<1>3. (IdInv /\ IdIsCanonical /\ RefusedIfTooLong)'
      /\ at' = "append" /\ todo' \in Seq(Text) /\ rest' \in Text
      /\ game_id' \in Text /\ Len(game_id') < Size
  BY <1>1, <1>2, FromLeafStep
<1>4. TypeOK'
  BY <1>1, <1>3 DEF IdInvariant, TypeOK
<1> QED
  BY <1>3, <1>4 DEF IdInvariant

\* The table decides.
LEMMA LookupStep ==
    ASSUME IdInvariant, NEW d \in Known \cup Unknown, Lookup(d)
    PROVE  IdInvariant'
<1>1. /\ disc' = {d} /\ is_scps' = (d \in ScpsDiscs) /\ bootfile' = bootfile
      /\ bootfile \in Paths
      /\ IF d \in Known THEN FromSerial(SerialOf[d], is_scps') ELSE FromLeaf
  <2>1. /\ d \in Known => get_psx_exe_gameid(d) = SerialOf[d] /\ SerialOf[d] # NoSerial
        /\ d \notin Known => get_psx_exe_gameid(d) = NoSerial
    BY TableAssumption DEF get_psx_exe_gameid
  <2> QED
    BY <2>1 DEF IdInvariant, TypeOK, Lookup, UseSerial
<1>2. (IdInv /\ IdIsCanonical /\ RefusedIfTooLong)'
      /\ at' = "append" /\ todo' \in Seq(Text) /\ rest' \in Text
      /\ game_id' \in Text /\ Len(game_id') < Size
  <2>1. CASE d \in Known
    <3>1. FromSerial(SerialOf[d], d \in ScpsDiscs)
      BY <1>1, <2>1 DEF FromSerial
    <3> QED
      BY <1>1, <2>1, <3>1, FromSerialStep
  <2>2. CASE d \notin Known
    <3>1. IdOf(bootfile', disc') = Cdrom \o Leaf(bootfile)
      BY <1>1, <2>2, IdOfDisc
    <3> QED
      BY <1>1, <2>2, <3>1, FromLeafStep
  <2> QED
    BY <2>1, <2>2
<1>3. is_scps' \in BOOLEAN
  BY <1>1
<1>4. TypeOK'
  BY <1>1, <1>2, <1>3 DEF TypeOK
<1> QED
  BY <1>2, <1>4 DEF IdInvariant

-----------------------------------------------------------------------------

\* The invariant holds in every state.
LEMMA IdInvariantHolds == Spec => []IdInvariant
<1>1. Init => IdInvariant
  <2> SUFFICES ASSUME Init PROVE IdInvariant
    OBVIOUS
  <2>1. <<>> \in Text /\ <<>> \in Seq(Text) /\ Len(<<>>) < Size
    <3>1. <<>> \in Text
      BY DEF Text
    <3>2. <<>> \in Seq(Text)
      OBVIOUS
    <3>3. Len(<<>>) < Size
      BY SizeAssumption
    <3> QED
      BY <3>1, <3>2, <3>3
  <2>2. TypeOK
    BY <2>1 DEF Init, TypeOK
  <2> QED
    BY <2>2 DEF Init, IdInvariant, IdInv, IdIsCanonical, RefusedIfTooLong
<1>2. IdInvariant /\ [Next]_vars => IdInvariant'
  <2> SUFFICES ASSUME IdInvariant, [Next]_vars PROVE IdInvariant'
    OBVIOUS
  <2>1. ASSUME NEW path \in Paths, Build(path) PROVE IdInvariant'
    BY <2>1, BuildStep
  <2>2. CASE NoLookup \/ LookupFails
    BY <2>2, NameStep
  <2>3. ASSUME NEW d \in Known \cup Unknown, Lookup(d) PROVE IdInvariant'
    BY <2>3, LookupStep
  <2>4. CASE AppendChar
    BY <2>4, AppendCharStep
  <2>5. CASE NoRoom
    BY <2>5, NoRoomStep
  <2>6. CASE NextText
    BY <2>6, NextTextStep
  <2>7. CASE Built
    BY <2>7, BuiltStep
  <2>8. CASE UNCHANGED vars
    <3>1. TypeOK'
      BY <2>8 DEF vars, IdInvariant, TypeOK
    <3>2. (IdInv /\ IdIsCanonical /\ RefusedIfTooLong)'
      BY <2>8 DEF vars, IdInvariant, IdInv, IdIsCanonical, RefusedIfTooLong
    <3> QED
      BY <3>1, <3>2 DEF IdInvariant
  <2> QED
    BY <2>1, <2>2, <2>3, <2>4, <2>5, <2>6, <2>7, <2>8 DEF Next
<1> QED
  BY <1>1, <1>2, PTL DEF Spec

\* For every table, every path and every size of the buffer: the text and its
\* zero stay inside the buffer (append_text).
THEOREM IdInBuffer == Spec => []TypeOK
<1>1. IdInvariant => TypeOK
  BY DEF IdInvariant
<1> QED
  BY <1>1, IdInvariantHolds, PTL

\* An ID that build_game_id returns is that of its boot file and of the disc
\* it looked up, and no lookup before it has a part in it.
THEOREM IdRight == Spec => []IdIsCanonical
<1>1. IdInvariant => IdIsCanonical
  BY DEF IdInvariant
<1> QED
  BY <1>1, IdInvariantHolds, PTL

\* build_game_id returns false only for an ID that the buffer cannot hold.
THEOREM RefusedRightly == Spec => []RefusedIfTooLong
<1>1. IdInvariant => RefusedIfTooLong
  BY DEF IdInvariant
<1> QED
  BY <1>1, IdInvariantHolds, PTL
=============================================================================
