---------------------------- MODULE SystemProofs ----------------------------
(***************************************************************************)
(* What the two processors and the mailbox between them keep, for a wall   *)
(* of any size, a mailbox of any depth shorter than a message, and any     *)
(* number of positions: the channel of whole messages, the types that rest *)
(* on it, what the display paints whatever messages come, and that the     *)
(* pictures follow one another as the messages do.                         *)
(***************************************************************************)
EXTENDS System, SequenceTheorems, TLAPS

(* The mailbox's share of TypeOK.                                          *)
MailTypes ==
  /\ fifo \in Seq(Words) /\ Len(fifo) <= DEPTH
  /\ out \in [1 .. WORDS -> Words] /\ in \in [1 .. WORDS -> Words]
  /\ writing \in BOOLEAN /\ nout \in 0 .. WORDS /\ nin \in 0 .. WORDS - 1
  /\ writing => nout < WORDS

(* A message is longer than the FIFO and than its two first words.         *)
LEMMA Counts == WORDS \in Nat /\ WORDS >= 3 /\ DEPTH \in Nat /\ DEPTH < WORDS
  BY SystemAssumption DEF WORDS

(* The words of a message from the k + 1st on.                             *)
LEMMA RestOfMessage ==
  ASSUME NEW S, NEW n \in Nat, NEW m \in [1 .. n -> S], NEW k \in 0 .. n
  PROVE  /\ SubSeq(m, k + 1, n) \in Seq(S)
         /\ Len(SubSeq(m, k + 1, n)) = n - k
         /\ \A i \in 1 .. n - k : SubSeq(m, k + 1, n)[i] = m[k + i]
  OBVIOUS

(* The first k words of a message.                                         *)
LEMMA StartOfMessage ==
  ASSUME NEW S, NEW n \in Nat, NEW m \in [1 .. n -> S], NEW k \in 0 .. n
  PROVE  /\ SubSeq(m, 1, k) \in Seq(S)
         /\ Len(SubSeq(m, 1, k)) = k
         /\ \A i \in 1 .. k : SubSeq(m, 1, k)[i] = m[i]
  OBVIOUS

(* The word counter of the reader: up by one, and back to 0 after a        *)
(* message.                                                                *)
LEMMA CountWords ==
  ASSUME NEW n \in 0 .. WORDS - 1
  PROVE  /\ n + 1 < WORDS => (n + 1) % WORDS = n + 1
         /\ n + 1 = WORDS => (n + 1) % WORDS = 0
<1>1. CASE n + 1 < WORDS
  BY <1>1, Counts, SMTT(30)
<1>2. CASE n + 1 = WORDS
  BY <1>2, Counts, SMTT(30)
<1> QED
  BY <1>1, <1>2

(* A sequence of words is a function on its places.                        *)
LEMMA MessageOfSeq ==
  ASSUME NEW S, NEW s \in Seq(S) PROVE s \in [1 .. Len(s) -> S]
  OBVIOUS

(* Words the writer still owes the FIFO.                                   *)
Left == IF writing /\ nout > 0 THEN WORDS - nout ELSE 0

StreamWords ==
  /\ Box!Stream \in Seq(Words)
  /\ Len(Box!Stream) = Len(fifo) + Left
  /\ Len(fifo) \in Nat /\ Left \in Nat
  /\ \A i \in 1 .. Len(fifo) + Left :
       Box!Stream[i] = IF i <= Len(fifo) THEN fifo[i] ELSE out[nout + (i - Len(fifo))]

(* What the stream says, place by place: the FIFO, then the rest of the    *)
(* message being written.                                                  *)
LEMMA StreamIs == MailTypes => StreamWords
<1> SUFFICES ASSUME MailTypes PROVE StreamWords
  OBVIOUS
<1> DEFINE rest == Box!Unwritten
<1>1. /\ rest \in Seq(Words) /\ Len(rest) = Left /\ Left \in Nat
      /\ \A i \in 1 .. Left : rest[i] = out[nout + i]
  <2>1. CASE writing /\ nout > 0
    BY <2>1, Counts, RestOfMessage DEF MailTypes, Left, Box!Unwritten
  <2>2. CASE ~(writing /\ nout > 0)
    BY <2>2 DEF Left, Box!Unwritten
  <2> QED
    BY <2>1, <2>2
<1> HIDE DEF rest
<1>2. fifo \in Seq(Words) /\ Len(fifo) \in Nat
  BY DEF MailTypes
<1>3. /\ fifo \o rest \in Seq(Words)
      /\ Len(fifo \o rest) = Len(fifo) + Len(rest)
      /\ \A i \in 1 .. Len(fifo) + Len(rest) :
           (fifo \o rest)[i] = IF i <= Len(fifo) THEN fifo[i] ELSE rest[i - Len(fifo)]
  BY ONLY <1>1, <1>2, ConcatProperties, Zenon
<1>4. Box!Stream = fifo \o rest
  BY DEF Box!Stream, rest
<1>5. ASSUME NEW i \in 1 .. Len(fifo) + Left
      PROVE  Box!Stream[i] = IF i <= Len(fifo) THEN fifo[i] ELSE out[nout + (i - Len(fifo))]
  BY <1>1, <1>2, <1>3, <1>4
<1> QED
  BY <1>1, <1>2, <1>3, <1>4, <1>5 DEF StreamWords

(* The reader cuts the stream where a message ends: it is owed the rest of *)
(* the one it is in, and at most one more is under way.                    *)
Framed == Len(Box!Stream) \in {Box!Owed, Box!Owed + WORDS}

(* The ith word of the message being taken: read already, or still to come.*)
TakenWord(i) == IF Box!Midway /\ i > nin THEN Box!Stream[i - nin] ELSE in[i]

TakenWords ==
  /\ Box!Taken \in [1 .. WORDS -> Words]
  /\ \A i \in 1 .. WORDS : Box!Taken[i] = TakenWord(i)

BehindWords ==
  /\ Len(Box!Stream) = Box!Owed => Box!Behind = <<>>
  /\ Len(Box!Stream) = Box!Owed + WORDS =>
       /\ Box!Behind \in [1 .. WORDS -> Words] /\ Box!Behind # <<>>
       /\ \A i \in 1 .. WORDS : Box!Behind[i] = Box!Stream[Box!Owed + i]

(* The message that is being taken, word by word.                          *)
LEMMA TakenIs == MailTypes /\ Framed => TakenWords
<1> SUFFICES ASSUME MailTypes, Framed
             PROVE  /\ Box!Taken \in [1 .. WORDS -> Words]
                    /\ \A i \in 1 .. WORDS : Box!Taken[i] = TakenWord(i)
  BY DEF TakenWords
<1>1. CASE ~Box!Midway
  BY <1>1 DEF MailTypes, Box!Taken, TakenWord
<1>2. CASE Box!Midway
  <2> DEFINE read == SubSeq(in, 1, nin)
             rest == SubSeq(Box!Stream, 1, Box!Owed)
  <2>1. nin \in 1 .. WORDS - 1 /\ Box!Owed = WORDS - nin /\ nin \in 0 .. WORDS
    BY <1>2, Counts DEF MailTypes, Box!Midway, Box!Owed
  <2>2. /\ read \in Seq(Words) /\ Len(read) = nin
        /\ \A i \in 1 .. nin : read[i] = in[i]
    BY <2>1, Counts, StartOfMessage DEF MailTypes
  <2>3. /\ rest \in Seq(Words) /\ Len(rest) = WORDS - nin
        /\ \A i \in 1 .. WORDS - nin : rest[i] = Box!Stream[i]
    <3>1. Box!Stream \in Seq(Words) /\ Len(Box!Stream) >= WORDS - nin
      BY <2>1, Counts, StreamIs DEF Framed, StreamWords
    <3> HIDE DEF Box!Stream
    <3> QED
      BY <2>1, <3>1, Counts
  <2> HIDE DEF read, rest
  <2>4. /\ read \o rest \in Seq(Words)
        /\ Len(read \o rest) = Len(read) + Len(rest)
        /\ \A i \in 1 .. Len(read) + Len(rest) :
             (read \o rest)[i] = IF i <= Len(read) THEN read[i] ELSE rest[i - Len(read)]
    BY ONLY <2>2, <2>3, ConcatProperties, Zenon
  <2>5. Box!Taken = read \o rest
    BY <1>2 DEF Box!Taken, read, rest
  <2>6. Box!Taken \in [1 .. WORDS -> Words]
    <3>1. Box!Taken \in Seq(Words) /\ Len(Box!Taken) = WORDS
      BY <2>1, <2>2, <2>3, <2>4, <2>5, Counts
    <3> QED
      BY <3>1, MessageOfSeq
  <2>7. ASSUME NEW i \in 1 .. WORDS PROVE Box!Taken[i] = TakenWord(i)
    BY <1>2, <2>1, <2>2, <2>3, <2>4, <2>5, Counts DEF TakenWord
  <2> QED
    BY <2>6, <2>7
<1> QED
  BY <1>1, <1>2

(* The message behind the one being taken, if there is one.                *)
LEMMA BehindIs == MailTypes /\ Framed => BehindWords
<1> DEFINE s == Box!Stream
           w == Box!Owed
<1> SUFFICES ASSUME MailTypes, Framed
             PROVE  /\ Len(s) = w => Box!Behind = <<>>
                    /\ Len(s) = w + WORDS =>
                         /\ Box!Behind \in [1 .. WORDS -> Words] /\ Box!Behind # <<>>
                         /\ \A i \in 1 .. WORDS : Box!Behind[i] = s[w + i]
  BY DEF BehindWords
<1>1. s \in Seq(Words) /\ Len(s) \in Nat
  BY StreamIs DEF StreamWords
<1>2. w \in Nat
  BY Counts DEF MailTypes, Box!Owed
<1>3. Box!Behind = SubSeq(s, w + 1, Len(s))
  BY DEF Box!Behind
<1> HIDE DEF s, w
<1>4. Len(s) = w => Box!Behind = <<>>
  BY <1>1, <1>2, <1>3
<1>5. ASSUME Len(s) = w + WORDS
      PROVE  /\ Box!Behind \in Seq(Words) /\ Len(Box!Behind) = WORDS
             /\ \A i \in 1 .. WORDS : Box!Behind[i] = s[w + i]
  <2>1. /\ SubSeq(s, w + 1, Len(s)) \in Seq(Words)
        /\ Len(SubSeq(s, w + 1, Len(s))) = WORDS
        /\ \A i \in 1 .. WORDS : SubSeq(s, w + 1, Len(s))[i] = s[w + i]
    BY <1>1, <1>2, <1>5, Counts
  <2> QED
    BY <1>3, <2>1
<1>6. ASSUME Len(s) = w + WORDS
      PROVE  Box!Behind \in [1 .. WORDS -> Words] /\ Box!Behind # <<>>
  BY <1>5, <1>6, Counts, MessageOfSeq
<1> QED
  BY <1>4, <1>5, <1>6

-----------------------------------------------------------------------------
(* The words of a message.                                                 *)
LEMMA MessageIs ==
  ASSUME NEW t, NEW p, NEW w \in Walls
  PROVE  Message(t, p, w) =
           [k \in 1 .. WORDS |-> IF k = 1 THEN t ELSE IF k = 2 THEN p ELSE w[k - 2]]
<1> DEFINE head == <<t, p>>
           S == {t, p} \cup Game!Labels
           m == Message(t, p, w)
<1>1. head \in Seq(S) /\ Len(head) = 2 /\ head[1] = t /\ head[2] = p
  OBVIOUS
<1>2. w \in Seq(S) /\ Len(w) = NB_BRICKS
  <2>1. w \in Seq(Game!Labels) /\ Len(w) = NB_BRICKS
    BY SystemAssumption DEF Walls
  <2> QED
    BY <2>1
<1>3. m = head \o w
  BY DEF Message
<1> HIDE DEF head, S, m
<1>4. /\ head \o w \in Seq(S)
      /\ Len(head \o w) = Len(head) + Len(w)
      /\ \A i \in 1 .. Len(head) + Len(w) :
           (head \o w)[i] = IF i <= Len(head) THEN head[i] ELSE w[i - Len(head)]
  BY ONLY <1>1, <1>2, ConcatProperties, Zenon
<1>5. m \in [1 .. WORDS -> S]
  <2>1. m \in Seq(S) /\ Len(m) = WORDS
    BY <1>1, <1>2, <1>3, <1>4, SystemAssumption DEF WORDS
  <2> QED
    BY <2>1, MessageOfSeq
<1>6. ASSUME NEW k \in 1 .. WORDS
      PROVE  m[k] = IF k = 1 THEN t ELSE IF k = 2 THEN p ELSE w[k - 2]
  BY <1>1, <1>2, <1>3, <1>4, SystemAssumption DEF WORDS
<1> QED
  BY <1>5, <1>6 DEF m

(* Sending begins: the message is offered.                                 *)
LEMMA SendOffers ==
  ASSUME MailTypes, Framed, Send PROVE MailTypes' /\ Framed' /\ Ch!Offer
<1>1. /\ ~writing /\ writing' /\ nout' = 0
      /\ UNCHANGED <<fifo, in, nin>>
      /\ out' \in [1 .. WORDS -> Words]
  <2>1. PICK t \in Game!GameStates, w \in Walls :
          \E p \in Positions \cup {out[2]} : Box!StartWrite(Message(t, p, w))
    BY DEF Send
  <2>2. PICK p \in Positions \cup {out[2]} : Box!StartWrite(Message(t, p, w))
    BY <2>1
  <2>3. p \in Words /\ t \in Words /\ w \in [1 .. NB_BRICKS -> Words]
    BY Counts DEF MailTypes, Words, Walls
  <2>4. Message(t, p, w) \in [1 .. WORDS -> Words]
    <3>1. \A k \in 1 .. WORDS : k = 1 \/ k = 2 \/ k - 2 \in 1 .. NB_BRICKS
      BY SystemAssumption DEF WORDS
    <3>2. Message(t, p, w) =
            [k \in 1 .. WORDS |-> IF k = 1 THEN t ELSE IF k = 2 THEN p ELSE w[k - 2]]
      BY MessageIs
    <3> HIDE DEF Message, Words, WORDS
    <3> QED
      BY <2>3, <3>1, <3>2
  <2> QED
    BY <2>2, <2>4 DEF Box!StartWrite
<1>2. writing' = TRUE
  BY DEF Send, Box!StartWrite
<1>3. MailTypes'
  <2>1. writing' \in BOOLEAN
    BY <1>2
  <2>2. (writing => nout < WORDS)'
    BY <1>1, Counts
  <2>3. (fifo \in Seq(Words) /\ Len(fifo) <= DEPTH)'
        /\ out' \in [1 .. WORDS -> Words] /\ in' \in [1 .. WORDS -> Words]
        /\ (nout \in 0 .. WORDS /\ nin \in 0 .. WORDS - 1)'
    BY <1>1, Counts DEF MailTypes
  <2> QED
    BY <2>1, <2>2, <2>3 DEF MailTypes
<1>4. UNCHANGED Box!Stream
  <2>1. Box!Unwritten = <<>> /\ Box!Unwritten' = <<>>
    BY <1>1 DEF Box!Unwritten
  <2> QED
    BY <1>1, <2>1 DEF Box!Stream
<1>5. UNCHANGED <<Box!Owed, Box!Midway>>
  BY <1>1 DEF Box!Owed, Box!Midway
<1>6. Framed'
  BY <1>4, <1>5 DEF Framed
<1>7. UNCHANGED <<Box!Taken, Box!Waiting>>
  BY <1>1, <1>4, <1>5 DEF Box!Taken, Box!Waiting, Box!Behind
<1> QED
  BY <1>1, <1>3, <1>6, <1>7 DEF Ch!Offer

(* The first word gets into the FIFO, of a message whose rest will follow: *)
(* it is on its way.                                                       *)
LEMMA FirstWordSends ==
  ASSUME MailTypes, Framed, WriteWord, nout = 0 PROVE MailTypes' /\ Framed' /\ Ch!Send
<1>1. /\ Len(fifo) < DEPTH
      /\ fifo' = Append(fifo, out[1]) /\ nout' = 1
      /\ UNCHANGED <<out, in, nin>>
  <2>1. Len(fifo) # DEPTH /\ fifo' = Append(fifo, out[nout + 1]) /\ nout' = nout + 1
        /\ UNCHANGED <<out, in, nin>>
    BY DEF WriteWord, Box!WriteWord, Box!IsFullHw
  <2>2. nout + 1 = 1
    OBVIOUS
  <2> QED
    BY <2>1, <2>2, Counts DEF MailTypes
<1>2. writing /\ writing' = (nout' # WORDS)
  BY DEF WriteWord, Box!WriteWord
<1>3. writing' = TRUE
  <2>1. nout' # WORDS
    BY <1>1, Counts
  <2> QED
    BY <1>2, <2>1
<1>4. out[1] \in Words
  BY Counts DEF MailTypes
<1>5. MailTypes'
  <2>1. writing' \in BOOLEAN
    BY <1>3
  <2>2. fifo' \in Seq(Words) /\ Len(fifo') = Len(fifo) + 1
        /\ \A i \in 1 .. Len(fifo) : fifo'[i] = fifo[i]
        /\ fifo'[Len(fifo) + 1] = out[1]
    BY <1>1, <1>4 DEF MailTypes
  <2>3. Len(fifo') <= DEPTH
    BY <1>1, <2>2, Counts DEF MailTypes
  <2>4. nout' \in 0 .. WORDS /\ nout' < WORDS
    BY <1>1, Counts
  <2> QED
    BY <1>1, <2>1, <2>2, <2>3, <2>4 DEF MailTypes
<1>6. /\ fifo' \in Seq(Words) /\ Len(fifo') = Len(fifo) + 1
      /\ \A i \in 1 .. Len(fifo) : fifo'[i] = fifo[i]
      /\ fifo'[Len(fifo) + 1] = out[1]
  BY <1>1, <1>4 DEF MailTypes
<1>7. Left = 0 /\ Left' = WORDS - 1 /\ Len(fifo) \in Nat
  BY <1>1, <1>3, Counts DEF Left, MailTypes
<1>8. StreamWords /\ StreamWords'
  BY <1>5, StreamIs, PTL
<1>9. UNCHANGED <<Box!Owed, Box!Midway>> /\ Box!Owed \in 0 .. WORDS
  BY <1>1, Counts DEF Box!Owed, Box!Midway, MailTypes
<1>10. Len(Box!Stream) = Len(fifo) /\ Len(Box!Stream') = Len(fifo) + WORDS
  BY <1>6, <1>7, <1>8, Counts DEF StreamWords
<1>11. Len(Box!Stream) = Box!Owed
  BY <1>1, <1>7, <1>9, <1>10, Counts DEF Framed
<1>12. Framed'
  BY <1>9, <1>10, <1>11 DEF Framed
<1>13. /\ \A i \in 1 .. Len(fifo) : Box!Stream'[i] = Box!Stream[i]
       /\ \A i \in 1 .. WORDS : Box!Stream'[Len(fifo) + i] = out[i]
  <2>1. ASSUME NEW i \in 1 .. Len(fifo) PROVE Box!Stream'[i] = Box!Stream[i]
    <3>1. i \in 1 .. Len(fifo) + Left /\ i \in 1 .. Len(fifo') + Left' /\ i <= Len(fifo')
      BY <1>6, <1>7, Counts
    <3> QED
      BY <3>1, <1>6, <1>8 DEF StreamWords
  <2>2. ASSUME NEW i \in 1 .. WORDS PROVE Box!Stream'[Len(fifo) + i] = out[i]
    <3>1. Len(fifo) + i \in 1 .. Len(fifo') + Left'
      BY <1>6, <1>7, Counts
    <3>2. CASE i = 1
      BY <3>1, <3>2, <1>6, <1>7, <1>8 DEF StreamWords
    <3>3. CASE i # 1
      <4>1. ~(Len(fifo) + i <= Len(fifo')) /\ nout' + (Len(fifo) + i - Len(fifo')) = i
        BY <3>3, <1>1, <1>6, <1>7, Counts
      <4> QED
        BY <3>1, <4>1, <1>1, <1>8 DEF StreamWords
    <3> QED
      BY <3>2, <3>3
  <2> QED
    BY <2>1, <2>2
<1>14. /\ TakenWords /\ TakenWords'
       /\ BehindWords /\ BehindWords'
  BY <1>5, <1>12, TakenIs, BehindIs, PTL
<1>15. UNCHANGED Box!Taken
  <2>1. Box!Taken \in [1 .. WORDS -> Words] /\ Box!Taken' \in [1 .. WORDS -> Words]
    BY <1>14 DEF TakenWords
  <2>2. ASSUME NEW i \in 1 .. WORDS PROVE Box!Taken'[i] = Box!Taken[i]
    <3>1. TakenWord(i)' = TakenWord(i)
      BY <1>1, <1>9, <1>10, <1>11, <1>13, Counts DEF TakenWord, Box!Owed, MailTypes, Box!Midway
    <3> QED
      BY <1>14, <3>1 DEF TakenWords
  <2> QED
    BY <2>1, <2>2, Counts
<1>16. Box!Behind = <<>> /\ Box!Behind' = out
  <2>1. Box!Behind = <<>>
    BY <1>11, <1>14 DEF BehindWords
  <2>2. /\ Box!Behind' \in [1 .. WORDS -> Words]
        /\ \A i \in 1 .. WORDS : Box!Behind'[i] = Box!Stream'[Box!Owed' + i]
    BY <1>9, <1>10, <1>11, <1>14 DEF BehindWords
  <2>3. \A i \in 1 .. WORDS : Box!Behind'[i] = out[i]
    BY <2>2, <1>9, <1>10, <1>11, <1>13
  <2>4. out \in [1 .. WORDS -> Words]
    BY DEF MailTypes
  <2>5. Box!Behind' = out
    BY <2>2, <2>3, <2>4, Counts
  <2> QED
    BY <2>1, <2>5
<1>17. Box!Waiting = <<>> /\ Box!Waiting' = <<out>>
  <2>1. out # <<>>
    BY Counts DEF MailTypes
  <2> QED
    BY <1>16, <2>1 DEF Box!Waiting
<1>18. (writing /\ nout = 0) /\ ~(writing /\ nout = 0)'
  BY <1>1, <1>2
<1>19. UNCHANGED <<out, Box!Taken>>
  BY <1>1, <1>15
<1>20. Ch!Send
  BY <1>17, <1>18, <1>19 DEF Ch!Send
<1> QED
  BY <1>5, <1>12, <1>20

(* Any other word moves from the writer into the FIFO and stays where it   *)
(* is in the stream.                                                       *)
LEMMA NextWordMoves ==
  ASSUME MailTypes, Framed, WriteWord, nout # 0
  PROVE  MailTypes' /\ Framed' /\ UNCHANGED Ch!vars
<1>1. /\ Len(fifo) < DEPTH /\ nout \in 1 .. WORDS - 1
      /\ fifo' = Append(fifo, out[nout + 1]) /\ nout' = nout + 1
      /\ UNCHANGED <<out, in, nin>>
  BY Counts DEF WriteWord, Box!WriteWord, Box!IsFullHw, MailTypes
<1>2. /\ writing /\ writing' \in BOOLEAN
      /\ writing' => nout' # WORDS
      /\ ~writing' => nout' = WORDS
  BY DEF WriteWord, Box!WriteWord
<1>3. out[nout + 1] \in Words
  BY <1>1, Counts DEF MailTypes
<1>4. /\ fifo' \in Seq(Words) /\ Len(fifo') = Len(fifo) + 1
      /\ \A i \in 1 .. Len(fifo) : fifo'[i] = fifo[i]
      /\ fifo'[Len(fifo) + 1] = out[nout + 1]
  BY <1>1, <1>3 DEF MailTypes
<1>5. MailTypes'
  <2>1. writing' \in BOOLEAN
    BY <1>2
  <2>2. Len(fifo') <= DEPTH
    BY <1>1, <1>4, Counts DEF MailTypes
  <2>3. nout' \in 0 .. WORDS
    BY <1>1, Counts
  <2>4. writing' => nout' < WORDS
    BY <1>2, <2>3, Counts
  <2> QED
    BY <1>1, <1>4, <2>1, <2>2, <2>3, <2>4 DEF MailTypes
<1>6. Left = WORDS - nout /\ Left' = WORDS - nout - 1 /\ Len(fifo) \in Nat
  <2>1. Left = WORDS - nout
    BY <1>1, <1>2 DEF Left
  <2>2. CASE writing'
    BY <1>1, <2>1, <2>2, Counts DEF Left, MailTypes
  <2>3. CASE ~writing'
    <3>1. WORDS - nout - 1 = 0
      BY <1>1, <1>2, <2>3, Counts
    <3> QED
      BY <2>1, <2>3, <3>1 DEF Left, MailTypes
  <2> QED
    BY <2>2, <2>3
<1>7. StreamWords /\ StreamWords'
  BY <1>5, StreamIs, PTL
<1>8. UNCHANGED Box!Stream
  <2>1. /\ Box!Stream \in Seq(Words) /\ Box!Stream' \in Seq(Words)
        /\ Len(Box!Stream) = Len(fifo) + Left /\ Len(Box!Stream') = Len(fifo) + Left
    BY <1>1, <1>4, <1>6, <1>7, Counts DEF StreamWords
  <2>2. ASSUME NEW i \in 1 .. Len(fifo) + Left PROVE Box!Stream'[i] = Box!Stream[i]
    <3>1. i \in 1 .. Len(fifo') + Left'
      BY <1>1, <1>4, <1>6, Counts
    <3>2. CASE i <= Len(fifo)
      <4>1. i \in 1 .. Len(fifo) /\ i <= Len(fifo')
        BY <3>2, <1>4, <1>6
      <4> QED
        BY <3>1, <4>1, <1>4, <1>7 DEF StreamWords
    <3>3. CASE i = Len(fifo) + 1
      <4>1. ~(i <= Len(fifo)) /\ i <= Len(fifo') /\ nout + (i - Len(fifo)) = nout + 1
        BY <3>3, <1>1, <1>4, <1>6
      <4> QED
        BY <3>1, <3>3, <4>1, <1>4, <1>7 DEF StreamWords
    <3>4. CASE i > Len(fifo) + 1
      <4>1. ~(i <= Len(fifo)) /\ ~(i <= Len(fifo'))
            /\ nout' + (i - Len(fifo')) = nout + (i - Len(fifo))
        BY <3>4, <1>1, <1>4, <1>6
      <4> QED
        BY <3>1, <4>1, <1>1, <1>7 DEF StreamWords
    <3> QED
      BY <3>2, <3>3, <3>4, <1>1, <1>6, Counts
  <2> QED
    BY <2>1, <2>2, <1>6, <1>1, Counts
<1>9. UNCHANGED <<Box!Owed, Box!Midway>>
  BY <1>1 DEF Box!Owed, Box!Midway
<1>10. Framed'
  BY <1>8, <1>9 DEF Framed
<1>11. UNCHANGED <<Box!Taken, Box!Waiting>>
  BY <1>1, <1>8, <1>9 DEF Box!Taken, Box!Waiting, Box!Behind
<1>12. (writing /\ nout = 0)' = (writing /\ nout = 0)
  BY <1>1
<1>13. UNCHANGED Ch!vars
  BY <1>1, <1>11, <1>12 DEF Ch!vars
<1> QED
  BY <1>5, <1>10, <1>13

(* A word read: the stream gets shorter at its head.                       *)
LEMMA ReadStream ==
  ASSUME MailTypes, Framed, ReadWord
  PROVE  /\ MailTypes'
         /\ in' = [in EXCEPT ![nin + 1] = Box!Stream[1]]
         /\ nin' = (nin + 1) % WORDS
         /\ UNCHANGED <<out, writing, nout>>
         /\ Len(Box!Stream) \in Nat \ {0} /\ Len(Box!Stream') = Len(Box!Stream) - 1
         /\ \A i \in 1 .. Len(Box!Stream) - 1 : Box!Stream'[i] = Box!Stream[i + 1]
<1>1. /\ fifo # <<>> /\ fifo' = Tail(fifo)
      /\ in' = [in EXCEPT ![nin + 1] = Head(fifo)]
      /\ nin' = (nin + 1) % WORDS
      /\ UNCHANGED <<out, writing, nout>>
  BY DEF ReadWord, Box!ReadWord, Box!IsEmptyHw
<1>2. /\ fifo' \in Seq(Words) /\ Len(fifo) \in Nat \ {0} /\ Len(fifo') = Len(fifo) - 1
      /\ \A i \in 1 .. Len(fifo) - 1 : fifo'[i] = fifo[i + 1]
      /\ Head(fifo) = fifo[1] /\ fifo[1] \in Words
  BY <1>1 DEF MailTypes
<1>3. MailTypes'
  <2>1. nin' \in 0 .. WORDS - 1
    BY <1>1, Counts DEF MailTypes
  <2>2. in' \in [1 .. WORDS -> Words]
    BY <1>1, <1>2 DEF MailTypes
  <2>3. Len(fifo') <= DEPTH
    BY <1>2, Counts DEF MailTypes
  <2>4. (writing \in BOOLEAN /\ (writing => nout < WORDS))'
    BY <1>1 DEF MailTypes
  <2>5. out' \in [1 .. WORDS -> Words] /\ nout' \in 0 .. WORDS
    BY <1>1 DEF MailTypes
  <2> QED
    BY <1>2, <2>1, <2>2, <2>3, <2>4, <2>5 DEF MailTypes
<1>4. StreamWords /\ StreamWords'
  BY <1>3, StreamIs, PTL
<1>5. Left' = Left
  BY <1>1 DEF Left
<1>6. Box!Stream[1] = Head(fifo) /\ Len(Box!Stream) \in Nat \ {0}
      /\ Len(Box!Stream') = Len(Box!Stream) - 1
  BY <1>2, <1>4, <1>5 DEF StreamWords
<1>7. ASSUME NEW i \in 1 .. Len(Box!Stream) - 1 PROVE Box!Stream'[i] = Box!Stream[i + 1]
  <2>1. i \in 1 .. Len(fifo') + Left' /\ i + 1 \in 1 .. Len(fifo) + Left
        /\ (i <= Len(fifo') <=> i + 1 <= Len(fifo))
        /\ i - Len(fifo') = (i + 1) - Len(fifo)
    BY <1>2, <1>4, <1>5, <1>6 DEF StreamWords
  <2>2. CASE i <= Len(fifo')
    <3>1. i \in 1 .. Len(fifo) - 1
      BY <1>2, <2>2
    <3> QED
      BY <3>1, <1>2, <1>4, <2>1, <2>2 DEF StreamWords
  <2>3. CASE ~(i <= Len(fifo'))
    BY <1>1, <1>4, <2>1, <2>3 DEF StreamWords
  <2> QED
    BY <2>2, <2>3
<1> QED
  BY <1>1, <1>3, <1>6, <1>7

(* The first word of a message is read: the message is being taken.        *)
LEMMA FirstWordTakes ==
  ASSUME MailTypes, Framed, ReadWord, nin = 0 PROVE Framed' /\ Ch!Take
<1> DEFINE s == Box!Stream
<1>1. /\ MailTypes'
      /\ in' = [in EXCEPT ![1] = s[1]] /\ nin' = 1
      /\ UNCHANGED <<out, writing, nout>>
      /\ Len(s) \in Nat \ {0} /\ Len(s') = Len(s) - 1
      /\ \A i \in 1 .. Len(s) - 1 : s'[i] = s[i + 1]
  <2>1. 0 + 1 = 1 /\ (0 + 1) % WORDS = 1
    BY Counts, CountWords
  <2> HIDE DEF s
  <2> QED
    BY <2>1, ReadStream DEF s
<1>2. Box!Owed = 0 /\ Box!Owed' = WORDS - 1 /\ ~Box!Midway /\ Box!Midway'
  BY <1>1 DEF Box!Owed, Box!Midway
<1>3. Len(s) = WORDS
  BY <1>1, <1>2, Counts DEF Framed
<1>4. Framed'
  BY <1>1, <1>2, <1>3, Counts DEF Framed
<1>5. /\ TakenWords /\ TakenWords'
      /\ BehindWords /\ BehindWords'
  BY <1>1, <1>4, TakenIs, BehindIs, PTL
<1>6. /\ Box!Behind \in [1 .. WORDS -> Words] /\ Box!Behind # <<>>
      /\ \A i \in 1 .. WORDS : Box!Behind[i] = s[i]
  BY <1>2, <1>3, <1>5, Counts DEF BehindWords
<1>7. Box!Behind' = <<>>
  BY <1>1, <1>2, <1>3, <1>5 DEF BehindWords
<1>8. Box!Taken' = Box!Behind
  <2>1. Box!Taken' \in [1 .. WORDS -> Words]
    BY <1>5 DEF TakenWords
  <2>2. ASSUME NEW i \in 1 .. WORDS PROVE Box!Taken'[i] = Box!Behind[i]
    <3>1. Box!Taken'[i] = IF i > 1 THEN s'[i - 1] ELSE in'[i]
      BY <1>1, <1>2, <1>5 DEF TakenWords, TakenWord
    <3>2. CASE i = 1
      BY <3>1, <3>2, <1>1, <1>6, Counts DEF MailTypes
    <3>3. CASE i > 1
      <4>1. i - 1 \in 1 .. Len(s) - 1 /\ (i - 1) + 1 = i
        BY <3>3, <1>3, Counts
      <4> QED
        BY <3>1, <3>3, <4>1, <1>1, <1>6
    <3> QED
      BY <3>2, <3>3, Counts
  <2> QED
    BY <2>1, <2>2, <1>6, Counts
<1>9. Box!Waiting # <<>> /\ Box!Waiting[1] = Box!Behind /\ Box!Waiting' = <<>>
  BY <1>6, <1>7 DEF Box!Waiting
<1>10. UNCHANGED <<writing /\ nout = 0, out>>
  BY <1>1
<1>11. Ch!Take
  BY <1>8, <1>9, <1>10 DEF Ch!Take
<1> QED
  BY <1>4, <1>11

(* Any other word goes from the stream to its place in the buffer.         *)
LEMMA NextWordIsOwed ==
  ASSUME MailTypes, Framed, ReadWord, nin # 0 PROVE Framed' /\ UNCHANGED Ch!vars
<1> DEFINE s == Box!Stream
<1>1. /\ MailTypes'
      /\ in' = [in EXCEPT ![nin + 1] = s[1]]
      /\ UNCHANGED <<out, writing, nout>>
      /\ Len(s) \in Nat \ {0} /\ Len(s') = Len(s) - 1
      /\ \A i \in 1 .. Len(s) - 1 : s'[i] = s[i + 1]
  BY ReadStream
<1>2. nin \in 1 .. WORDS - 1 /\ Box!Midway /\ Box!Owed = WORDS - nin
  BY DEF MailTypes, Box!Owed, Box!Midway
<1>3. /\ nin + 1 < WORDS => nin' = nin + 1 /\ Box!Midway'
      /\ nin + 1 = WORDS => nin' = 0 /\ ~Box!Midway'
  <2>1. nin' = (nin + 1) % WORDS /\ nin \in 0 .. WORDS - 1
    BY ReadStream DEF MailTypes
  <2>2. /\ nin + 1 < WORDS => nin' = nin + 1
        /\ nin + 1 = WORDS => nin' = 0
    BY <2>1, CountWords
  <2> QED
    BY <1>2, <2>2, Counts DEF Box!Midway
<1>4. Box!Owed' = Box!Owed - 1
  BY <1>2, <1>3, Counts DEF Box!Owed, Box!Midway
<1>5. Framed'
  BY <1>1, <1>2, <1>4, Counts DEF Framed
<1>6. /\ TakenWords /\ TakenWords'
      /\ BehindWords /\ BehindWords'
  BY <1>1, <1>5, TakenIs, BehindIs, PTL
<1>7. Box!Taken' = Box!Taken
  <2>1. Box!Taken \in [1 .. WORDS -> Words] /\ Box!Taken' \in [1 .. WORDS -> Words]
    BY <1>6 DEF TakenWords
  <2>2. ASSUME NEW i \in 1 .. WORDS PROVE Box!Taken'[i] = Box!Taken[i]
    <3>1. Box!Taken[i] = IF i > nin THEN s[i - nin] ELSE in[i]
      BY <1>2, <1>6 DEF TakenWords, TakenWord
    <3>2. Box!Taken'[i] = IF i > nin + 1 THEN s'[i - (nin + 1)] ELSE in'[i]
      <4>1. CASE nin + 1 < WORDS
        BY <4>1, <1>3, <1>6 DEF TakenWords, TakenWord
      <4>2. CASE nin + 1 = WORDS
        BY <4>2, <1>3, <1>6, Counts DEF TakenWords, TakenWord
      <4> QED
        BY <4>1, <4>2, <1>2, Counts
    <3>3. CASE i <= nin
      BY <3>1, <3>2, <3>3, <1>1, <1>2, Counts DEF MailTypes
    <3>4. CASE i = nin + 1
      BY <3>1, <3>2, <3>4, <1>1, <1>2, Counts DEF MailTypes
    <3>5. CASE i > nin + 1
      <4>1. Len(s) >= WORDS - nin
        BY <1>1, <1>2, Counts DEF Framed
      <4>2. i - (nin + 1) \in 1 .. Len(s) - 1 /\ (i - (nin + 1)) + 1 = i - nin /\ i > nin
        BY <3>5, <4>1, <1>1, <1>2, Counts
      <4>3. s'[i - (nin + 1)] = s[i - nin]
        BY <4>2, <1>1
      <4> QED
        BY <3>1, <3>2, <3>5, <4>2, <4>3
    <3> QED
      BY <3>3, <3>4, <3>5, <1>2, Counts
  <2> QED
    BY <2>1, <2>2, Counts
<1>8. Box!Behind' = Box!Behind
  <2>1. CASE Len(s) = Box!Owed
    BY <2>1, <1>1, <1>2, <1>4, <1>6, Counts DEF BehindWords
  <2>2. CASE Len(s) = Box!Owed + WORDS
    <3>1. Len(s') = Box!Owed' + WORDS
      BY <2>2, <1>1, <1>2, <1>4, Counts
    <3>2. /\ Box!Behind \in [1 .. WORDS -> Words] /\ Box!Behind' \in [1 .. WORDS -> Words]
          /\ \A i \in 1 .. WORDS : Box!Behind[i] = s[Box!Owed + i]
          /\ \A i \in 1 .. WORDS : Box!Behind'[i] = s'[Box!Owed' + i]
      BY <2>2, <3>1, <1>6 DEF BehindWords
    <3>3. ASSUME NEW i \in 1 .. WORDS PROVE s'[Box!Owed' + i] = s[Box!Owed + i]
      <4>1. Box!Owed' + i \in 1 .. Len(s) - 1 /\ (Box!Owed' + i) + 1 = Box!Owed + i
        BY <2>2, <1>2, <1>4, Counts
      <4> QED
        BY <4>1, <1>1
    <3> QED
      BY <3>2, <3>3, Counts
  <2> QED
    BY <2>1, <2>2 DEF Framed
<1>9. UNCHANGED <<out, Box!Waiting, writing /\ nout = 0>>
  BY <1>1, <1>8 DEF Box!Waiting
<1> QED
  BY <1>5, <1>7, <1>9 DEF Ch!vars

(* Every step of the two processors is a step of the channel, or none.     *)
LEMMA NextCarries ==
  ASSUME MailTypes, Framed, [Next]_vars PROVE MailTypes' /\ Framed' /\ [Ch!Next]_(Ch!vars)
<1>1. CASE Send
  BY <1>1, SendOffers DEF Ch!Next
<1>2. CASE WriteWord
  BY <1>2, FirstWordSends, NextWordMoves DEF Ch!Next
<1>3. CASE ReadWord
  BY <1>3, ReadStream, FirstWordTakes, NextWordIsOwed DEF Ch!Next
<1>4. CASE Draw \/ Scan \/ UNCHANGED vars
  <2>1. UNCHANGED mailbox
    BY <1>4 DEF Draw, Scan, vars
  <2>2. UNCHANGED <<Box!Stream, Box!Owed, Box!Midway>>
    BY <2>1 DEF mailbox, Box!Stream, Box!Unwritten, Box!Owed, Box!Midway
  <2>3. MailTypes' /\ Framed'
    BY <2>1, <2>2 DEF mailbox, MailTypes, Framed
  <2>4. UNCHANGED <<Box!Taken, Box!Waiting, out, writing /\ nout = 0>>
    BY <2>1, <2>2 DEF mailbox, Box!Taken, Box!Waiting, Box!Behind
  <2> QED
    BY <2>3, <2>4 DEF Ch!vars
<1> QED
  BY <1>1, <1>2, <1>3, <1>4 DEF Next

(* At the start nothing is under way.                                      *)
LEMMA InitFramed == Init => MailTypes /\ Framed /\ Box!Stream = <<>> /\ ~writing
<1> SUFFICES ASSUME Init PROVE MailTypes /\ Framed /\ Box!Stream = <<>> /\ ~writing
  OBVIOUS
<1>1. /\ fifo = <<>> /\ nout = 0 /\ nin = 0
      /\ out = Message("WAITING", START, All("NORMAL"))
      /\ in = Message("WAITING", START, All("BROKEN"))
  BY DEF Init, Box!Init, FirstMessage, ZeroMessage
<1>2. writing = FALSE
  BY DEF Init, Box!Init
<1>3. All("NORMAL") \in Walls /\ All("BROKEN") \in Walls
  BY DEF All, Walls, Game!Labels
<1>4. ASSUME NEW w \in Walls PROVE Message("WAITING", START, w) \in [1 .. WORDS -> Words]
  <2>1. \A k \in 1 .. WORDS : k = 1 \/ k = 2 \/ k - 2 \in 1 .. NB_BRICKS
    BY SystemAssumption DEF WORDS
  <2>2. w \in [1 .. NB_BRICKS -> Words] /\ "WAITING" \in Words /\ START \in Words
    BY SystemAssumption DEF Walls, Words, Game!GameStates
  <2>3. Message("WAITING", START, w) =
          [k \in 1 .. WORDS |-> IF k = 1 THEN "WAITING" ELSE IF k = 2 THEN START ELSE w[k - 2]]
    BY MessageIs
  <2> HIDE DEF Message, Words, WORDS
  <2> QED
    BY <2>1, <2>2, <2>3
<1>5. MailTypes
  <2>1. out \in [1 .. WORDS -> Words] /\ in \in [1 .. WORDS -> Words]
    BY <1>1, <1>3, <1>4
  <2>2. writing \in BOOLEAN
    BY <1>2
  <2>3. writing => nout < WORDS
    BY <1>2
  <2> QED
    BY <1>1, <2>1, <2>2, <2>3, Counts DEF MailTypes
<1>6. Box!Stream = <<>>
  BY <1>1, <1>2 DEF Box!Stream, Box!Unwritten
<1>7. Box!Owed = 0 /\ Len(Box!Stream) = 0
  BY <1>1, <1>6 DEF Box!Owed, Box!Midway
<1> QED
  BY <1>2, <1>5, <1>6, <1>7 DEF Framed

(* The two loops of words carry whole messages, in order, none lost and    *)
(* none twice, whatever the sizes and however the two ends interleave.     *)
THEOREM SystemCarriesMessages == Spec => CarriesMessages
<1>1. Init => ~(writing /\ nout = 0) /\ Box!Waiting = <<>>
  <2> SUFFICES ASSUME Init PROVE ~(writing /\ nout = 0) /\ Box!Waiting = <<>>
    OBVIOUS
  <2>1. MailTypes /\ Framed /\ Box!Stream = <<>> /\ ~writing /\ nin = 0
    BY InitFramed DEF Init, Box!Init
  <2>2. BehindWords
    BY <2>1, BehindIs
  <2>3. Box!Owed = 0 /\ Len(Box!Stream) = 0
    BY <2>1 DEF Box!Owed, Box!Midway
  <2> QED
    BY <2>1, <2>2, <2>3 DEF BehindWords, Box!Waiting
<1>2. Init => MailTypes /\ Framed
  BY InitFramed
<1>3. MailTypes /\ Framed /\ [Next]_vars => MailTypes' /\ Framed' /\ [Ch!Next]_(Ch!vars)
  BY NextCarries
<1> QED
  BY <1>1, <1>2, <1>3, PTL DEF Spec, CarriesMessages, Ch!Spec

-----------------------------------------------------------------------------
(* What the kth word of a message says.                                    *)
Kind(k) == IF k = 1 THEN Game!GameStates ELSE IF k = 2 THEN Positions ELSE Game!Labels

Sound(m) == m \in [1 .. WORDS -> Words] /\ \A k \in 1 .. WORDS : m[k] \in Kind(k)

(* No word ever gets into the place of another.                            *)
InPlace ==
  /\ Sound(out) /\ Sound(in) /\ Sound(Box!Taken)
  /\ Box!Waiting # <<>> => Sound(Box!Waiting[1])
  /\ \A f \in Screen!Frames : Sound(data_prev[f])

(* What Message puts together has every word in its place.                 *)
LEMMA SoundMessage ==
  ASSUME NEW t \in Game!GameStates, NEW p \in Positions, NEW w \in Walls
  PROVE  Sound(Message(t, p, w))
<1>1. \A k \in 1 .. WORDS : k = 1 \/ k = 2 \/ (k # 1 /\ k # 2 /\ k - 2 \in 1 .. NB_BRICKS)
  BY SystemAssumption DEF WORDS
<1>2. w \in [1 .. NB_BRICKS -> Game!Labels]
  BY DEF Walls
<1>3. Message(t, p, w) =
        [k \in 1 .. WORDS |-> IF k = 1 THEN t ELSE IF k = 2 THEN p ELSE w[k - 2]]
  BY MessageIs
<1>4. \A k \in 1 .. WORDS : Kind(k) \subseteq Words
  BY DEF Kind, Words
<1> HIDE DEF Message, WORDS, Words
<1>5. \A k \in 1 .. WORDS : Message(t, p, w)[k] \in Kind(k)
  BY <1>1, <1>2, <1>3, Counts DEF Kind
<1>6. Message(t, p, w) \in [1 .. WORDS -> Words]
  BY <1>3, <1>4, <1>5
<1> QED
  BY <1>5, <1>6 DEF Sound

(* What is sent is a message that the rules of the game allow.             *)
LEMMA SendSound ==
  ASSUME MailTypes, Sound(out), Send
  PROVE  \E t \in Game!GameStates, p \in Positions, w \in Walls :
           /\ out' = Message(t, p, w)
           /\ Game!WallFollows(out[1], WallOf(out), w) /\ Game!StateFollows(out[1], w, t)
<1>1. PICK w \in Walls :
        /\ Game!WallFollows(out[1], WallOf(out), w)
        /\ \E t \in Game!GameStates :
             /\ Game!StateFollows(out[1], w, t)
             /\ \E p \in IF Game!Over(out[1]) \/ t = "WAITING" THEN {out[2]} ELSE Positions :
                  Box!StartWrite(Message(t, p, w))
  BY DEF Send
<1>2. PICK t \in Game!GameStates :
        /\ Game!StateFollows(out[1], w, t)
        /\ \E p \in IF Game!Over(out[1]) \/ t = "WAITING" THEN {out[2]} ELSE Positions :
             Box!StartWrite(Message(t, p, w))
  BY <1>1
<1>3. out[2] \in Positions
  BY Counts DEF Sound, Kind
<1>4. PICK p \in Positions : Box!StartWrite(Message(t, p, w))
  BY <1>2, <1>3
<1>5. out' = Message(t, p, w)
  BY <1>4 DEF Box!StartWrite
<1> QED
  BY <1>1, <1>2, <1>5

(* Every step keeps every word in its place: a word that is read gets      *)
(* where the message being taken has it.                                   *)
LEMMA NextInPlace ==
  ASSUME MailTypes, Framed, InPlace, data_prev = [f \in Screen!Frames |-> data_prev[f]],
         frames_cnt \in Screen!Frames, [Next]_vars
  PROVE  InPlace'
<1>1. MailTypes' /\ Framed' /\ [Ch!Next]_(Ch!vars)
  BY NextCarries
<1>2. Sound(out')
  <2>1. CASE Send
    BY <2>1, SendSound, SoundMessage DEF InPlace
  <2>2. CASE ~Send
    <3>1. UNCHANGED out
      BY <2>2 DEF Next, WriteWord, Box!WriteWord, ReadWord, Box!ReadWord, Draw, Scan, vars, mailbox
    <3> QED
      BY <3>1 DEF InPlace, Sound
  <2> QED
    BY <2>1, <2>2
<1>3. /\ Box!Taken' = Box!Taken \/ (Box!Waiting # <<>> /\ Box!Taken' = Box!Waiting[1])
      /\ Box!Waiting' = Box!Waiting \/ Box!Waiting' = <<>> \/ Box!Waiting' = <<out>>
  BY <1>1 DEF Ch!Next, Ch!vars, Ch!Offer, Ch!Send, Ch!Take
<1>4. Sound(Box!Taken') /\ (Box!Waiting' # <<>> => Sound(Box!Waiting'[1]))
  BY <1>3 DEF InPlace
<1>5. Sound(in')
  <2>1. CASE ReadWord
    <3>1. in' = [in EXCEPT ![nin + 1] = Box!Stream[1]]
      BY <2>1, ReadStream
    <3>2. in' \in [1 .. WORDS -> Words]
      BY <1>1 DEF MailTypes
    <3>3. TakenWords'
      BY <1>1, TakenIs, PTL
    <3>4. nin' = (nin + 1) % WORDS /\ nin \in 0 .. WORDS - 1
      BY <2>1, ReadStream DEF MailTypes
    <3>5. nin' = nin + 1 \/ nin' = 0
      BY <3>4, CountWords, Counts
    <3>6. nin + 1 \in 1 .. WORDS /\ ~(Box!Midway' /\ nin + 1 > nin')
      BY <3>4, <3>5, Counts DEF Box!Midway
    <3>7. in'[nin + 1] = Box!Taken'[nin + 1]
      BY <3>3, <3>6 DEF TakenWords, TakenWord
    <3>8. in'[nin + 1] \in Kind(nin + 1)
      BY <1>4, <3>6, <3>7 DEF Sound
    <3>9. \A k \in 1 .. WORDS : k # nin + 1 => in'[k] = in[k]
      BY <3>1 DEF MailTypes
    <3>10. \A k \in 1 .. WORDS : in'[k] \in Kind(k)
      BY <3>8, <3>9 DEF InPlace, Sound
    <3> QED
      BY <3>2, <3>10 DEF Sound
  <2>2. CASE ~ReadWord
    <3>1. UNCHANGED in
      BY <2>2 DEF Next, WriteWord, Box!WriteWord, Send, Box!StartWrite, Draw, Scan, vars, mailbox
    <3> QED
      BY <3>1 DEF InPlace, Sound
  <2> QED
    BY <2>1, <2>2
<1>6. ASSUME NEW f \in Screen!Frames PROVE Sound(data_prev'[f])
  <2>1. CASE Screen!Clear
    <3>1. data_prev'[f] = [data_prev[f] EXCEPT ![2] = START]
      BY <2>1 DEF Screen!Clear
    <3>2. START \in Kind(2) /\ START \in Words
      BY SystemAssumption DEF Kind, Words
    <3>3. data_prev[f] \in [1 .. WORDS -> Words]
          /\ \A k \in 1 .. WORDS : data_prev[f][k] \in Kind(k)
      BY DEF InPlace, Sound
    <3>4. data_prev'[f] \in [1 .. WORDS -> Words]
      BY <3>1, <3>2, <3>3
    <3>5. ASSUME NEW k \in 1 .. WORDS PROVE data_prev'[f][k] \in Kind(k)
      BY <3>1, <3>2, <3>3
    <3> QED
      BY <3>4, <3>5 DEF Sound
  <2>2. CASE Screen!Draw
    <3>1. data_prev' = [data_prev EXCEPT ![frames_cnt] = in]
      BY <2>2 DEF Screen!Draw, Screen!DrawOver
    <3>2. data_prev'[f] = in \/ data_prev'[f] = data_prev[f]
      BY <3>1
    <3> QED
      BY <3>2 DEF InPlace
  <2>3. CASE ~Screen!Clear /\ ~Screen!Draw
    <3>1. UNCHANGED data_prev
      BY <2>3 DEF Next, Send, WriteWord, ReadWord, Draw, Scan, vars, display, Screen!Thread, Screen!Erase,
                  Screen!WaitVsync, Screen!SetFrameBaseAddr, Screen!Controller, Screen!Vsync,
                  Screen!LoadAddress, Screen!own
    <3> QED
      BY <3>1 DEF InPlace, Sound
  <2> QED
    BY <2>1, <2>2, <2>3
<1> QED
  BY <1>2, <1>4, <1>5, <1>6 DEF InPlace, Sound

(* The display's share of TypeOK.                                          *)
DisplayTypes ==
  /\ dpc \in {"clear", "read", "erase", "draw", "wait", "set"}
  /\ frames_cnt \in Screen!Frames
  /\ data_prev \in [Screen!Frames -> [1 .. WORDS -> Words]]
  /\ canvas \in [Screen!Frames -> Screen!Pictures]
  /\ address \in Screen!Frames /\ scanned \in Screen!Frames
  /\ vsync \in BOOLEAN

(* Painting a message keeps the types of the display: this needs that its  *)
(* second word is a position.                                              *)
LEMMA DrawnType ==
  ASSUME DisplayTypes, Sound(in), Screen!Draw PROVE DisplayTypes'
<1> DEFINE g == frames_cnt
           prev == data_prev[g]
           brick == [b \in Screen!Wall |->
                       IF Screen!LabelOf(in, b) = Screen!LabelOf(prev, b)
                         THEN canvas[g].brick[b] ELSE Screen!Colour(Screen!LabelOf(in, b))]
           texts == IF Screen!StateOf(in) = Screen!StateOf(prev)
                      THEN canvas[g].texts
                      ELSE (canvas[g].texts \ {Screen!StateOf(prev)})
                             \cup ({Screen!StateOf(in)} \cap Screen!Texts)
           sprites == canvas[g].sprites \cup {Screen!PosOf(in)}
<1>1. /\ dpc' = "wait" /\ UNCHANGED <<frames_cnt, address, scanned, vsync>>
      /\ data_prev' = [data_prev EXCEPT ![g] = in]
      /\ canvas' = [canvas EXCEPT ![g] = [brick |-> brick, texts |-> texts, sprites |-> sprites]]
  BY DEF Screen!Draw, Screen!DrawOver, Screen!Goto, Screen!Paint, Screen!tft
<1>2. g \in Screen!Frames /\ canvas[g] \in Screen!Pictures
  BY DEF DisplayTypes
<1>3. /\ canvas[g].brick \in [Screen!Wall -> Screen!Labels]
      /\ canvas[g].sprites \subseteq Positions /\ canvas[g].texts \subseteq Screen!Texts
  BY <1>2 DEF Screen!Pictures
<1>4. brick \in [Screen!Wall -> Screen!Labels]
  BY <1>3 DEF Screen!Colour, Screen!Labels
<1>5. texts \subseteq Screen!Texts
  BY <1>3
<1>6. sprites \subseteq Positions
  BY <1>3, Counts DEF Sound, Kind, Screen!PosOf
<1> HIDE DEF brick, texts, sprites
<1>7. [brick |-> brick, texts |-> texts, sprites |-> sprites] \in Screen!Pictures
  BY <1>4, <1>5, <1>6 DEF Screen!Pictures
<1>8. canvas' \in [Screen!Frames -> Screen!Pictures]
  BY <1>1, <1>7 DEF DisplayTypes
<1>9. data_prev' \in [Screen!Frames -> [1 .. WORDS -> Words]]
  BY <1>1 DEF DisplayTypes, Sound
<1>10. vsync' \in BOOLEAN
  BY <1>1 DEF DisplayTypes
<1> QED
  BY <1>1, <1>8, <1>9, <1>10 DEF DisplayTypes

(* Every step keeps the types of the display.                              *)
LEMMA NextDisplayTypes ==
  ASSUME DisplayTypes, InPlace, [Next]_vars PROVE DisplayTypes'
<1>1. CASE UNCHANGED <<frames_cnt, data_prev, canvas, address, scanned, vsync>>
  <2>1. dpc' \in {"clear", "read", "erase", "draw", "wait", "set"}
    BY <1>1 DEF DisplayTypes, Next, Send, WriteWord, ReadWord, Draw, Scan, vars, display, Screen!Thread,
                Screen!Clear, Screen!Erase, Screen!Draw, Screen!DrawOver, Screen!WaitVsync,
                Screen!SetFrameBaseAddr, Screen!Controller, Screen!Vsync, Screen!LoadAddress,
                Screen!own, Screen!Goto
  <2>2. vsync' \in BOOLEAN
    BY <1>1 DEF DisplayTypes
  <2> QED
    BY <1>1, <2>1, <2>2 DEF DisplayTypes
<1>2. CASE Screen!Clear
  <2>1. dpc' = "read" /\ UNCHANGED <<frames_cnt, address, scanned, vsync>>
    BY <1>2 DEF Screen!Clear, Screen!Goto, Screen!tft
  <2>2. canvas' \in [Screen!Frames -> Screen!Pictures]
    BY <1>2 DEF Screen!Clear, Screen!Pictures, Screen!Blank, Screen!Labels
  <2>3. ASSUME NEW f \in Screen!Frames
        PROVE  [data_prev[f] EXCEPT ![2] = START] \in [1 .. WORDS -> Words]
    <3>1. START \in Words
      BY SystemAssumption DEF Words
    <3> QED
      BY <3>1 DEF DisplayTypes
  <2>4. data_prev' \in [Screen!Frames -> [1 .. WORDS -> Words]]
    BY <1>2, <2>3 DEF Screen!Clear
  <2>5. vsync' \in BOOLEAN
    BY <2>1 DEF DisplayTypes
  <2> QED
    BY <2>1, <2>2, <2>4, <2>5 DEF DisplayTypes
<1>3. CASE Screen!Erase
  <2> DEFINE g == frames_cnt
             spot == Screen!PosOf(data_prev[g])
  <2>1. /\ dpc' = "draw" /\ UNCHANGED <<frames_cnt, data_prev, address, scanned, vsync>>
        /\ canvas' = [canvas EXCEPT ![g] = [canvas[g] EXCEPT !.sprites = @ \ {spot}]]
    BY <1>3 DEF Screen!Erase, Screen!Goto, Screen!Paint, Screen!tft
  <2>2. canvas[g] \in Screen!Pictures
    BY DEF DisplayTypes
  <2> HIDE DEF spot
  <2>3. [canvas[g] EXCEPT !.sprites = @ \ {spot}] \in Screen!Pictures
    BY <2>2 DEF Screen!Pictures
  <2>4. canvas' \in [Screen!Frames -> Screen!Pictures]
    BY <2>1, <2>3 DEF DisplayTypes
  <2>5. vsync' \in BOOLEAN
    BY <2>1 DEF DisplayTypes
  <2> QED
    BY <2>1, <2>4, <2>5 DEF DisplayTypes
<1>4. CASE Screen!Draw
  BY <1>4, DrawnType DEF InPlace
<1>5. CASE Screen!SetFrameBaseAddr
  <2>1. /\ dpc' = "read" /\ UNCHANGED <<data_prev, canvas, scanned, vsync>>
        /\ address' = frames_cnt /\ frames_cnt' \in Screen!Frames
    BY <1>5 DEF Screen!SetFrameBaseAddr, Screen!Goto, Screen!NextCnt, Screen!Frames, DisplayTypes
  <2>2. vsync' \in BOOLEAN
    BY <2>1 DEF DisplayTypes
  <2> QED
    BY <2>1, <2>2 DEF DisplayTypes
<1>6. CASE Screen!Controller
  <2>1. /\ UNCHANGED <<dpc, frames_cnt, data_prev, canvas, address>>
        /\ scanned' \in {scanned, address}
    BY <1>6 DEF Screen!Controller, Screen!Vsync, Screen!LoadAddress, Screen!own
  <2>2. vsync' \in BOOLEAN
    BY <1>6 DEF Screen!Controller, Screen!Vsync, Screen!LoadAddress
  <2> QED
    BY <2>1, <2>2 DEF DisplayTypes
<1> QED
  BY <1>1, <1>2, <1>3, <1>4, <1>5, <1>6
     DEF Next, Send, WriteWord, ReadWord, Draw, Scan, vars, display, Screen!Thread,
         Screen!WaitVsync, Screen!tft

(* The first messages, and the buffers a former program left, are of these *)
(* types.                                                                  *)
LEMMA InitDisplayTypes == Init => DisplayTypes /\ InPlace
<1> SUFFICES ASSUME Init PROVE DisplayTypes /\ InPlace
  OBVIOUS
<1>1. Sound(FirstMessage) /\ Sound(ZeroMessage)
  <2>1. All("NORMAL") \in Walls /\ All("BROKEN") \in Walls
    BY DEF All, Walls, Game!Labels
  <2>2. "WAITING" \in Game!GameStates /\ START \in Positions
    BY SystemAssumption DEF Game!GameStates
  <2> QED
    BY <2>1, <2>2, SoundMessage DEF FirstMessage, ZeroMessage
<1>2. /\ out = FirstMessage /\ in = ZeroMessage /\ nin = 0
      /\ data_prev = [f \in Screen!Frames |-> ZeroMessage]
      /\ canvas = [f \in Screen!Frames |-> Remnant]
      /\ dpc = "clear" /\ frames_cnt = 0 /\ address = 0 /\ scanned = 0 /\ vsync = FALSE
  BY DEF Init, Box!Init, Screen!Init
<1> HIDE DEF FirstMessage, ZeroMessage, Remnant
<1>3. Box!Taken = in /\ Box!Waiting = <<>>
  <2>1. MailTypes /\ Framed /\ Box!Stream = <<>> /\ BehindWords
    BY InitFramed, BehindIs
  <2>2. Box!Owed = 0 /\ Len(Box!Stream) = 0 /\ ~Box!Midway
    BY <1>2, <2>1 DEF Box!Owed, Box!Midway
  <2> QED
    BY <2>1, <2>2 DEF BehindWords, Box!Waiting, Box!Taken
<1>4. InPlace
  BY <1>1, <1>2, <1>3 DEF InPlace
<1>5. Remnant \in Screen!Pictures
  BY SystemAssumption
     DEF Remnant, Screen!Pictures, Screen!Labels, Screen!Texts, Screen!Wall, All
<1>6. vsync \in BOOLEAN
  BY <1>2
<1>7. data_prev \in [Screen!Frames -> [1 .. WORDS -> Words]]
  BY <1>1, <1>2 DEF Sound
<1>8. DisplayTypes
  BY <1>2, <1>5, <1>6, <1>7 DEF DisplayTypes, Screen!Frames
<1> QED
  BY <1>4, <1>8

(* TypeOK, which is not inductive: that bars and balls are painted at      *)
(* positions rests on every word being in its place, and that on the       *)
(* channel.                                                                *)
THEOREM SystemTypes == Spec => []TypeOK
<1> DEFINE Inv == MailTypes /\ Framed /\ InPlace /\ DisplayTypes
<1>1. Init => Inv
  BY InitFramed, InitDisplayTypes
<1>2. Inv /\ [Next]_vars => Inv'
  <2> SUFFICES ASSUME Inv, [Next]_vars PROVE Inv'
    OBVIOUS
  <2>1. data_prev = [f \in Screen!Frames |-> data_prev[f]] /\ frames_cnt \in Screen!Frames
    BY DEF DisplayTypes
  <2> QED
    BY <2>1, NextCarries, NextInPlace, NextDisplayTypes
<1>3. Inv => TypeOK
  BY DEF MailTypes, DisplayTypes, TypeOK
<1> QED
  BY <1>1, <1>2, <1>3, PTL DEF Spec

-----------------------------------------------------------------------------
(* The buffers and the controller: the one that will be scanned next is    *)
(* the one not drawn in, or the first picture has not been drawn yet and   *)
(* both are buffer 0.                                                      *)
Buffers ==
  /\ frames_cnt \in Screen!Frames
  /\ address = 1 - frames_cnt \/ (address = frames_cnt /\ scanned = frames_cnt)

(* A picture of message m with the bar and the ball at the places s.       *)
Picture(m, s) ==
  [brick |-> [b \in Screen!Wall |-> Screen!Colour(Screen!LabelOf(m, b))],
   sprites |-> s,
   texts |-> {Screen!StateOf(m)} \cap Screen!Texts]

Drawn(f) ==
  \/ canvas[f] = Picture(data_prev[f], {Screen!PosOf(data_prev[f])})
  \/ canvas[f] = Screen!Blank /\ Screen!Blank = Picture(data_prev[f], {})

(* What data_prev says is what the pixels show, but for the buffer being   *)
(* painted, from which the bar and the ball have been erased.              *)
Pixels ==
  /\ dpc \in {"clear", "read", "erase", "draw", "wait", "set"}
  /\ frames_cnt \in Screen!Frames
  /\ canvas = [f \in Screen!Frames |-> canvas[f]]
  /\ data_prev = [f \in Screen!Frames |-> data_prev[f]]
  /\ dpc = "clear" => \A f \in Screen!Frames : data_prev[f] = ZeroMessage
  /\ dpc # "clear" =>
       \A f \in Screen!Frames :
         IF f = frames_cnt /\ dpc = "draw"
           THEN canvas[f] = Picture(data_prev[f], {})
           ELSE Drawn(f)

-----------------------------------------------------------------------------
(* Every step keeps Buffers; only SetFrameBaseAddr changes the two         *)
(* variables, together.                                                    *)
LEMMA NextBuffers == ASSUME Buffers, [Next]_vars PROVE Buffers'
<1> USE DEF Buffers, Screen!Frames, display
<1>1. CASE Send
  BY <1>1 DEF Send
<1>2. CASE WriteWord
  BY <1>2 DEF WriteWord
<1>3. CASE ReadWord
  BY <1>3 DEF ReadWord
<1>4. CASE Draw
  <2>1. CASE Screen!SetFrameBaseAddr
    BY <2>1 DEF Screen!SetFrameBaseAddr, Screen!NextCnt
  <2>2. CASE Screen!Clear \/ Screen!Erase \/ Screen!Draw \/ Screen!WaitVsync
    BY <2>2 DEF Screen!Clear, Screen!Erase, Screen!Draw, Screen!DrawOver, Screen!WaitVsync,
                Screen!tft
  <2> QED
    BY <1>4, <2>1, <2>2 DEF Draw, Screen!Thread
<1>5. CASE Scan
  BY <1>5 DEF Scan, Screen!Controller, Screen!Vsync, Screen!LoadAddress, Screen!own
<1>6. CASE UNCHANGED vars
  BY <1>6 DEF vars
<1> QED
  BY <1>1, <1>2, <1>3, <1>4, <1>5, <1>6 DEF Next

(* The controller never loads the address of a buffer that is being        *)
(* painted, the very first picture aside.                                  *)
THEOREM SystemLoadsFinishedPicture == Spec => LoadsFinishedPicture
<1> DEFINE Loads == scanned' # scanned => ~(Screen!Painting /\ scanned' = frames_cnt)
<1>1. Init => Buffers
  BY DEF Init, Screen!Init, Buffers, Screen!Frames
<1>2. Buffers /\ [Next]_vars => Buffers'
  BY NextBuffers
<1>3. Buffers /\ [Next]_vars => [Loads]_vars
  <2> SUFFICES ASSUME Buffers, Next, scanned' # scanned PROVE scanned' # frames_cnt
    OBVIOUS
  <2>1. CASE Scan
    BY <2>1 DEF Buffers, Screen!Frames, Scan, Screen!Controller, Screen!Vsync,
                Screen!LoadAddress, Screen!own
  <2>2. CASE Draw
    BY <2>2 DEF Draw, Screen!Thread, Screen!Clear, Screen!Erase, Screen!Draw, Screen!DrawOver,
                Screen!WaitVsync, Screen!SetFrameBaseAddr, Screen!tft
  <2>3. CASE Send \/ WriteWord \/ ReadWord
    BY <2>3 DEF Send, WriteWord, ReadWord, display
  <2> QED
    BY <2>1, <2>2, <2>3 DEF Next
<1> QED
  BY <1>1, <1>2, <1>3, PTL DEF Spec, LoadsFinishedPicture

-----------------------------------------------------------------------------
(* The words of the cleared stack.                                         *)
LEMMA ZeroWords ==
  /\ DOMAIN ZeroMessage = 1 .. NB_BRICKS + 2
  /\ ZeroMessage[1] = "WAITING"
  /\ \A b \in 1 .. NB_BRICKS : ZeroMessage[2 + b] = "BROKEN"
<1>1. All("BROKEN") \in Walls
  BY DEF All, Walls, Game!Labels
<1>2. ZeroMessage = [k \in 1 .. WORDS |-> IF k = 1 THEN "WAITING" ELSE IF k = 2 THEN START
                                          ELSE All("BROKEN")[k - 2]]
  BY <1>1, MessageIs DEF ZeroMessage
<1>3. \A b \in 1 .. NB_BRICKS : 2 + b \in 1 .. WORDS /\ 2 + b # 1 /\ 2 + b # 2 /\ (2 + b) - 2 = b
  BY SystemAssumption DEF WORDS
<1>4. \A b \in 1 .. NB_BRICKS : All("BROKEN")[b] = "BROKEN"
  BY DEF All
<1>5. WORDS = NB_BRICKS + 2
  BY DEF WORDS
<1> HIDE DEF ZeroMessage, WORDS
<1>6. DOMAIN ZeroMessage = 1 .. WORDS
  BY <1>2
<1>7. ZeroMessage[1] = "WAITING"
  BY <1>2, Counts
<1>8. ASSUME NEW b \in 1 .. NB_BRICKS PROVE ZeroMessage[2 + b] = "BROKEN"
  BY <1>2, <1>3, <1>4
<1> QED
  BY <1>5, <1>6, <1>7, <1>8

(* Steps of the model and of the controller paint nothing.                 *)
LEMMA NotPainting ==
  ASSUME Pixels, UNCHANGED <<dpc, frames_cnt, data_prev, canvas>>
  PROVE  Pixels'
  BY DEF Pixels, Drawn, Picture, Screen!Frames, Screen!PosOf, Screen!LabelOf, Screen!StateOf,
         Screen!Blank, Screen!Colour, Screen!Wall, Screen!Texts

(* Clearing the buffers is painting a wall without bricks.                 *)
LEMMA ClearPixels == ASSUME Pixels, Screen!Clear PROVE Pixels'
<1> DEFINE m == [ZeroMessage EXCEPT ![2] = START]
<1>1. /\ dpc' = "read" /\ frames_cnt' = frames_cnt
      /\ \A f \in Screen!Frames : data_prev'[f] = m /\ canvas'[f] = Screen!Blank
  BY DEF Pixels, Screen!Clear, Screen!Goto
<1>2. Screen!StateOf(m) = "WAITING" /\ \A b \in Screen!Wall : Screen!LabelOf(m, b) = "BROKEN"
  BY ZeroWords, SystemAssumption DEF Screen!StateOf, Screen!LabelOf, Screen!Wall
<1>3. Screen!Blank = Picture(m, {})
  BY <1>2 DEF Screen!Blank, Picture, Screen!Colour, Screen!Texts
<1>4. /\ canvas' = [f \in Screen!Frames |-> canvas'[f]]
      /\ data_prev' = [f \in Screen!Frames |-> data_prev'[f]]
  BY DEF Screen!Clear
<1>5. \A f \in Screen!Frames : Drawn(f)'
  BY <1>1, <1>3 DEF Drawn, Picture
<1> QED
  BY <1>1, <1>4, <1>5 DEF Pixels

(* Erasing takes away the only bar and ball there are.                     *)
LEMMA ErasePixels == ASSUME Pixels, Screen!Erase PROVE Pixels'
<1> DEFINE g == frames_cnt
           spot == Screen!PosOf(data_prev[g])
<1>1. dpc = "erase" /\ dpc' = "draw" /\ UNCHANGED <<frames_cnt, data_prev>> /\ g \in Screen!Frames
  BY DEF Pixels, Screen!Erase, Screen!Goto
<1>2. canvas' = [canvas EXCEPT ![g] = [canvas[g] EXCEPT !.sprites = @ \ {spot}]]
  BY DEF Screen!Erase, Screen!Paint
<1>3. canvas'[g] = [canvas[g] EXCEPT !.sprites = @ \ {spot}]
      /\ \A f \in Screen!Frames \ {g} : canvas'[f] = canvas[f]
  BY <1>1, <1>2 DEF Pixels
<1>4. Drawn(g)
  BY <1>1 DEF Pixels
<1>5. canvas'[g] = Picture(data_prev[g], {})
  BY <1>3, <1>4 DEF Drawn, Picture
<1>6. \A f \in Screen!Frames \ {g} : Drawn(f)'
  BY <1>1, <1>3 DEF Pixels, Drawn, Picture
<1>7. canvas' = [f \in Screen!Frames |-> canvas'[f]]
  BY <1>1, <1>2 DEF Pixels
<1> QED
  BY <1>1, <1>5, <1>6, <1>7 DEF Pixels

(* Painting the differences to the last message paints the new one.        *)
LEMMA DrawPixels == ASSUME Pixels, Screen!Draw PROVE Pixels'
<1> DEFINE g == frames_cnt
           prev == data_prev[g]
<1>1. dpc = "draw" /\ dpc' = "wait" /\ UNCHANGED frames_cnt /\ g \in Screen!Frames
  BY DEF Pixels, Screen!Draw, Screen!DrawOver, Screen!Goto
<1>2. canvas[g] = Picture(prev, {})
  BY <1>1 DEF Pixels
<1>3. data_prev' = [data_prev EXCEPT ![g] = in]
  BY DEF Screen!Draw, Screen!DrawOver
<1> DEFINE brick == [b \in Screen!Wall |->
                       IF Screen!LabelOf(in, b) = Screen!LabelOf(prev, b)
                         THEN canvas[g].brick[b] ELSE Screen!Colour(Screen!LabelOf(in, b))]
           texts == IF Screen!StateOf(in) = Screen!StateOf(prev)
                      THEN canvas[g].texts
                      ELSE (canvas[g].texts \ {Screen!StateOf(prev)})
                             \cup ({Screen!StateOf(in)} \cap Screen!Texts)
           sprites == canvas[g].sprites \cup {Screen!PosOf(in)}
<1>4. canvas' = [canvas EXCEPT ![g] = [brick |-> brick, texts |-> texts, sprites |-> sprites]]
  BY DEF Screen!Draw, Screen!DrawOver, Screen!Paint
<1>5. brick = [b \in Screen!Wall |-> Screen!Colour(Screen!LabelOf(in, b))]
  BY <1>2 DEF Picture
<1>6. texts = {Screen!StateOf(in)} \cap Screen!Texts
  BY <1>2 DEF Picture
<1>7. sprites = {Screen!PosOf(in)}
  BY <1>2 DEF Picture
<1> HIDE DEF brick, texts, sprites
<1>8. canvas'[g] = Picture(in, {Screen!PosOf(in)}) /\ data_prev'[g] = in
  BY <1>1, <1>3, <1>4, <1>5, <1>6, <1>7 DEF Pixels, Picture
<1>9. \A f \in Screen!Frames \ {g} : canvas'[f] = canvas[f] /\ data_prev'[f] = data_prev[f]
  BY <1>1, <1>3, <1>4 DEF Pixels
<1>10. Drawn(g)'
  BY <1>1, <1>8 DEF Drawn, Picture
<1>11. \A f \in Screen!Frames \ {g} : Drawn(f)'
  BY <1>1, <1>9 DEF Pixels, Drawn, Picture
<1>12. /\ canvas' = [f \in Screen!Frames |-> canvas'[f]]
       /\ data_prev' = [f \in Screen!Frames |-> data_prev'[f]]
  BY <1>1, <1>3, <1>4 DEF Pixels
<1> QED
  BY <1>1, <1>10, <1>11, <1>12 DEF Pixels

(* Waiting and switching the buffers paint nothing.                        *)
LEMMA SwitchPixels ==
  ASSUME Pixels, Screen!WaitVsync \/ Screen!SetFrameBaseAddr PROVE Pixels'
<1>1. /\ UNCHANGED <<canvas, data_prev>>
      /\ dpc \in {"wait", "set"} /\ dpc' \in {"set", "read"}
      /\ frames_cnt \in Screen!Frames /\ frames_cnt' \in Screen!Frames
  BY DEF Pixels, Screen!WaitVsync, Screen!SetFrameBaseAddr, Screen!Goto, Screen!NextCnt,
         Screen!Frames
<1>2. \A f \in Screen!Frames : Drawn(f)'
  BY <1>1 DEF Pixels, Drawn, Picture
<1> QED
  BY <1>1, <1>2 DEF Pixels

(* Every step keeps Pixels.                                                *)
LEMMA NextPixels == ASSUME Pixels, [Next]_vars PROVE Pixels'
<1>1. CASE Send \/ WriteWord
  BY <1>1, NotPainting DEF Send, WriteWord, display
<1>2. CASE ReadWord
  <2>1. /\ UNCHANGED <<frames_cnt, data_prev, canvas>>
        /\ dpc = "read" /\ dpc' \in {"read", "erase"}
    BY <1>2 DEF ReadWord
  <2>2. \A f \in Screen!Frames : Drawn(f)'
    BY <2>1 DEF Pixels, Drawn, Picture
  <2> QED
    BY <2>1, <2>2 DEF Pixels
<1>3. CASE Draw
  BY <1>3, ClearPixels, ErasePixels, DrawPixels, SwitchPixels DEF Draw, Screen!Thread
<1>4. CASE Scan
  BY <1>4, NotPainting DEF Scan, Screen!Controller, Screen!Vsync, Screen!LoadAddress, Screen!own
<1>5. CASE UNCHANGED vars
  BY <1>5, NotPainting DEF vars, display
<1> QED
  BY <1>1, <1>2, <1>3, <1>4, <1>5 DEF Next

(* A buffer that is not being painted shows exactly the message painted in *)
(* it last, whatever the messages between say.                             *)
THEOREM SystemPictureIsExact == Spec => []PictureIsExact
<1>1. Init => Pixels
  BY DEF Init, Screen!Init, Pixels, Screen!Frames
<1>2. Pixels /\ [Next]_vars => Pixels'
  BY NextPixels
<1>3. Pixels => PictureIsExact
  <2>1. ASSUME NEW f \in Screen!Frames, Drawn(f)
        PROVE  canvas[f] = Screen!PictureOf(data_prev[f]) \/ canvas[f] = Screen!Blank
    BY <2>1 DEF Drawn, Picture, Screen!PictureOf
  <2> QED
    BY <2>1 DEF Pixels, PictureIsExact, Screen!Painting, Screen!Frames
<1> QED
  BY <1>1, <1>2, <1>3, PTL DEF Spec

-----------------------------------------------------------------------------
(* The messages in a row: the one being taken, one that waits, one that is *)
(* offered.  ZeroMessage stands for none.                                  *)
After(m, n) == m = ZeroMessage \/ Follows(m, n)
Fresh == writing /\ nout = 0

Chain ==
  /\ Fresh /\ Box!Waiting # <<>> => Follows(Box!Waiting[1], out)
  /\ Fresh /\ Box!Waiting = <<>> => After(Box!Taken, out)
  /\ ~Fresh /\ Box!Waiting # <<>> => Box!Waiting[1] = out
  /\ ~Fresh /\ Box!Waiting = <<>> => Box!Taken \in {out, ZeroMessage}
  /\ Box!Waiting # <<>> => After(Box!Taken, Box!Waiting[1])

(* The message drawn last is in the other buffer until the next is drawn.  *)
Row ==
  /\ dpc # "read" => nin = 0
  /\ dpc = "clear" => \A f \in Screen!Frames : data_prev[f] = ZeroMessage
  /\ dpc \in {"clear", "read"} /\ nin = 0 => data_prev[1 - frames_cnt] = Box!Taken
  /\ nin > 0 \/ dpc \in {"erase", "draw"} => After(data_prev[1 - frames_cnt], Box!Taken)
  /\ dpc \in {"wait", "set"} => data_prev[frames_cnt] = Box!Taken

(* The wall of a message is the wall it was made of.                       *)
LEMMA WallOfMessage ==
  ASSUME NEW t \in Game!GameStates, NEW p \in Positions, NEW w \in Walls
  PROVE  WallOf(Message(t, p, w)) = w
<1> DEFINE m == Message(t, p, w)
<1>1. m = [k \in 1 .. WORDS |-> IF k = 1 THEN t ELSE IF k = 2 THEN p ELSE w[k - 2]]
  BY MessageIs
<1>2. m \in [1 .. WORDS -> Words]
  BY SoundMessage DEF Sound
<1>3. 2 \in 0 .. WORDS /\ 2 + 1 = 3 /\ WORDS - 2 = NB_BRICKS
  BY SystemAssumption DEF WORDS
<1> HIDE DEF m
<1>4. /\ SubSeq(m, 3, WORDS) \in Seq(Words) /\ Len(SubSeq(m, 3, WORDS)) = NB_BRICKS
      /\ \A i \in 1 .. NB_BRICKS : SubSeq(m, 3, WORDS)[i] = m[2 + i]
  BY <1>2, <1>3, Counts, RestOfMessage
<1>5. \A i \in 1 .. NB_BRICKS : m[2 + i] = w[i]
  BY <1>1, SystemAssumption DEF WORDS
<1>6. SubSeq(m, 3, WORDS) \in [1 .. NB_BRICKS -> Words]
  BY <1>4, MessageOfSeq
<1>7. SubSeq(m, 3, WORDS) = w
  BY <1>4, <1>5, <1>6, SystemAssumption DEF Walls
<1> QED
  BY <1>7 DEF WallOf, m

(* The message sent next is what the game may say next.                    *)
LEMMA SendFollows == ASSUME MailTypes, Sound(out), Send PROVE Follows(out, out')
<1>1. PICK t \in Game!GameStates, w \in Walls :
        /\ Game!WallFollows(out[1], WallOf(out), w)
        /\ Game!StateFollows(out[1], w, t)
        /\ \E p \in IF Game!Over(out[1]) \/ t = "WAITING" THEN {out[2]} ELSE Positions :
             Box!StartWrite(Message(t, p, w))
  BY DEF Send
<1>2. out[2] \in Positions
  BY Counts DEF Sound, Kind
<1>3. PICK p \in Positions :
        /\ Box!StartWrite(Message(t, p, w))
        /\ Game!Over(out[1]) \/ t = "WAITING" => p = out[2]
  BY <1>1, <1>2
<1>4. out' = Message(t, p, w) /\ WallOf(out') = w
  BY <1>3, WallOfMessage DEF Box!StartWrite
<1>5. out'[1] = t /\ out'[2] = p
  BY <1>4, MessageIs, Counts
<1> QED
  BY <1>1, <1>3, <1>4, <1>5 DEF Follows

(* Every step keeps the messages in a row.                                 *)
LEMMA NextChain ==
  ASSUME MailTypes, Framed, InPlace, Chain, [Next]_vars PROVE Chain'
<1> USE DEF Chain
<1>1. CASE Send
  <2>1. /\ ~Fresh /\ Fresh' /\ UNCHANGED <<Box!Waiting, Box!Taken>>
    BY <1>1, SendOffers DEF Ch!Offer, Fresh
  <2>2. Follows(out, out')
    BY <1>1, SendFollows DEF InPlace
  <2>3. Box!Waiting # <<>> => Box!Waiting[1] = out
    BY <2>1
  <2>4. Box!Waiting = <<>> => Box!Taken = out \/ Box!Taken = ZeroMessage
    BY <2>1
  <2> QED
    BY <2>1, <2>2, <2>3, <2>4 DEF After
<1>2. CASE ~Send
  <2>1. UNCHANGED out /\ (Fresh' => Fresh)
    BY <1>2 DEF Next, WriteWord, Box!WriteWord, ReadWord, Box!ReadWord, Draw, Scan, vars, mailbox,
                Fresh, MailTypes
  <2>2. [Ch!Next]_(Ch!vars)
    BY NextCarries
  <2>3. CASE Ch!Send
    <3>1. Fresh /\ ~Fresh' /\ Box!Waiting = <<>> /\ Box!Waiting' = <<out>> /\ UNCHANGED Box!Taken
      BY <2>3 DEF Ch!Send, Fresh
    <3> QED
      BY <2>1, <3>1 DEF After
  <2>4. CASE Ch!Take
    <3>1. /\ Box!Waiting # <<>> /\ Box!Taken' = Box!Waiting[1] /\ Box!Waiting' = <<>>
          /\ Fresh' <=> Fresh
      BY <2>4 DEF Ch!Take, Fresh
    <3> QED
      BY <2>1, <3>1 DEF After
  <2>5. CASE UNCHANGED Ch!vars
    <3>1. UNCHANGED <<Box!Waiting, Box!Taken>> /\ (Fresh' <=> Fresh)
      BY <2>5 DEF Ch!vars, Fresh
    <3> QED
      BY <2>1, <3>1 DEF After
  <2>6. ~Ch!Offer
    BY <2>1 DEF Ch!Offer, Fresh
  <2> QED
    BY <2>2, <2>3, <2>4, <2>5, <2>6 DEF Ch!Next
<1> QED
  BY <1>1, <1>2

(* Every step keeps the link between the buffers and the message being     *)
(* taken.                                                                  *)
LEMMA NextRow ==
  ASSUME MailTypes, Framed, InPlace, Chain, DisplayTypes, Row, [Next]_vars PROVE Row'
<1> USE DEF Row
<1>1. CASE Send \/ WriteWord \/ Scan \/ UNCHANGED vars
  <2>1. UNCHANGED <<dpc, nin, data_prev, frames_cnt>>
    BY <1>1 DEF Send, Box!StartWrite, WriteWord, Box!WriteWord, Scan, vars, mailbox, display,
                Screen!Controller, Screen!Vsync, Screen!LoadAddress, Screen!own
  <2>2. UNCHANGED Box!Taken
    <3>1. CASE Send
      BY <3>1, SendOffers DEF Ch!Offer
    <3>2. CASE WriteWord
      BY <3>2, FirstWordSends, NextWordMoves DEF Ch!Send, Ch!vars
    <3>3. CASE Scan \/ UNCHANGED vars
      BY <3>3 DEF Scan, vars, mailbox, Box!Taken, Box!Stream, Box!Unwritten, Box!Midway, Box!Owed
    <3> QED
      BY <1>1, <3>1, <3>2, <3>3
  <2> QED
    BY <2>1, <2>2 DEF After
<1>2. CASE ReadWord
  <2>1. /\ dpc = "read" /\ dpc' = IF nin' > 0 THEN "read" ELSE "erase"
        /\ UNCHANGED <<data_prev, frames_cnt>>
    BY <1>2 DEF ReadWord
  <2>2. nin' \in 0 .. WORDS - 1
    BY <1>2, ReadStream DEF MailTypes
  <2>3. CASE nin = 0
    <3>1. Box!Waiting # <<>> /\ Box!Taken' = Box!Waiting[1]
      BY <1>2, <2>3, FirstWordTakes DEF Ch!Take
    <3>2. After(data_prev[1 - frames_cnt], Box!Taken')
      BY <2>1, <2>3, <3>1 DEF Chain
    <3>3. nin' # 0
      BY <1>2, <2>3, ReadStream, CountWords, Counts
    <3> QED
      BY <2>1, <2>2, <3>2, <3>3 DEF After
  <2>4. CASE nin # 0
    <3>1. UNCHANGED Box!Taken
      BY <1>2, <2>4, NextWordIsOwed DEF Ch!vars
    <3>2. nin > 0
      BY <2>4 DEF MailTypes
    <3> QED
      BY <2>1, <2>2, <3>1, <3>2 DEF After
  <2> QED
    BY <2>3, <2>4
<1>3. CASE Draw
  <2>1. UNCHANGED mailbox /\ nin' = nin
    BY <1>3 DEF Draw, mailbox
  <2>2. UNCHANGED Box!Taken
    BY <2>1 DEF mailbox, Box!Taken, Box!Stream, Box!Unwritten, Box!Midway, Box!Owed
  <2>3. frames_cnt \in {0, 1} /\ 1 - frames_cnt \in Screen!Frames /\ frames_cnt # 1 - frames_cnt
        /\ 1 - (1 - frames_cnt) = frames_cnt
    BY DEF DisplayTypes, Screen!Frames
  <2>4. CASE Screen!Clear
    <3>1. /\ dpc = "clear" /\ dpc' = "read" /\ UNCHANGED frames_cnt
          /\ \A f \in Screen!Frames : data_prev'[f] = [ZeroMessage EXCEPT ![2] = START]
      BY <2>4 DEF Screen!Clear, Screen!Goto
    <3>2. [ZeroMessage EXCEPT ![2] = START] = ZeroMessage
      <4>1. ZeroMessage = [k \in 1 .. WORDS |-> IF k = 1 THEN "WAITING" ELSE IF k = 2 THEN START
                                                ELSE All("BROKEN")[k - 2]]
        <5>1. All("BROKEN") \in Walls
          BY DEF All, Walls, Game!Labels
        <5> QED
          BY <5>1, MessageIs DEF ZeroMessage
      <4> QED
        BY <4>1, Counts
    <3>3. data_prev'[1 - frames_cnt] = data_prev[1 - frames_cnt]
      BY <2>3, <3>1, <3>2
    <3> QED
      BY <2>1, <2>2, <3>1, <3>3
  <2>5. CASE Screen!Erase
    <3>1. dpc = "erase" /\ dpc' = "draw" /\ UNCHANGED <<frames_cnt, data_prev>>
      BY <2>5 DEF Screen!Erase, Screen!Goto
    <3> QED
      BY <2>1, <2>2, <3>1 DEF After
  <2>6. CASE Screen!Draw
    <3>1. /\ dpc = "draw" /\ dpc' = "wait" /\ UNCHANGED frames_cnt
          /\ data_prev' = [data_prev EXCEPT ![frames_cnt] = in]
      BY <2>6 DEF Screen!Draw, Screen!DrawOver, Screen!Goto
    <3>2. nin = 0 /\ Box!Taken = in
      BY <3>1 DEF Box!Taken, Box!Midway
    <3>3. data_prev'[frames_cnt] = in
      BY <3>1 DEF DisplayTypes
    <3> QED
      BY <2>1, <2>2, <3>1, <3>2, <3>3
  <2>7. CASE Screen!WaitVsync
    <3>1. dpc = "wait" /\ dpc' = "set" /\ UNCHANGED <<frames_cnt, data_prev>>
      BY <2>7 DEF Screen!WaitVsync, Screen!Goto
    <3> QED
      BY <2>1, <2>2, <3>1
  <2>8. CASE Screen!SetFrameBaseAddr
    <3>1. dpc = "set" /\ dpc' = "read" /\ UNCHANGED data_prev /\ frames_cnt' = 1 - frames_cnt
      BY <2>3, <2>8 DEF Screen!SetFrameBaseAddr, Screen!Goto, Screen!NextCnt
    <3> QED
      BY <2>1, <2>2, <2>3, <3>1
  <2> QED
    BY <1>3, <2>4, <2>5, <2>6, <2>7, <2>8 DEF Draw, Screen!Thread
<1> QED
  BY <1>1, <1>2, <1>3 DEF Next

(* Each picture tells what comes next after the one in the other buffer.   *)
THEOREM SystemPicturesFollow == Spec => []PicturesFollow
<1> DEFINE Inv == MailTypes /\ Framed /\ InPlace /\ DisplayTypes /\ Chain /\ Row
<1>1. Init => Inv
  <2> SUFFICES ASSUME Init PROVE Chain /\ Row
    BY InitFramed, InitDisplayTypes
  <2>1. /\ in = ZeroMessage /\ nin = 0 /\ nout = 0 /\ dpc = "clear" /\ frames_cnt = 0
        /\ data_prev = [f \in Screen!Frames |-> ZeroMessage]
    BY DEF Init, Box!Init, Screen!Init
  <2> HIDE DEF ZeroMessage
  <2>2. ~writing /\ MailTypes /\ Framed /\ Box!Stream = <<>> /\ BehindWords
    BY InitFramed, BehindIs
  <2>3. Box!Owed = 0 /\ Len(Box!Stream) = 0 /\ ~Box!Midway
    BY <2>1, <2>2 DEF Box!Owed, Box!Midway
  <2>4. Box!Taken = ZeroMessage /\ Box!Waiting = <<>>
    BY <2>1, <2>2, <2>3 DEF BehindWords, Box!Waiting, Box!Taken
  <2>5. Chain
    BY <2>2, <2>4 DEF Chain, Fresh, After
  <2>6. Row
    BY <2>1, <2>4 DEF Row, After, Screen!Frames
  <2> QED
    BY <2>5, <2>6
<1>2. Inv /\ [Next]_vars => Inv'
  <2> SUFFICES ASSUME Inv, [Next]_vars PROVE Inv'
    OBVIOUS
  <2>1. data_prev = [f \in Screen!Frames |-> data_prev[f]] /\ frames_cnt \in Screen!Frames
    BY DEF DisplayTypes
  <2> QED
    BY <2>1, NextCarries, NextInPlace, NextDisplayTypes, NextChain, NextRow
<1>3. Inv => PicturesFollow
  <2> SUFFICES ASSUME Inv, Screen!Painting PROVE After(data_prev[Screen!NextCnt], in)
    BY DEF PicturesFollow, After
  <2>1. dpc \in {"erase", "draw"}
    BY DEF Screen!Painting
  <2>2. nin = 0 /\ Box!Taken = in
    BY <2>1 DEF Row, Box!Taken, Box!Midway
  <2>3. Screen!NextCnt = 1 - frames_cnt
    BY DEF DisplayTypes, Screen!Frames, Screen!NextCnt
  <2> QED
    BY <2>1, <2>2, <2>3 DEF Row
<1> QED
  BY <1>1, <1>2, <1>3, PTL DEF Spec
=============================================================================
