-------------------------- MODULE CardReader_proof --------------------------
(***************************************************************************)
(* The card and its file, for a card of any size, any data, any number of  *)
(* boots and power cuts at any moment; then the reader's wire and port     *)
(* behind the bus it is opened on (SerialBus), for any messages in any     *)
(* pieces, any reads of any number of threads, and any ports.              *)
(***************************************************************************)
EXTENDS CardReader, SerialBus, Induction

USE DEF Block

LEMMA ZeroIsBlock == 0 \in Block
  BY CardAssumption

\* A card in block 0 of which is its number: the trailer of sector 0 is
\* another block.
LEMMA FormatIsImage ==
    \A u \in Uid : Format(u) \in Image /\ Format(u)[0] = u
<1>1. 0 \in Block /\ 0 % PerSector = 0 /\ 0 # PerSector - 1
  BY CardAssumption
<1> QED
  BY <1>1 DEF Format, Image, Content

\* Block 0 exists and is no other sector's than the first.
LEMMA SectorInRange == \A b \in Block : SectorOf(b) \in 0 .. Sectors - 1
<1> SUFFICES ASSUME NEW b \in Block PROVE SectorOf(b) \in 0 .. Sectors - 1
  OBVIOUS
<1>1. b \in Nat /\ b < Sectors * PerSector
  BY CardAssumption
<1>2. b = PerSector * (b \div PerSector) + (b % PerSector)
      /\ b % PerSector >= 0 /\ b \div PerSector \in Int
  BY <1>1, CardAssumption
<1>3. b \div PerSector < Sectors
  BY <1>1, <1>2, CardAssumption
<1>4. b \div PerSector >= 0
  BY <1>1, CardAssumption
<1> QED
  BY <1>2, <1>3, <1>4, CardAssumption DEF SectorOf
-----------------------------------------------------------------------------
(***************************************************************************)
(* Type invariant: whatever the reader is asked and whenever the power     *)
(* goes (card.c).                                                          *)
(***************************************************************************)
THEOREM ReaderTyped == Spec => []TypeOK
<1>1. Init => TypeOK
  <2> SUFFICES ASSUME Init PROVE TypeOK
    OBVIOUS
  <2>1. PICK u \in Uid : card = Format(u)
    BY DEF Init
  <2>2. card \in Image /\ uid \in Content
    BY <2>1, FormatIsImage DEF Init, Content
  <2>3. acked \in [Block -> Datum \cup {None}]
    BY DEF Init, Blank
  <2>4. boots \in 0 .. MaxBoots /\ field \in 0 .. Dwell
    BY CardAssumption DEF Init
  <2>5. /\ file \in Image \cup {Absent, Short}
        /\ {auth, granted} \subseteq (0 .. Sectors - 1) \cup {None}
    BY DEF Init
  <2>6. {up, dirty, unread} \subseteq BOOLEAN /\ saving \in {"no", "begun", "opened"}
    BY DEF Init
  <2> QED
    BY <2>2, <2>3, <2>4, <2>5, <2>6 DEF TypeOK
<1>2. TypeOK /\ [Next]_vars => TypeOK'
  <2> SUFFICES ASSUME TypeOK, [Next]_vars PROVE TypeOK'
    OBVIOUS
  <2> USE DEF TypeOK, fileVars, cardVars, authVars
  <2>1. ASSUME NEW u \in Uid, Boot(u) PROVE TypeOK'
    <3>1. card' \in Image /\ uid' \in Content
      <4>1. CASE LoadImage
        BY <4>1, ZeroIsBlock DEF LoadImage, Image
      <4>2. CASE NewCard(u)
        BY <4>2, FormatIsImage DEF NewCard, Content
      <4> QED  BY <2>1, <4>1, <4>2 DEF Boot
    <3>2. boots' \in 0 .. MaxBoots
      BY <2>1, CardAssumption DEF Boot, StartGame
    <3>3. field' \in 0 .. Dwell
      BY <2>1, CardAssumption DEF Boot, StartGame
    <3>4. {dirty, unread}' \subseteq BOOLEAN /\ saving' \in {"no", "begun", "opened"}
      <4>1. CASE LoadImage
        BY <4>1 DEF LoadImage
      <4>2. CASE NewCard(u)
        <5>1. unread' \in BOOLEAN
          BY <4>2 DEF NewCard
        <5>2. dirty' \in BOOLEAN /\ saving' \in {"no", "begun", "opened"}
          BY <4>2 DEF NewCard
        <5> QED  BY <5>1, <5>2
      <4> QED  BY <2>1, <4>1, <4>2 DEF Boot
    <3> QED
      BY <2>1, <3>1, <3>2, <3>3, <3>4 DEF Boot, StartGame
  <2>2. CASE SaveOpen
    <3>1. acked' \in [Block -> Datum \cup {None}]
      BY <2>2 DEF SaveOpen, EmptyFile, Acknowledge
    <3> QED  BY <2>2, <3>1 DEF SaveOpen, EmptyFile, Acknowledge
  <2>3. CASE SaveWrite
    <3>1. acked' \in [Block -> Datum \cup {None}]
      BY <2>3 DEF SaveWrite, Acknowledge
    <3> QED  BY <2>3, <3>1 DEF SaveWrite, Acknowledge
  <2>4. CASE PowerCut
    <3>1. field' \in 0 .. Dwell  BY <2>4, CardAssumption DEF PowerCut
    <3> QED  BY <2>4, <3>1 DEF PowerCut
  <2>5. CASE Select \/ Release  BY <2>5 DEF Select, Release
  <2>6. ASSUME NEW b \in Block, Authenticate(b) PROVE TypeOK'
    BY <2>6, SectorInRange DEF Authenticate
  <2>7. ASSUME NEW b \in Block, ReadBlock(b) PROVE TypeOK'
    BY <2>7 DEF ReadBlock, Touches
  <2>8. ASSUME NEW b \in Block, NEW d \in Datum, WriteBlock(b, d) PROVE TypeOK'
    BY <2>8 DEF WriteBlock, Touches, Image, Content
  <2>9. CASE Tap  BY <2>9, CardAssumption DEF Tap
  <2>10. CASE Elapse  BY <2>10, CardAssumption DEF Elapse
  <2>11. CASE UNCHANGED vars  BY <2>11 DEF vars
  <2> QED
    BY <2>1, <2>2, <2>3, <2>4, <2>5, <2>6, <2>7, <2>8, <2>9, <2>10, <2>11
       DEF Next
<1> QED
  BY <1>1, <1>2, PTL DEF Spec
-----------------------------------------------------------------------------
\* UidAgrees is inductive with the types: a save only ever writes the card it
\* announced.
LEMMA UidStep == TypeOK /\ UidAgrees /\ [Next]_vars => UidAgrees'
<1> SUFFICES ASSUME TypeOK, UidAgrees, [Next]_vars PROVE UidAgrees'
  OBVIOUS
<1> USE DEF UidAgrees, fileVars, cardVars, authVars
<1>0. Short \notin Image
  BY CardAssumption
<1>1. ASSUME NEW u \in Uid, Boot(u) PROVE UidAgrees'
  BY <1>1, FormatIsImage DEF Boot, StartGame, LoadImage, NewCard
<1>2. CASE SaveOpen  BY <1>2, <1>0 DEF SaveOpen, EmptyFile, Acknowledge
<1>3. CASE SaveWrite  BY <1>3 DEF SaveWrite, Acknowledge
<1>4. CASE PowerCut  BY <1>4 DEF PowerCut
<1>5. CASE Select \/ Release  BY <1>5 DEF Select, Release
<1>6. ASSUME NEW b \in Block, Authenticate(b) PROVE UidAgrees'
  BY <1>6 DEF Authenticate
<1>7. ASSUME NEW b \in Block, ReadBlock(b) PROVE UidAgrees'
  BY <1>7 DEF ReadBlock, Touches
<1>8. ASSUME NEW b \in Block, NEW d \in Datum, WriteBlock(b, d) PROVE UidAgrees'
  <2>1. 0 \in Block /\ card \in [Block -> Content]
    BY <1>8, ZeroIsBlock DEF TypeOK, Image
  <2> QED  BY <1>8, <2>1 DEF WriteBlock, Touches
<1>9. CASE Tap \/ Elapse  BY <1>9 DEF Tap, Elapse
<1>10. CASE UNCHANGED vars  BY <1>10 DEF vars
<1> QED
  BY <1>1, <1>2, <1>3, <1>4, <1>5, <1>6, <1>7, <1>8, <1>9, <1>10 DEF Next

(***************************************************************************)
(* The announced number is the card's, and the file's unless this boot     *)
(* could not read the image and has not written over it, through every     *)
(* boot, torn save and write to block 0 (card_load, mifare).               *)
(***************************************************************************)
THEOREM OneNumber == Spec => []UidAgrees
<1>1. Init => UidAgrees
  BY DEF Init, UidAgrees
<1> QED
  BY <1>1, UidStep, ReaderTyped, PTL DEF Spec
-----------------------------------------------------------------------------
\* A save that is under way has something to save and has emptied the file
\* once it is open.
SaveUnderWay == /\ saving # "no" => dirty
                /\ saving = "opened" => file = Short

FileInv == FileIsCard /\ SaveUnderWay

LEMMA FileStep == FileInv /\ [Next]_vars => FileInv'
<1> SUFFICES ASSUME FileInv, [Next]_vars PROVE FileInv'
  OBVIOUS
<1> USE DEF FileInv, FileIsCard, SaveUnderWay, Listens, fileVars, cardVars,
            authVars
<1>1. ASSUME NEW u \in Uid, Boot(u) PROVE FileInv'
  BY <1>1 DEF Boot, StartGame, LoadImage, NewCard
<1>2. CASE SaveOpen  BY <1>2 DEF SaveOpen, EmptyFile, Acknowledge
<1>3. CASE SaveWrite  BY <1>3 DEF SaveWrite, Acknowledge
<1>4. CASE PowerCut  BY <1>4 DEF PowerCut
<1>5. CASE Select \/ Release  BY <1>5 DEF Select, Release
<1>6. ASSUME NEW b \in Block, Authenticate(b) PROVE FileInv'
  BY <1>6 DEF Authenticate
<1>7. ASSUME NEW b \in Block, ReadBlock(b) PROVE FileInv'
  BY <1>7 DEF ReadBlock, Touches
<1>8. ASSUME NEW b \in Block, NEW d \in Datum, WriteBlock(b, d) PROVE FileInv'
  BY <1>8 DEF WriteBlock, Touches
<1>9. CASE Tap \/ Elapse  BY <1>9 DEF Tap, Elapse
<1>10. CASE UNCHANGED vars  BY <1>10 DEF vars
<1> QED
  BY <1>1, <1>2, <1>3, <1>4, <1>5, <1>6, <1>7, <1>8, <1>9, <1>10 DEF Next

(***************************************************************************)
(* A file of full length is the card whenever the reader believes so,      *)
(* although opening it may fail, the disk may refuse the write and the     *)
(* power may go between emptying and filling it (card_save, card_load).    *)
(***************************************************************************)
THEOREM FileKept == Spec => []FileIsCard
<1>1. Init => FileInv
  BY DEF Init, FileInv, FileIsCard, SaveUnderWay, Listens
<1>2. FileInv => FileIsCard
  BY DEF FileInv
<1> QED
  BY <1>1, <1>2, FileStep, PTL DEF Spec
-----------------------------------------------------------------------------
\* g_auth_sector is what the last authentication since the select granted.
AuthIsGranted == auth = granted /\ TouchedIsGranted

(***************************************************************************)
(* No block is touched outside the sector authenticated last since the     *)
(* card was selected (mifare, command).                                    *)
(***************************************************************************)
THEOREM OnlyGranted == Spec => []TouchedIsGranted
<1>1. Init => AuthIsGranted
  BY DEF Init, AuthIsGranted, TouchedIsGranted
<1>2. AuthIsGranted /\ [Next]_vars => AuthIsGranted'
  <2> SUFFICES ASSUME AuthIsGranted, [Next]_vars PROVE AuthIsGranted'
    OBVIOUS
  <2> USE DEF AuthIsGranted, TouchedIsGranted, fileVars, cardVars, authVars
  <2>1. ASSUME NEW u \in Uid, Boot(u) PROVE AuthIsGranted'
    BY <2>1 DEF Boot, StartGame
  <2>2. CASE SaveOpen \/ SaveWrite  BY <2>2 DEF SaveOpen, SaveWrite
  <2>3. CASE PowerCut  BY <2>3 DEF PowerCut
  <2>4. CASE Select \/ Release  BY <2>4 DEF Select, Release
  <2>5. ASSUME NEW b \in Block, Authenticate(b) PROVE AuthIsGranted'
    BY <2>5 DEF Authenticate
  <2>6. ASSUME NEW b \in Block, Touches(b) PROVE AuthIsGranted'
    BY <2>6 DEF Touches
  <2>7. CASE Tap \/ Elapse  BY <2>7 DEF Tap, Elapse
  <2>8. CASE UNCHANGED vars  BY <2>8 DEF vars
  <2> QED
    BY <2>1, <2>2, <2>3, <2>4, <2>5, <2>6, <2>7, <2>8
       DEF Next, ReadBlock, WriteBlock
<1>3. AuthIsGranted => TouchedIsGranted
  BY DEF AuthIsGranted
<1> QED
  BY <1>1, <1>2, <1>3, PTL DEF Spec
-----------------------------------------------------------------------------
HIDE DEF Block

(***************************************************************************)
(* The reader's wire and port.  PortInv: what was sent is what was         *)
(* executed and what is under way (Flight, Tracked), and the replies are   *)
(* read in order, whole unless the ring was full.  ReadsInv: who may end a *)
(* read.                                                                   *)
(***************************************************************************)

-----------------------------------------------------------------------------
Answer == Nat \X Nat

Reply(i) == [j \in 1 .. ReplyLen |-> <<i, j>>]

LEMMA ReplyTyped == \A i \in Nat : Reply(i) \in Seq(Answer)
<1>1. ReplyLen \in Nat  BY PortAssumption
<1>2. \A i \in Nat : Reply(i) \in [1 .. ReplyLen -> Answer]  BY <1>1 DEF Reply, Answer
<1> QED  BY <1>1, <1>2

LEMMA AnswersUnfold ==
    ASSUME NEW k \in Nat, NEW n \in Nat
    PROVE  /\ Answers(k, n) \in [0 .. n -> Seq(Answer)]
           /\ Answers(k, n)[0] = << >>
           /\ \A i \in 1 .. n : Answers(k, n)[i] = Answers(k, n)[i - 1] \o Reply(k + i)
<1> DEFINE N == n
           h == Answers(k, n)
           g == [i \in 1 .. N |-> [v \in Seq(Answer) |-> v \o Reply(k + i)]]
<1>1. N \in Nat /\ << >> \in Seq(Answer)  BY EmptySeq
<1>2. \A i \in 1 .. N, v \in Seq(Answer) : v \o Reply(k + i) \in Seq(Answer)
  <2>1. \A i \in 1 .. N : k + i \in Nat  OBVIOUS
  <2> QED  BY <2>1, ReplyTyped, ConcatProperties
<1>3. g \in [1 .. N -> [Seq(Answer) -> Seq(Answer)]]  BY <1>2
<1>4. \A i \in 1 .. N, v \in Seq(Answer) : g[i][v] = v \o Reply(k + i)  OBVIOUS
<1> HIDE DEF g, N
<1>5. PICK f \in [0 .. N -> Seq(Answer)] : Iterates(f, N, << >>, g)
  BY <1>1, <1>3, RecursionOnRange
<1>6. f[0] = << >> /\ \A i \in 1 .. N : f[i] = g[i][f[i - 1]]
  BY <1>5 DEF Iterates
<1>7. /\ 0 \in 0 .. N
      /\ \A i \in 1 .. N : i - 1 \in 0 .. N /\ i \in 0 .. N /\ i # 0
      /\ \A i \in 0 .. N : i # 0 => i \in 1 .. N
  BY <1>1
<1>8. \A i \in 1 .. N : f[i] = f[i - 1] \o Reply(k + i)
  BY <1>4, <1>6, <1>7
<1>9. \A i \in 0 .. N : f[i] = IF i = 0 THEN << >> ELSE f[i - 1] \o Reply(k + i)
  BY <1>6, <1>7, <1>8, Zenon
<1>10. f = [i \in 0 .. N |-> IF i = 0 THEN << >> ELSE f[i - 1] \o Reply(k + i)]
  BY <1>6, <1>9
<1>11. h = [i \in 0 .. N |-> IF i = 0 THEN << >> ELSE h[i - 1] \o Reply(k + i)]
  BY <1>10, Zenon DEF Answers, Reply, N
<1> HIDE DEF h
<1>12. \A i \in 0 .. N : h[i] = IF i = 0 THEN << >> ELSE h[i - 1] \o Reply(k + i)
  BY <1>11, Zenon
<1>13. h[0] = << >> /\ \A i \in 1 .. N : h[i] = h[i - 1] \o Reply(k + i)
  BY <1>7, <1>12, Zenon
<1>14. \A i \in 0 .. N : h[i] \in Seq(Answer)
  <2>1. h[0] \in Seq(Answer)  BY <1>1, <1>13
  <2>2. \A i \in 1 .. N : h[i - 1] \in Seq(Answer) => h[i] \in Seq(Answer)
    BY <1>2, <1>13, Zenon
  <2> QED  BY <1>1, <2>1, <2>2, RecursionTyped
<1>15. DOMAIN h = 0 .. N /\ h = [i \in 0 .. N |-> h[i]]
  BY <1>11, <1>12
<1> QED  BY <1>13, <1>14, <1>15 DEF h, N

\* What consume() has on its hands: what is left, the commands found, is it waiting.
TurnState == [in : Seq(Byte), cmds : Seq(Seq(Byte)), stop : BOOLEAN]

TurnStart(s) == [in |-> s, cmds |-> << >>, stop |-> FALSE]

LEMMA TurnTyped ==
    ASSUME NEW c \in TurnState
    PROVE  Turn(c) \in TurnState
<1> DEFINE s == c.in
           n == s[4]
<1>1. s \in Seq(Byte) /\ Len(s) \in Nat /\ c.cmds \in Seq(Seq(Byte)) /\ c.stop \in BOOLEAN
      /\ c = [in |-> c.in, cmds |-> c.cmds, stop |-> c.stop]
  BY LenProperties DEF TurnState
<1>2. CASE c.stop \/ Len(s) < 5
  <2>1. Turn(c) = c  BY <1>2 DEF Turn
  <2> QED  BY <2>1
<1>3. CASE ~(c.stop \/ Len(s) < 5)
  <2>1. Len(s) >= 5 /\ n \in Nat
    <3>1. 4 \in 1 .. Len(s) /\ Len(s) >= 5  BY <1>1, <1>3
    <3>2. \A x \in Seq(Byte) : \A i \in 1 .. Len(x) : x[i] \in Byte  BY ElementOfSeq
    <3>3. n \in Byte  BY <1>1, <3>1, <3>2
    <3>4. Byte \subseteq Nat  BY DEF Byte
    <3> QED  BY <3>1, <3>3, <3>4
  <2>2. Tail(s) \in Seq(Byte)
    <3>1. s # << >>  BY <1>1, <2>1, EmptySeq
    <3> QED  BY <1>1, <3>1, HeadTailProperties
  <2>3. SubSeq(s, Skip(s) + 1, Len(s)) \in Seq(Byte)
    <3>1. Skip(s) \in 0 .. Len(s)  BY <1>1, <2>1 DEF Skip
    <3> QED  BY <1>1, <3>1, SuffixFacts
  <2>4. ASSUME ~(Len(s) < n + 7)
        PROVE  /\ SubSeq(s, n + 8, Len(s)) \in Seq(Byte)
               /\ SubSeq(s, 6, n + 5) \in Seq(Byte)
    <3>1. n + 7 \in 0 .. Len(s) /\ (n + 7) + 1 = n + 8  BY <1>1, <2>1, <2>4
    <3>2. SubSeq(s, n + 8, Len(s)) \in Seq(Byte)  BY <1>1, <3>1, SuffixFacts
    <3>3. \A i \in 6 .. n + 5 : s[i] \in Byte
      <4>1. \A i \in 6 .. n + 5 : i \in 1 .. Len(s)  BY <1>1, <2>1, <2>4
      <4> QED  BY <1>1, <4>1, ElementOfSeq
    <3>4. 6 \in Int /\ n + 5 \in Int  BY <2>1
    <3>5. SubSeq(s, 6, n + 5) \in Seq(Byte)  BY <3>3, <3>4, SubSeqProperties
    <3> QED  BY <3>2, <3>5
  <2> HIDE DEF n
  <2>5. CASE SubSeq(s, 1, 3) # <<0, 0, 255>>
    <3>1. Turn(c) = [c EXCEPT !.in = Tail(s)]  BY <1>3, <2>5 DEF Turn
    <3> QED  BY <1>1, <2>2, <3>1 DEF TurnState
  <2>6. CASE SubSeq(s, 1, 3) = <<0, 0, 255>> /\ <<n, s[5]>> \in {<<0, 255>>, <<255, 0>>}
    <3>1. Turn(c) = [c EXCEPT !.in = SubSeq(s, Skip(s) + 1, Len(s))]
      BY <1>3, <2>6 DEF Turn, n
    <3> QED  BY <1>1, <2>3, <3>1 DEF TurnState
  <2>7. CASE /\ SubSeq(s, 1, 3) = <<0, 0, 255>>
             /\ <<n, s[5]>> \notin {<<0, 255>>, <<255, 0>>}
             /\ (n + s[5]) % 256 # 0
    <3>1. Turn(c) = [c EXCEPT !.in = Tail(s)]  BY <1>3, <2>7 DEF Turn, n
    <3> QED  BY <1>1, <2>2, <3>1 DEF TurnState
  <2>8. CASE /\ SubSeq(s, 1, 3) = <<0, 0, 255>>
             /\ <<n, s[5]>> \notin {<<0, 255>>, <<255, 0>>}
             /\ (n + s[5]) % 256 = 0
    <3>1. CASE Len(s) < n + 7
      <4>1. Turn(c) = [c EXCEPT !.stop = TRUE]  BY <1>3, <2>8, <3>1 DEF Turn, n
      <4> QED  BY <1>1, <4>1 DEF TurnState
    <3>2. CASE ~(Len(s) < n + 7)
      <4>1. Turn(c) = [c EXCEPT !.in = SubSeq(s, n + 8, Len(s)),
                                !.cmds = Append(c.cmds, SubSeq(s, 6, n + 5))]
        BY <1>3, <2>8, <3>2 DEF Turn, n
      <4>2. Append(c.cmds, SubSeq(s, 6, n + 5)) \in Seq(Seq(Byte))
        BY <1>1, <2>4, <3>2, AppendProperties
      <4> QED  BY <1>1, <2>4, <3>2, <4>1, <4>2 DEF TurnState
    <3> QED  BY <3>1, <3>2
  <2> QED  BY <2>5, <2>6, <2>7, <2>8
<1> QED  BY <1>2, <1>3

LEMMA TurnsUnfold ==
    ASSUME NEW s \in Seq(Byte)
    PROVE  /\ Turns(s) \in [0 .. Len(s) -> TurnState]
           /\ Turns(s)[0] = TurnStart(s)
           /\ \A i \in 1 .. Len(s) : Turns(s)[i] = Turn(Turns(s)[i - 1])
<1> DEFINE N == Len(s)
           h == Turns(s)
           g == [i \in 1 .. N |-> [v \in TurnState |-> Turn(v)]]
<1>1. N \in Nat /\ TurnStart(s) \in TurnState
  BY LenProperties, EmptySeq DEF TurnStart, TurnState
<1>2. \A i \in 1 .. N, v \in TurnState : Turn(v) \in TurnState
  BY TurnTyped
<1>3. g \in [1 .. N -> [TurnState -> TurnState]]  BY <1>2
<1>4. \A i \in 1 .. N, v \in TurnState : g[i][v] = Turn(v)  OBVIOUS
<1> HIDE DEF g, N
<1>5. PICK f \in [0 .. N -> TurnState] : Iterates(f, N, TurnStart(s), g)
  BY <1>1, <1>3, RecursionOnRange
<1>6. f[0] = TurnStart(s) /\ \A i \in 1 .. N : f[i] = g[i][f[i - 1]]
  BY <1>5 DEF Iterates
<1>7. /\ 0 \in 0 .. N
      /\ \A i \in 1 .. N : i - 1 \in 0 .. N /\ i \in 0 .. N /\ i # 0
      /\ \A i \in 0 .. N : i # 0 => i \in 1 .. N
  BY <1>1
<1>8. \A i \in 1 .. N : f[i] = Turn(f[i - 1])
  BY <1>4, <1>6, <1>7
<1>9. \A i \in 0 .. N : f[i] = IF i = 0 THEN TurnStart(s) ELSE Turn(f[i - 1])
  BY <1>6, <1>7, <1>8, Zenon
<1>10. f = [i \in 0 .. N |-> IF i = 0 THEN TurnStart(s) ELSE Turn(f[i - 1])]
  BY <1>6, <1>9
<1>11. h = [i \in 0 .. N |-> IF i = 0 THEN TurnStart(s) ELSE Turn(h[i - 1])]
  BY <1>10, Zenon DEF Turns, TurnStart, N
<1> HIDE DEF h
<1>12. \A i \in 0 .. N : h[i] = IF i = 0 THEN TurnStart(s) ELSE Turn(h[i - 1])
  BY <1>11, Zenon
<1>13. h[0] = TurnStart(s) /\ \A i \in 1 .. N : h[i] = Turn(h[i - 1])
  BY <1>7, <1>12, Zenon
<1>14. \A i \in 0 .. N : h[i] \in TurnState
  <2>1. h[0] \in TurnState  BY <1>1, <1>13
  <2>2. \A i \in 1 .. N : h[i - 1] \in TurnState => h[i] \in TurnState
    BY <1>2, <1>13, Zenon
  <2> QED  BY <1>1, <2>1, <2>2, RecursionTyped
<1>15. DOMAIN h = 0 .. N /\ h = [i \in 0 .. N |-> h[i]]
  BY <1>11, <1>12
<1> QED  BY <1>13, <1>14, <1>15 DEF h, N

LEMMA ByteAt == \A x \in Seq(Byte) : \A i \in 1 .. Len(x) : x[i] \in Byte /\ x[i] \in Nat
<1>1. Byte \subseteq Nat  BY DEF Byte
<1> QED  BY <1>1, ElementOfSeq

\* Two strings of bytes, one behind the other.
LEMMA Concats ==
    \A x, y \in Seq(Byte) :
        /\ x \o y \in Seq(Byte) /\ Len(x \o y) = Len(x) + Len(y)
        /\ Len(x) \in Nat /\ Len(y) \in Nat
        /\ \A i \in 1 .. Len(x) + Len(y) :
              (x \o y)[i] = IF i <= Len(x) THEN x[i] ELSE y[i - Len(x)]
<1> QED  BY ConcatProperties, LenProperties

LEMMA TotalTyped ==
    ASSUME NEW s \in Seq(Byte)
    PROVE  Total(s) \in Byte
<1> DEFINE N == Len(s)
           h == CHOOSE sum : sum = [i \in 0 .. N |-> IF i = 0 THEN 0 ELSE (sum[i - 1] + s[i]) % 256]
           g == [i \in 1 .. N |-> [v \in Byte |-> (v + s[i]) % 256]]
<1>1. N \in Nat /\ 0 \in Byte  BY LenProperties DEF Byte
<1>2. \A i \in 1 .. N, v \in Byte : (v + s[i]) % 256 \in Byte
  <2>1. \A i \in 1 .. N : s[i] \in Byte  BY ElementOfSeq
  <2>2. \A x, y \in Byte : (x + y) % 256 \in Byte  BY DEF Byte
  <2> QED  BY <2>1, <2>2
<1>3. g \in [1 .. N -> [Byte -> Byte]]  BY <1>2
<1>4. \A i \in 1 .. N, v \in Byte : g[i][v] = (v + s[i]) % 256  OBVIOUS
<1> HIDE DEF g, N
<1>5. PICK f \in [0 .. N -> Byte] : Iterates(f, N, 0, g)
  BY <1>1, <1>3, RecursionOnRange
<1>6. f[0] = 0 /\ \A i \in 1 .. N : f[i] = g[i][f[i - 1]]
  BY <1>5 DEF Iterates
<1>7. /\ 0 \in 0 .. N
      /\ \A i \in 1 .. N : i - 1 \in 0 .. N /\ i \in 0 .. N /\ i # 0
      /\ \A i \in 0 .. N : i # 0 => i \in 1 .. N
  BY <1>1
<1>8. \A i \in 1 .. N : f[i] = (f[i - 1] + s[i]) % 256
  BY <1>4, <1>6, <1>7
<1>9. \A i \in 0 .. N : f[i] = IF i = 0 THEN 0 ELSE (f[i - 1] + s[i]) % 256
  BY <1>6, <1>7, <1>8, Zenon
<1>10. f = [i \in 0 .. N |-> IF i = 0 THEN 0 ELSE (f[i - 1] + s[i]) % 256]
  BY <1>6, <1>9
<1>11. h = [i \in 0 .. N |-> IF i = 0 THEN 0 ELSE (h[i - 1] + s[i]) % 256]
  BY <1>10, Zenon DEF N
<1> HIDE DEF h
<1>12. \A i \in 0 .. N : h[i] = IF i = 0 THEN 0 ELSE (h[i - 1] + s[i]) % 256
  BY <1>11, Zenon
<1>13. h[0] = 0 /\ \A i \in 1 .. N : h[i] = (h[i - 1] + s[i]) % 256
  BY <1>7, <1>12, Zenon
<1>14. \A i \in 0 .. N : h[i] \in Byte
  <2>1. h[0] \in Byte  BY <1>1, <1>13
  <2>2. ASSUME NEW i \in 1 .. N, h[i - 1] \in Byte PROVE h[i] \in Byte
    <3>1. (h[i - 1] + s[i]) % 256 \in Byte  BY <1>2, <2>2
    <3> QED  BY <1>13, <3>1
  <2> QED  BY <1>1, <2>1, <2>2, RecursionTyped
<1>15. Total(s) = h[N]  BY DEF Total, h, N
<1> QED  BY <1>1, <1>14, <1>15

\* The bytes the reader skips: what acknowledgements and wake-ups leave behind.
Idle == {0, 85}

\* What each message is on the wire.
LEMMA WireFacts ==
    ASSUME NEW m \in Message
    PROVE  /\ Wire(m) \in Seq(Byte) /\ Len(Wire(m)) \in Nat /\ Len(Wire(m)) >= 3
           /\ m.kind \in {"ack", "nack", "wake", "frame"} /\ m.data \in Seq(Byte)
           /\ m.kind = "wake" => Wire(m) \in Seq(Idle)
           /\ m.kind # "wake" => /\ Len(Wire(m)) >= 6
                                 /\ Wire(m)[1] = 0 /\ Wire(m)[2] = 0 /\ Wire(m)[3] = 255
           /\ m.kind \in {"ack", "nack"} =>
                 /\ Len(Wire(m)) = 6 /\ Wire(m)[6] = 0
                 /\ <<Wire(m)[4], Wire(m)[5]>> \in {<<0, 255>>, <<255, 0>>}
           /\ m.kind = "frame" =>
                 /\ Len(m.data) \in 1 .. 255 /\ Len(Wire(m)) = Len(m.data) + 7
                 /\ Wire(m)[4] = Len(m.data) /\ Wire(m)[5] = 256 - Len(m.data)
                 /\ \A i \in 1 .. Len(m.data) : Wire(m)[5 + i] = m.data[i]
<1>1. /\ m.kind \in {"ack", "nack", "wake", "frame"} /\ m.data \in Seq(Byte)
      /\ m.kind = "frame" => Len(m.data) \in 1 .. 255
  BY PortAssumption
<1>2. CASE m.kind = "ack"
  <2>1. Wire(m) = <<0, 0, 255, 0, 255, 0>>  BY <1>2 DEF Wire
  <2>2. <<0, 0, 255, 0, 255, 0>> \in Seq(Byte)  BY DEF Byte
  <2> QED  BY <1>1, <1>2, <2>1, <2>2
<1>3. CASE m.kind = "nack"
  <2>1. Wire(m) = <<0, 0, 255, 255, 0, 0>>  BY <1>3 DEF Wire
  <2>2. <<0, 0, 255, 255, 0, 0>> \in Seq(Byte)  BY DEF Byte
  <2> QED  BY <1>1, <1>3, <2>1, <2>2
<1>4. CASE m.kind = "wake"
  <2>1. Wire(m) = <<85, 85, 0>>  BY <1>4 DEF Wire
  <2>2. <<85, 85, 0>> \in Seq(Byte) /\ <<85, 85, 0>> \in Seq(Idle)  BY DEF Byte, Idle
  <2> QED  BY <1>1, <1>4, <2>1, <2>2
<1>5. CASE m.kind = "frame"
  <2> DEFINE n == Len(m.data)
             a == <<0, 0, 255, n, 256 - n>>
             z == <<(256 - Total(m.data)) % 256, 0>>
             b == a \o m.data
  <2>1. Wire(m) = b \o z  BY <1>5 DEF Wire
  <2>2. n \in 1 .. 255  BY <1>1, <1>5
  <2>3. Total(m.data) \in Byte  BY <1>1, TotalTyped
  <2> HIDE DEF n
  <2>4. a \in Seq(Byte) /\ Len(a) = 5 /\ a[1] = 0 /\ a[2] = 0 /\ a[3] = 255
        /\ a[4] = n /\ a[5] = 256 - n
    BY <2>2 DEF Byte
  <2>5. z \in Seq(Byte) /\ Len(z) = 2
    <3> DEFINE t == Total(m.data)
    <3>1. t \in 0 .. 255  BY <2>3 DEF Byte
    <3> HIDE DEF t
    <3>2. (256 - t) % 256 \in 0 .. 255  BY <3>1
    <3>3. (256 - Total(m.data)) % 256 \in Byte  BY <3>2 DEF t, Byte
    <3>4. 0 \in Byte  BY DEF Byte
    <3> QED  BY <3>3, <3>4
  <2> HIDE DEF a, z
  <2>6. /\ b \in Seq(Byte) /\ Len(b) = n + 5
        /\ \A i \in 1 .. 5 : b[i] = a[i]
        /\ \A i \in 1 .. n : b[5 + i] = m.data[i]
    <3> DEFINE d == m.data
    <3>1. d \in Seq(Byte) /\ Len(d) = n  BY <1>1 DEF n
    <3> HIDE DEF d
    <3>2. /\ a \o d \in Seq(Byte) /\ Len(a \o d) = Len(a) + Len(d)
          /\ \A i \in 1 .. Len(a) + Len(d) :
                (a \o d)[i] = IF i <= Len(a) THEN a[i] ELSE d[i - Len(a)]
      <4>1. a \in Seq(Byte) /\ d \in Seq(Byte)  BY <2>4, <3>1
      <4> QED  BY <4>1, Concats, Zenon
    <3>3. b = a \o d  BY DEF d
    <3> HIDE DEF b
    <3>4. \A i \in 1 .. 5 : b[i] = a[i]  BY <2>2, <2>4, <3>1, <3>2, <3>3
    <3>5. \A i \in 1 .. n : b[5 + i] = d[i]  BY <2>2, <2>4, <3>1, <3>2, <3>3
    <3>6. b \in Seq(Byte) /\ Len(b) = n + 5  BY <2>2, <2>4, <3>1, <3>2, <3>3
    <3> QED  BY <3>4, <3>5, <3>6 DEF d
  <2> HIDE DEF b
  <2>7. /\ b \o z \in Seq(Byte) /\ Len(b \o z) = n + 7
        /\ \A i \in 1 .. n + 5 : (b \o z)[i] = b[i]
    <3>1. /\ b \o z \in Seq(Byte) /\ Len(b \o z) = Len(b) + Len(z)
          /\ \A i \in 1 .. Len(b) + Len(z) :
                (b \o z)[i] = IF i <= Len(b) THEN b[i] ELSE z[i - Len(b)]
      BY <2>5, <2>6, ConcatProperties
    <3> QED  BY <2>2, <2>5, <2>6, <3>1
  <2>8. \A i \in 1 .. 5 : (b \o z)[i] = a[i]
    <3>1. \A i \in 1 .. 5 : i \in 1 .. n + 5  BY <2>2
    <3> QED  BY <2>6, <2>7, <3>1, Zenon
  <2>9. \A i \in 1 .. n : (b \o z)[5 + i] = m.data[i]
    <3>1. \A i \in 1 .. n : 5 + i \in 1 .. n + 5  BY <2>2
    <3> QED  BY <2>6, <2>7, <3>1, Zenon
  <2>10. /\ Len(Wire(m)) >= 6 /\ Len(Wire(m)) \in Nat
         /\ Wire(m)[1] = 0 /\ Wire(m)[2] = 0 /\ Wire(m)[3] = 255
         /\ Wire(m)[4] = n /\ Wire(m)[5] = 256 - n
    <3>1. Len(Wire(m)) = n + 7 /\ \A i \in 1 .. 5 : Wire(m)[i] = a[i]
      BY <2>1, <2>7, <2>8
    <3>2. Len(Wire(m)) >= 6 /\ Len(Wire(m)) \in Nat  BY <2>2, <3>1
    <3>3. 1 \in 1 .. 5 /\ 2 \in 1 .. 5 /\ 3 \in 1 .. 5 /\ 4 \in 1 .. 5 /\ 5 \in 1 .. 5
      OBVIOUS
    <3> QED  BY <2>4, <3>1, <3>2, <3>3
  <2>11. Wire(m) \in Seq(Byte) /\ Len(Wire(m)) = n + 7  BY <2>1, <2>7
  <2>12. \A i \in 1 .. n : Wire(m)[5 + i] = m.data[i]  BY <2>1, <2>9
  <2>13. m.kind # "wake" /\ m.kind \notin {"ack", "nack"}  BY <1>5
  <2>14. Len(Wire(m)) >= 3  BY <2>10
  <2> QED  BY <1>1, <2>2, <2>10, <2>11, <2>12, <2>13, <2>14 DEF n
<1> QED  BY <1>1, <1>2, <1>3, <1>4, <1>5

-----------------------------------------------------------------------------
\* What a message makes the reader do.
Due(m) == IF m.kind = "frame" THEN <<m.data>> ELSE << >>

LEMMA FrameOnWire ==
    ASSUME NEW m \in Message, m.kind = "frame"
    PROVE  /\ Len(m.data) \in 1 .. 255 /\ Len(Wire(m)) = Len(m.data) + 7
           /\ Wire(m)[4] = Len(m.data) /\ Wire(m)[5] = 256 - Len(m.data)
           /\ m.data \in Seq(Byte) /\ \A i \in 1 .. Len(m.data) : Wire(m)[5 + i] = m.data[i]
<1>1. m.data \in Seq(Byte)  BY WireFacts
<1>2. m.kind = "frame" =>
         /\ Len(m.data) \in 1 .. 255 /\ Len(Wire(m)) = Len(m.data) + 7
         /\ Wire(m)[4] = Len(m.data) /\ Wire(m)[5] = 256 - Len(m.data)
         /\ \A i \in 1 .. Len(m.data) : Wire(m)[5 + i] = m.data[i]
  BY WireFacts
<1> QED  BY <1>1, <1>2

\* The bytes the reader has and those still to come, x: nothing it will answer, or
\* all of a message behind what it skips.
AheadOf(x, m, r) == m \in Message /\ m.kind # "wake" /\ r \in Seq(Idle) /\ x = r \o Wire(m)

Flight(x, owed) ==
    \/ x \in Seq(Idle) /\ owed = << >>
    \/ \E m, r : AheadOf(x, m, r) /\ owed = Due(m)

\* What a turn sees of a start.
LEMMA StartSeen ==
    ASSUME NEW x \in Seq(Byte), Len(x) >= 3
    PROVE  SubSeq(x, 1, 3) = <<0, 0, 255>> <=> (x[1] = 0 /\ x[2] = 0 /\ x[3] = 255)
<1> DEFINE p == SubSeq(x, 1, 3)
           q == <<0, 0, 255>>
<1>1. Len(x) \in Nat /\ 3 \in 0 .. Len(x)  BY LenProperties
<1>2. p \in Seq(Byte) /\ Len(p) = 3 /\ \A i \in 1 .. 3 : p[i] = x[i]
  BY <1>1, PrefixFacts
<1>3. q \in Seq(Byte) /\ Len(q) = 3 /\ q[1] = 0 /\ q[2] = 0 /\ q[3] = 255
  BY DEF Byte
<1> HIDE DEF p, q
<1>4. p[1] = x[1] /\ p[2] = x[2] /\ p[3] = x[3]  BY <1>2
<1>5. ASSUME x[1] = 0, x[2] = 0, x[3] = 255 PROVE p = q
  <2>1. \A i \in 1 .. Len(p) : p[i] = q[i]
    <3>1. \A i \in 1 .. 3 : i = 1 \/ i = 2 \/ i = 3  OBVIOUS
    <3> QED  BY <1>2, <1>3, <1>4, <1>5, <3>1
  <2> QED  BY <1>2, <1>3, <2>1, SeqEqual
<1>6. p = q <=> (x[1] = 0 /\ x[2] = 0 /\ x[3] = 255)  BY <1>3, <1>4, <1>5
<1> QED  BY <1>6 DEF p, q

LEMMA IdleBytes == Seq(Idle) \subseteq Seq(Byte)
<1>1. Idle \subseteq Byte  BY DEF Idle, Byte
<1> QED  BY <1>1

\* Nothing the reader skips holds a start, and none begins before the message's own.
LEMMA IdleHasNoStart ==
    ASSUME NEW x \in Seq(Byte), Len(x) >= 5,
           x \in Seq(Idle) \/ \E m, r : AheadOf(x, m, r) /\ r # << >>
    PROVE  x[3] # 255
<1>1. CASE x \in Seq(Idle)
  <2>1. 3 \in 1 .. Len(x)  BY LenProperties
  <2>2. x[3] \in Idle  BY <1>1, <2>1, ElementOfSeq
  <2> QED  BY <2>2 DEF Idle
<1>2. ASSUME NEW m, NEW r, AheadOf(x, m, r), r # << >> PROVE x[3] # 255
  <2> DEFINE w == Wire(m)
  <2>1. /\ w \in Seq(Byte) /\ Len(w) >= 3 /\ w[1] = 0 /\ w[2] = 0 /\ Len(w) \in Nat
        /\ r \in Seq(Idle) /\ r \in Seq(Byte) /\ x = r \o w
    BY <1>2, IdleBytes, WireFacts DEF AheadOf
  <2> HIDE DEF w
  <2>2. Len(r) \in Nat /\ Len(r) >= 1  BY <1>2, <2>1, LenProperties, EmptySeq
  <2>3. \A i \in 1 .. Len(r) + Len(w) : x[i] = IF i <= Len(r) THEN r[i] ELSE w[i - Len(r)]
    BY <2>1, Concats
  <2>4. x[3] = IF 3 <= Len(r) THEN r[3] ELSE w[3 - Len(r)]  BY <2>1, <2>2, <2>3
  <2>5. CASE 3 <= Len(r)
    <3>1. r[3] \in Idle
      <4>1. 3 \in 1 .. Len(r)  BY <2>2, <2>5
      <4> QED  BY <2>1, <4>1, ElementOfSeq
    <3> QED  BY <2>4, <2>5, <3>1 DEF Idle
  <2>6. CASE ~(3 <= Len(r))
    <3>1. 3 - Len(r) = 1 \/ 3 - Len(r) = 2  BY <2>2, <2>6
    <3> QED  BY <2>1, <2>4, <2>6, <3>1
  <2> QED  BY <2>5, <2>6
<1> QED  BY <1>1, <1>2


\* What is behind the first n bytes of the input and the line.
Rest(x, n) == SubSeq(x, n + 1, Len(x))

LEMMA Rests ==
    \A x \in Seq(Byte) : \A n \in 0 .. Len(x) :
        /\ Rest(x, n) \in Seq(Byte) /\ Len(Rest(x, n)) = Len(x) - n
        /\ \A i \in 1 .. Len(x) - n : Rest(x, n)[i] = x[n + i]
<1> QED  BY SuffixFacts DEF Rest

LEMMA RestConcat ==
    \A x, y \in Seq(Byte) : \A n \in 0 .. Len(x) : Rest(x, n) \o y = Rest(x \o y, n)
<1> QED  BY DropConcat DEF Rest

\* A turn that finds no start lets go of a byte, and of no message's.
LEMMA DropKeeps ==
    ASSUME NEW x \in Seq(Byte), Len(x) >= 5, NEW o, Flight(x, o),
           ~(x[1] = 0 /\ x[2] = 0 /\ x[3] = 255)
    PROVE  Flight(Rest(x, 1), o)
<1>1. Len(x) \in Nat /\ 1 \in 0 .. Len(x)  BY LenProperties
<1>2. CASE x \in Seq(Idle) /\ o = << >>
  <2>1. Rest(x, 1) \in Seq(Idle)  BY <1>1, <1>2, SuffixFacts DEF Rest
  <2> QED  BY <1>2, <2>1 DEF Flight
<1>3. ASSUME NEW m, NEW r, AheadOf(x, m, r), o = Due(m) PROVE Flight(Rest(x, 1), o)
  <2> DEFINE w == Wire(m)
  <2>1. /\ w \in Seq(Byte) /\ w[1] = 0 /\ w[2] = 0 /\ w[3] = 255
        /\ m \in Message /\ m.kind # "wake"
        /\ r \in Seq(Idle) /\ r \in Seq(Byte) /\ x = r \o w
    BY <1>3, IdleBytes, WireFacts DEF AheadOf
  <2> HIDE DEF w
  <2>2. r # << >>
    <3>1. << >> \o w = w  BY <2>1, ConcatEmptySeq
    <3> QED  BY <2>1, <3>1
  <2>3. Len(r) \in Nat /\ 1 \in 0 .. Len(r)  BY <2>1, <2>2, EmptySeq, LenProperties
  <2>4. Rest(r, 1) \in Seq(Idle)  BY <2>1, <2>3, SuffixFacts DEF Rest
  <2>5. Rest(r, 1) \o w = Rest(x, 1)
    <3>1. r \in Seq(Byte) /\ w \in Seq(Byte)  BY <2>1
    <3>2. \A k \in 0 .. Len(r) : Rest(r, k) \o w = Rest(r \o w, k)
      BY <3>1, RestConcat, Zenon
    <3> QED  BY <2>1, <2>3, <3>2
  <2>6. AheadOf(Rest(x, 1), m, Rest(r, 1))
    BY <2>1, <2>4, <2>5 DEF AheadOf, w
  <2> QED  BY <1>3, <2>6 DEF Flight
<1> QED  BY <1>2, <1>3 DEF Flight

\* A start found is a message's own, and the message is at hand.
LEMMA StartIsMessage ==
    ASSUME NEW x \in Seq(Byte), Len(x) >= 5, NEW o, Flight(x, o),
           x[1] = 0 /\ x[2] = 0 /\ x[3] = 255
    PROVE  \E m \in Message : m.kind \in {"ack", "nack", "frame"} /\ x = Wire(m) /\ o = Due(m)
<1>1. x \notin Seq(Idle)  BY IdleHasNoStart
<1>2. PICK m, r : AheadOf(x, m, r) /\ o = Due(m)  BY <1>1 DEF Flight
<1>3. r = << >>  BY <1>2, IdleHasNoStart
<1>4. m \in Message /\ m.kind \in {"ack", "nack", "frame"} /\ x = r \o Wire(m) /\ Wire(m) \in Seq(Byte)
  BY <1>2, WireFacts DEF AheadOf
<1>5. x = Wire(m)  BY <1>3, <1>4, ConcatEmptySeq
<1> QED  BY <1>2, <1>4, <1>5

\* The turns c have passed on, or have yet to, what was owed when they began.
Kept(c, l, owed) ==
    /\ \E o \in Seq(Seq(Byte)) : Flight(c.in \o l, o) /\ c.cmds \o o = owed
    /\ c.stop => l # << >>

LEMMA TurnKeeps ==
    ASSUME NEW c \in TurnState, NEW l \in Seq(Byte), NEW owed, Kept(c, l, owed)
    PROVE  Kept(Turn(c), l, owed)
<1> DEFINE s == c.in
           n == s[4]
           x == s \o l
<1>1. s \in Seq(Byte) /\ Len(s) \in Nat /\ c.cmds \in Seq(Seq(Byte)) /\ c.stop \in BOOLEAN
      /\ c = [in |-> c.in, cmds |-> c.cmds, stop |-> c.stop]
  BY LenProperties DEF TurnState
<1>2. PICK o \in Seq(Seq(Byte)) : Flight(x, o) /\ c.cmds \o o = owed
  BY DEF Kept
<1>3. CASE c.stop \/ Len(s) < 5
  <2>1. Turn(c) = c  BY <1>3 DEF Turn
  <2> QED  BY <2>1
<1>4. CASE ~(c.stop \/ Len(s) < 5)
  <2>1. /\ x \in Seq(Byte) /\ Len(x) = Len(s) + Len(l) /\ Len(l) \in Nat /\ Len(x) >= 5
        /\ Len(s) >= 5 /\ \A i \in 1 .. Len(s) : x[i] = s[i]
    <3>1. Len(s) >= 5  BY <1>1, <1>4
    <3> QED  BY <1>1, <3>1, Concats
  <2>2. x[1] = s[1] /\ x[2] = s[2] /\ x[3] = s[3] /\ x[4] = s[4] /\ x[5] = s[5]
    <3>1. \A i \in 1 .. 5 : i \in 1 .. Len(s)  BY <1>1, <2>1
    <3>2. \A i \in 1 .. 5 : x[i] = s[i]  BY <2>1, <3>1
    <3> HIDE DEF x, s
    <3> QED  BY <3>2
  <2>3. ASSUME NEW k \in 0 .. Len(s) PROVE SubSeq(s, k + 1, Len(s)) \o l = Rest(x, k)
    <3> HIDE DEF s
    <3> QED  BY <1>1, RestConcat, Zenon DEF Rest
  <2>4. SubSeq(s, 1, 3) = <<0, 0, 255>> <=> (x[1] = 0 /\ x[2] = 0 /\ x[3] = 255)
    BY <1>1, <2>1, <2>2, StartSeen
  <2>5. CASE SubSeq(s, 1, 3) # <<0, 0, 255>>
    <3>1. Turn(c) = [c EXCEPT !.in = Tail(s)]  BY <1>4, <2>5 DEF Turn
    <3>2. Tail(s) = SubSeq(s, 1 + 1, Len(s))
      <4>1. s # << >>  BY <1>1, <2>1, EmptySeq
      <4> QED  BY <1>1, <4>1, TailIsSubSeq
    <3>3. Tail(s) \o l = Rest(x, 1)
      <4>1. 1 \in 0 .. Len(s)  BY <1>1, <2>1
      <4> HIDE DEF s, x
      <4> QED  BY <2>3, <3>2, <4>1, Zenon
    <3>4. Flight(Rest(x, 1), o)  BY <1>2, <2>1, <2>4, <2>5, DropKeeps
    <3>5. Turn(c).in = Tail(s) /\ Turn(c).cmds = c.cmds /\ Turn(c).stop = c.stop
      BY <1>1, <3>1
    <3> QED  BY <1>2, <1>4, <3>3, <3>4, <3>5 DEF Kept
  <2>6. CASE SubSeq(s, 1, 3) = <<0, 0, 255>>
    <3>1. PICK m \in Message :
             m.kind \in {"ack", "nack", "frame"} /\ x = Wire(m) /\ o = Due(m)
      BY <1>2, <2>1, <2>4, <2>6, StartIsMessage
    <3>2. CASE m.kind \in {"ack", "nack"}
      <4>1. Len(x) = 6 /\ x[6] = 0 /\ <<n, s[5]>> \in {<<0, 255>>, <<255, 0>>}
        <5> HIDE DEF s, x
        <5>1. /\ Len(Wire(m)) = 6 /\ Wire(m)[6] = 0
              /\ <<Wire(m)[4], Wire(m)[5]>> \in {<<0, 255>>, <<255, 0>>}
          BY <3>2, WireFacts, Zenon
        <5> QED  BY <2>2, <3>1, <5>1
      <4>2. Turn(c) = [c EXCEPT !.in = SubSeq(s, Skip(s) + 1, Len(s))]
        BY <1>4, <2>6, <4>1 DEF Turn
      <4>3. Skip(s) \in 0 .. Len(s) /\ Skip(s) \in {5, 6}  BY <1>1, <2>1 DEF Skip
      <4>4. SubSeq(s, Skip(s) + 1, Len(s)) \o l = Rest(x, Skip(s))  BY <2>3, <4>3
      <4>5. Rest(x, Skip(s)) \in Seq(Idle)
        <5> DEFINE k == Skip(s)
                   y == Rest(x, k)
        <5>1. k \in 0 .. Len(x) /\ k \in {5, 6} /\ Len(x) \in Nat  BY <1>1, <2>1, <4>3
        <5> HIDE DEF k, x
        <5>2. y \in Seq(Byte) /\ Len(y) = 6 - k /\ \A i \in 1 .. 6 - k : y[i] = x[k + i]
          <6>1. /\ y \in Seq(Byte) /\ Len(y) = Len(x) - k
                /\ \A i \in 1 .. Len(x) - k : y[i] = x[k + i]
            BY <2>1, <5>1, Rests, Zenon
          <6> QED  BY <4>1, <6>1
        <5> HIDE DEF y
        <5>3. \A i \in 1 .. Len(y) : y[i] \in Idle
          <6>1. \A i \in 1 .. 6 - k : k + i = 6  BY <5>1
          <6> QED  BY <4>1, <5>2, <6>1 DEF Idle
        <5>4. y \in Seq(Idle)
          <6>1. y \in [1 .. Len(y) -> Idle] /\ Len(y) \in Nat
            BY <5>2, <5>3, LenProperties
          <6> QED  BY <6>1
        <5> QED  BY <5>4 DEF y, k
      <4>6. Turn(c).in = SubSeq(s, Skip(s) + 1, Len(s)) /\ Turn(c).cmds = c.cmds
            /\ Turn(c).stop = c.stop
        BY <1>1, <4>2
      <4>7. o = << >>  BY <3>1, <3>2 DEF Due
      <4> QED  BY <1>2, <1>4, <4>4, <4>5, <4>6, <4>7 DEF Kept, Flight
    <3>3. CASE m.kind = "frame"
      <4>1. /\ n \in 1 .. 255 /\ s[5] = 256 - n /\ Len(x) = n + 7 /\ n = Len(m.data)
            /\ m.data \in Seq(Byte) /\ \A i \in 1 .. n : x[5 + i] = m.data[i]
        <5> HIDE DEF s, x
        <5>1. /\ Len(m.data) \in 1 .. 255 /\ Len(Wire(m)) = Len(m.data) + 7
              /\ Wire(m)[4] = Len(m.data) /\ Wire(m)[5] = 256 - Len(m.data)
              /\ m.data \in Seq(Byte) /\ \A i \in 1 .. Len(m.data) : Wire(m)[5 + i] = m.data[i]
          BY <3>3, FrameOnWire, Zenon
        <5>2. n = Len(m.data)  BY <2>2, <3>1, <5>1
        <5> QED  BY <2>2, <3>1, <5>1, <5>2
      <4>2. <<n, s[5]>> \notin {<<0, 255>>, <<255, 0>>} /\ (n + s[5]) % 256 = 0
        <5> DEFINE t == s[5]
        <5>1. n \in 1 .. 255 /\ t = 256 - n  BY <4>1
        <5> HIDE DEF n, t
        <5>2. <<n, t>> \notin {<<0, 255>>, <<255, 0>>} /\ n + t = 256  BY <5>1
        <5>3. 256 % 256 = 0  OBVIOUS
        <5> QED  BY <5>2, <5>3 DEF t
      <4>3. CASE Len(s) < n + 7
        <5>1. Turn(c) = [c EXCEPT !.stop = TRUE]  BY <1>4, <2>6, <4>2, <4>3 DEF Turn
        <5>2. Turn(c).in = s /\ Turn(c).cmds = c.cmds /\ Turn(c).stop = TRUE
          BY <1>1, <5>1
        <5>3. l # << >>
          <6>1. Len(l) # 0
            <7> HIDE DEF s, x, n
            <7> QED  BY <1>1, <2>1, <4>1, <4>3
          <6> QED  BY <6>1, EmptySeq
        <5> QED  BY <1>2, <5>2, <5>3 DEF Kept
      <4>4. CASE ~(Len(s) < n + 7)
        <5>1. Turn(c) = [c EXCEPT !.in = SubSeq(s, n + 8, Len(s)),
                                  !.cmds = Append(c.cmds, SubSeq(s, 6, n + 5))]
          BY <1>4, <2>6, <4>2, <4>4 DEF Turn
        <5>2. Turn(c).in = SubSeq(s, n + 8, Len(s))
              /\ Turn(c).cmds = Append(c.cmds, SubSeq(s, 6, n + 5)) /\ Turn(c).stop = c.stop
          BY <1>1, <5>1
        <5>3. Len(s) = n + 7 /\ Len(l) = 0
          <6> HIDE DEF s, x, n
          <6> QED  BY <1>1, <2>1, <4>1, <4>4
        <5>4. SubSeq(s, n + 8, Len(s)) \o l \in Seq(Idle)
          <6>1. n + 7 \in 0 .. Len(s) /\ (n + 7) + 1 = n + 8  BY <4>1, <5>3
          <6>2. SubSeq(s, n + 8, Len(s)) \in Seq(Byte) /\ Len(SubSeq(s, n + 8, Len(s))) = 0
            <7>1. /\ SubSeq(s, (n + 7) + 1, Len(s)) \in Seq(Byte)
                  /\ Len(SubSeq(s, (n + 7) + 1, Len(s))) = Len(s) - (n + 7)
              BY <1>1, <6>1, SuffixFacts
            <7> QED  BY <5>3, <6>1, <7>1
          <6>3. SubSeq(s, n + 8, Len(s)) = << >> /\ l = << >>  BY <5>3, <6>2, EmptySeq
          <6>4. << >> \in Seq(Idle) /\ << >> \o << >> = << >>  BY EmptySeq, ConcatEmptySeq
          <6> QED  BY <6>3, <6>4
        <5>5. SubSeq(s, 6, n + 5) = m.data
          <6> DEFINE y == SubSeq(s, 6, n + 5)
                     d == m.data
          <6>1. \A i \in 1 .. n : s[5 + i] = d[i]
            <7>1. \A i \in 1 .. n : 5 + i \in 1 .. Len(s)  BY <4>1, <5>3
            <7> QED  BY <2>1, <4>1, <7>1
          <6>2. \A i \in 6 .. n + 5 : s[i] \in Byte
            <7>1. \A i \in 6 .. n + 5 : i \in 1 .. Len(s)  BY <4>1, <5>3
            <7> QED  BY <1>1, <7>1, ElementOfSeq
          <6>3. 6 \in Int /\ n + 5 \in Int /\ n \in Nat  BY <4>1
          <6> HIDE DEF n, s
          <6>4. /\ y \in Seq(Byte)
                /\ Len(y) = IF 6 <= n + 5 THEN (n + 5) - 6 + 1 ELSE 0
                /\ \A i \in 1 .. (n + 5) - 6 + 1 : y[i] = s[6 + i - 1]
            BY <6>2, <6>3, SubSeqProperties
          <6>5. d \in Seq(Byte) /\ Len(d) = n  BY <4>1
          <6> HIDE DEF y, d
          <6>6. Len(y) = n /\ \A i \in 1 .. n : y[i] = s[5 + i]  BY <4>1, <6>4
          <6>7. y = d  BY <6>1, <6>4, <6>5, <6>6, SeqEqual
          <6> QED  BY <6>7 DEF y, d
        <5>6. Append(c.cmds, m.data) \o << >> = owed
          <6>1. c.cmds \o <<m.data>> = owed  BY <1>2, <3>1, <3>3 DEF Due
          <6>2. Append(c.cmds, m.data) = c.cmds \o <<m.data>>
                /\ Append(c.cmds, m.data) \in Seq(Seq(Byte))
            BY <1>1, <4>1, AppendIsConcat, AppendProperties
          <6> QED  BY <6>1, <6>2, ConcatEmptySeq
        <5>7. << >> \in Seq(Seq(Byte))  BY EmptySeq
        <5> QED  BY <1>4, <5>2, <5>4, <5>5, <5>6, <5>7 DEF Kept, Flight
      <4> QED  BY <4>3, <4>4
    <3> QED  BY <3>1, <3>2, <3>3
  <2> QED  BY <2>5, <2>6
<1> QED  BY <1>3, <1>4


\* A turn that does not end the loop takes bytes out of the input.
LEMMA TurnShrinks ==
    ASSUME NEW c \in TurnState
    PROVE  /\ Len(Turn(c).in) <= Len(c.in)
           /\ Turn(c).stop \/ Len(Turn(c).in) < 5 \/ Len(Turn(c).in) < Len(c.in)
<1> DEFINE s == c.in
           n == s[4]
<1>1. s \in Seq(Byte) /\ Len(s) \in Nat /\ c.cmds \in Seq(Seq(Byte)) /\ c.stop \in BOOLEAN
      /\ c = [in |-> c.in, cmds |-> c.cmds, stop |-> c.stop]
  BY LenProperties DEF TurnState
<1>2. CASE c.stop \/ Len(s) < 5
  <2>1. Turn(c) = c  BY <1>2 DEF Turn
  <2> QED  BY <1>1, <1>2, <2>1
<1>3. CASE ~(c.stop \/ Len(s) < 5)
  <2>1. Len(s) >= 5 /\ n \in Nat
    <3>1. 4 \in 1 .. Len(s) /\ Len(s) >= 5  BY <1>1, <1>3
    <3>2. s[4] \in Nat  BY <1>1, <3>1, ByteAt
    <3> QED  BY <3>1, <3>2
  <2>2. ASSUME NEW k \in 1 .. Len(s), Turn(c).in = SubSeq(s, k + 1, Len(s))
        PROVE  Len(Turn(c).in) < Len(s)
    <3>1. Len(SubSeq(s, k + 1, Len(s))) = Len(s) - k
      <4>1. k \in 0 .. Len(s)  BY <1>1
      <4> HIDE DEF s
      <4> QED  BY <1>1, <4>1, SuffixFacts
    <3> HIDE DEF s
    <3> QED  BY <1>1, <2>2, <3>1
  <2>3. Tail(s) = SubSeq(s, 1 + 1, Len(s))
    <3>1. s # << >>  BY <1>1, <2>1, EmptySeq
    <3> QED  BY <1>1, <3>1, TailIsSubSeq
  <2>4. 1 \in 1 .. Len(s) /\ Skip(s) \in 1 .. Len(s)  BY <1>1, <2>1 DEF Skip
  <2> HIDE DEF n
  <2>5. CASE SubSeq(s, 1, 3) # <<0, 0, 255>>
    <3>1. Turn(c) = [c EXCEPT !.in = Tail(s)]  BY <1>3, <2>5 DEF Turn
    <3>2. Turn(c).in = SubSeq(s, 1 + 1, Len(s))  BY <1>1, <2>3, <3>1
    <3>3. Len(Turn(c).in) < Len(s)  BY <2>2, <2>4, <3>2
    <3>4. Len(Turn(c).in) \in Nat  BY TurnTyped, LenProperties DEF TurnState
    <3> QED  BY <1>1, <3>3, <3>4
  <2>6. CASE SubSeq(s, 1, 3) = <<0, 0, 255>> /\ <<n, s[5]>> \in {<<0, 255>>, <<255, 0>>}
    <3>1. Turn(c) = [c EXCEPT !.in = SubSeq(s, Skip(s) + 1, Len(s))]
      BY <1>3, <2>6 DEF Turn, n
    <3>2. Turn(c).in = SubSeq(s, Skip(s) + 1, Len(s))  BY <1>1, <3>1
    <3>3. Len(Turn(c).in) < Len(s)  BY <2>2, <2>4, <3>2
    <3>4. Len(Turn(c).in) \in Nat  BY TurnTyped, LenProperties DEF TurnState
    <3> QED  BY <1>1, <3>3, <3>4
  <2>7. CASE /\ SubSeq(s, 1, 3) = <<0, 0, 255>>
             /\ <<n, s[5]>> \notin {<<0, 255>>, <<255, 0>>}
             /\ (n + s[5]) % 256 # 0
    <3>1. Turn(c) = [c EXCEPT !.in = Tail(s)]  BY <1>3, <2>7 DEF Turn, n
    <3>2. Turn(c).in = SubSeq(s, 1 + 1, Len(s))  BY <1>1, <2>3, <3>1
    <3>3. Len(Turn(c).in) < Len(s)  BY <2>2, <2>4, <3>2
    <3>4. Len(Turn(c).in) \in Nat  BY TurnTyped, LenProperties DEF TurnState
    <3> QED  BY <1>1, <3>3, <3>4
  <2>8. CASE /\ SubSeq(s, 1, 3) = <<0, 0, 255>>
             /\ <<n, s[5]>> \notin {<<0, 255>>, <<255, 0>>}
             /\ (n + s[5]) % 256 = 0
    <3>1. CASE Len(s) < n + 7
      <4>1. Turn(c) = [c EXCEPT !.stop = TRUE]  BY <1>3, <2>8, <3>1 DEF Turn, n
      <4>2. Turn(c).stop /\ Turn(c).in = s  BY <1>1, <4>1
      <4> QED  BY <1>1, <4>2
    <3>2. CASE ~(Len(s) < n + 7)
      <4>1. Turn(c) = [c EXCEPT !.in = SubSeq(s, n + 8, Len(s)),
                                !.cmds = Append(c.cmds, SubSeq(s, 6, n + 5))]
        BY <1>3, <2>8, <3>2 DEF Turn, n
      <4>2. n + 7 \in 1 .. Len(s) /\ (n + 7) + 1 = n + 8  BY <1>1, <2>1, <3>2
      <4>3. Turn(c).in = SubSeq(s, (n + 7) + 1, Len(s))
        <5>1. Turn(c).in = SubSeq(s, n + 8, Len(s))  BY <1>1, <4>1
        <5> QED  BY <4>2, <5>1
      <4>4. Len(Turn(c).in) < Len(s)  BY <2>2, <4>2, <4>3
      <4>5. Len(Turn(c).in) \in Nat  BY TurnTyped, LenProperties DEF TurnState
      <4> QED  BY <1>1, <4>4, <4>5
    <3> QED  BY <3>1, <3>2
  <2> QED  BY <2>5, <2>6, <2>7, <2>8
<1> QED  BY <1>2, <1>3

\* What consume() leaves behind of input s, with l still to come.
LEMMA ConsumedKeeps ==
    ASSUME NEW s \in Seq(Byte), NEW l \in Seq(Byte), NEW o \in Seq(Seq(Byte)),
           Flight(s \o l, o)
    PROVE  /\ Consumed(s) \in TurnState /\ Kept(Consumed(s), l, o)
           /\ Len(Consumed(s).in) <= Len(s)
           /\ Consumed(s).stop \/ Len(Consumed(s).in) < 5
<1> DEFINE N == Len(s)
           h == Turns(s)
           Here(k) == /\ Kept(h[k], l, o) /\ Len(h[k].in) <= N
                      /\ h[k].stop \/ Len(h[k].in) < 5 \/ Len(h[k].in) + k <= N
           T == {k \in 0 .. N : Here(k)}
<1>1. N \in Nat  BY LenProperties
<1>2. /\ \A k \in 0 .. N : h[k] \in TurnState
      /\ h[0] = TurnStart(s)
      /\ \A k \in 1 .. N : h[k] = Turn(h[k - 1])
  BY TurnsUnfold
<1> HIDE DEF h
<1>3. 0 \in T
  <2>1. h[0].in = s /\ h[0].cmds = << >> /\ ~h[0].stop  BY <1>2 DEF TurnStart
  <2>2. << >> \o o = o  BY ConcatEmptySeq
  <2>3. Kept(h[0], l, o)  BY <2>1, <2>2 DEF Kept
  <2>4. Len(h[0].in) <= N /\ Len(h[0].in) + 0 <= N  BY <1>1, <2>1
  <2> QED  BY <1>1, <2>3, <2>4
<1>4. ASSUME NEW k \in 0 .. N - 1, k \in T PROVE k + 1 \in T
  <2>1. k \in 0 .. N /\ k + 1 \in 1 .. N /\ (k + 1) - 1 = k /\ k + 1 \in 0 .. N  BY <1>1
  <2> DEFINE c == h[k]
             d == h[k + 1]
  <2>2. c \in TurnState /\ d \in TurnState /\ d = Turn(c)
    BY <1>2, <2>1
  <2>3. Here(k)  BY <1>4
  <2> HIDE DEF c, d
  <2>4. Kept(d, l, o)  BY <2>2, <2>3, TurnKeeps DEF c
  <2>5. /\ Len(d.in) <= Len(c.in)
        /\ d.stop \/ Len(d.in) < 5 \/ Len(d.in) < Len(c.in)
        /\ Len(d.in) \in Nat /\ Len(c.in) \in Nat
    BY <2>2, TurnShrinks, LenProperties DEF TurnState
  <2>6. c.stop => d.stop
    <3>1. ASSUME c.stop PROVE d.stop
      <4>1. Turn(c) = c  BY <3>1 DEF Turn
      <4> QED  BY <2>2, <3>1, <4>1
    <3> QED  BY <3>1
  <2>7. Len(d.in) <= N
    <3>1. Len(c.in) <= N  BY <2>3 DEF c
    <3> QED  BY <1>1, <2>5, <3>1
  <2>8. d.stop \/ Len(d.in) < 5 \/ Len(d.in) + (k + 1) <= N
    <3>1. c.stop \/ Len(c.in) < 5 \/ Len(c.in) + k <= N  BY <2>3 DEF c
    <3> DEFINE x == Len(d.in)
               y == Len(c.in)
    <3>2. x \in Nat /\ y \in Nat /\ x <= y /\ (d.stop \/ x < 5 \/ x < y)
          /\ (c.stop \/ y < 5 \/ y + k <= N)
      BY <2>5, <3>1
    <3> HIDE DEF x, y
    <3>3. (x < 5 \/ x < y) /\ (y < 5 \/ y + k <= N) => x < 5 \/ x + (k + 1) <= N
      BY <1>1, <3>2
    <3> QED  BY <2>6, <3>2, <3>3 DEF x
  <2> QED  BY <2>1, <2>4, <2>7, <2>8 DEF d
<1>5. N \in T
  <2> HIDE DEF T, N
  <2>1. 0 .. N \subseteq T  BY <1>1, <1>3, <1>4, RangeInduction
  <2> QED  BY <1>1, <2>1
<1>6. N \in 0 .. N /\ Here(N)  BY <1>1, <1>5
<1>7. Consumed(s) = h[N]  BY DEF Consumed, h
<1>8. Len(h[N].in) \in Nat  BY <1>2, <1>6, LenProperties DEF TurnState
<1> HIDE DEF N
<1>9. h[N].stop \/ Len(h[N].in) < 5  BY <1>1, <1>6, <1>8
<1> QED  BY <1>2, <1>6, <1>7, <1>9 DEF N


\* Stream s is made of replies after reply a up to reply b, as OfReplies says.
Chain(s, a, b) == \A i \in 1 .. Len(s) : s[i][1] \in a + 1 .. b /\ Follows(s, i)

LEMMA ChainConcat ==
    ASSUME NEW s \in Seq(Answer), NEW u \in Seq(Answer), NEW a \in Nat, NEW b \in Nat,
           NEW c \in Nat, a <= b, b <= c, Chain(s, a, b), Chain(u, b, c)
    PROVE  Chain(s \o u, a, c)
<1> DEFINE v == s \o u
           n == Len(s)
<1>1. n \in Nat /\ Len(u) \in Nat  BY LenProperties
<1>2. /\ v \in Seq(Answer) /\ Len(v) = n + Len(u)
      /\ \A i \in 1 .. n : v[i] = s[i]
      /\ \A i \in 1 .. Len(u) : v[n + i] = u[i]
  BY ConcatProperties
<1> HIDE DEF v, n
<1>3. ASSUME NEW i \in 1 .. n PROVE v[i][1] \in a + 1 .. c /\ Follows(v, i)
  <2>1. s[i][1] \in a + 1 .. b /\ Follows(s, i)  BY <1>3 DEF Chain, n
  <2>2. v[i] = s[i] /\ (i > 1 => v[i - 1] = s[i - 1])  BY <1>1, <1>2
  <2>3. Follows(v, i)  BY <2>1, <2>2 DEF Follows
  <2> QED  BY <2>1, <2>2, <2>3
<1>4. ASSUME NEW i \in 1 .. Len(u) PROVE v[n + i][1] \in a + 1 .. c /\ Follows(v, n + i)
  <2>1. u[i][1] \in b + 1 .. c /\ Follows(u, i)  BY <1>4 DEF Chain
  <2>2. v[n + i] = u[i]  BY <1>2
  <2>3. CASE i > 1
    <3>1. v[(n + i) - 1] = u[i - 1]
      <4>1. i - 1 \in 1 .. Len(u) /\ n + (i - 1) = (n + i) - 1  BY <1>1, <2>3
      <4> QED  BY <1>2, <4>1
    <3>2. n + i > 1  BY <1>1, <2>3
    <3>3. Follows(v, n + i)  BY <2>1, <2>2, <2>3, <3>1, <3>2 DEF Follows
    <3> QED  BY <2>1, <2>2, <3>3
  <2>4. CASE i = 1
    <3>1. u[i][2] = 1  BY <2>1, <2>4 DEF Follows
    <3>2. n + i > 1 => v[(n + i) - 1][1] < v[n + i][1]
      <4> SUFFICES ASSUME n + i > 1 PROVE v[(n + i) - 1][1] < v[n + i][1]
        OBVIOUS
      <4>1. (n + i) - 1 = n /\ n \in 1 .. n  BY <1>1, <2>4
      <4>2. v[n][1] \in a + 1 .. b  BY <1>2, <4>1 DEF Chain, n
      <4> QED  BY <2>1, <2>2, <4>1, <4>2
    <3>3. Follows(v, n + i)  BY <2>2, <3>1, <3>2 DEF Follows
    <3> QED  BY <2>1, <2>2, <3>3
  <2> QED  BY <2>3, <2>4
<1>5. ASSUME NEW i \in 1 .. Len(v) PROVE v[i][1] \in a + 1 .. c /\ Follows(v, i)
  <2>1. i \in 1 .. n \/ (i - n \in 1 .. Len(u) /\ n + (i - n) = i)  BY <1>1, <1>2
  <2>2. CASE i \in 1 .. n  BY <1>3, <2>2
  <2>3. CASE i - n \in 1 .. Len(u) /\ n + (i - n) = i
    <3>1. v[n + (i - n)][1] \in a + 1 .. c /\ Follows(v, n + (i - n))  BY <1>4, <2>3
    <3> QED  BY <2>3, <3>1
  <2> QED  BY <2>1, <2>2, <2>3
<1> QED  BY <1>5 DEF Chain, v

LEMMA ChainPrefix ==
    ASSUME NEW s \in Seq(Answer), NEW n \in 0 .. Len(s), NEW a, NEW b, Chain(s, a, b)
    PROVE  Chain(SubSeq(s, 1, n), a, b)
<1> DEFINE v == SubSeq(s, 1, n)
<1>1. Len(v) = n /\ (\A i \in 1 .. n : v[i] = s[i]) /\ Len(s) \in Nat
  BY PrefixFacts, LenProperties
<1> HIDE DEF v
<1>2. ASSUME NEW i \in 1 .. n PROVE v[i][1] \in a + 1 .. b /\ Follows(v, i)
  <2>1. s[i][1] \in a + 1 .. b /\ Follows(s, i)  BY <1>1 DEF Chain
  <2>2. v[i] = s[i] /\ (i > 1 => v[i - 1] = s[i - 1])  BY <1>1
  <2>3. Follows(v, i)  BY <2>1, <2>2 DEF Follows
  <2> QED  BY <2>1, <2>2, <2>3
<1> QED  BY <1>1, <1>2 DEF Chain, v

LEMMA ReplyChain == \A i \in Nat : Chain(Reply(i + 1), i, i + 1) /\ Len(Reply(i + 1)) = ReplyLen
<1> SUFFICES ASSUME NEW i \in Nat
             PROVE  Chain(Reply(i + 1), i, i + 1) /\ Len(Reply(i + 1)) = ReplyLen
  OBVIOUS
<1>1. ReplyLen \in Nat  BY PortAssumption
<1>2. Len(Reply(i + 1)) = ReplyLen /\ \A j \in 1 .. ReplyLen : Reply(i + 1)[j] = <<i + 1, j>>
  BY <1>1 DEF Reply
<1>3. ASSUME NEW j \in 1 .. ReplyLen PROVE Follows(Reply(i + 1), j)
  <2>1. Reply(i + 1)[j] = <<i + 1, j>> /\ (j > 1 => Reply(i + 1)[j - 1] = <<i + 1, j - 1>>)
    BY <1>1, <1>2
  <2> QED  BY <1>1, <2>1 DEF Follows
<1> QED  BY <1>2, <1>3 DEF Chain

\* The replies to n commands after the first k are such a stream, and the first i of
\* them, put together, are the beginning of it and end with all of reply k + i.
LEMMA AnswersChain ==
    ASSUME NEW k \in Nat, NEW n \in Nat
    PROVE  Chain(Answers(k, n)[n], k, k + n)
<1> DEFINE a == Answers(k, n)
           T == {i \in 0 .. n : Chain(a[i], k, k + i)}
<1>1. /\ a \in [0 .. n -> Seq(Answer)] /\ a[0] = << >>
      /\ \A i \in 1 .. n : a[i] = a[i - 1] \o Reply(k + i)
  BY AnswersUnfold
<1> HIDE DEF a
<1>2. 0 \in T
  <2>1. Len(a[0]) = 0  BY <1>1, EmptySeq
  <2> QED  BY <2>1 DEF Chain
<1>3. ASSUME NEW i \in 0 .. n - 1, i \in T PROVE i + 1 \in T
  <2>1. /\ i + 1 \in 1 .. n /\ i + 1 \in 0 .. n /\ (i + 1) - 1 = i /\ k + (i + 1) = (k + i) + 1
        /\ i \in 0 .. n /\ k + i \in Nat /\ (k + i) + 1 \in Nat /\ k <= k + i
        /\ k + i <= (k + i) + 1
    OBVIOUS
  <2>2. a[i + 1] = a[i] \o Reply((k + i) + 1)  BY <1>1, <2>1
  <2>3. a[i] \in Seq(Answer) /\ Reply((k + i) + 1) \in Seq(Answer)  BY <1>1, <2>1, ReplyTyped
  <2>4. Chain(a[i], k, k + i) /\ Chain(Reply((k + i) + 1), k + i, (k + i) + 1)
    BY <1>3, <2>1, ReplyChain
  <2>5. Chain(a[i] \o Reply((k + i) + 1), k, (k + i) + 1)
    BY <2>1, <2>3, <2>4, ChainConcat
  <2> QED  BY <2>1, <2>2, <2>5
<1>4. 0 .. n \subseteq T
  <2> HIDE DEF T
  <2> QED  BY <1>2, <1>3, RangeInduction
<1>5. n \in T  BY <1>4
<1> QED  BY <1>5 DEF a

LEMMA AnswersWhole ==
    ASSUME NEW k \in Nat, NEW n \in Nat, NEW i \in 1 .. n, NEW j \in 1 .. ReplyLen
    PROVE  \E q \in 1 .. Len(Answers(k, n)[i]) :
              q <= Len(Answers(k, n)[n]) /\ Answers(k, n)[n][q] = <<k + i, j>>
<1> DEFINE a == Answers(k, n)
           e == [l \in 1 .. n |-> Reply(k + l)]
<1>1. /\ a \in [0 .. n -> Seq(Answer)]
      /\ \A l \in 1 .. n : a[l] = a[l - 1] \o Reply(k + l)
  BY AnswersUnfold
<1>2. e \in [1 .. n -> Seq(Answer)] /\ \A l \in 1 .. n : e[l] = Reply(k + l)
  <2>1. \A l \in 1 .. n : k + l \in Nat  OBVIOUS
  <2> QED  BY <2>1, ReplyTyped
<1> HIDE DEF a, e
<1>3. Joins(a, e, n)  BY <1>1, <1>2 DEF Joins
<1>4. i \in 0 .. n /\ n \in i .. n /\ i - 1 \in 0 .. n /\ k + i \in Nat /\ i \in 1 .. n  OBVIOUS
<1>5. Begins(a[i], a[n])
  <2>1. \A m \in i .. n : Begins(a[i], a[m])  BY <1>1, <1>2, <1>3, <1>4, PiecesGrow
  <2> QED  BY <1>4, <2>1
<1> DEFINE b == a[i - 1]
           r == Reply(k + i)
<1>6. b \in Seq(Answer) /\ r \in Seq(Answer) /\ a[i] = b \o r /\ a[n] \in Seq(Answer)
  <2>1. a[i] = a[i - 1] \o Reply(k + i)  BY <1>1
  <2>2. a[i - 1] \in Seq(Answer) /\ a[n] \in Seq(Answer)
    <3>1. n \in 0 .. n  OBVIOUS
    <3> QED  BY <1>1, <1>4, <3>1
  <2>3. Reply(k + i) \in Seq(Answer)  BY <1>4, ReplyTyped
  <2> QED  BY <2>1, <2>2, <2>3
<1>7. ReplyLen \in Nat /\ Len(r) = ReplyLen /\ r[j] = <<k + i, j>>
  BY PortAssumption DEF Reply
<1> HIDE DEF b, r
<1>8. /\ Len(b \o r) = Len(b) + Len(r) /\ (b \o r)[Len(b) + j] = r[j]
      /\ Len(b) \in Nat /\ Len(a[n]) \in Nat
  <2>1. Len(b) \in Nat /\ Len(a[n]) \in Nat /\ Len(r) \in Nat  BY <1>6, LenProperties
  <2>2. /\ Len(b \o r) = Len(b) + Len(r)
        /\ \A l \in 1 .. Len(b) + Len(r) :
              (b \o r)[l] = IF l <= Len(b) THEN b[l] ELSE r[l - Len(b)]
    BY <1>6, ConcatProperties
  <2>3. /\ Len(b) + j \in 1 .. Len(b) + Len(r) /\ ~(Len(b) + j <= Len(b))
        /\ (Len(b) + j) - Len(b) = j
    BY <1>7, <2>1
  <2> QED  BY <2>1, <2>2, <2>3
<1> DEFINE q == Len(b) + j
<1>9. q \in 1 .. Len(a[i]) /\ a[i][q] = <<k + i, j>>
  BY <1>6, <1>7, <1>8
<1> HIDE DEF q
<1>10. q <= Len(a[n]) /\ a[n][q] = <<k + i, j>>
  <2>1. Len(a[i]) \in Nat  BY <1>6, <1>7, <1>8
  <2> QED  BY <1>5, <1>8, <1>9, <2>1 DEF Begins
<1> QED  BY <1>9, <1>10 DEF a

LEMMA AnswersTyped ==
    \A k, n \in Nat : \A i \in 0 .. n :
        Answers(k, n)[i] \in Seq(Answer) /\ Len(Answers(k, n)[i]) \in Nat
<1> SUFFICES ASSUME NEW k \in Nat, NEW n \in Nat, NEW i \in 0 .. n
             PROVE  Answers(k, n)[i] \in Seq(Answer) /\ Len(Answers(k, n)[i]) \in Nat
  OBVIOUS
<1>1. Answers(k, n) \in [0 .. n -> Seq(Answer)]  BY AnswersUnfold
<1>2. Answers(k, n)[i] \in Seq(Answer)  BY <1>1
<1> QED  BY <1>2, LenProperties

\* The replies c that do not fit the ring are cut; the others are in the stream whole.
Fitting(s, n, c) ==
    Chain(s, 0, n) /\ \A k \in 1 .. n : k \in c \/ Whole(s, k)

LEMMA FittingIs ==
    ASSUME NEW s \in Seq(Answer), NEW n, NEW c
    PROVE  Fitting(s, n, c) <=> /\ OfReplies(s, n)
                                /\ \A k \in 1 .. n : k \in c \/ Whole(s, k)
<1>1. DOMAIN s = 1 .. Len(s)  BY LenProperties
<1>2. OfReplies(s, n) <=> Chain(s, 0, n)  BY <1>1 DEF OfReplies, Chain
<1> QED  BY <1>2 DEF Fitting

\* The stream and the cut replies when n replies come that find room for z bytes.
Grown(s, k, n, z) ==
    s \o SubSeq(Answers(k, n)[n], 1, Least(Len(Answers(k, n)[n]), z))
GrownCut(c, k, n, z) ==
    c \cup {k + i : i \in {b \in 1 .. n : Len(Answers(k, n)[b]) > z}}

\* More replies come behind a stream, as far as there is room for them.
LEMMA FittingGrows ==
    ASSUME NEW s \in Seq(Answer), NEW k \in Nat, NEW n \in Nat, NEW c, NEW z \in Nat,
           Fitting(s, k, c)
    PROVE  Fitting(Grown(s, k, n, z), k + n, GrownCut(c, k, n, z))
<1> DEFINE a == Answers(k, n)
           m == Least(Len(a[n]), z)
           u == SubSeq(a[n], 1, m)
           v == s \o u
           d == c \cup {k + i : i \in {b \in 1 .. n : Len(a[b]) > z}}
<1>1. \A i \in 0 .. n : a[i] \in Seq(Answer) /\ Len(a[i]) \in Nat  BY AnswersTyped
<1>2. Chain(a[n], k, k + n)  BY AnswersChain
<1>3. \A i \in 1 .. n, j \in 1 .. ReplyLen :
         \E q \in 1 .. Len(a[i]) : q <= Len(a[n]) /\ a[n][q] = <<k + i, j>>
  BY AnswersWhole
<1> HIDE DEF a
<1>4. n \in 0 .. n /\ a[n] \in Seq(Answer) /\ Len(a[n]) \in Nat  BY <1>1
<1>5. m \in 0 .. Len(a[n]) /\ (m = Len(a[n]) \/ m = z)  BY <1>4 DEF Least
<1> HIDE DEF m
<1>6. /\ u \in Seq(Answer) /\ Len(u) = m
      /\ \A i \in 1 .. m : u[i] = a[n][i]
  BY <1>4, <1>5, PrefixFacts
<1>7. Chain(u, k, k + n)  BY <1>2, <1>4, <1>5, ChainPrefix
<1> HIDE DEF u
<1>8. Chain(v, 0, k + n)
  <2>1. Chain(s, 0, k)  BY DEF Fitting
  <2>2. 0 \in Nat /\ k + n \in Nat /\ 0 <= k /\ k <= k + n  OBVIOUS
  <2> QED  BY <1>6, <1>7, <2>1, <2>2, ChainConcat
<1>9. /\ v \in Seq(Answer) /\ Len(v) = Len(s) + m /\ Len(s) \in Nat /\ m \in Nat
      /\ DOMAIN v = 1 .. Len(v) /\ DOMAIN s = 1 .. Len(s)
      /\ \A i \in 1 .. Len(s) : v[i] = s[i]
      /\ \A i \in 1 .. m : v[Len(s) + i] = u[i]
  <2>1. Len(s) \in Nat /\ Len(u) \in Nat /\ m \in Nat  BY <1>5, <1>6, LenProperties
  <2>2. /\ v \in Seq(Answer) /\ Len(v) = Len(s) + Len(u)
        /\ \A l \in 1 .. Len(s) + Len(u) :
              v[l] = IF l <= Len(s) THEN s[l] ELSE u[l - Len(s)]
    BY <1>6, ConcatProperties
  <2> HIDE DEF v
  <2>3. DOMAIN v = 1 .. Len(v) /\ DOMAIN s = 1 .. Len(s)  BY <2>2, LenProperties
  <2>4. \A i \in 1 .. Len(s) : v[i] = s[i]  BY <2>1, <2>2
  <2>5. ASSUME NEW i \in 1 .. m PROVE v[Len(s) + i] = u[i]
    <3>1. /\ Len(s) + i \in 1 .. Len(s) + Len(u) /\ ~(Len(s) + i <= Len(s))
          /\ (Len(s) + i) - Len(s) = i
      BY <1>6, <2>1
    <3> QED  BY <2>2, <3>1
  <2> QED  BY <1>6, <2>1, <2>2, <2>3, <2>4, <2>5
<1> HIDE DEF v
<1>10. ASSUME NEW i \in 1 .. k, i \notin d PROVE Whole(v, i)
  <2>1. i \notin c  BY <1>10
  <2>2. Whole(s, i)  BY <2>1 DEF Fitting
  <2>3. ASSUME NEW j \in 1 .. ReplyLen PROVE \E q \in DOMAIN v : v[q] = <<i, j>>
    <3>1. PICK q \in DOMAIN s : s[q] = <<i, j>>  BY <2>2 DEF Whole
    <3>2. q \in 1 .. Len(s) /\ q \in DOMAIN v  BY <1>9
    <3> QED  BY <1>9, <3>1, <3>2
  <2> QED  BY <2>3 DEF Whole
<1>11. ASSUME NEW i \in 1 .. n, k + i \notin d PROVE Whole(v, k + i)
  <2>1. ~(Len(a[i]) > z)
    <3>1. Len(a[i]) > z => k + i \in d  OBVIOUS
    <3> HIDE DEF d
    <3> QED  BY <1>11, <3>1
  <2>2. Len(a[i]) <= z /\ Len(a[i]) \in Nat
    <3>1. i \in 0 .. n  OBVIOUS
    <3>2. Len(a[i]) \in Nat  BY <1>1, <3>1
    <3> QED  BY <2>1, <3>2
  <2>3. ASSUME NEW j \in 1 .. ReplyLen PROVE \E q \in DOMAIN v : v[q] = <<k + i, j>>
    <3>1. PICK q \in 1 .. Len(a[i]) : q <= Len(a[n]) /\ a[n][q] = <<k + i, j>>
      BY <1>3
    <3>2. q \in 1 .. m  BY <1>4, <1>5, <2>2, <3>1
    <3>3. v[Len(s) + q] = <<k + i, j>>  BY <1>6, <1>9, <3>1, <3>2
    <3>4. Len(s) + q \in DOMAIN v  BY <1>9, <3>2
    <3> QED  BY <3>3, <3>4
  <2> QED  BY <2>3 DEF Whole
<1>12. ASSUME NEW l \in 1 .. k + n PROVE l \in d \/ Whole(v, l)
  <2> HIDE DEF d
  <2>1. CASE l \in 1 .. k  BY <1>10, <2>1
  <2>2. CASE l \notin 1 .. k
    <3> DEFINE i == l - k
    <3>1. i \in 1 .. n /\ k + i = l  BY <2>2
    <3> HIDE DEF i
    <3>2. k + i \in d \/ Whole(v, k + i)  BY <1>11, <3>1
    <3> QED  BY <3>1, <3>2
  <2> QED  BY <2>1, <2>2
<1>13. Fitting(v, k + n, d)  BY <1>8, <1>12, Zenon DEF Fitting
<1> QED  BY <1>13 DEF v, u, m, a, d, Grown, GrownCut

-----------------------------------------------------------------------------
PortTyped ==
    /\ line \in Seq(Byte) /\ in \in Seq(Byte)
    /\ sent \in Seq(Seq(Byte)) /\ done \in Seq(Seq(Byte))
    /\ out \in Seq(Answer) /\ Len(out) <= OutRoom /\ taken \in Seq(Answer)
    /\ read.len \in Nat

\* What was sent is what was done and what the bytes under way still ask for; there
\* is room for them, and no message waits behind a line that is empty.
Tracked ==
    /\ \E o \in Seq(Seq(Byte)) : Flight(in \o line, o) /\ sent = done \o o
    /\ Len(in) + Len(line) <= FIFO
    /\ line = << >> => Len(in) < 5

PortInv == PortTyped /\ Tracked /\ RepliesInOrder

\* A read that ends moves bytes from the ring to the game; one that does not moves none.
LEMMA ReadMoves ==
    ASSUME PortTyped, NEW r, r.len \in Nat, NEW o \in Seq(Answer), Len(o) <= OutRoom,
           NEW l, NEW q,
           FinishRead(r, o, l, q)
    PROVE  /\ out' \in Seq(Answer) /\ Len(out') <= OutRoom /\ taken' \in Seq(Answer)
           /\ read'.len \in Nat /\ taken' \o out' = taken \o o
<1>1. taken \in Seq(Answer) /\ Len(o) \in Nat /\ OutRoom \in Nat
  BY LenProperties, PortAssumption DEF PortTyped
<1>2. CASE Ends(r, o, l)
  <2> DEFINE n == Least(r.len, Len(o))
             x == SubSeq(o, 1, n)
             y == SubSeq(o, n + 1, Len(o))
  <2>1. n \in 0 .. Len(o)  BY <1>1 DEF Least
  <2>2. out' = y /\ taken' = taken \o x /\ read' = NoRead
    BY <1>2 DEF FinishRead
  <2> HIDE DEF n
  <2>3. x \in Seq(Answer) /\ y \in Seq(Answer) /\ Len(y) = Len(o) - n
    BY <2>1, PrefixFacts, SuffixFacts
  <2>6. Len(y) <= OutRoom
    <3> HIDE DEF y
    <3> QED  BY <1>1, <2>1, <2>3
  <2>4. (taken \o x) \o y = taken \o o  BY <1>1, <2>1, MoveConcat
  <2>5. taken \o x \in Seq(Answer)
    <3> HIDE DEF x
    <3> QED  BY <1>1, <2>3, ConcatProperties
  <2> QED  BY <2>2, <2>3, <2>4, <2>5, <2>6 DEF NoRead
<1>3. CASE ~Ends(r, o, l)
  <2>1. out' = o /\ read' = r /\ taken' = taken  BY <1>3 DEF FinishRead
  <2> QED  BY <1>1, <2>1
<1> QED  BY <1>2, <1>3

\* With nothing left to write, the reader holds nothing back.
LEMMA LineEmpty ==
    ASSUME PortInv, line = << >>
    PROVE  in \in Seq(Idle) /\ sent = done
<1>1. PICK o \in Seq(Seq(Byte)) : Flight(in \o line, o) /\ sent = done \o o
  BY DEF PortInv, Tracked
<1>2. in \in Seq(Byte) /\ done \in Seq(Seq(Byte)) /\ Len(in) < 5 /\ Len(in) \in Nat
  BY LenProperties DEF PortInv, PortTyped, Tracked
<1>3. in \o line = in  BY <1>2, ConcatEmptySeq
<1>4. ASSUME NEW m, NEW r, AheadOf(in, m, r) PROVE FALSE
  <2> DEFINE w == Wire(m)
  <2>1. w \in Seq(Byte) /\ Len(w) >= 6 /\ r \in Seq(Byte) /\ in = r \o w
    BY <1>4, WireFacts, IdleBytes DEF AheadOf
  <2> HIDE DEF w
  <2>2. Len(in) = Len(r) + Len(w) /\ Len(r) \in Nat /\ Len(w) \in Nat  BY <2>1, Concats
  <2> QED  BY <1>2, <2>1, <2>2
<1>5. in \in Seq(Idle) /\ o = << >>  BY <1>1, <1>3, <1>4 DEF Flight
<1>6. done \o << >> = done  BY <1>2, ConcatEmptySeq
<1> QED  BY <1>1, <1>5, <1>6


LEMMA AnyAssociate ==
    ASSUME NEW S
    PROVE  \A u, v, w \in Seq(S) : (u \o v) \o w = u \o (v \o w)
<1> QED  BY ConcatAssociative

LEMMA Associates ==
    /\ \A u, v, w \in Seq(Seq(Byte)) : (u \o v) \o w = u \o (v \o w)
    /\ \A u, v, w \in Seq(Answer) : (u \o v) \o w = u \o (v \o w)
<1>1. \A u, v, w \in Seq(Seq(Byte)) : (u \o v) \o w = u \o (v \o w)
  <2> DEFINE Payload == Seq(Byte)
  <2> HIDE DEF Payload
  <2>1. \A u, v, w \in Seq(Payload) : (u \o v) \o w = u \o (v \o w)  BY AnyAssociate
  <2> QED  BY <2>1 DEF Payload
<1>2. \A u, v, w \in Seq(Answer) : (u \o v) \o w = u \o (v \o w)
  BY AnyAssociate
<1> QED  BY <1>1, <1>2

LEMMA PortStart == CardInit => PortInv
<1> SUFFICES ASSUME CardInit PROVE PortInv
  OBVIOUS
<1>1. /\ line = << >> /\ in = << >> /\ sent = << >> /\ done = << >>
      /\ out = << >> /\ cut = {} /\ taken = << >> /\ read = NoRead
  BY DEF CardInit
<1>2. PortTyped
  <2>1. << >> \in Seq(Byte) /\ << >> \in Seq(Seq(Byte)) /\ << >> \in Seq(Answer)
    BY EmptySeq
  <2>2. read.len \in Nat  BY <1>1 DEF NoRead
  <2>3. Len(out) <= OutRoom
    <3>1. Len(out) = 0 /\ OutRoom \in Nat  BY <1>1, EmptySeq, PortAssumption
    <3> QED  BY <3>1
  <2> QED  BY <1>1, <2>1, <2>2, <2>3 DEF PortTyped
<1>3. Tracked
  <2>1. << >> \o << >> = << >> /\ << >> \in Seq(Idle) /\ << >> \in Seq(Seq(Byte))
    BY EmptySeq, ConcatEmptySeq
  <2>2. Flight(in \o line, << >>) /\ sent = done \o << >>  BY <1>1, <2>1 DEF Flight
  <2>3. Len(in) = 0 /\ Len(line) = 0 /\ FIFO >= 0 /\ FIFO \in Nat
    BY <1>1, EmptySeq, PortAssumption
  <2>4. \E o \in Seq(Seq(Byte)) : Flight(in \o line, o) /\ sent = done \o o
    BY <2>1, <2>2, Zenon
  <2>5. Len(in) + Len(line) <= FIFO /\ Len(in) < 5  BY <2>3
  <2> QED  BY <2>4, <2>5, Zenon DEF Tracked
<1>4. RepliesInOrder
  <2> DEFINE e == << >>
  <2>1. e \o e = e /\ Len(e) = 0 /\ e \in Seq(Answer)  BY EmptySeq, ConcatEmptySeq
  <2> HIDE DEF e
  <2>4. out = e /\ taken = e /\ Len(done) = 0 /\ cut = {}
    BY <1>1, EmptySeq DEF e
  <2>5. taken \o out = e /\ out \in Seq(Answer) /\ taken \in Seq(Answer)  BY <2>1, <2>4
  <2>6. OfReplies(e, 0)
    <3>1. DOMAIN e = 1 .. 0  BY <2>1, LenProperties
    <3> QED  BY <3>1 DEF OfReplies
  <2>7. OfReplies(taken \o out, Len(done))
    BY <2>4, <2>5, <2>6
  <2>8. \A k \in 1 .. Len(done) : k \in cut \/ Whole(taken \o out, k)
    BY <2>4
  <2> QED  BY <2>7, <2>8 DEF RepliesInOrder
<1> QED  BY <1>2, <1>3, <1>4 DEF PortInv

\* The game starts a message when it has written the last one.
LEMMA SayKeeps ==
    ASSUME PortInv, NEW m \in Message, Say(m)
    PROVE  PortInv'
<1> DEFINE w == Wire(m)
<1>1. /\ line = << >> /\ line' = w /\ in' = in /\ done' = done /\ out' = out
      /\ cut' = cut /\ taken' = taken /\ read' = read
      /\ sent' = IF m.kind = "frame" THEN Append(sent, m.data) ELSE sent
  BY DEF Say
<1>2. /\ w \in Seq(Byte) /\ Len(w) \in Nat /\ Len(w) >= 3 /\ m.data \in Seq(Byte)
      /\ m.kind \in {"ack", "nack", "wake", "frame"}
      /\ m.kind = "wake" => w \in Seq(Idle)
      /\ 4 + Len(w) <= FIFO
  BY WireFacts, RoomAssumption
<1>3. in \in Seq(Idle) /\ sent = done  BY <1>1, LineEmpty
<1>4. PortTyped'
  <2>1. sent' \in Seq(Seq(Byte))
    <3>1. sent \in Seq(Seq(Byte))  BY DEF PortInv, PortTyped
    <3>2. Append(sent, m.data) \in Seq(Seq(Byte))  BY <1>2, <3>1, AppendProperties
    <3> QED  BY <1>1, <3>1, <3>2
  <2> QED  BY <1>1, <1>2, <2>1 DEF PortInv, PortTyped
<1> HIDE DEF w
<1>5. Due(m) \in Seq(Seq(Byte))
  <2>1. << >> \in Seq(Seq(Byte)) /\ <<m.data>> \in Seq(Seq(Byte))  BY <1>2, EmptySeq
  <2> QED  BY <2>1 DEF Due
<1>6. sent' = done' \o Due(m)
  <2>1. done \in Seq(Seq(Byte))  BY DEF PortInv, PortTyped
  <2>2. CASE m.kind = "frame"
    <3>1. Append(sent, m.data) = sent \o <<m.data>>
      BY <1>2, <1>3, <2>1, AppendIsConcat
    <3> QED  BY <1>1, <1>3, <2>2, <3>1 DEF Due
  <2>3. CASE m.kind # "frame"
    <3>1. done \o << >> = done  BY <2>1, ConcatEmptySeq
    <3> QED  BY <1>1, <1>3, <2>3, <3>1 DEF Due
  <2> QED  BY <2>2, <2>3
<1>7. Flight(in' \o line', Due(m))
  <2>1. CASE m.kind = "wake"
    <3>1. in \o w \in Seq(Idle)  BY <1>2, <1>3, <2>1, ConcatProperties
    <3> QED  BY <1>1, <2>1, <3>1 DEF Flight, Due
  <2>2. CASE m.kind # "wake"
    <3>1. AheadOf(in \o w, m, in)  BY <1>3, <2>2 DEF AheadOf, w
    <3> QED  BY <1>1, <3>1 DEF Flight
  <2> QED  BY <2>1, <2>2
<1>8. Len(in') + Len(line') <= FIFO /\ line' # << >>
  <2>1. Len(in) \in Nat /\ Len(in) < 5
    BY <1>1, LenProperties DEF PortInv, PortTyped, Tracked
  <2>2. FIFO \in Nat  BY PortAssumption
  <2>3. Len(in) + Len(w) <= FIFO  BY <1>2, <2>1, <2>2
  <2>4. w # << >>  BY <1>2, EmptySeq
  <2> QED  BY <1>1, <2>3, <2>4
<1>9. Tracked'  BY <1>5, <1>6, <1>7, <1>8 DEF Tracked
<1>10. RepliesInOrder'
  <2>1. (taken \o out)' = taken \o out /\ Len(done)' = Len(done) /\ cut' = cut  BY <1>1
  <2> QED  BY <2>1, Zenon DEF PortInv, RepliesInOrder, OfReplies, Whole, Follows
<1> QED  BY <1>4, <1>9, <1>10 DEF PortInv

\* The game writes some of it, and the reader does what it has of it whole.
LEMMA WriteKeeps ==
    ASSUME PortInv, NEW n \in 1 .. Len(line), Write(n)
    PROVE  PortInv'
<1> DEFINE m == Least(n, Len(line))
           x == SubSeq(line, 1, m)
           l == SubSeq(line, m + 1, Len(line))
           s == in \o x
           c == Consumed(s)
           k == Len(done)
           j == Len(c.cmds)
           a == Answers(k, j)
           p == Pushed(out, a[j])
<1>1. /\ line \in Seq(Byte) /\ in \in Seq(Byte) /\ done \in Seq(Seq(Byte))
      /\ out \in Seq(Answer) /\ taken \in Seq(Answer) /\ read.len \in Nat
      /\ Len(out) \in Nat /\ OutRoom \in Nat /\ Len(out) <= OutRoom
      /\ Len(line) \in Nat /\ Len(in) \in Nat /\ k \in Nat
      /\ Len(in) + Len(line) <= FIFO /\ FIFO \in Nat
  BY LenProperties, PortAssumption DEF PortInv, PortTyped, Tracked
<1>2. m = n /\ m \in 0 .. Len(line) /\ Least(m, FIFO - Len(in)) = m
  BY <1>1 DEF Least
<1>3. /\ line' = l /\ in' = c.in /\ done' = done \o c.cmds /\ sent' = sent
      /\ FinishRead(read, p, late, apc)
      /\ cut' = cut \cup {k + i : i \in {b \in 1 .. j : Len(out) + Len(a[b]) > OutRoom}}
  BY <1>2 DEF Write
<1> HIDE DEF m
<1>4. x \in Seq(Byte) /\ l \in Seq(Byte) /\ Len(x) = m /\ Len(l) = Len(line) - m
  BY <1>1, <1>2, PrefixFacts, SuffixFacts
<1>5. s \o l = in \o line  BY <1>1, <1>2, MoveConcat
<1> HIDE DEF x, l
<1>6. s \in Seq(Byte) /\ Len(s) = Len(in) + m  BY <1>1, <1>4, Concats
<1> HIDE DEF s
<1>7. PICK o \in Seq(Seq(Byte)) : Flight(in \o line, o) /\ sent = done \o o
  BY DEF PortInv, Tracked
<1>8. /\ c \in TurnState /\ Kept(c, l, o) /\ Len(c.in) <= Len(s)
      /\ c.stop \/ Len(c.in) < 5
  BY <1>4, <1>5, <1>6, <1>7, ConsumedKeeps
<1> HIDE DEF c
<1>9. c.in \in Seq(Byte) /\ c.cmds \in Seq(Seq(Byte)) /\ j \in Nat /\ Len(c.in) \in Nat
  BY <1>8, LenProperties DEF TurnState
<1>10. done' \in Seq(Seq(Byte)) /\ Len(done') = k + j
  BY <1>1, <1>3, <1>9, ConcatProperties
<1> DEFINE z == OutRoom - Len(out)
           pre == SubSeq(a[j], 1, Least(Len(a[j]), z))
<1>a. /\ z \in Nat
      /\ \A i \in 0 .. j : Len(a[i]) \in Nat
      /\ a[j] \in Seq(Answer)
  <2>1. \A i \in 0 .. j : a[i] \in Seq(Answer) /\ Len(a[i]) \in Nat
    BY <1>1, <1>9, AnswersTyped
  <2> HIDE DEF a
  <2> QED  BY <1>1, <1>9, <2>1
<1>b. pre \in Seq(Answer) /\ Len(pre) <= z /\ Len(pre) \in Nat
  <2> HIDE DEF a, z
  <2>1. Least(Len(a[j]), z) \in 0 .. Len(a[j]) /\ Least(Len(a[j]), z) <= z
    BY <1>9, <1>a DEF Least
  <2>2. pre \in Seq(Answer) /\ Len(pre) = Least(Len(a[j]), z)
    BY <1>a, <2>1, PrefixFacts
  <2> QED  BY <2>1, <2>2, LenProperties
<1>c. p = out \o pre  BY DEF Pushed
<1>11. p \in Seq(Answer) /\ Len(p) <= OutRoom
  <2> HIDE DEF pre, p
  <2>1. p \in Seq(Answer) /\ Len(p) = Len(out) + Len(pre)
    BY <1>1, <1>b, <1>c, ConcatProperties
  <2> QED  BY <1>1, <1>b, <2>1
<1> HIDE DEF p
<1>12. /\ out' \in Seq(Answer) /\ Len(out') <= OutRoom /\ taken' \in Seq(Answer)
       /\ read'.len \in Nat /\ taken' \o out' = taken \o p
  BY <1>1, <1>3, <1>11, ReadMoves DEF PortInv
<1>13. PortTyped'
  BY <1>3, <1>4, <1>9, <1>10, <1>12 DEF PortInv, PortTyped
<1>14. Tracked'
  <2>1. PICK q \in Seq(Seq(Byte)) : Flight(c.in \o l, q) /\ c.cmds \o q = o
    BY <1>8 DEF Kept
  <2>2. sent' = done' \o q
    <3>1. (done \o c.cmds) \o q = done \o (c.cmds \o q)
      BY <1>1, <1>9, <2>1, Associates
    <3> QED  BY <1>3, <1>7, <2>1, <3>1
  <2>3. Len(in') + Len(line') <= FIFO
    <3>1. Len(in') <= Len(in) + m /\ Len(line') = Len(line) - m /\ Len(in') \in Nat
      BY <1>3, <1>4, <1>6, <1>8, <1>9
    <3> QED  BY <1>1, <1>2, <3>1
  <2>4. line' = << >> => Len(in') < 5
    <3>1. c.stop => l # << >>  BY <1>8 DEF Kept
    <3> QED  BY <1>3, <1>8, <3>1
  <2> QED  BY <1>3, <2>1, <2>2, <2>3, <2>4 DEF Tracked
<1>15. RepliesInOrder'
  <2> DEFINE s0 == taken \o out
             d == cut \cup {k + i : i \in {b \in 1 .. j : Len(a[b]) > z}}
  <2>1. s0 \in Seq(Answer) /\ Fitting(s0, k, cut)
    <3>1. s0 \in Seq(Answer)  BY <1>1, ConcatProperties
    <3>2. OfReplies(s0, k) /\ \A i \in 1 .. k : i \in cut \/ Whole(s0, i)
      BY DEF PortInv, RepliesInOrder
    <3> HIDE DEF s0, k
    <3>3. Fitting(s0, k, cut)  BY <3>1, <3>2, FittingIs
    <3> QED  BY <3>1, <3>3
  <2>2. cut' = d
    <3>1. \A b \in 1 .. j : Len(out) + Len(a[b]) > OutRoom <=> Len(a[b]) > z
      <4> HIDE DEF a
      <4> QED  BY <1>1, <1>a, <1>9
    <3> HIDE DEF a, z
    <3> QED  BY <1>3, <3>1
  <2>3. Fitting(s0 \o pre, k + j, d)
    <3>1. s0 \in Seq(Answer) /\ k \in Nat /\ j \in Nat /\ z \in Nat /\ Fitting(s0, k, cut)
      BY <1>1, <1>9, <1>a, <2>1
    <3> HIDE DEF s0, z, k, j
    <3>2. Fitting(Grown(s0, k, j, z), k + j, GrownCut(cut, k, j, z))
      BY <3>1, FittingGrows
    <3> QED  BY <3>2 DEF Grown, GrownCut
  <2> HIDE DEF pre, d
  <2>4. (taken \o out) \o pre = taken \o (out \o pre)
    BY <1>1, <1>b, Associates
  <2>5. taken' \o out' = s0 \o pre  BY <1>12, <1>c, <2>4
  <2>6. Fitting(s0 \o pre, k + j, cut')  BY <2>2, <2>3
  <2> HIDE DEF s0
  <2>7. Fitting(taken' \o out', Len(done'), cut')  BY <1>10, <2>5, <2>6, Zenon
  <2>8. taken' \o out' \in Seq(Answer)  BY <1>12, ConcatProperties
  <2>9. /\ OfReplies(taken' \o out', Len(done'))
        /\ \A i \in 1 .. Len(done') : i \in cut' \/ Whole(taken' \o out', i)
    BY <2>7, <2>8, FittingIs
  <2> QED  BY <2>9 DEF RepliesInOrder, OfReplies, Whole, Follows
<1> QED  BY <1>13, <1>14, <1>15 DEF PortInv


\* The calls that only read, and what comes of its own accord: the wire is as it was.
LEMMA QuietKeeps ==
    ASSUME PortInv, UNCHANGED <<line, sent, in, done, cut>>,
           out' \in Seq(Answer), Len(out') <= OutRoom,
           taken' \in Seq(Answer), read'.len \in Nat,
           taken' \o out' = taken \o out
    PROVE  PortInv'
<1>1. line' = line /\ sent' = sent /\ in' = in /\ done' = done  OBVIOUS
<1>2. PortTyped'  BY <1>1 DEF PortInv, PortTyped
<1>3. Tracked'  BY <1>1 DEF PortInv, Tracked, Flight
<1>4. RepliesInOrder'
  <2>1. (taken \o out)' = taken \o out /\ Len(done)' = Len(done) /\ cut' = cut  BY <1>1
  <2> QED  BY <2>1, Zenon DEF PortInv, RepliesInOrder, OfReplies, Whole, Follows
<1> QED  BY <1>2, <1>3, <1>4 DEF PortInv

LEMMA ReadKeeps ==
    ASSUME PortInv, NEW t, NEW n \in Nat, ReadFile(t, n)
    PROVE  PortInv'
<1> DEFINE m == Least(n, Len(out))
           x == SubSeq(out, 1, m)
           y == SubSeq(out, m + 1, Len(out))
<1>1. /\ out \in Seq(Answer) /\ taken \in Seq(Answer) /\ Len(out) \in Nat
      /\ Len(out) <= OutRoom /\ OutRoom \in Nat /\ read.len \in Nat
  BY LenProperties, PortAssumption DEF PortInv, PortTyped
<1>2. m \in 0 .. Len(out)  BY <1>1 DEF Least
<1>3. /\ out' = y /\ taken' = taken \o x /\ read' = read
      /\ UNCHANGED <<line, sent, in, done, cut>>
  BY DEF ReadFile
<1> HIDE DEF m
<1>4. x \in Seq(Answer) /\ y \in Seq(Answer) /\ Len(y) = Len(out) - m
  BY <1>1, <1>2, PrefixFacts, SuffixFacts
<1>7. Len(y) <= OutRoom
  <2> HIDE DEF y
  <2> QED  BY <1>1, <1>2, <1>4
<1>5. (taken \o x) \o y = taken \o out  BY <1>1, <1>2, MoveConcat
<1> HIDE DEF x, y
<1>6. taken \o x \in Seq(Answer)  BY <1>1, <1>4, ConcatProperties
<1> QED  BY <1>1, <1>3, <1>4, <1>5, <1>6, <1>7, QuietKeeps

LEMMA PostKeeps ==
    ASSUME PortInv, NEW t, NEW n \in Nat, PostRead(t, n)
    PROVE  PortInv'
<1> DEFINE r == [id |-> reads + 1, len |-> n, thread |-> t]
<1>1. r.len \in Nat  OBVIOUS
<1>2. FinishRead(r, out, FALSE, apc) /\ UNCHANGED <<line, sent, in, done, cut>>
  BY DEF PostRead
<1> HIDE DEF r
<1>3. PortTyped /\ out \in Seq(Answer) /\ Len(out) <= OutRoom  BY DEF PortInv, PortTyped
<1>4. /\ out' \in Seq(Answer) /\ Len(out') <= OutRoom
      /\ taken' \in Seq(Answer) /\ read'.len \in Nat
      /\ taken' \o out' = taken \o out
  BY <1>1, <1>2, <1>3, ReadMoves
<1> QED  BY <1>2, <1>4, QuietKeeps

LEMMA TickerKeeps ==
    ASSUME PortInv, Ticker
    PROVE  PortInv'
<1>1. FinishRead(read, out, late, apc) /\ UNCHANGED <<line, sent, in, done, cut>>
  BY DEF Ticker
<1>2. PortTyped /\ out \in Seq(Answer) /\ Len(out) <= OutRoom /\ read.len \in Nat
  BY DEF PortInv, PortTyped
<1>3. /\ out' \in Seq(Answer) /\ Len(out') <= OutRoom
      /\ taken' \in Seq(Answer) /\ read'.len \in Nat
      /\ taken' \o out' = taken \o out
  BY <1>1, <1>2, ReadMoves
<1> QED  BY <1>1, <1>3, QuietKeeps

\* A read taken away leaves the bytes it would have had.
LEMMA CancelKeeps ==
    ASSUME PortInv, NEW t, Cancel(t)
    PROVE  PortInv'
<1>1. read' = NoRead /\ UNCHANGED <<line, sent, in, done, out, cut, taken>>  BY DEF Cancel
<1>2. read'.len \in Nat  BY <1>1 DEF NoRead
<1> QED  BY <1>1, <1>2, QuietKeeps DEF PortInv, PortTyped

LEMMA SameKeeps ==
    ASSUME PortInv, UNCHANGED <<line, sent, in, done, out, cut, taken, read>>
    PROVE  PortInv'
<1> QED  BY QuietKeeps DEF PortInv, PortTyped

LEMMA PortStep == PortInv /\ [BusNext]_busVars => PortInv'
<1> SUFFICES ASSUME PortInv, [BusNext]_busVars PROVE PortInv'
  OBVIOUS
<1>1. ASSUME NEW name \in Com \cup File, CreateFile(name) PROVE PortInv'
  BY <1>1, SameKeeps DEF CreateFile, portVars
<1>2. ASSUME NEW h \in DOMAIN held, CloseHandle(h) PROVE PortInv'
  BY <1>2, SameKeeps DEF CloseHandle, portVars
<1>3. ASSUME NEW t \in Thread, NEW n \in 1 .. Len(line), WriteFile(t, n) \/ WriteFileEx(t, n)
      PROVE  PortInv'
  <2>1. Write(n)  BY <1>3 DEF WriteFile, WriteFileEx
  <2> QED  BY <2>1, WriteKeeps
<1>4. ASSUME NEW t \in Thread, NEW n \in Length, ReadFile(t, n) \/ PostRead(t, n)
      PROVE  PortInv'
  <2>1. n \in Nat  BY PortAssumption
  <2> QED  BY <1>4, <2>1, ReadKeeps, PostKeeps
<1>5. ASSUME NEW t \in Thread, Cancel(t) PROVE PortInv'
  BY <1>5, CancelKeeps
<1>6. ASSUME NEW t \in Thread, CompleteWrite(t) \/ AlertableWait(t) PROVE PortInv'
  BY <1>6, SameKeeps DEF CompleteWrite, AlertableWait
<1>7. ASSUME NEW m \in Message, Say(m) PROVE PortInv'
  BY <1>7, SayKeeps
<1>8. CASE DeadlineEnds
  BY <1>8, SameKeeps DEF DeadlineEnds
<1>9. CASE Ticker
  BY <1>9, TickerKeeps
<1>10. CASE UNCHANGED busVars
  BY <1>10, SameKeeps DEF busVars, portVars
<1> QED  BY <1>1, <1>2, <1>3, <1>4, <1>5, <1>6, <1>7, <1>8, <1>9, <1>10 DEF BusNext, OnBoard

LEMMA PortHolds == BusSpec => []PortInv
<1>1. BusInit => PortInv  BY PortStart DEF BusInit
<1> QED  BY <1>1, PortStep, PTL DEF BusSpec

(***************************************************************************)
(* Whatever pieces the game writes its messages in, and however reads and  *)
(* writes of several threads fall between them: consume() executes every   *)
(* frame once and in order, and none that was written whole is left in     *)
(* g_p.in.                                                                 *)
(***************************************************************************)
THEOREM FramesInOrder == BusSpec => []CommandsInOrder
<1>1. ASSUME PortInv PROVE CommandsInOrder
  <2>1. PICK o \in Seq(Seq(Byte)) : sent = done \o o
    BY <1>1 DEF PortInv, Tracked
  <2>2. done \in Seq(Seq(Byte))  BY <1>1 DEF PortInv, PortTyped
  <2>3. SubSeq(sent, 1, Len(done)) = done  BY <2>1, <2>2, Halves
  <2>4. Len(sent) = Len(done) + Len(o) /\ Len(o) \in Nat /\ Len(done) \in Nat
    BY <2>1, <2>2, ConcatProperties, LenProperties
  <2>5. IsPrefixOf(done, sent)  BY <2>3, <2>4 DEF IsPrefixOf
  <2>6. line = << >> => done = sent  BY <1>1, LineEmpty
  <2> QED  BY <2>5, <2>6 DEF CommandsInOrder
<1> QED  BY <1>1, PortHolds, PTL

(***************************************************************************)
(* Whichever of the blocking read, the posted read, the write, the ticker  *)
(* and a read posted over another takes bytes out of the ring              *)
(* (finish_read, es3_card_read): the game reads every reply once, in the   *)
(* order of the commands, and whole unless the ring was full (out_push).   *)
(***************************************************************************)
THEOREM RepliesReadOnce == BusSpec => []RepliesInOrder
<1>1. PortInv => RepliesInOrder  BY DEF PortInv
<1> QED  BY <1>1, PortHolds, PTL


-----------------------------------------------------------------------------
Queues == [Thread -> Seq(0 .. MaxReads)]

Posted == [id : 0 .. MaxReads, len : Nat, thread : Thread]

\* The part of the types the bytes have no share in, and the completions.
ReadsInv ==
    /\ said \in 0 .. MaxSent
    /\ read \in Posted /\ reads \in 0 .. MaxReads /\ read.id <= reads
    /\ late \in BOOLEAN /\ (late => read.id # 0)
    /\ apc \in Queues /\ writing \subseteq Thread
    /\ ReadsEndOnce

LEMMA NoReadPosted == NoRead \in Posted /\ NoRead.id = 0
<1>1. (CHOOSE t \in Thread : TRUE) \in Thread  BY PortAssumption
<1>2. 0 \in 0 .. MaxReads /\ 0 \in Nat  BY PortAssumption
<1> QED  BY <1>1, <1>2 DEF NoRead, Posted

\* What a completion at the end of a queue does to it.
LEMMA QueueGrows ==
    ASSUME NEW q \in Queues, NEW t \in Thread, NEW x \in 0 .. MaxReads, NEW p,
           p = [q EXCEPT ![t] = Append(@, x)]
    PROVE  /\ p \in Queues
           /\ \A u \in Thread : \A i \in DOMAIN p[u] :
                 \/ i \in DOMAIN q[u] /\ p[u][i] = q[u][i]
                 \/ u = t /\ i = Len(q[t]) + 1 /\ p[u][i] = x
<1> DEFINE R == 0 .. MaxReads
<1>1. q[t] \in Seq(R) /\ x \in R  BY DEF Queues
<1> HIDE DEF R
<1>2. /\ Append(q[t], x) \in Seq(R) /\ Len(q[t]) \in Nat
      /\ Len(Append(q[t], x)) = Len(q[t]) + 1
      /\ \A i \in 1 .. Len(q[t]) : Append(q[t], x)[i] = q[t][i]
      /\ Append(q[t], x)[Len(q[t]) + 1] = x
  BY <1>1, AppendProperties, LenProperties
<1>3. /\ p[t] = Append(q[t], x)
      /\ \A u \in Thread \ {t} : p[u] = q[u]
  BY DEF Queues
<1>4. p \in Queues  BY <1>2 DEF Queues, R
<1>5. ASSUME NEW u \in Thread, NEW i \in DOMAIN p[u]
      PROVE  \/ i \in DOMAIN q[u] /\ p[u][i] = q[u][i]
             \/ u = t /\ i = Len(q[t]) + 1 /\ p[u][i] = x
  <2>1. CASE u # t  BY <1>3, <1>5, <2>1
  <2>2. CASE u = t
    <3>1. DOMAIN p[u] = 1 .. Len(q[t]) + 1 /\ DOMAIN q[u] = 1 .. Len(q[t])
      BY <1>1, <1>2, <1>3, <2>2, LenProperties
    <3>2. i \in 1 .. Len(q[t]) \/ i = Len(q[t]) + 1  BY <1>2, <1>5, <3>1
    <3> QED  BY <1>2, <1>3, <2>2, <3>1, <3>2
  <2> QED  BY <2>1, <2>2
<1> QED  BY <1>4, <1>5

\* The completion of the read that was pending, or of a write.
LEMMA OnceMore ==
    ASSUME NEW q \in Queues, NEW t \in Thread, NEW x \in 0 .. MaxReads,
           NEW r, NEW n \in Nat, QueuedOnce(q, r, n), x <= n,
           x # 0 => x = r
    PROVE  LET p == [q EXCEPT ![t] = Append(@, x)]
           IN  p \in Queues /\ QueuedOnce(p, IF x = 0 THEN r ELSE 0, n)
<1> DEFINE p == [q EXCEPT ![t] = Append(@, x)]
<1>1. /\ p \in Queues
      /\ \A u \in Thread : \A i \in DOMAIN p[u] :
            \/ i \in DOMAIN q[u] /\ p[u][i] = q[u][i]
            \/ u = t /\ i = Len(q[t]) + 1 /\ p[u][i] = x
  BY QueueGrows
<1> HIDE DEF p
<1>2. /\ \A u \in Thread : \A i \in DOMAIN q[u] : q[u][i] <= n /\ q[u][i] \notin {r} \ {0}
      /\ \A u, v \in Thread : \A i \in DOMAIN q[u], j \in DOMAIN q[v] :
            q[u][i] = q[v][j] /\ q[u][i] # 0 => u = v /\ i = j
  BY DEF QueuedOnce
<1>3. ASSUME NEW u \in Thread, NEW i \in DOMAIN p[u]
      PROVE  p[u][i] <= n /\ p[u][i] \notin {IF x = 0 THEN r ELSE 0} \ {0}
  <2>1. CASE i \in DOMAIN q[u] /\ p[u][i] = q[u][i]  BY <1>2, <2>1
  <2>2. CASE p[u][i] = x  BY <2>2
  <2> QED  BY <1>1, <2>1, <2>2
<1>4. ASSUME NEW u \in Thread, NEW v \in Thread, NEW i \in DOMAIN p[u], NEW j \in DOMAIN p[v],
             p[u][i] = p[v][j], p[u][i] # 0
      PROVE  u = v /\ i = j
  <2>1. CASE /\ i \in DOMAIN q[u] /\ p[u][i] = q[u][i]
             /\ j \in DOMAIN q[v] /\ p[v][j] = q[v][j]
    <3>1. /\ i \in DOMAIN q[u] /\ j \in DOMAIN q[v]
          /\ q[u][i] = q[v][j] /\ q[u][i] # 0
      BY <1>4, <2>1
    <3>2. \A a, b \in Thread : \A k \in DOMAIN q[a], l \in DOMAIN q[b] :
             q[a][k] = q[b][l] /\ q[a][k] # 0 => a = b /\ k = l
      BY <1>2
    <3>3. \A k \in DOMAIN q[u], l \in DOMAIN q[v] :
             q[u][k] = q[v][l] /\ q[u][k] # 0 => u = v /\ k = l
      BY <3>2
    <3> QED  BY <3>1, <3>3
  <2>2. CASE /\ u = t /\ i = Len(q[t]) + 1 /\ p[u][i] = x
             /\ v = t /\ j = Len(q[t]) + 1
    BY <2>2
  <2>3. CASE /\ i \in DOMAIN q[u] /\ p[u][i] = q[u][i] /\ p[v][j] = x
    <3>1. q[u][i] = x /\ x = r /\ x # 0  BY <1>4, <2>3
    <3> QED  BY <1>2, <2>3, <3>1
  <2>4. CASE /\ j \in DOMAIN q[v] /\ p[v][j] = q[v][j] /\ p[u][i] = x
    <3>1. q[v][j] = x /\ x = r /\ x # 0  BY <1>4, <2>4
    <3> QED  BY <1>2, <2>4, <3>1
  <2> QED  BY <1>1, <2>1, <2>2, <2>3, <2>4
<1>5. QueuedOnce(p, IF x = 0 THEN r ELSE 0, n)  BY <1>3, <1>4 DEF QueuedOnce
<1> QED  BY <1>1, <1>5 DEF p

\* finish_read, whoever calls it, on whichever read.
LEMMA FinishEnds ==
    ASSUME NEW r \in Posted, NEW n \in 0 .. MaxReads, r.id <= n,
           NEW l \in BOOLEAN, l => r.id # 0,
           NEW q \in Queues, QueuedOnce(q, r.id, n), NEW o, FinishRead(r, o, l, q)
    PROVE  /\ read' \in Posted /\ read'.id <= n
           /\ late' \in BOOLEAN /\ (late' => read'.id # 0)
           /\ apc' \in Queues /\ QueuedOnce(apc', read'.id, n)
<1>1. CASE Ends(r, o, l)
  <2>1. /\ read' = NoRead /\ late' = FALSE
        /\ apc' = q \/ apc' = [q EXCEPT ![r.thread] = Append(@, r.id)]
    BY <1>1 DEF FinishRead, Queued
  <2>2. r.id \in 0 .. MaxReads /\ r.id # 0 /\ r.thread \in Thread /\ n \in Nat /\ 0 <= n
    BY <1>1, PortAssumption DEF Posted, Ends
  <2>4. CASE apc' = q
    <3>1. QueuedOnce(apc', 0, n)  BY <2>4 DEF QueuedOnce
    <3> QED  BY <2>1, <2>2, <2>4, <3>1, NoReadPosted
  <2>3. ASSUME apc' = [q EXCEPT ![r.thread] = Append(@, r.id)]
        PROVE  apc' \in Queues /\ QueuedOnce(apc', 0, n)
    <3> DEFINE x == r.id
               t == r.thread
    <3>1. /\ x \in 0 .. MaxReads /\ t \in Thread /\ x <= n /\ QueuedOnce(q, x, n)
          /\ apc' = [q EXCEPT ![t] = Append(@, x)]
      BY <2>2, <2>3
    <3>2. x # 0 /\ (IF x = 0 THEN x ELSE 0) = 0  BY <2>2
    <3> HIDE DEF x, t
    <3>3. apc' \in Queues /\ QueuedOnce(apc', IF x = 0 THEN x ELSE 0, n)
      BY <2>2, <3>1, OnceMore
    <3> QED  BY <3>2, <3>3
  <2> QED  BY <2>1, <2>2, <2>3, <2>4, NoReadPosted
<1>2. CASE ~Ends(r, o, l)
  BY <1>2 DEF FinishRead
<1> QED  BY <1>1, <1>2

LEMMA ReadsStart == CardInit => ReadsInv
<1> SUFFICES ASSUME CardInit PROVE ReadsInv
  OBVIOUS
<1>1. /\ said = 0 /\ read = NoRead /\ reads = 0 /\ late = FALSE
      /\ apc = [t \in Thread |-> << >>] /\ writing = {}
  BY DEF CardInit
<1>2. 0 \in 0 .. MaxSent /\ 0 \in 0 .. MaxReads  BY PortAssumption
<1>3. apc \in Queues /\ \A t \in Thread : DOMAIN apc[t] = {}
  <2>1. << >> \in Seq(0 .. MaxReads) /\ DOMAIN << >> = {}  BY EmptySeq
  <2> QED  BY <1>1, <2>1 DEF Queues
<1>4. ReadsEndOnce  BY <1>3 DEF ReadsEndOnce, QueuedOnce
<1>5. read \in Posted /\ read.id = 0  BY <1>1, NoReadPosted
<1>6. read.id <= reads /\ (late => read.id # 0) /\ late \in BOOLEAN
  <2>1. 0 <= 0  OBVIOUS
  <2>2. read.id <= reads
    <3>1. read.id = 0 /\ reads = 0  BY <1>1, <1>5
    <3> QED  BY <2>1, <3>1
  <2>3. late = FALSE  BY <1>1
  <2>4. late \in BOOLEAN /\ (late => read.id # 0)  BY <2>3
  <2> QED  BY <2>2, <2>4
<1>7. writing \subseteq Thread /\ said \in 0 .. MaxSent /\ reads \in 0 .. MaxReads
  BY <1>1, <1>2
<1> QED  BY <1>3, <1>4, <1>5, <1>6, <1>7 DEF ReadsInv

\* Steps in which finish_read ends the pending read or leaves it.
LEMMA FinishKeepsReads ==
    ASSUME ReadsInv, NEW o, FinishRead(read, o, late, apc), UNCHANGED <<said, reads>>,
           writing' \subseteq Thread
    PROVE  ReadsInv'
<1>1. /\ read \in Posted /\ reads \in 0 .. MaxReads /\ read.id <= reads
      /\ late \in BOOLEAN /\ (late => read.id # 0)
      /\ apc \in Queues /\ QueuedOnce(apc, read.id, reads)
  BY DEF ReadsInv, ReadsEndOnce
<1>2. /\ read' \in Posted /\ read'.id <= reads
      /\ late' \in BOOLEAN /\ (late' => read'.id # 0)
      /\ apc' \in Queues /\ QueuedOnce(apc', read'.id, reads)
  BY <1>1, FinishEnds
<1>3. said' = said /\ reads' = reads  OBVIOUS
<1> QED  BY <1>2, <1>3 DEF ReadsInv, ReadsEndOnce

LEMMA PostKeepsReads ==
    ASSUME ReadsInv, NEW t \in Thread, NEW k \in Nat, PostRead(t, k)
    PROVE  ReadsInv'
<1> DEFINE r == [id |-> reads + 1, len |-> k, thread |-> t]
           n == reads + 1
<1>1. /\ FinishRead(r, out, FALSE, apc) /\ reads < MaxReads /\ reads' = n
      /\ said' = said /\ writing' = writing
  BY DEF PostRead
<1>2. reads \in 0 .. MaxReads /\ MaxReads \in Nat /\ apc \in Queues
      /\ QueuedOnce(apc, read.id, reads)
  BY PortAssumption DEF ReadsInv, ReadsEndOnce
<1>3. n \in 0 .. MaxReads /\ n # 0 /\ r \in Posted /\ r.id = n /\ n <= n
  BY <1>1, <1>2 DEF Posted
<1>4. QueuedOnce(apc, n, n)
  <2>1. \A u \in Thread : \A i \in DOMAIN apc[u] :
           apc[u][i] \in 0 .. MaxReads /\ apc[u][i] <= reads
    <3>1. \A u \in Thread : apc[u] \in Seq(0 .. MaxReads)  BY <1>2 DEF Queues
    <3> QED  BY <1>2, <3>1 DEF QueuedOnce
  <2>2. \A u \in Thread : \A i \in DOMAIN apc[u] : apc[u][i] <= n /\ apc[u][i] # n
    BY <1>2, <2>1
  <2> HIDE DEF n
  <2> QED  BY <1>2, <2>2 DEF QueuedOnce
<1> HIDE DEF r, n
<1>5. /\ read' \in Posted /\ read'.id <= n
      /\ late' \in BOOLEAN /\ (late' => read'.id # 0)
      /\ apc' \in Queues /\ QueuedOnce(apc', read'.id, n)
  BY <1>1, <1>2, <1>3, <1>4, FinishEnds
<1> QED  BY <1>1, <1>3, <1>5 DEF ReadsInv, ReadsEndOnce

LEMMA CompleteKeepsReads ==
    ASSUME ReadsInv, NEW t \in Thread, CompleteWrite(t)
    PROVE  ReadsInv'
<1>1. /\ apc' = apc \/ apc' = [apc EXCEPT ![t] = Append(@, 0)]
      /\ writing' \subseteq writing
      /\ UNCHANGED <<said, read, reads, late>>
  BY DEF CompleteWrite, Queued
<1>2. apc \in Queues /\ QueuedOnce(apc, read.id, reads) /\ reads \in Nat /\ 0 <= reads
  BY PortAssumption DEF ReadsInv, ReadsEndOnce
<1>3. 0 \in 0 .. MaxReads  BY PortAssumption
<1>4. apc' \in Queues /\ QueuedOnce(apc', read.id, reads)
  <2> DEFINE i == read.id
  <2> HIDE DEF i
  <2>1. CASE apc' = [apc EXCEPT ![t] = Append(@, 0)]
    <3>1. apc' \in Queues /\ QueuedOnce(apc', IF 0 = 0 THEN i ELSE 0, reads)
      BY <1>2, <1>3, <2>1, OnceMore DEF i
    <3> QED  BY <3>1 DEF i
  <2>2. CASE apc' = apc  BY <1>2, <2>2
  <2> QED  BY <1>1, <2>1, <2>2
<1> QED  BY <1>1, <1>4 DEF ReadsInv, ReadsEndOnce

LEMMA WaitKeepsReads ==
    ASSUME ReadsInv, NEW t \in Thread, AlertableWait(t)
    PROVE  ReadsInv'
<1>1. /\ apc' = [apc EXCEPT ![t] = << >>]
      /\ UNCHANGED <<said, read, reads, late, writing>>
  BY DEF AlertableWait
<1>2. apc \in Queues /\ << >> \in Seq(0 .. MaxReads) /\ DOMAIN << >> = {}
  BY EmptySeq DEF ReadsInv
<1>3. apc' \in Queues  BY <1>1, <1>2 DEF Queues
<1>4. \A u \in Thread : \A i \in DOMAIN apc'[u] : i \in DOMAIN apc[u] /\ apc'[u][i] = apc[u][i]
  BY <1>1, <1>2 DEF Queues
<1>5. ReadsEndOnce'
  <2>1. QueuedOnce(apc, read.id, reads)  BY DEF ReadsInv, ReadsEndOnce
  <2>2. QueuedOnce(apc', read.id, reads)  BY <1>4, <2>1 DEF QueuedOnce
  <2> QED  BY <1>1, <2>2 DEF ReadsEndOnce
<1> QED  BY <1>1, <1>3, <1>5 DEF ReadsInv

LEMMA CancelKeepsReads ==
    ASSUME ReadsInv, NEW t, Cancel(t)
    PROVE  ReadsInv'
<1>1. read' = NoRead /\ late' = FALSE /\ UNCHANGED <<said, reads, apc, writing>>
  BY DEF Cancel
<1>2. QueuedOnce(apc, read.id, reads)  BY DEF ReadsInv, ReadsEndOnce
<1>3. QueuedOnce(apc, 0, reads)  BY <1>2 DEF QueuedOnce
<1>4. 0 <= reads  BY PortAssumption DEF ReadsInv
<1> QED  BY <1>1, <1>3, <1>4, NoReadPosted DEF ReadsInv, ReadsEndOnce

LEMMA SameKeepsReads ==
    ASSUME ReadsInv, UNCHANGED <<read, reads, apc, writing>>,
           said' \in 0 .. MaxSent, late' \in BOOLEAN, late' => read.id # 0
    PROVE  ReadsInv'
<1> QED  BY DEF ReadsInv, ReadsEndOnce

LEMMA ReadsStep == ReadsInv /\ [BusNext]_busVars => ReadsInv'
<1> SUFFICES ASSUME ReadsInv, [BusNext]_busVars PROVE ReadsInv'
  OBVIOUS
<1>0. said \in 0 .. MaxSent /\ late \in BOOLEAN /\ (late => read.id # 0)
      /\ writing \subseteq Thread
  BY DEF ReadsInv
<1>1. ASSUME NEW name \in Com \cup File, CreateFile(name) PROVE ReadsInv'
  BY <1>0, <1>1, SameKeepsReads DEF CreateFile, portVars
<1>2. ASSUME NEW h \in DOMAIN held, CloseHandle(h) PROVE ReadsInv'
  BY <1>0, <1>2, SameKeepsReads DEF CloseHandle, portVars
<1>3. ASSUME NEW t \in Thread, NEW n \in 1 .. Len(line), WriteFile(t, n) \/ WriteFileEx(t, n)
      PROVE  ReadsInv'
  <2>1. Write(n) /\ writing' \subseteq Thread  BY <1>0, <1>3 DEF WriteFile, WriteFileEx
  <2>2. \E o : FinishRead(read, o, late, apc)  BY <2>1 DEF Write
  <2>3. said' = said /\ reads' = reads  BY <2>1 DEF Write
  <2> QED  BY <2>1, <2>2, <2>3, FinishKeepsReads
<1>4. ASSUME NEW t \in Thread, NEW n \in Length, ReadFile(t, n) PROVE ReadsInv'
  BY <1>0, <1>4, SameKeepsReads DEF ReadFile
<1>5. ASSUME NEW t \in Thread, NEW n \in Length, PostRead(t, n) PROVE ReadsInv'
  <2>1. n \in Nat  BY PortAssumption
  <2> QED  BY <1>5, <2>1, PostKeepsReads
<1>6. ASSUME NEW t \in Thread, Cancel(t) PROVE ReadsInv'
  BY <1>6, CancelKeepsReads
<1>7. ASSUME NEW t \in Thread, CompleteWrite(t) \/ AlertableWait(t) PROVE ReadsInv'
  BY <1>7, CompleteKeepsReads, WaitKeepsReads
<1>8. ASSUME NEW m \in Message, Say(m) PROVE ReadsInv'
  <2>1. said' \in 0 .. MaxSent  BY <1>0, <1>8, PortAssumption DEF Say
  <2> QED  BY <1>0, <1>8, <2>1, SameKeepsReads DEF Say
<1>9. CASE DeadlineEnds
  BY <1>0, <1>9, SameKeepsReads DEF DeadlineEnds
<1>10. CASE Ticker
  <2>1. FinishRead(read, out, late, apc) /\ UNCHANGED <<said, reads>> /\ writing' = writing
    BY <1>10 DEF Ticker
  <2> QED  BY <1>0, <2>1, FinishKeepsReads
<1>11. CASE UNCHANGED busVars
  BY <1>0, <1>11, SameKeepsReads DEF busVars, portVars
<1> QED
  BY <1>1, <1>2, <1>3, <1>4, <1>5, <1>6, <1>7, <1>8, <1>9, <1>10, <1>11 DEF BusNext, OnBoard

LEMMA ReadsHold == BusSpec => []ReadsInv
<1>1. BusInit => ReadsInv  BY ReadsStart DEF BusInit
<1> QED  BY <1>1, ReadsStep, PTL DEF BusSpec

(***************************************************************************)
(* The reader's port is well typed for any threads, messages and lengths:  *)
(* no write runs over the end of g_p.in, no reply over the end of g_p.out, *)
(* and a deadline is over only for a read that is pending (es3_card_write, *)
(* out_push, finish_read).                                                 *)
(***************************************************************************)
THEOREM ReaderPortTyped == BusSpec => []PortTypeOK
<1>1. ASSUME PortInv, ReadsInv PROVE PortTypeOK
  <2>1. Len(in) <= FIFO
    <3>1. Len(in) \in Nat /\ Len(line) \in Nat /\ Len(in) + Len(line) <= FIFO /\ FIFO \in Nat
      BY <1>1, LenProperties, PortAssumption DEF PortInv, PortTyped, Tracked
    <3> QED  BY <3>1
  <2> QED  BY <1>1, <2>1 DEF PortTypeOK, PortInv, PortTyped, ReadsInv, Answer, Posted, Queues
<1> QED  BY <1>1, PortHolds, ReadsHold, PTL

(***************************************************************************)
(* Whoever ends a read of the reader's - the call that posts it, a write   *)
(* of any thread or the ticker - its completion is queued at most once,    *)
(* and never while it is still pending (finish_read).                      *)
(***************************************************************************)
THEOREM ReaderReadsOnce == BusSpec => []ReadsEndOnce
<1>1. ReadsInv => ReadsEndOnce  BY DEF ReadsInv
<1> QED  BY <1>1, ReadsHold, PTL
=============================================================================
