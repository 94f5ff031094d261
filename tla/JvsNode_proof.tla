---------------------------- MODULE JvsNode_proof ---------------------------
(***************************************************************************)
(* The JVS node, what it hears and what it answers: proofs about JvsWire   *)
(* and JvsNode, for every set of packets, every buffer, and every number   *)
(* of slots, presses and returns.                                          *)
(*                                                                         *)
(* The node.  The coins need only the types; that there are never more     *)
(* than edges needs the edge that is seen and not yet counted; what a      *)
(* reply says of its packet needs what the reply under way says of the     *)
(* commands handled so far.                                                *)
(***************************************************************************)
EXTENDS JvsNode, JvsWire, Induction

\* What Cmd is, while there is one.
LEMMA CmdTyped ==
    ASSUME TypeOK, InPacket
    PROVE  /\ packet \in Packet /\ packet.cmds \in Seq(Command)
           /\ at \in 1 .. Len(packet.cmds) /\ Cmd \in Command
           /\ Cmd.op \in {"coindec", "coininc"} => Cmd.slot \in Nat /\ Cmd.amount \in Nat
           /\ Cmd.op = "coinp" => Cmd.slots \in Nat
           /\ Cmd.op = "setaddr" => Cmd.addr \in Nat
           /\ ReportLength(Cmd) \in Nat
<1>1. packet \in Packet /\ packet.cmds \in Seq(Command) /\ at \in 1 .. Len(packet.cmds)
  BY NodeAssumption DEF TypeOK, InPacket
<1>2. Cmd \in Command
  BY <1>1, ElementOfSeq DEF Cmd
<1>3. /\ Cmd.op \in {"coindec", "coininc"} => Cmd.slot \in Nat /\ Cmd.amount \in Nat
      /\ Cmd.op = "coinp" => Cmd.slots \in Nat
      /\ Cmd.op = "setaddr" => Cmd.addr \in Nat
  BY <1>2 DEF Command
<1>4. ReportLength(Cmd) \in Nat
  BY <1>3 DEF ReportLength
<1> QED
  BY <1>1, <1>2, <1>3, <1>4

\* A coin taken over the wire leaves the counter and nothing else does.
LEMMA Taken ==
    ASSUME TypeOK, CoinDecrease
    PROVE  /\ coin' \in [Slot -> Nat] /\ spent' \in Nat
           /\ \A s \in Slot : coin'[s] <= coin[s]
           /\ Cmd.slot \in Slot => /\ spent' + coin'[Cmd.slot] = spent + coin[Cmd.slot]
                                   /\ \A s \in Slot \ {Cmd.slot} : coin'[s] = coin[s]
           /\ Cmd.slot \notin Slot => spent' = spent /\ coin' = coin
<1>1. Cmd.slot \in Nat /\ Cmd.amount \in Nat
  BY CmdTyped DEF CoinDecrease
<1>2. coin \in [Slot -> Nat] /\ spent \in Nat
  BY DEF TypeOK
<1>3. \A s \in Slot : coin'[s] = IF s # Cmd.slot THEN coin[s]
                                 ELSE IF coin[s] > Cmd.amount THEN coin[s] - Cmd.amount ELSE 0
  BY DEF CoinDecrease
<1>4. coin' \in [Slot -> Nat] /\ \A s \in Slot : coin'[s] <= coin[s]
  <2>1. \A s \in Slot : coin'[s] \in Nat /\ coin'[s] <= coin[s]
    BY <1>1, <1>2, <1>3
  <2>2. DOMAIN coin' = Slot /\ coin' = [s \in Slot |-> coin'[s]]
    BY DEF CoinDecrease
  <2> QED  BY <2>1, <2>2
<1>5. CASE Cmd.slot \in Slot
  <2>1. spent' = spent + coin[Cmd.slot] - coin'[Cmd.slot]
    BY <1>5 DEF CoinDecrease
  <2>2. spent' \in Nat /\ spent' + coin'[Cmd.slot] = spent + coin[Cmd.slot]
    BY <1>2, <1>4, <1>5, <2>1
  <2> QED  BY <1>3, <1>4, <1>5, <2>2
<1>6. CASE Cmd.slot \notin Slot
  <2>1. coin' = coin
    BY <1>2, <1>3, <1>4, <1>6
  <2> QED  BY <1>2, <1>4, <1>6, <2>1 DEF CoinDecrease
<1> QED
  BY <1>5, <1>6

LEMMA TypeStep == TypeOK /\ [Next]_vars => TypeOK'
<1> SUFFICES ASSUME TypeOK, [Next]_vars PROVE TypeOK'
  OBVIOUS
<1> USE DEF TypeOK, boardVars, packetVars, coinVars, inputVars, tickVars
<1>0. 1 \in Slot
  BY NodeAssumption DEF Slot
<1>1. ASSUME NEW p \in Packet, BeginPacket(p) PROVE TypeOK'
  BY <1>1 DEF BeginPacket
<1>2. CASE Reset  BY <1>2 DEF Reset
<1>3. CASE SetAddress  BY <1>3, CmdTyped DEF SetAddress, Report
<1>4. CASE Inform  BY <1>4, CmdTyped DEF Inform, Report
<1>5. CASE CoinInput
  <2>1. len' \in Nat /\ at' \in Nat \ {0}  BY <1>5, CmdTyped DEF CoinInput, Report
  <2> QED  BY <1>5, <2>1 DEF CoinInput, Report
<1>6. CASE CoinDecrease
  <2>1. coin' \in [Slot -> Nat] /\ spent' \in Nat  BY <1>6, Taken
  <2>2. len' \in Nat /\ at' \in Nat \ {0}  BY <1>6, CmdTyped DEF CoinDecrease, Report
  <2>3. /\ UNCHANGED <<address, packet, status, reply>>
        /\ UNCHANGED <<coinVars, inputVars, tickVars>>
    BY <1>6 DEF CoinDecrease, Report
  <2> QED  BY <2>1, <2>2, <2>3
<1>7. CASE CoinIncrease  BY <1>7, CmdTyped DEF CoinIncrease, Report
<1>8. CASE Unknown
  <2>1. Len(packet.cmds) \in Nat  BY <1>8, CmdTyped, LenProperties DEF Unknown
  <2> QED  BY <1>8, <2>1 DEF Unknown
<1>9. CASE EndPacket  BY <1>9 DEF EndPacket
<1>10. CASE Poll
  <2>1. {key, pad, front, hadCoin} \subseteq BOOLEAN /\ CoinDown \in BOOLEAN
    BY DEF CoinDown
  <2>2. hadCoin' \in BOOLEAN /\ ticker' \in {"idle", "insert"}
    BY <1>10, <2>1 DEF Poll
  <2>3. UNCHANGED <<boardVars, packetVars, coinVars, inputVars, inserted>>
    BY <1>10 DEF Poll
  <2> QED  BY <2>1, <2>2, <2>3
<1>11. CASE Insert  BY <1>11, <1>0 DEF Insert
<1>12. CASE CoinTake  BY <1>12 DEF CoinTake
<1>13. CASE MoveKey \/ MovePad \/ MoveFocus
  <2>1. /\ key \in BOOLEAN /\ pad \in BOOLEAN /\ front \in BOOLEAN /\ hadCoin \in BOOLEAN
        /\ presses \in Nat /\ returns \in Nat
    OBVIOUS
  <2>2. key' \in BOOLEAN /\ pad' \in BOOLEAN /\ front' \in BOOLEAN
    BY <1>13, <2>1, Zenon DEF MoveKey, MovePad, MoveFocus
  <2>3. presses' \in Nat /\ returns' \in Nat
    BY <1>13, <2>1 DEF MoveKey, MovePad, MoveFocus
  <2>4. UNCHANGED <<boardVars, packetVars, coinVars, tickVars>>
    BY <1>13 DEF MoveKey, MovePad, MoveFocus
  <2> QED  BY <2>1, <2>2, <2>3, <2>4
<1>14. CASE UNCHANGED vars  BY <1>14 DEF vars
<1> QED
  BY <1>1, <1>2, <1>3, <1>4, <1>5, <1>6, <1>7, <1>8, <1>9, <1>10, <1>11, <1>12,
     <1>13, <1>14 DEF Next, Handle

(***************************************************************************)
(* Type invariant of the node, whatever is sent to it (jvs.c).             *)
(***************************************************************************)
THEOREM NodeTyped == Spec => []TypeOK
<1>1. Init => TypeOK
  <2> SUFFICES ASSUME Init PROVE TypeOK
    OBVIOUS
  <2>1. coin \in [Slot -> Nat] /\ {key, pad, front, hadCoin} \subseteq BOOLEAN
    BY DEF Init
  <2>2. /\ address \in Nat /\ pending \in Nat /\ spent \in Nat /\ handed \in Nat
        /\ inserted \in Nat /\ presses \in Nat /\ returns \in Nat /\ len \in Nat
        /\ at \in Nat \ {0} /\ status \in {1, 2}
    BY DEF Init
  <2> QED  BY <2>1, <2>2 DEF Init, TypeOK
<1> QED
  BY <1>1, TypeStep, PTL DEF Spec
-----------------------------------------------------------------------------
LEMMA CoinStep == TypeOK /\ CoinsAccounted /\ [Next]_vars => CoinsAccounted'
<1> SUFFICES ASSUME TypeOK, CoinsAccounted, [Next]_vars PROVE CoinsAccounted'
  OBVIOUS
<1> USE DEF CoinsAccounted, boardVars, coinVars, tickVars
<1>0. 1 \in Slot
  BY NodeAssumption DEF Slot
<1>1. CASE CoinDecrease
  <2>1. UNCHANGED <<inserted, handed, pending>>
    BY <1>1 DEF CoinDecrease, Report
  <2>2. /\ coin' \in [Slot -> Nat] /\ \A s \in Slot : coin'[s] <= coin[s]
        /\ coin \in [Slot -> Nat] /\ spent \in Nat /\ spent' \in Nat
    BY <1>1, Taken DEF TypeOK
  <2>3. \A s \in Slot \ {1} : coin'[s] = 0
    BY <2>2
  <2>4. coin'[1] + spent' = coin[1] + spent
    <3>1. CASE Cmd.slot = 1
      BY <1>0, <1>1, <2>2, <3>1, Taken
    <3>2. CASE Cmd.slot \in Slot \ {1}
      <4>1. coin[Cmd.slot] = 0 /\ coin'[Cmd.slot] = 0
        BY <2>3, <3>2
      <4>2. spent' + coin'[Cmd.slot] = spent + coin[Cmd.slot] /\ coin'[1] = coin[1]
        BY <1>0, <1>1, <3>2, Taken
      <4>3. \A m, n \in Nat : m + 0 = n + 0 => m = n
        OBVIOUS
      <4>4. spent' = spent
        BY <2>2, <4>1, <4>2, <4>3
      <4> QED  BY <4>2, <4>4
    <3>3. CASE Cmd.slot \notin Slot
      BY <1>1, <3>3, Taken
    <3> QED  BY <3>1, <3>2, <3>3
  <2> QED  BY <2>1, <2>3, <2>4
<1>2. CASE Insert
  BY <1>0, <1>2 DEF Insert, TypeOK
<1>3. CASE CoinTake
  BY <1>3 DEF CoinTake, TypeOK
<1>4. CASE UNCHANGED <<coin, spent, inserted, handed, pending>>
  BY <1>4
<1>5. ASSUME NEW p \in Packet, BeginPacket(p) PROVE CoinsAccounted'
  BY <1>4, <1>5 DEF BeginPacket
<1>6. CASE Reset \/ SetAddress \/ Inform \/ CoinInput \/ CoinIncrease \/ Unknown \/ EndPacket
  BY <1>4, <1>6 DEF Reset, SetAddress, Inform, CoinInput, CoinIncrease, Unknown, EndPacket, Report
<1>7. CASE Poll \/ MoveKey \/ MovePad \/ MoveFocus
  BY <1>4, <1>7 DEF Poll, MoveKey, MovePad, MoveFocus
<1>8. CASE UNCHANGED vars
  BY <1>4, <1>8 DEF vars
<1> QED
  BY <1>1, <1>2, <1>3, <1>5, <1>6, <1>7, <1>8 DEF Next, Handle

(***************************************************************************)
(* No coin is lost or made, over the wire and beside it, for any packets   *)
(* (handle_packet, input_poll, es3_coin_take).                             *)
(***************************************************************************)
THEOREM CoinsKept == Spec => []CoinsAccounted
<1>1. Init => CoinsAccounted
  BY NodeAssumption DEF Init, CoinsAccounted, Slot
<1> QED
  BY <1>1, CoinStep, NodeTyped, PTL DEF Spec
-----------------------------------------------------------------------------
\* An edge that is there to be seen, and one that was seen and waits for the lock.
Due == IF ticker = "insert" \/ (CoinDown /\ ~hadCoin) THEN 1 ELSE 0

EdgesBound == inserted + Due <= presses + returns

LEMMA EdgeStep == TypeOK /\ EdgesBound /\ [Next]_vars => EdgesBound'
<1> SUFFICES ASSUME TypeOK, EdgesBound, [Next]_vars PROVE EdgesBound'
  OBVIOUS
<1> USE DEF EdgesBound, Due, CoinDown, inputVars, tickVars
<1>0. inserted \in Nat /\ presses \in Nat /\ returns \in Nat
  BY DEF TypeOK
<1>1. CASE Poll  BY <1>0, <1>1 DEF Poll, TypeOK
<1>2. CASE Insert  BY <1>0, <1>2 DEF Insert
<1>3. CASE MoveKey  BY <1>0, <1>3 DEF MoveKey, TypeOK
<1>4. CASE MovePad  BY <1>0, <1>4 DEF MovePad, TypeOK
<1>5. CASE MoveFocus  BY <1>0, <1>5 DEF MoveFocus, TypeOK
<1>6. CASE UNCHANGED <<inputVars, tickVars>>
  BY <1>6
<1>7. ASSUME NEW p \in Packet, BeginPacket(p) PROVE EdgesBound'
  BY <1>6, <1>7 DEF BeginPacket
<1>8. CASE Handle
  BY <1>6, <1>8 DEF Handle, Reset, SetAddress, Inform, CoinInput, CoinDecrease, CoinIncrease,
                    Unknown, EndPacket, Report
<1>9. CASE CoinTake \/ UNCHANGED vars
  BY <1>6, <1>9 DEF CoinTake, vars
<1> QED
  BY <1>1, <1>2, <1>3, <1>4, <1>5, <1>7, <1>8, <1>9 DEF Next

(***************************************************************************)
(* One press is one coin, but for the window's returns to the foreground,  *)
(* however often the ticker looks (input_poll).                            *)
(***************************************************************************)
THEOREM OneCoinAnEdge == Spec => []CoinsFromEdges
<1>1. Init => EdgesBound
  BY DEF Init, EdgesBound, Due, CoinDown
<1>2. TypeOK /\ EdgesBound => CoinsFromEdges
  BY DEF TypeOK, EdgesBound, Due, CoinsFromEdges
<1> QED
  BY <1>1, <1>2, EdgeStep, NodeTyped, PTL DEF Spec
-----------------------------------------------------------------------------
ReportRec == [cmd : Command, counts : Seq(Nat)]

\* What the reports so far say: they are the commands so far, in order, and a count
\* that no decrease has followed is still the slot's.
Recorded ==
    /\ reports \in Seq(ReportRec)
    /\ packet # None /\ status = 1 =>
         /\ Len(reports) = at - 1 /\ at <= Len(packet.cmds) + 1
         /\ \A i \in 1 .. Len(reports) : reports[i].cmd = packet.cmds[i]
    /\ packet # None /\ status = 2 => reports = << >> /\ at = Len(packet.cmds) + 1
    /\ packet = None => reports = << >>

\* What slot s is reported to hold.
CountOf(s) == IF s \in Slot THEN coin[s] % CountModulus ELSE 0

Fresh(rs, i) ==
    \A s \in DOMAIN rs[i].counts : rs[i].counts[s] = CountOf(s)

NoneTaken(rs, i, j) == \A m \in i .. j : rs[m].cmd.op # "coindec"

CountsFresh ==
    \A i \in 1 .. Len(reports) :
        reports[i].cmd.op = "coinp" /\ NoneTaken(reports, i, Len(reports)) => Fresh(reports, i)

PairsAgree(rs) ==
    \A i, j \in 1 .. Len(rs) :
        /\ i < j
        /\ rs[i].cmd.op = "coinp" /\ rs[j].cmd.op = "coinp"
        /\ NoneTaken(rs, i, j)
        => \A s \in DOMAIN rs[i].counts \cap DOMAIN rs[j].counts :
             rs[i].counts[s] = rs[j].counts[s]

ReplyTrue ==
    reply # None => /\ reply.reports \in Seq(ReportRec)
                    /\ EveryCommandReported /\ PairsAgree(reply.reports)

NodeInv == TypeOK /\ Recorded /\ CountsFresh /\ PairsAgree(reports) /\ ReplyTrue

LEMMA LastOrBefore ==
    \A n \in Nat : \A j \in 1 .. n + 1 : j \in 1 .. n \/ j = n + 1
  OBVIOUS

\* A command that is done adds its report, whose counts, if it has any, are the slots'.
LEMMA ReportAdds ==
    ASSUME NodeInv, InPacket, NEW counts \in Seq(Nat),
           Report(Cmd, counts), status = 1,
           Cmd.op = "coinp" => \A s \in DOMAIN counts : counts[s] = CountOf(s),
           Cmd.op # "coindec" => coin' = coin
    PROVE  Recorded' /\ CountsFresh' /\ PairsAgree(reports)'
<1> DEFINE r == [cmd |-> Cmd, counts |-> counts]
<1> DEFINE n == Len(reports)
<1>1. packet \in Packet /\ packet.cmds \in Seq(Command) /\ at \in 1 .. Len(packet.cmds)
      /\ Cmd \in Command /\ packet # None
  BY CmdTyped DEF NodeInv, InPacket
<1>2. r \in ReportRec /\ reports \in Seq(ReportRec) /\ n \in Nat
  BY <1>1, LenProperties DEF ReportRec, NodeInv, Recorded
<1>3. reports' = Append(reports, r) /\ at' = at + 1 /\ UNCHANGED <<packet, status>>
  BY DEF Report
<1>4. /\ reports' \in Seq(ReportRec) /\ Len(reports') = n + 1 /\ reports'[n + 1] = r
      /\ \A i \in 1 .. n : reports'[i] = reports[i]
  BY <1>2, <1>3, AppendProperties
<1>5. n = at - 1 /\ n + 1 = at /\ \A i \in 1 .. n : reports[i].cmd = packet.cmds[i]
  BY <1>1 DEF NodeInv, Recorded
<1>6. Recorded'
  <2>1. at' <= Len(packet.cmds) + 1 /\ Len(reports') = at' - 1
    BY <1>1, <1>3, <1>4, <1>5, LenProperties
  <2>2. \A i \in 1 .. n + 1 : reports'[i].cmd = packet.cmds[i]
    <3>1. reports'[n + 1].cmd = packet.cmds[n + 1]
      BY <1>4, <1>5 DEF Cmd
    <3> QED  BY <1>2, <1>4, <1>5, <3>1
  <2> QED  BY <1>1, <1>3, <1>4, <2>1, <2>2 DEF Recorded
<1>7. CountsFresh'
  <2> SUFFICES ASSUME NEW i \in 1 .. n + 1, reports'[i].cmd.op = "coinp",
                      NoneTaken(reports', i, n + 1), NEW s \in DOMAIN reports'[i].counts
               PROVE  reports'[i].counts[s] = CountOf(s)'
    BY <1>4 DEF CountsFresh, Fresh, NoneTaken
  <2>1. Cmd.op # "coindec"
    BY <1>2, <1>4 DEF NoneTaken
  <2>2. CountOf(s)' = CountOf(s)
    BY <2>1 DEF CountOf
  <2>3. CASE i = n + 1
    BY <1>4, <2>2, <2>3
  <2>4. CASE i \in 1 .. n
    <3>1. reports'[i] = reports[i] /\ NoneTaken(reports, i, n)
      BY <1>2, <1>4, <2>4 DEF NoneTaken
    <3> QED  BY <2>2, <2>4, <3>1 DEF NodeInv, CountsFresh, Fresh
  <2> QED  BY <1>2, <2>3, <2>4
<1>8. PairsAgree(reports)'
  <2> SUFFICES ASSUME NEW i \in 1 .. n + 1, NEW j \in 1 .. n + 1, i < j,
                      reports'[i].cmd.op = "coinp", reports'[j].cmd.op = "coinp",
                      \A m \in i .. j : reports'[m].cmd.op # "coindec",
                      NEW s \in DOMAIN reports'[i].counts \cap DOMAIN reports'[j].counts
               PROVE  reports'[i].counts[s] = reports'[j].counts[s]
    <3>1. Len(reports)' = n + 1
      BY <1>4
    <3> HIDE DEF n
    <3> QED  BY <3>1 DEF PairsAgree, NoneTaken
  <2>1. i \in 1 .. n /\ reports'[i] = reports[i]
    BY <1>2, <1>4
  <2>2. CASE j \in 1 .. n
    <3>1. reports'[j] = reports[j] /\ NoneTaken(reports, i, j)
      BY <1>2, <1>4, <2>1, <2>2 DEF NoneTaken
    <3> QED  BY <2>1, <2>2, <3>1 DEF NodeInv, PairsAgree
  <2>3. CASE j = n + 1
    <3>1. NoneTaken(reports, i, n)
      BY <1>2, <1>4, <2>1, <2>3 DEF NoneTaken
    <3>2. reports[i].counts[s] = CountOf(s)
      BY <2>1, <3>1 DEF NodeInv, CountsFresh, Fresh
    <3>3. reports'[j].counts = counts
      BY <1>4, <2>3
    <3>4. Cmd.op = "coinp" /\ s \in DOMAIN counts
      BY <1>4, <2>3, <3>3
    <3>5. counts[s] = CountOf(s)
      BY <3>4
    <3>6. reports'[i].counts[s] = CountOf(s)
      BY <2>1, <3>2, Zenon
    <3>7. reports'[j].counts[s] = CountOf(s)
      BY <3>3, <3>5, Zenon
    <3> QED  BY <3>6, <3>7, Zenon
  <2>4. j \in 1 .. n \/ j = n + 1
    BY <1>2, LastOrBefore, Zenon
  <2> QED  BY <2>2, <2>3, <2>4
<1> QED
  BY <1>6, <1>7, <1>8

\* A packet whose status is not 1 has no command left.
LEMMA StatusOne == ASSUME NodeInv, InPacket PROVE status = 1
  BY LenProperties, NodeAssumption DEF NodeInv, TypeOK, Recorded, InPacket

LEMMA NodeStep == NodeInv /\ [Next]_vars => NodeInv'
<1> SUFFICES ASSUME NodeInv, [Next]_vars PROVE Recorded' /\ CountsFresh' /\ PairsAgree(reports)' /\ ReplyTrue'
  BY TypeStep DEF NodeInv
<1> USE DEF boardVars, packetVars, coinVars, inputVars, tickVars
<1>e. Len(<<>>) = 0 /\ <<>> \in Seq(ReportRec) /\ <<>> \in Seq(Nat) /\ 1 .. 0 = {}
  BY EmptySeq
<1>r. ASSUME UNCHANGED reply PROVE ReplyTrue'
  BY <1>r DEF NodeInv, ReplyTrue, EveryCommandReported, PairsAgree, NoneTaken
<1>0. CASE UNCHANGED <<packetVars, coin>>
  BY <1>0, <1>r DEF NodeInv, Recorded, CountsFresh, Fresh, PairsAgree, NoneTaken, CountOf
<1>n. ASSUME reports' = <<>> PROVE CountsFresh' /\ PairsAgree(reports)'
  BY <1>n, <1>e DEF CountsFresh, PairsAgree
<1>1. ASSUME NEW p \in Packet, BeginPacket(p) PROVE Recorded' /\ UNCHANGED reply /\ reports' = <<>>
  <2>1. Len(p.cmds) \in Nat
    BY NodeAssumption, LenProperties
  <2> QED  BY <1>1, <1>e, <2>1 DEF BeginPacket, Recorded
<1>2. CASE Reset
  <2>1. Recorded' /\ UNCHANGED reply /\ reports' = <<>>
    BY <1>2, <1>e DEF Reset, Recorded
  <2> QED  BY <1>n, <1>r, <2>1
<1>3. CASE SetAddress \/ Inform \/ CoinIncrease \/ CoinDecrease
  <2>1. InPacket /\ Report(Cmd, <<>>) /\ Cmd.op # "coinp" /\ (Cmd.op # "coindec" => coin' = coin)
    BY <1>3 DEF SetAddress, Inform, CoinIncrease, CoinDecrease
  <2>2. Recorded' /\ CountsFresh' /\ PairsAgree(reports)'
    BY <1>e, <2>1, StatusOne, ReportAdds
  <2> QED  BY <1>r, <2>1, <2>2 DEF Report
<1>4. CASE CoinInput
  <2> DEFINE counts == [s \in 1 .. Cmd.slots |-> IF s \in Slot THEN coin[s] % CountModulus ELSE 0]
  <2>1. InPacket /\ Report(Cmd, counts) /\ Cmd.op = "coinp" /\ coin' = coin
    BY <1>4 DEF CoinInput
  <2>2. Cmd.slots \in Nat
    BY <2>1, CmdTyped DEF NodeInv
  <2>3. counts \in Seq(Nat)
    <3>1. \A s \in Slot : coin[s] % CountModulus \in Nat
      BY NodeAssumption DEF NodeInv, TypeOK
    <3>2. counts \in [1 .. Cmd.slots -> Nat]
      BY <3>1
    <3> QED  BY <2>2, <3>2, SeqDef
  <2>4. \A s \in DOMAIN counts : counts[s] = CountOf(s)
    BY DEF CountOf
  <2>5. Recorded' /\ CountsFresh' /\ PairsAgree(reports)'
    <3> HIDE DEF counts
    <3> QED  BY <2>1, <2>3, <2>4, StatusOne, ReportAdds
  <2> QED  BY <1>r, <2>1, <2>5 DEF Report
<1>5. CASE Unknown
  <2>1. Recorded' /\ UNCHANGED reply /\ reports' = <<>>
    BY <1>5, <1>e DEF Unknown, Recorded, InPacket
  <2> QED  BY <1>n, <1>r, <2>1
<1>6. CASE EndPacket
  <2>1. Recorded' /\ reports' = <<>>
    BY <1>6, <1>e DEF EndPacket, Recorded
  <2>2. /\ packet \in Packet /\ packet.cmds \in Seq(Command) /\ Len(packet.cmds) \in Nat
        /\ reports \in Seq(ReportRec) /\ Len(reports) \in Nat /\ at \in Nat
    BY <1>6, NodeAssumption, LenProperties DEF EndPacket, NodeInv, TypeOK, Recorded
  <2>7. CASE len > Longest
    <3>1. UNCHANGED reply
      BY <1>6, <2>7 DEF EndPacket
    <3> QED  BY <1>n, <1>r, <2>1, <3>1
  <2> SUFFICES ASSUME ~(len > Longest) PROVE Recorded' /\ CountsFresh' /\ PairsAgree(reports)' /\ ReplyTrue'
    BY <2>7
  <2>3. /\ reply'.reports = reports /\ reply'.packet = packet
        /\ reply'.status = status /\ reply'.cut = InPacket
    BY <1>6 DEF EndPacket
  <2>4. /\ DOMAIN reports = 1 .. Len(reports)
        /\ status = 1 => /\ \A i \in 1 .. Len(reports) : reports[i].cmd = packet.cmds[i]
                         /\ ~InPacket => Len(reports) = Len(packet.cmds)
    BY <1>6, <2>2, LenProperties DEF EndPacket, InPacket, NodeInv, Recorded
  <2>5. EveryCommandReported'
    BY <2>3, <2>4 DEF EveryCommandReported
  <2>6. PairsAgree(reply'.reports)
    BY <2>3 DEF NodeInv, PairsAgree, NoneTaken
  <2> QED  BY <1>n, <2>1, <2>2, <2>3, <2>5, <2>6 DEF ReplyTrue, PairsAgree, NoneTaken
<1>7. CASE Insert
  <2>1. packet = None /\ reports = <<>> /\ UNCHANGED packetVars
    BY <1>7 DEF Insert, NodeInv, Recorded
  <2> QED  BY <1>n, <1>r, <2>1 DEF NodeInv, Recorded
<1>8. CASE Poll \/ CoinTake \/ MoveKey \/ MovePad \/ MoveFocus \/ UNCHANGED vars
  BY <1>0, <1>8 DEF Poll, CoinTake, MoveKey, MovePad, MoveFocus, vars
<1> QED
  BY <1>1, <1>2, <1>3, <1>4, <1>5, <1>6, <1>7, <1>8, <1>n, <1>r DEF Next, Handle

LEMMA NodeStart == Init => NodeInv
<1> SUFFICES ASSUME Init PROVE NodeInv
  OBVIOUS
<1>1. TypeOK
  <2>1. coin \in [Slot -> Nat] /\ {key, pad, front, hadCoin} \subseteq BOOLEAN
    BY DEF Init
  <2>2. /\ address \in Nat /\ pending \in Nat /\ spent \in Nat /\ handed \in Nat
        /\ inserted \in Nat /\ presses \in Nat /\ returns \in Nat /\ len \in Nat
        /\ at \in Nat \ {0} /\ status \in {1, 2}
    BY DEF Init
  <2> QED  BY <2>1, <2>2 DEF Init, TypeOK
<1>2. reports = <<>> /\ packet = None /\ reply = None /\ Len(<<>>) = 0 /\ <<>> \in Seq(ReportRec)
  BY EmptySeq DEF Init
<1> QED
  BY <1>1, <1>2 DEF NodeInv, Recorded, CountsFresh, PairsAgree, ReplyTrue

LEMMA NodeAlways == Spec => []NodeInv
  BY NodeStart, NodeStep, PTL DEF Spec

(***************************************************************************)
(* A reply of status 1 reports every command of its packet, in order, up   *)
(* to where it had no more room, whatever packets are sent                 *)
(* (handle_packet).                                                        *)
(***************************************************************************)
THEOREM CommandsReported == Spec => []EveryCommandReported
<1>1. NodeInv => EveryCommandReported
  BY DEF NodeInv, ReplyTrue, EveryCommandReported
<1> QED
  BY <1>1, NodeAlways, PTL

(***************************************************************************)
(* Two counts of a slot in one reply agree unless a decrease is between    *)
(* them: the coins that drop meanwhile wait for the lock (input_poll).     *)
(***************************************************************************)
THEOREM RepliesAgree == Spec => []CountsAgree
<1>1. NodeInv => CountsAgree
  <2> SUFFICES ASSUME NodeInv, reply # None PROVE CountsAgree
    BY DEF CountsAgree
  <2>1. reply.reports \in Seq(ReportRec) /\ PairsAgree(reply.reports)
    BY DEF NodeInv, ReplyTrue
  <2>2. DOMAIN reply.reports = 1 .. Len(reply.reports)
    BY <2>1, LenProperties
  <2> QED  BY <2>1, <2>2 DEF CountsAgree, PairsAgree, NoneTaken
<1> QED
  BY <1>1, NodeAlways, PTL
-----------------------------------------------------------------------------
(***************************************************************************)
(* The wire.  First what the recursive functions compute (Stuffed, Sums,   *)
(* Wired, Scans); then that the parser, run over a frame, has taken the    *)
(* frame and nothing else when it is through (FrameScans, WholeAhead), and *)
(* is not through before that (PartAhead); then what the bytes in flight   *)
(* are: OnTheWire, the frames of the packets not handled yet, behind some  *)
(* noise, or AstrayOn, the same behind a piece of a packet that was given  *)
(* up.  WireInv says which of the two it is, or that the parser waits for  *)
(* good, and that is inductive.                                            *)
(***************************************************************************)
LEMMA WireConstants ==
    /\ Modulus \in Nat /\ Modulus > 2 /\ SYNC \in 1 .. Modulus - 1
    /\ ESCAPE \in 1 .. Modulus - 1 /\ ESCAPE # SYNC /\ ESCAPE # SYNC + 1
    /\ BodySize \in Nat /\ FIFO_SIZE \in Nat /\ MaxLine \in Nat /\ MaxSent \in Nat
<1> QED  BY WireAssumption DEF Byte

\* What out_byte() makes of a byte: one byte or two, and no SYNC.
LEMMA EscapedTyped ==
    ASSUME NEW b \in Byte
    PROVE  /\ Escaped(b) \in Seq(Byte) /\ Len(Escaped(b)) \in 1 .. 2
           /\ \A i \in 1 .. Len(Escaped(b)) : Escaped(b)[i] # SYNC
<1>1. CASE b \in {SYNC, ESCAPE}
  BY <1>1, WireConstants DEF Escaped, Byte
<1>2. CASE b \notin {SYNC, ESCAPE}
  BY <1>2 DEF Escaped
<1> QED  BY <1>1, <1>2

-----------------------------------------------------------------------------
\* The recursive functions are what their equations say.
LEMMA StuffedUnfolds ==
    ASSUME NEW s \in Seq(Byte)
    PROVE  /\ Stuffed(s) \in [0 .. Len(s) -> Seq(Byte)]
           /\ Stuffed(s)[0] = << >>
           /\ \A k \in 1 .. Len(s) : Stuffed(s)[k] = Stuffed(s)[k - 1] \o Escaped(s[k])
<1> DEFINE N == Len(s)
           h == Stuffed(s)
           g == [k \in 1 .. N |-> [v \in Seq(Byte) |-> v \o Escaped(s[k])]]
<1>1. N \in Nat /\ << >> \in Seq(Byte) /\ \A k \in 1 .. N : s[k] \in Byte
  BY LenProperties, EmptySeq, ElementOfSeq
<1>2. \A k \in 1 .. N, v \in Seq(Byte) : v \o Escaped(s[k]) \in Seq(Byte)
  BY <1>1, EscapedTyped, ConcatProperties
<1>3. g \in [1 .. N -> [Seq(Byte) -> Seq(Byte)]]  BY <1>2
<1>4. \A k \in 1 .. N, v \in Seq(Byte) : g[k][v] = v \o Escaped(s[k])  OBVIOUS
<1> HIDE DEF g, N
<1>5. PICK f \in [0 .. N -> Seq(Byte)] : Iterates(f, N, << >>, g)
  BY <1>1, <1>3, RecursionOnRange
<1>6. f[0] = << >> /\ \A k \in 1 .. N : f[k] = g[k][f[k - 1]]
  BY <1>5 DEF Iterates
<1>7. /\ 0 \in 0 .. N
      /\ \A k \in 1 .. N : k - 1 \in 0 .. N /\ k \in 0 .. N /\ k # 0
      /\ \A k \in 0 .. N : k # 0 => k \in 1 .. N
  BY <1>1
<1>8. \A k \in 1 .. N : f[k] = f[k - 1] \o Escaped(s[k])
  BY <1>4, <1>6, <1>7
<1>9. \A k \in 0 .. N : f[k] = IF k = 0 THEN << >> ELSE f[k - 1] \o Escaped(s[k])
  BY <1>6, <1>7, <1>8, Zenon
<1>10. f = [k \in 0 .. N |-> IF k = 0 THEN << >> ELSE f[k - 1] \o Escaped(s[k])]
  BY <1>6, <1>9
<1>11. h = [k \in 0 .. N |-> IF k = 0 THEN << >> ELSE h[k - 1] \o Escaped(s[k])]
  BY <1>10, Zenon DEF Stuffed, N
<1> HIDE DEF h
<1>12. \A k \in 0 .. N : h[k] = IF k = 0 THEN << >> ELSE h[k - 1] \o Escaped(s[k])
  BY <1>11, Zenon
<1>13. h[0] = << >> /\ \A k \in 1 .. N : h[k] = h[k - 1] \o Escaped(s[k])
  BY <1>7, <1>12, Zenon
<1>14. \A k \in 0 .. N : h[k] \in Seq(Byte)
  <2>1. h[0] \in Seq(Byte)  BY <1>1, <1>13
  <2>2. \A k \in 1 .. N : h[k - 1] \in Seq(Byte) => h[k] \in Seq(Byte)
    BY <1>2, <1>13, Zenon
  <2> QED  BY <1>1, <2>1, <2>2, RecursionTyped
<1>15. DOMAIN h = 0 .. N /\ h = [k \in 0 .. N |-> h[k]]
  BY <1>11, <1>12
<1> QED  BY <1>13, <1>14, <1>15 DEF h, N

LEMMA SumsUnfolds ==
    ASSUME NEW s \in Seq(Byte)
    PROVE  /\ Sums(s) \in [0 .. Len(s) -> Byte]
           /\ Sums(s)[0] = 0
           /\ \A k \in 1 .. Len(s) : Sums(s)[k] = (Sums(s)[k - 1] + s[k]) % Modulus
<1> DEFINE N == Len(s)
           h == Sums(s)
           g == [k \in 1 .. N |-> [v \in Byte |-> (v + s[k]) % Modulus]]
<1>1. N \in Nat /\ 0 \in Byte
  BY LenProperties, WireConstants DEF Byte
<1>2. \A k \in 1 .. N, v \in Byte : (v + s[k]) % Modulus \in Byte
  <2>1. \A k \in 1 .. N : s[k] \in Byte  BY LenProperties, ElementOfSeq
  <2> QED  BY <2>1, WireConstants DEF Byte
<1>3. g \in [1 .. N -> [Byte -> Byte]]  BY <1>2
<1>4. \A k \in 1 .. N, v \in Byte : g[k][v] = (v + s[k]) % Modulus  OBVIOUS
<1> HIDE DEF g, N
<1>5. PICK f \in [0 .. N -> Byte] : Iterates(f, N, 0, g)
  BY <1>1, <1>3, RecursionOnRange
<1>6. f[0] = 0 /\ \A k \in 1 .. N : f[k] = g[k][f[k - 1]]
  BY <1>5 DEF Iterates
<1>7. /\ 0 \in 0 .. N
      /\ \A k \in 1 .. N : k - 1 \in 0 .. N /\ k \in 0 .. N /\ k # 0
      /\ \A k \in 0 .. N : k # 0 => k \in 1 .. N
  BY <1>1
<1>8. \A k \in 1 .. N : f[k] = (f[k - 1] + s[k]) % Modulus
  BY <1>4, <1>6, <1>7
<1>9. \A k \in 0 .. N : f[k] = IF k = 0 THEN 0 ELSE (f[k - 1] + s[k]) % Modulus
  BY <1>6, <1>7, <1>8, Zenon
<1>10. f = [k \in 0 .. N |-> IF k = 0 THEN 0 ELSE (f[k - 1] + s[k]) % Modulus]
  BY <1>6, <1>9
<1>11. h = [k \in 0 .. N |-> IF k = 0 THEN 0 ELSE (h[k - 1] + s[k]) % Modulus]
  BY <1>10, Zenon DEF Sums, N
<1> HIDE DEF h
<1>12. \A k \in 0 .. N : h[k] = IF k = 0 THEN 0 ELSE (h[k - 1] + s[k]) % Modulus
  BY <1>11, Zenon
<1>13. h[0] = 0 /\ \A k \in 1 .. N : h[k] = (h[k - 1] + s[k]) % Modulus
  BY <1>7, <1>12, Zenon
<1>14. \A k \in 0 .. N : h[k] \in Byte
  <2>1. h[0] \in Byte  BY <1>1, <1>13
  <2>2. \A k \in 1 .. N : h[k - 1] \in Byte => h[k] \in Byte
    BY <1>2, <1>13, Zenon
  <2> QED  BY <1>1, <2>1, <2>2, RecursionTyped
<1>15. DOMAIN h = 0 .. N /\ h = [k \in 0 .. N |-> h[k]]
  BY <1>11, <1>12
<1> QED  BY <1>13, <1>14, <1>15 DEF h, N

\* What the un-escaping loop can know.
ScanState == [body : Seq(Byte), size : Byte, esc : BOOLEAN, used : Nat, done : BOOLEAN]

ScanStart == [body |-> << >>, size |-> 0, esc |-> FALSE, used |-> 1, done |-> FALSE]

LEMMA ScanTyped ==
    ASSUME NEW a \in ScanState, NEW b \in Byte
    PROVE  Scan(a, b) \in ScanState
<1> DEFINE v    == IF a.esc THEN (b + 1) % Modulus ELSE b
           body == Append(a.body, v)
           size == IF Len(body) = 2 THEN v ELSE a.size
<1>1. v \in Byte  BY WireConstants DEF Byte
<1>2. body \in Seq(Byte) /\ size \in Byte
  BY <1>1, AppendProperties DEF ScanState
<1>3. CASE a.done \/ Len(a.body) = BodySize
  BY <1>3 DEF Scan
<1>4. CASE ~(a.done \/ Len(a.body) = BodySize) /\ b = ESCAPE /\ ~a.esc
  <2>1. Scan(a, b) = [a EXCEPT !.esc = TRUE, !.used = @ + 1]  BY <1>4 DEF Scan
  <2>2. Scan(a, b) = [body |-> a.body, size |-> a.size, esc |-> TRUE,
                      used |-> a.used + 1, done |-> a.done]
    BY <2>1 DEF ScanState
  <2>3. a.body \in Seq(Byte) /\ a.size \in Byte /\ a.used + 1 \in Nat /\ a.done \in BOOLEAN
    BY DEF ScanState
  <2> QED  BY <2>2, <2>3 DEF ScanState
<1>5. CASE ~(a.done \/ Len(a.body) = BodySize) /\ ~(b = ESCAPE /\ ~a.esc)
  <2>1. Scan(a, b) = [body |-> body, size |-> size, esc |-> FALSE, used |-> a.used + 1,
                      done |-> Len(body) >= 2 /\ size # 0 /\ Len(body) = size + 2]
    BY <1>5 DEF Scan
  <2> HIDE DEF body, size
  <2> QED  BY <1>2, <2>1 DEF ScanState
<1> QED  BY <1>3, <1>4, <1>5

LEMMA ScansUnfolds ==
    ASSUME NEW s \in Seq(Byte), s # << >>
    PROVE  /\ Scans(s) \in [0 .. Len(s) - 1 -> ScanState]
           /\ Scans(s)[0] = ScanStart
           /\ \A k \in 1 .. Len(s) - 1 : Scans(s)[k] = Scan(Scans(s)[k - 1], s[k + 1])
<1> DEFINE N == Len(s) - 1
           h == Scans(s)
           g == [k \in 1 .. N |-> [v \in ScanState |-> Scan(v, s[k + 1])]]
<1>1. N \in Nat /\ ScanStart \in ScanState
  <2>1. Len(s) \in Nat /\ Len(s) > 0  BY LenProperties, EmptySeq
  <2>2. << >> \in Seq(Byte)  BY EmptySeq
  <2> QED  BY <2>1, <2>2, WireConstants DEF Byte, ScanState, ScanStart
<1>2. \A k \in 1 .. N, v \in ScanState : Scan(v, s[k + 1]) \in ScanState
  <2>1. \A k \in 1 .. N : k + 1 \in 1 .. Len(s)  BY LenProperties
  <2>2. \A k \in 1 .. N : s[k + 1] \in Byte  BY <2>1, ElementOfSeq
  <2> QED  BY <2>2, ScanTyped
<1>3. g \in [1 .. N -> [ScanState -> ScanState]]  BY <1>2
<1>4. \A k \in 1 .. N, v \in ScanState : g[k][v] = Scan(v, s[k + 1])  OBVIOUS
<1> HIDE DEF g, N
<1>5. PICK f \in [0 .. N -> ScanState] : Iterates(f, N, ScanStart, g)
  BY <1>1, <1>3, RecursionOnRange
<1>6. f[0] = ScanStart /\ \A k \in 1 .. N : f[k] = g[k][f[k - 1]]
  BY <1>5 DEF Iterates
<1>7. /\ 0 \in 0 .. N
      /\ \A k \in 1 .. N : k - 1 \in 0 .. N /\ k \in 0 .. N /\ k # 0
      /\ \A k \in 0 .. N : k # 0 => k \in 1 .. N
  BY <1>1
<1>8. \A k \in 1 .. N : f[k] = Scan(f[k - 1], s[k + 1])
  BY <1>4, <1>6, <1>7
<1>9. \A k \in 0 .. N : f[k] = IF k = 0 THEN ScanStart ELSE Scan(f[k - 1], s[k + 1])
  BY <1>6, <1>7, <1>8, Zenon
<1>10. f = [k \in 0 .. N |-> IF k = 0 THEN ScanStart ELSE Scan(f[k - 1], s[k + 1])]
  BY <1>6, <1>9
<1>11. h = [k \in 0 .. N |-> IF k = 0 THEN ScanStart ELSE Scan(h[k - 1], s[k + 1])]
  BY <1>10, Zenon DEF Scans, N, ScanStart
<1> HIDE DEF h
<1>12. \A k \in 0 .. N : h[k] = IF k = 0 THEN ScanStart ELSE Scan(h[k - 1], s[k + 1])
  BY <1>11, Zenon
<1>13. h[0] = ScanStart /\ \A k \in 1 .. N : h[k] = Scan(h[k - 1], s[k + 1])
  BY <1>7, <1>12, Zenon
<1>14. \A k \in 0 .. N : h[k] \in ScanState
  <2>1. h[0] \in ScanState  BY <1>1, <1>13
  <2>2. \A k \in 1 .. N : h[k - 1] \in ScanState => h[k] \in ScanState
    BY <1>2, <1>13, Zenon
  <2> QED  BY <1>1, <2>1, <2>2, RecursionTyped
<1>15. DOMAIN h = 0 .. N /\ h = [k \in 0 .. N |-> h[k]]
  BY <1>11, <1>12
<1> QED  BY <1>13, <1>14, <1>15 DEF h, N
-----------------------------------------------------------------------------
\* What a packet's bytes are before they are escaped.
LEMMA MessageTyped ==
    ASSUME NEW p \in Message
    PROVE  /\ p.dest \in Byte /\ p.data \in Seq(Byte) /\ p.ok \in BOOLEAN
           /\ p = [dest |-> p.dest, data |-> p.data, ok |-> p.ok]
           /\ Len(p.data) \in Nat
           /\ Len(p.data) + 1 \in Byte /\ Len(p.data) + 3 <= BodySize
<1>1. p \in [dest : Byte, data : Seq(Byte), ok : BOOLEAN]
  BY WireAssumption
<1>2. p.dest \in Byte /\ p.data \in Seq(Byte) /\ p.ok \in BOOLEAN
      /\ p = [dest |-> p.dest, data |-> p.data, ok |-> p.ok]
  BY <1>1
<1>3. Len(p.data) \in Nat  BY <1>2, LenProperties
<1>4. Len(p.data) + 3 <= BodySize /\ Len(p.data) + 1 < Modulus  BY RoomAssumption
<1> QED  BY <1>2, <1>3, <1>4, WireConstants DEF Byte

LEMMA HeaderFacts ==
    ASSUME NEW p \in Message
    PROVE  /\ Header(p) \in Seq(Byte) /\ Len(Header(p)) = Len(p.data) + 2
           /\ Header(p)[1] = p.dest /\ Header(p)[2] = Len(p.data) + 1
           /\ \A i \in 1 .. Len(p.data) : Header(p)[i + 2] = p.data[i]
<1> DEFINE a == <<p.dest, Len(p.data) + 1>>
           d == p.data
<1>1. a \in Seq(Byte) /\ Len(a) = 2 /\ a[1] = p.dest /\ a[2] = Len(p.data) + 1
  BY MessageTyped
<1>2. d \in Seq(Byte) /\ Len(d) \in Nat  BY MessageTyped
<1>3. Header(p) = a \o d  BY DEF Header
<1> HIDE DEF a, d
<1>4. /\ a \o d \in Seq(Byte) /\ Len(a \o d) = Len(a) + Len(d)
      /\ \A i \in 1 .. Len(a) + Len(d) :
            (a \o d)[i] = IF i <= Len(a) THEN a[i] ELSE d[i - Len(a)]
  BY <1>1, <1>2, ConcatProperties
<1>5. (a \o d)[1] = a[1] /\ (a \o d)[2] = a[2]  BY <1>1, <1>2, <1>4
<1>6. \A i \in 1 .. Len(d) : (a \o d)[i + 2] = d[i]
  <2> TAKE i \in 1 .. Len(d)
  <2>1. i + 2 \in 1 .. Len(a) + Len(d) /\ ~(i + 2 <= Len(a)) /\ (i + 2) - Len(a) = i
    BY <1>1, <1>2
  <2> QED  BY <2>1, <1>4
<1> QED  BY <1>1, <1>2, <1>3, <1>4, <1>5, <1>6 DEF d

LEMMA CheckSumTyped ==
    ASSUME NEW p \in Message
    PROVE  /\ CheckSum(p) \in Byte
           /\ p.ok <=> CheckSum(p) = Sums(Header(p))[Len(p.data) + 2]
<1> DEFINE n == Len(p.data) + 2
           sum == Sums(Header(p))[n]
<1>1. Header(p) \in Seq(Byte) /\ Len(Header(p)) = n  BY HeaderFacts
<1>2. n \in 0 .. n  BY MessageTyped
<1> HIDE DEF n
<1>3. sum \in Byte  BY <1>1, <1>2, SumsUnfolds
<1> HIDE DEF sum
<1>4. (sum + 1) % Modulus \in Byte /\ (sum + 1) % Modulus # sum
  <2>1. sum \in 0 .. Modulus - 1  BY <1>3 DEF Byte
  <2>2. CASE sum = Modulus - 1
    <3>1. (sum + 1) % Modulus = 0  BY <2>2, WireConstants
    <3> QED  BY <3>1, <2>2, WireConstants DEF Byte
  <2>3. CASE sum # Modulus - 1
    <3>1. (sum + 1) % Modulus = sum + 1  BY <2>1, <2>3, WireConstants
    <3> QED  BY <3>1, <2>1, <2>3, WireConstants DEF Byte
  <2> QED  BY <2>2, <2>3
<1>5. CheckSum(p) = IF p.ok THEN sum ELSE (sum + 1) % Modulus
  BY DEF CheckSum, sum, n
<1>6. p.ok \in BOOLEAN  BY MessageTyped
<1>7. (p.ok <=> CheckSum(p) = sum) /\ CheckSum(p) \in Byte  BY <1>3, <1>4, <1>5, <1>6
<1> QED  BY <1>7 DEF sum, n

LEMMA BodyFacts ==
    ASSUME NEW p \in Message
    PROVE  /\ Body(p) \in Seq(Byte) /\ Len(Body(p)) = Len(p.data) + 3
           /\ Body(p)[1] = p.dest /\ Body(p)[2] = Len(p.data) + 1
           /\ \A i \in 1 .. Len(p.data) : Body(p)[i + 2] = p.data[i]
           /\ \A i \in 1 .. Len(p.data) + 2 : Body(p)[i] = Header(p)[i]
           /\ Body(p)[Len(p.data) + 3] = CheckSum(p)
<1> DEFINE h == Header(p)
           c == CheckSum(p)
<1>1. h \in Seq(Byte) /\ Len(h) = Len(p.data) + 2 /\ c \in Byte /\ Len(p.data) \in Nat
  BY HeaderFacts, CheckSumTyped, MessageTyped
<1>2. Body(p) = Append(h, c)  BY DEF Body
<1> HIDE DEF h, c
<1>3. /\ Append(h, c) \in Seq(Byte) /\ Len(Append(h, c)) = Len(h) + 1
      /\ \A i \in 1 .. Len(h) : Append(h, c)[i] = h[i]
      /\ Append(h, c)[Len(h) + 1] = c
  BY <1>1, AppendProperties
<1>4. /\ Body(p) \in Seq(Byte) /\ Len(Body(p)) = Len(p.data) + 3
      /\ \A i \in 1 .. Len(p.data) + 2 : Body(p)[i] = h[i]
      /\ Body(p)[Len(p.data) + 3] = c
  BY <1>1, <1>2, <1>3
<1>5. 1 \in 1 .. Len(p.data) + 2 /\ 2 \in 1 .. Len(p.data) + 2
      /\ \A i \in 1 .. Len(p.data) : i + 2 \in 1 .. Len(p.data) + 2
  BY <1>1
<1> QED  BY <1>4, <1>5, HeaderFacts DEF h, c

-----------------------------------------------------------------------------
\* How long escaped bytes are: one or two for each.
LEMMA StuffedGrows ==
    ASSUME NEW s \in Seq(Byte)
    PROVE  /\ Len(Stuffed(s)[0]) = 0
           /\ \A k \in 0 .. Len(s) : Len(Stuffed(s)[k]) \in Nat
           /\ \A k \in 1 .. Len(s) :
                 /\ Len(Stuffed(s)[k]) = Len(Stuffed(s)[k - 1]) + Len(Escaped(s[k]))
                 /\ \A i \in 1 .. Len(Stuffed(s)[k - 1]) :
                       Stuffed(s)[k][i] = Stuffed(s)[k - 1][i]
                 /\ \A i \in 1 .. Len(Escaped(s[k])) :
                       Stuffed(s)[k][Len(Stuffed(s)[k - 1]) + i] = Escaped(s[k])[i]
           /\ \A k \in 0 .. Len(s) :
                 k <= Len(Stuffed(s)[k]) /\ Len(Stuffed(s)[k]) <= 2 * k
<1> DEFINE h == Stuffed(s)
           N == Len(s)
<1>1. /\ h \in [0 .. N -> Seq(Byte)] /\ h[0] = << >>
      /\ \A k \in 1 .. N : h[k] = h[k - 1] \o Escaped(s[k])
  BY StuffedUnfolds
<1>2. N \in Nat /\ \A k \in 1 .. N : s[k] \in Byte
  BY LenProperties, ElementOfSeq
<1> HIDE DEF h, N
<1>3. \A k \in 1 .. N : k \in 0 .. N /\ k - 1 \in 0 .. N  BY <1>2
<1>4. \A k \in 0 .. N : h[k] \in Seq(Byte) /\ Len(h[k]) \in Nat
  <2> TAKE k \in 0 .. N
  <2>1. h[k] \in Seq(Byte)  BY <1>1
  <2> QED  BY <2>1, LenProperties
<1>5. \A k \in 1 .. N :
         /\ Len(Escaped(s[k])) \in 1 .. 2
         /\ Len(h[k]) = Len(h[k - 1]) + Len(Escaped(s[k]))
         /\ \A i \in 1 .. Len(h[k - 1]) : h[k][i] = h[k - 1][i]
         /\ \A i \in 1 .. Len(Escaped(s[k])) : h[k][Len(h[k - 1]) + i] = Escaped(s[k])[i]
  <2> TAKE k \in 1 .. N
  <2> DEFINE a == h[k - 1]
             b == Escaped(s[k])
  <2>1. a \in Seq(Byte) /\ Len(a) \in Nat  BY <1>3, <1>4
  <2>2. b \in Seq(Byte) /\ Len(b) \in 1 .. 2  BY <1>2, EscapedTyped
  <2>3. h[k] = a \o b  BY <1>1
  <2> HIDE DEF a, b
  <2>4. /\ Len(a \o b) = Len(a) + Len(b)
        /\ \A i \in 1 .. Len(a) + Len(b) :
              (a \o b)[i] = IF i <= Len(a) THEN a[i] ELSE b[i - Len(a)]
    BY <2>1, <2>2, ConcatProperties
  <2>5. \A i \in 1 .. Len(a) : (a \o b)[i] = a[i]  BY <2>1, <2>2, <2>4
  <2>6. \A i \in 1 .. Len(b) : (a \o b)[Len(a) + i] = b[i]
    <3> TAKE i \in 1 .. Len(b)
    <3>1. Len(a) + i \in 1 .. Len(a) + Len(b) /\ ~(Len(a) + i <= Len(a))
          /\ (Len(a) + i) - Len(a) = i
      BY <2>1, <2>2
    <3> QED  BY <3>1, <2>4
  <2> QED  BY <2>2, <2>3, <2>4, <2>5, <2>6 DEF a, b
<1>6. Len(h[0]) = 0  BY <1>1, EmptySeq
<1>7. \A k \in 0 .. N : k <= Len(h[k]) /\ Len(h[k]) <= 2 * k
  <2> DEFINE T == {k \in 0 .. N : k <= Len(h[k]) /\ Len(h[k]) <= 2 * k}
  <2>1. 0 \in T  BY <1>2, <1>6
  <2>2. ASSUME NEW k \in 0 .. N - 1, k \in T PROVE k + 1 \in T
    <3>1. k + 1 \in 1 .. N /\ (k + 1) - 1 = k /\ k \in 0 .. N  BY <1>2
    <3>2. Len(h[k + 1]) = Len(h[k]) + Len(Escaped(s[k + 1]))
          /\ Len(Escaped(s[k + 1])) \in 1 .. 2
      BY <3>1, <1>5
    <3>3. Len(h[k]) \in Nat /\ k <= Len(h[k]) /\ Len(h[k]) <= 2 * k  BY <2>2, <3>1, <1>4
    <3>4. k + 1 <= Len(h[k + 1]) /\ Len(h[k + 1]) <= 2 * (k + 1)
      <4> DEFINE x == Len(h[k])
                 y == Len(Escaped(s[k + 1]))
                 z == Len(h[k + 1])
      <4>1. k \in Nat /\ x \in Nat /\ k <= x /\ x <= 2 * k /\ y \in 1 .. 2 /\ z = x + y
        BY <1>2, <3>1, <3>2, <3>3
      <4> HIDE DEF x, y, z
      <4>2. k + 1 <= z /\ z <= 2 * (k + 1)  BY <4>1
      <4> QED  BY <4>2 DEF z
    <3>5. k + 1 \in 0 .. N  BY <3>1
    <3> QED  BY <3>4, <3>5
  <2>3. 0 .. N \subseteq T
    <3> HIDE DEF T
    <3> QED  BY <1>2, <2>1, <2>2, RangeInduction
  <2> QED  BY <2>3
<1> QED  BY <1>4, <1>5, <1>6, <1>7 DEF h, N

\* No escaped byte is a SYNC.
LEMMA StuffedNoSync ==
    ASSUME NEW s \in Seq(Byte)
    PROVE  \A k \in 0 .. Len(s) : \A i \in 1 .. Len(Stuffed(s)[k]) : Stuffed(s)[k][i] # SYNC
<1> DEFINE h == Stuffed(s)
           N == Len(s)
           T == {k \in 0 .. N : \A i \in 1 .. Len(h[k]) : h[k][i] # SYNC}
<1>1. N \in Nat /\ \A k \in 1 .. N : s[k] \in Byte
  BY LenProperties, ElementOfSeq
<1>2. 0 \in T
  <2>1. Len(h[0]) = 0  BY StuffedGrows
  <2>2. 0 \in 0 .. N  BY <1>1
  <2> HIDE DEF h
  <2> QED  BY <2>1, <2>2
<1>3. ASSUME NEW k \in 0 .. N - 1, k \in T PROVE k + 1 \in T
  <2> DEFINE b == Escaped(s[k + 1])
  <2>1. k + 1 \in 1 .. N /\ (k + 1) - 1 = k /\ k \in 0 .. N /\ k + 1 \in 0 .. N  BY <1>1
  <2>2. /\ Len(h[k]) \in Nat
        /\ Len(h[k + 1]) = Len(h[k]) + Len(b)
        /\ \A i \in 1 .. Len(h[k]) : h[k + 1][i] = h[k][i]
        /\ \A i \in 1 .. Len(b) : h[k + 1][Len(h[k]) + i] = b[i]
    <3>1. /\ \A x \in 0 .. N : Len(h[x]) \in Nat
          /\ \A x \in 1 .. N :
                /\ Len(h[x]) = Len(h[x - 1]) + Len(Escaped(s[x]))
                /\ \A i \in 1 .. Len(h[x - 1]) : h[x][i] = h[x - 1][i]
                /\ \A i \in 1 .. Len(Escaped(s[x])) :
                      h[x][Len(h[x - 1]) + i] = Escaped(s[x])[i]
      BY StuffedGrows
    <3> HIDE DEF h, N
    <3> QED  BY <2>1, <3>1
  <2>3. Len(b) \in 1 .. 2 /\ \A i \in 1 .. Len(b) : b[i] # SYNC
    BY <1>1, <2>1, EscapedTyped
  <2>4. \A i \in 1 .. Len(h[k]) : h[k][i] # SYNC  BY <1>3
  <2> HIDE DEF h, b
  <2>5. ASSUME NEW i \in 1 .. Len(h[k + 1]) PROVE h[k + 1][i] # SYNC
    <3>1. CASE i \in 1 .. Len(h[k])  BY <2>2, <2>4, <3>1
    <3>2. CASE i \notin 1 .. Len(h[k])
      <4>1. i - Len(h[k]) \in 1 .. Len(b) /\ Len(h[k]) + (i - Len(h[k])) = i
        BY <2>2, <2>3, <3>2
      <4> QED  BY <4>1, <2>2, <2>3
    <3> QED  BY <3>1, <3>2
  <2> QED  BY <2>1, <2>5
<1>4. 0 .. N \subseteq T
  <2> HIDE DEF T
  <2> QED  BY <1>1, <1>2, <1>3, RangeInduction
<1> QED  BY <1>4

\* The escaped bytes of the first j begin those of the first k.
LEMMA StuffedPrefix ==
    ASSUME NEW s \in Seq(Byte), NEW j \in 0 .. Len(s), NEW k \in j .. Len(s)
    PROVE  Begins(Stuffed(s)[j], Stuffed(s)[k])
<1> DEFINE h == Stuffed(s)
           N == Len(s)
           e == [i \in 1 .. N |-> Escaped(s[i])]
<1>1. N \in Nat /\ \A i \in 1 .. N : s[i] \in Byte
  BY LenProperties, ElementOfSeq
<1>2. h \in [0 .. N -> Seq(Byte)]  BY StuffedUnfolds
<1>3. e \in [1 .. N -> Seq(Byte)]  BY <1>1, EscapedTyped
<1>4. \A i \in 1 .. N : h[i] = h[i - 1] \o e[i]  BY StuffedUnfolds
<1>5. N \in Nat  BY <1>1
<1>6. j \in 0 .. N  OBVIOUS
<1>7. k \in j .. N  OBVIOUS
<1> HIDE DEF h, e, N
<1>8. Joins(h, e, N)  BY <1>4 DEF Joins
<1>9. \A i \in j .. N : Begins(h[j], h[i])
  BY <1>2, <1>3, <1>5, <1>6, <1>8, PiecesGrow, Zenon
<1> QED  BY <1>7, <1>9 DEF h

\* A frame begins with its only SYNC.
LEMMA FrameFacts ==
    ASSUME NEW p \in Message
    PROVE  /\ Frame(p) \in Seq(Byte)
           /\ Len(Frame(p)) = 1 + Len(Stuffed(Body(p))[Len(p.data) + 3])
           /\ Len(Frame(p)) >= 4 /\ Len(Frame(p)) <= 1 + 2 * BodySize
           /\ Frame(p)[1] = SYNC
           /\ \A i \in 2 .. Len(Frame(p)) : Frame(p)[i] # SYNC
           /\ \A i \in 1 .. Len(Frame(p)) - 1 :
                 Frame(p)[i + 1] = Stuffed(Body(p))[Len(p.data) + 3][i]
<1> DEFINE n == Len(p.data) + 3
           a == <<SYNC>>
           b == Stuffed(Body(p))[n]
<1>1. n \in Nat /\ n >= 3 /\ n <= BodySize /\ BodySize \in Nat
  BY MessageTyped, WireConstants
<1>2. Body(p) \in Seq(Byte) /\ Len(Body(p)) = n  BY BodyFacts
<1> HIDE DEF n
<1>3. n \in 0 .. n  BY <1>1
<1>4. b \in Seq(Byte)  BY <1>2, <1>3, StuffedUnfolds
<1>5. Len(b) \in Nat /\ n <= Len(b) /\ Len(b) <= 2 * n  BY <1>2, <1>3, StuffedGrows
<1>6. \A i \in 1 .. Len(b) : b[i] # SYNC  BY <1>2, <1>3, StuffedNoSync
<1>7. a \in Seq(Byte) /\ Len(a) = 1 /\ a[1] = SYNC  BY WireConstants DEF Byte
<1>8. Frame(p) = a \o b  BY DEF Frame, n
<1> HIDE DEF a, b
<1>9. /\ a \o b \in Seq(Byte) /\ Len(a \o b) = Len(a) + Len(b)
      /\ \A i \in 1 .. Len(a) + Len(b) :
            (a \o b)[i] = IF i <= Len(a) THEN a[i] ELSE b[i - Len(a)]
  BY <1>4, <1>7, ConcatProperties
<1>10. (a \o b)[1] = SYNC  BY <1>5, <1>7, <1>9
<1>11. ASSUME NEW i \in 1 .. Len(b) PROVE (a \o b)[i + 1] = b[i]
  <2>1. i + 1 \in 1 .. Len(a) + Len(b) /\ ~(i + 1 <= Len(a)) /\ (i + 1) - Len(a) = i
    BY <1>5, <1>7
  <2> QED  BY <2>1, <1>9
<1>12. ASSUME NEW i \in 2 .. Len(a \o b) PROVE (a \o b)[i] # SYNC
  <2>1. i - 1 \in 1 .. Len(b) /\ (i - 1) + 1 = i  BY <1>5, <1>7, <1>9
  <2> QED  BY <2>1, <1>6, <1>11
<1>13. /\ Len(a \o b) = 1 + Len(b) /\ Len(a \o b) >= 4
       /\ Len(a \o b) <= 1 + 2 * BodySize /\ Len(a \o b) - 1 = Len(b)
  BY <1>1, <1>5, <1>7, <1>9
<1> QED  BY <1>8, <1>9, <1>10, <1>11, <1>12, <1>13 DEF b, n

-----------------------------------------------------------------------------
LEMMA WiredUnfolds ==
    ASSUME NEW s \in Seq(Message)
    PROVE  /\ Wired(s) \in [0 .. Len(s) -> Seq(Byte)]
           /\ Wired(s)[0] = << >>
           /\ \A k \in 1 .. Len(s) : Wired(s)[k] = Wired(s)[k - 1] \o Frame(s[k])
<1> DEFINE N == Len(s)
           h == Wired(s)
           g == [k \in 1 .. N |-> [v \in Seq(Byte) |-> v \o Frame(s[k])]]
<1>1. N \in Nat /\ << >> \in Seq(Byte)
  BY LenProperties, EmptySeq
<1>2. \A k \in 1 .. N, v \in Seq(Byte) : v \o Frame(s[k]) \in Seq(Byte)
  <2>1. \A k \in 1 .. N : s[k] \in Message  BY LenProperties, ElementOfSeq
  <2> QED  BY <2>1, FrameFacts, ConcatProperties
<1>3. g \in [1 .. N -> [Seq(Byte) -> Seq(Byte)]]  BY <1>2
<1>4. \A k \in 1 .. N, v \in Seq(Byte) : g[k][v] = v \o Frame(s[k])  OBVIOUS
<1> HIDE DEF g, N
<1>5. PICK f \in [0 .. N -> Seq(Byte)] : Iterates(f, N, << >>, g)
  BY <1>1, <1>3, RecursionOnRange
<1>6. f[0] = << >> /\ \A k \in 1 .. N : f[k] = g[k][f[k - 1]]
  BY <1>5 DEF Iterates
<1>7. /\ 0 \in 0 .. N
      /\ \A k \in 1 .. N : k - 1 \in 0 .. N /\ k \in 0 .. N /\ k # 0
      /\ \A k \in 0 .. N : k # 0 => k \in 1 .. N
  BY <1>1
<1>8. \A k \in 1 .. N : f[k] = f[k - 1] \o Frame(s[k])
  BY <1>4, <1>6, <1>7
<1>9. \A k \in 0 .. N : f[k] = IF k = 0 THEN << >> ELSE f[k - 1] \o Frame(s[k])
  BY <1>6, <1>7, <1>8, Zenon
<1>10. f = [k \in 0 .. N |-> IF k = 0 THEN << >> ELSE f[k - 1] \o Frame(s[k])]
  BY <1>6, <1>9
<1>11. h = [k \in 0 .. N |-> IF k = 0 THEN << >> ELSE h[k - 1] \o Frame(s[k])]
  BY <1>10, Zenon DEF Wired, N
<1> HIDE DEF h
<1>12. \A k \in 0 .. N : h[k] = IF k = 0 THEN << >> ELSE h[k - 1] \o Frame(s[k])
  BY <1>11, Zenon
<1>13. h[0] = << >> /\ \A k \in 1 .. N : h[k] = h[k - 1] \o Frame(s[k])
  BY <1>7, <1>12, Zenon
<1>14. \A k \in 0 .. N : h[k] \in Seq(Byte)
  <2>1. h[0] \in Seq(Byte)  BY <1>1, <1>13
  <2>2. \A k \in 1 .. N : h[k - 1] \in Seq(Byte) => h[k] \in Seq(Byte)
    BY <1>2, <1>13, Zenon
  <2> QED  BY <1>1, <2>1, <2>2, RecursionTyped
<1>15. DOMAIN h = 0 .. N /\ h = [k \in 0 .. N |-> h[k]]
  BY <1>11, <1>12
<1> QED  BY <1>13, <1>14, <1>15 DEF h, N

\* All that some packets are on the wire, and where the one after the k'th begins.
AllOf(s)  == Wired(s)[Len(s)]
Off(s, k) == Len(Wired(s)[k])

\* Packet k's frame is between Off(s, k - 1) and Off(s, k).
LEMMA WiredFacts ==
    ASSUME NEW s \in Seq(Message)
    PROVE  /\ AllOf(s) \in Seq(Byte) /\ Len(AllOf(s)) = Off(s, Len(s))
           /\ Off(s, 0) = 0
           /\ \A k \in 0 .. Len(s) : Off(s, k) \in Nat /\ Off(s, k) <= Len(AllOf(s))
           /\ \A k \in 1 .. Len(s) :
                 /\ Off(s, k) = Off(s, k - 1) + Len(Frame(s[k]))
                 /\ \A i \in 1 .. Len(Frame(s[k])) :
                       AllOf(s)[Off(s, k - 1) + i] = Frame(s[k])[i]
<1> DEFINE h == Wired(s)
           N == Len(s)
           e == [i \in 1 .. N |-> Frame(s[i])]
<1>1. N \in Nat /\ \A i \in 1 .. N : s[i] \in Message
  BY LenProperties, ElementOfSeq
<1>2. h \in [0 .. N -> Seq(Byte)] /\ h[0] = << >>  BY WiredUnfolds
<1>3. e \in [1 .. N -> Seq(Byte)]  BY <1>1, FrameFacts
<1>4. Joins(h, e, N)  BY WiredUnfolds DEF Joins
<1>5. \A i \in 1 .. N : e[i] = Frame(s[i])  OBVIOUS
<1> HIDE DEF h, e, N
<1>6. \A k \in 0 .. N : h[k] \in Seq(Byte) /\ Len(h[k]) \in Nat
  <2> TAKE k \in 0 .. N
  <2>1. h[k] \in Seq(Byte)  BY <1>2
  <2> QED  BY <2>1, LenProperties
<1>7. ASSUME NEW k \in 0 .. N PROVE Begins(h[k], h[N])
  <2>1. \A i \in k .. N : Begins(h[k], h[i])
    BY <1>1, <1>2, <1>3, <1>4, PiecesGrow, Zenon
  <2> QED  BY <1>1, <2>1
<1>8. ASSUME NEW k \in 1 .. N
      PROVE  /\ Len(h[k]) = Len(h[k - 1]) + Len(e[k])
             /\ \A i \in 1 .. Len(e[k]) : h[N][Len(h[k - 1]) + i] = e[k][i]
  <2> DEFINE a == h[k - 1]
             b == e[k]
  <2>1. h[k] = a \o b  BY <1>4 DEF Joins
  <2>2. a \in Seq(Byte) /\ Len(a) \in Nat  BY <1>1, <1>6
  <2>3. b \in Seq(Byte)  BY <1>3
  <2>4. Len(b) \in Nat  BY <2>3, LenProperties
  <2>5. k \in 0 .. N  BY <1>1
  <2>6. Begins(h[k], h[N])  BY <1>7, <2>5
  <2> HIDE DEF a, b
  <2>7. /\ Len(a \o b) = Len(a) + Len(b)
        /\ \A i \in 1 .. Len(a) + Len(b) :
              (a \o b)[i] = IF i <= Len(a) THEN a[i] ELSE b[i - Len(a)]
    BY <2>2, <2>3, ConcatProperties
  <2>8. ASSUME NEW i \in 1 .. Len(b) PROVE h[N][Len(a) + i] = b[i]
    <3>1. Len(a) + i \in 1 .. Len(a) + Len(b) /\ ~(Len(a) + i <= Len(a))
          /\ (Len(a) + i) - Len(a) = i
      BY <2>2, <2>4
    <3>2. h[k][Len(a) + i] = b[i]  BY <2>1, <2>7, <3>1
    <3>3. h[N][Len(a) + i] = h[k][Len(a) + i]
      BY <2>1, <2>6, <2>7, <3>1 DEF Begins
    <3> QED  BY <3>2, <3>3
  <2> QED  BY <2>1, <2>7, <2>8 DEF a, b
<1>9. N \in 0 .. N /\ 0 \in 0 .. N  BY <1>1
<1>10. Len(h[0]) = 0  BY <1>2, EmptySeq
<1>11. /\ h[N] \in Seq(Byte) /\ \A k \in 0 .. N : Len(h[k]) \in Nat /\ Len(h[k]) <= Len(h[N])
  BY <1>6, <1>7, <1>9 DEF Begins
<1> QED  BY <1>5, <1>8, <1>10, <1>11 DEF AllOf, Off, h, N

\* One packet more goes behind all there was.
LEMMA WiredAppend ==
    ASSUME NEW s \in Seq(Message), NEW p \in Message
    PROVE  /\ \A k \in 0 .. Len(s) : Off(Append(s, p), k) = Off(s, k)
           /\ AllOf(Append(s, p)) = AllOf(s) \o Frame(p)
<1> DEFINE t == Append(s, p)
           N == Len(s)
<1>1. /\ t \in Seq(Message) /\ Len(t) = N + 1 /\ N \in Nat
      /\ \A i \in 1 .. N : t[i] = s[i]
      /\ t[N + 1] = p
  BY AppendProperties, LenProperties
<1>2. Wired(t)[0] = << >> /\ Wired(s)[0] = << >>  BY <1>1, WiredUnfolds
<1>3. \A k \in 1 .. N : Wired(s)[k] = Wired(s)[k - 1] \o Frame(s[k])  BY WiredUnfolds
<1>4. \A k \in 1 .. Len(t) : Wired(t)[k] = Wired(t)[k - 1] \o Frame(t[k])
  BY <1>1, WiredUnfolds
<1> HIDE DEF t, N
<1>5. \A k \in 0 .. N : Wired(t)[k] = Wired(s)[k]
  <2> DEFINE T == {k \in 0 .. N : Wired(t)[k] = Wired(s)[k]}
  <2>1. 0 \in T  BY <1>1, <1>2
  <2>2. ASSUME NEW k \in 0 .. N - 1, k \in T PROVE k + 1 \in T
    <3>1. k + 1 \in 1 .. N /\ k + 1 \in 1 .. Len(t) /\ (k + 1) - 1 = k /\ k + 1 \in 0 .. N
      BY <1>1
    <3>2. Wired(t)[k + 1] = Wired(t)[k] \o Frame(t[k + 1])  BY <1>4, <3>1
    <3>3. Wired(s)[k + 1] = Wired(s)[k] \o Frame(s[k + 1])  BY <1>3, <3>1
    <3>4. t[k + 1] = s[k + 1] /\ Wired(t)[k] = Wired(s)[k]  BY <1>1, <2>2, <3>1
    <3> QED  BY <3>1, <3>2, <3>3, <3>4
  <2>3. 0 .. N \subseteq T
    <3> HIDE DEF T
    <3> QED  BY <1>1, <2>1, <2>2, RangeInduction
  <2> QED  BY <2>3
<1>6. N + 1 \in 1 .. Len(t) /\ (N + 1) - 1 = N /\ N \in 0 .. N  BY <1>1
<1>7. Wired(t)[N + 1] = Wired(t)[N] \o Frame(t[N + 1])  BY <1>4, <1>6
<1>8. Wired(t)[Len(t)] = Wired(s)[N] \o Frame(p)  BY <1>1, <1>5, <1>6, <1>7
<1> QED  BY <1>5, <1>8 DEF AllOf, Off, t, N

-----------------------------------------------------------------------------
\* What the loop keeps to, k bytes after the SYNC: it uses every byte until the packet
\* is whole or the body full, two for a byte of the body at most, and it stops as soon
\* as the body is as long as its second byte says.
ScanSound(a, k) ==
    /\ Len(a.body) <= BodySize
    /\ a.used >= 1 /\ a.used <= k + 1
    /\ ~a.esc => a.used - 1 <= 2 * Len(a.body)
    /\ a.esc  => a.used - 2 <= 2 * Len(a.body)
    /\ ~a.done /\ Len(a.body) < BodySize => a.used = k + 1
    /\ Len(a.body) >= 2 => a.size = a.body[2]
    /\ a.done => a.size # 0 /\ Len(a.body) = a.size + 2 /\ ~a.esc
    /\ ~a.done /\ Len(a.body) >= 2 /\ a.size # 0 => Len(a.body) < a.size + 2

LEMMA ScanKeepsSound ==
    ASSUME NEW a \in ScanState, NEW b \in Byte, NEW k \in Nat, ScanSound(a, k)
    PROVE  ScanSound(Scan(a, b), k + 1)
<1> DEFINE v    == IF a.esc THEN (b + 1) % Modulus ELSE b
           body == Append(a.body, v)
           size == IF Len(body) = 2 THEN v ELSE a.size
           n    == Len(a.body)
<1>1. /\ a.body \in Seq(Byte) /\ a.size \in Byte /\ a.esc \in BOOLEAN /\ a.used \in Nat
      /\ a.done \in BOOLEAN
  BY DEF ScanState
<1>2. v \in Byte  BY WireConstants DEF Byte
<1>3. n \in Nat  BY <1>1, LenProperties
<1>4. BodySize \in Nat /\ a.size \in Nat /\ v \in Nat  BY <1>1, <1>2, WireConstants DEF Byte
<1>5. CASE a.done \/ n = BodySize
  <2>1. Scan(a, b) = a  BY <1>5 DEF Scan
  <2>2. ScanSound(a, k + 1)
    BY <1>1, <1>3, <1>4, <1>5 DEF ScanSound
  <2> QED  BY <2>1, <2>2
<1>6. CASE ~(a.done \/ n = BodySize) /\ b = ESCAPE /\ ~a.esc
  <2> DEFINE c == Scan(a, b)
  <2>1. c = [a EXCEPT !.esc = TRUE, !.used = @ + 1]  BY <1>6 DEF Scan
  <2>2. c.body = a.body /\ c.size = a.size /\ c.esc = TRUE /\ c.used = a.used + 1
        /\ c.done = a.done
    BY <2>1 DEF ScanState
  <2> HIDE DEF c
  <2>3. ScanSound(c, k + 1)
    BY <1>1, <1>3, <1>4, <1>6, <2>2 DEF ScanSound
  <2> QED  BY <2>3 DEF c
<1>7. CASE ~(a.done \/ n = BodySize) /\ ~(b = ESCAPE /\ ~a.esc)
  <2> DEFINE c == Scan(a, b)
  <2>1. c = [body |-> body, size |-> size, esc |-> FALSE, used |-> a.used + 1,
             done |-> Len(body) >= 2 /\ size # 0 /\ Len(body) = size + 2]
    BY <1>7 DEF Scan
  <2>2. Len(body) = n + 1 /\ (\A i \in 1 .. n : body[i] = a.body[i]) /\ body[n + 1] = v
    BY <1>1, <1>2, AppendProperties
  <2> HIDE DEF body, v
  <2>3. size = IF n + 1 = 2 THEN v ELSE a.size  BY <2>2
  <2> HIDE DEF size
  <2>4. c.body = body /\ c.size = size /\ c.esc = FALSE /\ c.used = a.used + 1
        /\ c.done = (n + 1 >= 2 /\ size # 0 /\ n + 1 = size + 2)
    BY <2>1, <2>2
  <2> HIDE DEF c, n
  <2>5. Len(a.body) = n  BY DEF n
  <2>6. Len(c.body) <= BodySize
    BY <1>3, <1>4, <1>7, <2>2, <2>4, <2>5 DEF ScanSound
  <2>7. c.used >= 1 /\ c.used <= (k + 1) + 1 /\ c.used - 1 <= 2 * (n + 1)
    BY <1>1, <1>3, <1>4, <1>7, <2>4, <2>5 DEF ScanSound
  <2>8. c.used = (k + 1) + 1
    BY <1>1, <1>3, <1>4, <1>7, <2>4, <2>5 DEF ScanSound
  <2>9. n + 1 >= 2 => size = body[2]
    <3>1. CASE n = 1  BY <3>1, <2>2, <2>3
    <3>2. CASE n >= 2
      <4>1. a.size = a.body[2]  BY <3>2, <2>5 DEF ScanSound
      <4>2. body[2] = a.body[2]  BY <3>2, <1>3, <2>2
      <4> QED  BY <4>1, <4>2, <3>2, <1>3, <2>3
    <3> QED  BY <1>3, <3>1, <3>2
  <2>10. c.done => size # 0 /\ n + 1 = size + 2  BY <2>4
  <2>11. ASSUME ~c.done, n + 1 >= 2, size # 0 PROVE n + 1 < size + 2
    <3>1. CASE n = 1  BY <3>1, <2>3, <2>11, <1>4
    <3>2. CASE n >= 2
      <4>1. size = a.size /\ n < a.size + 2
        BY <3>2, <1>3, <1>4, <1>7, <2>3, <2>5, <2>11 DEF ScanSound
      <4>2. n + 1 # size + 2  BY <2>4, <2>11
      <4> QED  BY <4>1, <4>2, <1>3, <1>4
    <3> QED  BY <1>3, <2>11, <3>1, <3>2
  <2>12. ScanSound(c, k + 1)
    BY <1>3, <2>2, <2>4, <2>6, <2>7, <2>8, <2>9, <2>10, <2>11 DEF ScanSound
  <2> QED  BY <2>12 DEF c
<1> QED  BY <1>5, <1>6, <1>7

LEMMA ScansSound ==
    ASSUME NEW s \in Seq(Byte), s # << >>
    PROVE  \A k \in 0 .. Len(s) - 1 : Scans(s)[k] \in ScanState /\ ScanSound(Scans(s)[k], k)
<1> DEFINE h == Scans(s)
           N == Len(s) - 1
           T == {k \in 0 .. N : h[k] \in ScanState /\ ScanSound(h[k], k)}
<1>1. N \in Nat  BY EmptySeq
<1>2. /\ h \in [0 .. N -> ScanState] /\ h[0] = ScanStart
      /\ \A k \in 1 .. N : h[k] = Scan(h[k - 1], s[k + 1])
  BY ScansUnfolds
<1>3. \A k \in 1 .. N : s[k + 1] \in Byte
  <2>1. \A k \in 1 .. N : k + 1 \in 1 .. Len(s)  BY LenProperties
  <2> QED  BY <2>1, ElementOfSeq
<1> HIDE DEF h, N
<1>4. 0 \in T
  <2>1. h[0] \in ScanState  BY <1>1, <1>2
  <2>2. ScanSound(ScanStart, 0)
    <3>1. BodySize \in Nat  BY WireConstants
    <3>2. Len(<< >>) = 0  BY EmptySeq
    <3> QED  BY <3>1, <3>2 DEF ScanSound, ScanStart
  <2> QED  BY <1>1, <1>2, <2>1, <2>2
<1>5. ASSUME NEW k \in 0 .. N - 1, k \in T PROVE k + 1 \in T
  <2>1. k + 1 \in 1 .. N /\ (k + 1) - 1 = k /\ k + 1 \in 0 .. N /\ k \in Nat  BY <1>1
  <2>2. h[k + 1] = Scan(h[k], s[(k + 1) + 1]) /\ s[(k + 1) + 1] \in Byte
    BY <1>2, <1>3, <2>1
  <2>3. h[k] \in ScanState /\ ScanSound(h[k], k)  BY <1>5
  <2>4. h[k + 1] \in ScanState /\ ScanSound(h[k + 1], k + 1)
    BY <2>1, <2>2, <2>3, ScanTyped, ScanKeepsSound
  <2> QED  BY <2>1, <2>4
<1>6. 0 .. N \subseteq T
  <2> HIDE DEF T
  <2> QED  BY <1>1, <1>4, <1>5, RangeInduction
<1> QED  BY <1>6 DEF h, N

\* A whole packet stays as it is, and a length once taken stays taken.
ScanKept(a, b) ==
    /\ a.done => b = a
    /\ Len(a.body) >= 2 => Len(b.body) >= 2 /\ b.size = a.size

LEMMA ScansKept ==
    ASSUME NEW s \in Seq(Byte), s # << >>, NEW j \in 0 .. Len(s) - 1
    PROVE  \A k \in j .. Len(s) - 1 : ScanKept(Scans(s)[j], Scans(s)[k])
<1> DEFINE h == Scans(s)
           N == Len(s) - 1
           M == N - j
           T == {d \in 0 .. M : ScanKept(h[j], h[j + d])}
<1>1. N \in Nat /\ j \in 0 .. N /\ M \in Nat  BY EmptySeq
<1>2. /\ h \in [0 .. N -> ScanState]
      /\ \A k \in 1 .. N : h[k] = Scan(h[k - 1], s[k + 1])
  BY ScansUnfolds
<1>3. \A k \in 1 .. N : s[k + 1] \in Byte
  <2>1. \A k \in 1 .. N : k + 1 \in 1 .. Len(s)  BY LenProperties
  <2> QED  BY <2>1, ElementOfSeq
<1> HIDE DEF h, N
<1>4. 0 \in T  BY <1>1 DEF ScanKept
<1>5. ASSUME NEW d \in 0 .. M - 1, d \in T PROVE d + 1 \in T
  <2> DEFINE k == j + d
             a == h[k]
             b == s[(k + 1) + 1]
  <2>1. k + 1 \in 1 .. N /\ (k + 1) - 1 = k /\ k \in 0 .. N /\ j + (d + 1) = k + 1
        /\ d + 1 \in 0 .. M
    BY <1>1
  <2>2. ScanKept(h[j], a)  BY <1>5
  <2>3. h[k + 1] = Scan(a, b) /\ b \in Byte /\ a \in ScanState
    <3> HIDE DEF k
    <3> QED  BY <1>2, <1>3, <2>1
  <2> HIDE DEF k, a, b
  <2>4. ScanKept(a, Scan(a, b))
    <3> DEFINE v    == IF a.esc THEN (b + 1) % Modulus ELSE b
               body == Append(a.body, v)
               size == IF Len(body) = 2 THEN v ELSE a.size
    <3>1. v \in Byte /\ a.body \in Seq(Byte)  BY <2>3, WireConstants DEF Byte, ScanState
    <3>2. Len(body) = Len(a.body) + 1 /\ Len(a.body) \in Nat
      BY <3>1, AppendProperties, LenProperties
    <3>3. CASE a.done \/ Len(a.body) = BodySize
      <4>1. Scan(a, b) = a  BY <3>3 DEF Scan
      <4> QED  BY <4>1 DEF ScanKept
    <3>4. CASE ~(a.done \/ Len(a.body) = BodySize) /\ b = ESCAPE /\ ~a.esc
      <4>1. Scan(a, b) = [a EXCEPT !.esc = TRUE, !.used = @ + 1]  BY <3>4 DEF Scan
      <4>2. Scan(a, b).body = a.body /\ Scan(a, b).size = a.size  BY <2>3, <4>1 DEF ScanState
      <4> QED  BY <3>4, <4>2 DEF ScanKept
    <3>5. CASE ~(a.done \/ Len(a.body) = BodySize) /\ ~(b = ESCAPE /\ ~a.esc)
      <4>1. Scan(a, b) = [body |-> body, size |-> size, esc |-> FALSE, used |-> a.used + 1,
                          done |-> Len(body) >= 2 /\ size # 0 /\ Len(body) = size + 2]
        BY <3>5 DEF Scan
      <4> HIDE DEF body
      <4>2. Scan(a, b).body = body /\ Scan(a, b).size = size  BY <4>1
      <4> QED  BY <3>2, <3>5, <4>2 DEF ScanKept
    <3> QED  BY <3>3, <3>4, <3>5
  <2>5. h[j].done => a.done  BY <2>2 DEF ScanKept
  <2>6. ScanKept(h[j], h[k + 1])  BY <2>2, <2>3, <2>4, <2>5 DEF ScanKept
  <2> QED  BY <2>1, <2>6
<1>6. 0 .. M \subseteq T
  <2> HIDE DEF T, M
  <2> QED  BY <1>1, <1>4, <1>5, RangeInduction
<1>7. ASSUME NEW k \in j .. N PROVE ScanKept(h[j], h[k])
  <2>1. k - j \in 0 .. M /\ j + (k - j) = k  BY <1>1
  <2>2. k - j \in T  BY <1>6, <2>1
  <2> QED  BY <2>1, <2>2
<1> QED  BY <1>7 DEF h, N

\* What the loop knows depends on the bytes it has seen and no others.
LEMMA ScansAgree ==
    ASSUME NEW s \in Seq(Byte), NEW t \in Seq(Byte), NEW n \in Nat, n >= 1,
           n <= Len(s), n <= Len(t), \A i \in 1 .. n : s[i] = t[i]
    PROVE  \A k \in 0 .. n - 1 : Scans(s)[k] = Scans(t)[k]
<1> DEFINE g == Scans(s)
           h == Scans(t)
           N == n - 1
           T == {k \in 0 .. N : g[k] = h[k]}
<1>1. /\ Len(s) \in Nat /\ Len(t) \in Nat /\ s # << >> /\ t # << >> /\ N \in Nat
  BY LenProperties, EmptySeq
<1>2. g[0] = ScanStart /\ h[0] = ScanStart  BY <1>1, ScansUnfolds
<1>3. \A k \in 1 .. Len(s) - 1 : g[k] = Scan(g[k - 1], s[k + 1])  BY <1>1, ScansUnfolds
<1>4. \A k \in 1 .. Len(t) - 1 : h[k] = Scan(h[k - 1], t[k + 1])  BY <1>1, ScansUnfolds
<1> HIDE DEF g, h
<1>5. 0 \in T  BY <1>1, <1>2
<1>6. ASSUME NEW k \in 0 .. N - 1, k \in T PROVE k + 1 \in T
  <2>1. /\ k + 1 \in 1 .. Len(s) - 1 /\ k + 1 \in 1 .. Len(t) - 1 /\ (k + 1) - 1 = k
        /\ (k + 1) + 1 \in 1 .. n /\ k + 1 \in 0 .. N
    BY <1>1
  <2>2. g[k + 1] = Scan(g[k], s[(k + 1) + 1])  BY <1>3, <2>1
  <2>3. h[k + 1] = Scan(h[k], t[(k + 1) + 1])  BY <1>4, <2>1
  <2>4. s[(k + 1) + 1] = t[(k + 1) + 1] /\ g[k] = h[k]  BY <1>6, <2>1
  <2> QED  BY <2>1, <2>2, <2>3, <2>4
<1>7. 0 .. N \subseteq T
  <2> HIDE DEF T, N
  <2> QED  BY <1>1, <1>5, <1>6, RangeInduction
<1> QED  BY <1>7 DEF g, h, N

-----------------------------------------------------------------------------
\* Where the bytes of a packet's j'th byte are in its frame.
Ends(p, j) == Len(Stuffed(Body(p))[j])

LEMMA FrameBytes ==
    ASSUME NEW p \in Message
    PROVE  /\ Ends(p, 0) = 0 /\ Len(Frame(p)) = 1 + Ends(p, Len(Body(p)))
           /\ \A j \in 0 .. Len(Body(p)) :
                 Ends(p, j) \in Nat /\ Ends(p, j) <= Ends(p, Len(Body(p)))
           /\ \A j \in 1 .. Len(Body(p)) :
                 /\ Ends(p, j) = Ends(p, j - 1) + Len(Escaped(Body(p)[j]))
                 /\ \A i \in 1 .. Len(Escaped(Body(p)[j])) :
                       Frame(p)[Ends(p, j - 1) + i + 1] = Escaped(Body(p)[j])[i]
<1> DEFINE B == Body(p)
           n == Len(B)
           h == Stuffed(B)
<1>1. /\ B \in Seq(Byte) /\ n = Len(p.data) + 3 /\ n \in Nat /\ n >= 3
  BY BodyFacts, MessageTyped
<1>2. \A j \in 1 .. n : B[j] \in Byte  BY <1>1, ElementOfSeq
<1>3. /\ Len(h[0]) = 0
      /\ \A k \in 0 .. n : Len(h[k]) \in Nat
      /\ \A k \in 1 .. n :
            /\ Len(h[k]) = Len(h[k - 1]) + Len(Escaped(B[k]))
            /\ \A i \in 1 .. Len(Escaped(B[k])) :
                  h[k][Len(h[k - 1]) + i] = Escaped(B[k])[i]
  BY <1>1, StuffedGrows
<1>4. /\ Len(Frame(p)) = 1 + Len(h[n])
      /\ \A i \in 1 .. Len(Frame(p)) - 1 : Frame(p)[i + 1] = h[n][i]
  BY <1>1, FrameFacts
<1>5. ASSUME NEW j \in 0 .. n PROVE Begins(h[j], h[n])
  <2>1. n \in j .. n /\ B \in Seq(Byte)  BY <1>1
  <2> QED  BY <2>1, StuffedPrefix
<1> HIDE DEF B, h, n
<1>6. \A j \in 0 .. n : Len(h[j]) <= Len(h[n])  BY <1>5 DEF Begins
<1>7. ASSUME NEW j \in 1 .. n, NEW i \in 1 .. Len(Escaped(B[j]))
      PROVE  Frame(p)[Len(h[j - 1]) + i + 1] = Escaped(B[j])[i]
  <2> DEFINE x == Len(h[j - 1]) + i
  <2>1. Len(Escaped(B[j])) \in 1 .. 2  BY <1>2, EscapedTyped
  <2>2. j \in 0 .. n /\ j - 1 \in 0 .. n /\ n \in 0 .. n  BY <1>1
  <2>3. Len(h[j - 1]) \in Nat /\ Len(h[j]) \in Nat /\ Len(h[n]) \in Nat
    BY <1>3, <2>2
  <2>4. x \in 1 .. Len(h[j]) /\ Len(h[j]) <= Len(h[n])
    <3>1. Len(h[j]) = Len(h[j - 1]) + Len(Escaped(B[j]))  BY <1>3
    <3>2. Len(h[j]) <= Len(h[n])  BY <1>6, <2>2
    <3> DEFINE y == Len(h[j - 1])
               z == Len(Escaped(B[j]))
    <3>3. i \in 1 .. z /\ z \in 1 .. 2 /\ y \in Nat /\ Len(h[j]) = y + z
      BY <2>1, <2>3, <3>1
    <3> HIDE DEF y, z
    <3>4. y + i \in 1 .. Len(h[j])  BY <3>3
    <3> QED  BY <3>2, <3>4 DEF y
  <2>5. h[j][x] = Escaped(B[j])[i]  BY <1>3
  <2> HIDE DEF x
  <2>6. h[n][x] = h[j][x]  BY <1>5, <2>2, <2>4 DEF Begins
  <2>7. x \in 1 .. Len(Frame(p)) - 1  BY <1>4, <2>3, <2>4
  <2>8. Frame(p)[x + 1] = h[n][x]  BY <1>4, <2>7
  <2> QED  BY <2>5, <2>6, <2>8 DEF x
<1> QED  BY <1>3, <1>4, <1>6, <1>7 DEF Ends, B, h, n

\* What the loop knows after a packet's j'th byte, u bytes from the SYNC on.
FrameState(p, j, e, u) ==
    [body |-> SubSeq(Body(p), 1, j), size |-> IF j < 2 THEN 0 ELSE Body(p)[2],
     esc |-> e, used |-> u, done |-> j = Len(Body(p))]

LEMMA ScanTakesByte ==
    ASSUME NEW p \in Message, NEW j \in 1 .. Len(Body(p)), NEW e \in BOOLEAN, NEW u \in Nat,
           NEW b \in Byte, ~(b = ESCAPE /\ ~e),
           Body(p)[j] = IF e THEN (b + 1) % Modulus ELSE b
    PROVE  Scan(FrameState(p, j - 1, e, u), b) = FrameState(p, j, FALSE, u + 1)
<1> DEFINE B == Body(p)
           n == Len(B)
           a == FrameState(p, j - 1, e, u)
           v == B[j]
           body == Append(a.body, v)
           size == IF Len(body) = 2 THEN v ELSE a.size
<1>1. /\ B \in Seq(Byte) /\ n = Len(p.data) + 3 /\ n \in Nat /\ n >= 3
      /\ n <= BodySize /\ BodySize \in Nat /\ B[2] = n - 2
  BY BodyFacts, MessageTyped, WireConstants
<1>2. a.body = SubSeq(B, 1, j - 1) /\ a.size = (IF j - 1 < 2 THEN 0 ELSE B[2])
      /\ a.esc = e /\ a.used = u /\ a.done = (j - 1 = n)
  BY DEF FrameState
<1>3. j - 1 \in 0 .. n /\ j \in 0 .. n  BY <1>1
<1> HIDE DEF B, n, a, v
<1>4. body = SubSeq(B, 1, j)  BY <1>1, <1>2, PrefixAppends DEF n, v
<1>5. Len(a.body) = j - 1 /\ Len(body) = j
  BY <1>1, <1>2, <1>3, <1>4, PrefixFacts DEF n
<1>6. j \in 1 .. n  BY DEF n, B
<1>7. ~a.done /\ Len(a.body) # BodySize
  <2>1. j - 1 # n /\ Len(a.body) # BodySize  BY <1>1, <1>5, <1>6
  <2> QED  BY <1>2, <2>1, Zenon
<1>8. v = IF a.esc THEN (b + 1) % Modulus ELSE b  BY <1>2 DEF v, B
<1>9. Scan(a, b) = [body |-> body, size |-> size, esc |-> FALSE, used |-> a.used + 1,
                    done |-> Len(body) >= 2 /\ size # 0 /\ Len(body) = size + 2]
  BY <1>2, <1>7, <1>8 DEF Scan
<1>10. size = IF j < 2 THEN 0 ELSE B[2]
  <2>1. CASE j < 2  BY <2>1, <1>2, <1>5, <1>6, <1>1
  <2>2. CASE j = 2  BY <2>2, <1>5 DEF v
  <2>3. CASE j > 2  BY <2>3, <1>2, <1>5, <1>6, <1>1
  <2> QED  BY <1>1, <1>6, <2>1, <2>2, <2>3
<1>11. (Len(body) >= 2 /\ size # 0 /\ Len(body) = size + 2) <=> (j = n)
  BY <1>1, <1>5, <1>6, <1>10
<1> HIDE DEF body, size
<1>12. Scan(a, b) = [body |-> SubSeq(B, 1, j), size |-> IF j < 2 THEN 0 ELSE B[2],
                     esc |-> FALSE, used |-> u + 1, done |-> j = n]
  BY <1>2, <1>4, <1>9, <1>10, <1>11
<1> QED  BY <1>12 DEF FrameState, a, B, n

LEMMA FrameScans ==
    ASSUME NEW p \in Message
    PROVE  \A j \in 0 .. Len(Body(p)) :
              Scans(Frame(p))[Ends(p, j)] = FrameState(p, j, FALSE, Ends(p, j) + 1)
<1> DEFINE B == Body(p)
           n == Len(B)
           t == Frame(p)
           h == Scans(t)
           T == {j \in 0 .. n : h[Ends(p, j)] = FrameState(p, j, FALSE, Ends(p, j) + 1)}
<1>1. /\ B \in Seq(Byte) /\ n \in Nat /\ n >= 3 /\ t \in Seq(Byte) /\ Len(t) >= 4
  BY BodyFacts, MessageTyped, FrameFacts
<1>2. t # << >> /\ Len(t) \in Nat  BY <1>1, EmptySeq, LenProperties
<1>3. /\ h[0] = ScanStart
      /\ \A k \in 1 .. Len(t) - 1 : h[k] = Scan(h[k - 1], t[k + 1])
  BY <1>1, <1>2, ScansUnfolds
<1>4. /\ Ends(p, 0) = 0 /\ Len(t) = 1 + Ends(p, n)
      /\ \A j \in 0 .. n : Ends(p, j) \in Nat /\ Ends(p, j) <= Ends(p, n)
      /\ \A j \in 1 .. n :
            /\ Ends(p, j) = Ends(p, j - 1) + Len(Escaped(B[j]))
            /\ \A i \in 1 .. Len(Escaped(B[j])) :
                  t[Ends(p, j - 1) + i + 1] = Escaped(B[j])[i]
  BY FrameBytes
<1>5. \A j \in 1 .. n : B[j] \in Byte  BY <1>1, ElementOfSeq
<1>6. 0 \in T
  <2>1. SubSeq(B, 1, 0) = << >>  BY SubSeqEmpty
  <2>2. FrameState(p, 0, FALSE, 1) = ScanStart
    <3>1. (IF 0 < 2 THEN 0 ELSE B[2]) = 0  OBVIOUS
    <3>2. (0 = Len(Body(p))) = FALSE  BY <1>1
    <3> QED  BY <2>1, <3>1, <3>2, Zenon DEF FrameState, ScanStart
  <2> HIDE DEF h, t, n
  <2>3. h[Ends(p, 0)] = FrameState(p, 0, FALSE, Ends(p, 0) + 1)
    <3>1. Ends(p, 0) = 0 /\ 0 + 1 = 1 /\ h[0] = ScanStart  BY <1>3, <1>4
    <3> QED  BY <3>1, <2>2, Zenon
  <2>4. 0 \in 0 .. n  BY <1>1
  <2> QED  BY <2>3, <2>4
<1>7. ASSUME NEW i \in 0 .. n - 1, i \in T PROVE i + 1 \in T
  <2> DEFINE j == i + 1
             u == Ends(p, i)
             c == B[j]
  <2>1. j \in 1 .. n /\ j \in 0 .. n /\ j - 1 = i /\ i \in 0 .. n  BY <1>1
  <2>2. u \in Nat /\ h[u] = FrameState(p, j - 1, FALSE, u + 1)
    BY <1>4, <1>7, <2>1
  <2> HIDE DEF j, h, t, n, u
  <2>3. /\ Ends(p, j) = u + Len(Escaped(c)) /\ Ends(p, j) <= Len(t) - 1
        /\ \A x \in 1 .. Len(Escaped(c)) : t[u + x + 1] = Escaped(c)[x]
    <3>1. /\ Ends(p, j) = Ends(p, j - 1) + Len(Escaped(B[j]))
          /\ \A x \in 1 .. Len(Escaped(B[j])) :
                t[Ends(p, j - 1) + x + 1] = Escaped(B[j])[x]
      BY <1>4, <2>1
    <3>2. Ends(p, j) \in Nat /\ Ends(p, j) <= Ends(p, n) /\ Ends(p, n) \in Nat
      <4>1. n \in 0 .. n  BY <1>1 DEF n
      <4> QED  BY <1>4, <2>1, <4>1
    <3>3. Ends(p, j) <= Len(t) - 1  BY <1>4, <3>2
    <3>4. c = B[j] /\ u = Ends(p, j - 1)  BY <2>1 DEF u, j
    <3> QED  BY <3>1, <3>3, <3>4
  <2>4. c \in Byte  BY <1>5, <2>1
  <2> HIDE DEF c
  <2>5. CASE c \in {SYNC, ESCAPE}
    <3>1. Escaped(c) = <<ESCAPE, c - 1>>  BY <2>5 DEF Escaped
    <3>2. Len(Escaped(c)) = 2 /\ Escaped(c)[1] = ESCAPE /\ Escaped(c)[2] = c - 1
      BY <3>1
    <3>3. Ends(p, j) = u + 2 /\ t[u + 1 + 1] = ESCAPE /\ t[u + 2 + 1] = c - 1
          /\ u + 2 <= Len(t) - 1
      BY <2>3, <3>2
    <3>4. h[u + 1] = Scan(h[u], ESCAPE)
      <4>1. u + 1 \in 1 .. Len(t) - 1 /\ (u + 1) - 1 = u  BY <1>2, <2>2, <3>3
      <4> QED  BY <1>3, <3>3, <4>1
    <3>5. h[u + 2] = Scan(h[u + 1], c - 1)
      <4>1. u + 2 \in 1 .. Len(t) - 1 /\ (u + 2) - 1 = u + 1  BY <1>2, <2>2, <3>3
      <4> QED  BY <1>3, <3>3, <4>1
    <3>6. Scan(h[u], ESCAPE) = FrameState(p, j - 1, TRUE, (u + 1) + 1)
      <4> DEFINE a == FrameState(p, j - 1, FALSE, u + 1)
      <4>1. Len(SubSeq(B, 1, j - 1)) = j - 1
        BY <1>1, <2>1, PrefixFacts DEF n
      <4>2. j - 1 # n /\ j - 1 # BodySize /\ n = Len(B)
        <5>1. n \in Nat /\ BodySize \in Nat /\ n <= BodySize
          <6>1. n = Len(p.data) + 3 /\ Len(p.data) + 3 <= BodySize
            BY BodyFacts, MessageTyped DEF n
          <6> QED  BY <1>1, <6>1, WireConstants DEF n
        <5>2. j - 1 # n /\ j - 1 # BodySize  BY <2>1, <5>1
        <5> QED  BY <5>2 DEF n
      <4>3. ~a.done /\ Len(a.body) # BodySize /\ ~a.esc
        BY <4>1, <4>2 DEF FrameState
      <4>4. Scan(a, ESCAPE) = [a EXCEPT !.esc = TRUE, !.used = @ + 1]
        BY <4>3 DEF Scan
      <4>5. SubSeq(B, 1, j - 1) \in Seq(Byte) /\ B[2] \in Byte /\ 0 \in Byte
        BY <1>1, <1>5, <2>1, PrefixFacts, WireConstants DEF n, Byte
      <4>6. a \in ScanState  BY <2>2, <4>5 DEF FrameState, ScanState
      <4>7. /\ a.body = SubSeq(Body(p), 1, j - 1)
            /\ a.size = (IF j - 1 < 2 THEN 0 ELSE Body(p)[2])
            /\ a.used = u + 1 /\ a.done = (j - 1 = Len(Body(p)))
        BY DEF FrameState
      <4> HIDE DEF a
      <4>8. Scan(a, ESCAPE) = [body |-> a.body, size |-> a.size, esc |-> TRUE,
                               used |-> a.used + 1, done |-> a.done]
        BY <4>4, <4>6 DEF ScanState
      <4>9. Scan(a, ESCAPE) = FrameState(p, j - 1, TRUE, (u + 1) + 1)
        BY <4>7, <4>8, Zenon DEF FrameState
      <4> QED  BY <2>2, <4>9 DEF a
    <3>7. c - 1 \in Byte /\ c = (IF TRUE THEN ((c - 1) + 1) % Modulus ELSE c - 1)
      BY <2>4, <2>5, WireConstants DEF Byte
    <3>8. Scan(FrameState(p, j - 1, TRUE, (u + 1) + 1), c - 1)
            = FrameState(p, j, FALSE, ((u + 1) + 1) + 1)
      <4>1. j \in 1 .. Len(Body(p)) /\ (u + 1) + 1 \in Nat  BY <2>1, <2>2 DEF n
      <4>2. Body(p)[j] = IF TRUE THEN ((c - 1) + 1) % Modulus ELSE c - 1
        BY <3>7 DEF c
      <4> QED  BY <3>7, <4>1, <4>2, ScanTakesByte
    <3>9. h[Ends(p, j)] = FrameState(p, j, FALSE, Ends(p, j) + 1)
      <4>1. ((u + 1) + 1) + 1 = (u + 2) + 1  BY <2>2
      <4> QED  BY <3>3, <3>4, <3>5, <3>6, <3>8, <4>1
    <3> QED  BY <2>1, <3>9 DEF j
  <2>6. CASE c \notin {SYNC, ESCAPE}
    <3>1. Escaped(c) = <<c>>  BY <2>6 DEF Escaped
    <3>2. Len(Escaped(c)) = 1 /\ Escaped(c)[1] = c  BY <3>1
    <3>3. Ends(p, j) = u + 1 /\ t[u + 1 + 1] = c /\ u + 1 <= Len(t) - 1
      BY <2>3, <3>2
    <3>4. h[u + 1] = Scan(h[u], c)
      <4>1. u + 1 \in 1 .. Len(t) - 1 /\ (u + 1) - 1 = u  BY <1>2, <2>2, <3>3
      <4> QED  BY <1>3, <3>3, <4>1
    <3>5. Scan(FrameState(p, j - 1, FALSE, u + 1), c)
            = FrameState(p, j, FALSE, (u + 1) + 1)
      <4>1. j \in 1 .. Len(Body(p)) /\ u + 1 \in Nat /\ Body(p)[j] = c
        BY <2>1, <2>2 DEF n, c
      <4> QED  BY <2>4, <2>6, <4>1, ScanTakesByte
    <3>6. h[Ends(p, j)] = FrameState(p, j, FALSE, Ends(p, j) + 1)
      BY <2>2, <3>3, <3>4, <3>5
    <3> QED  BY <2>1, <3>6 DEF j
  <2> QED  BY <2>5, <2>6
<1>8. 0 .. n \subseteq T
  <2> HIDE DEF T, n
  <2> QED  BY <1>1, <1>6, <1>7, RangeInduction
<1> QED  BY <1>8

\* The sum of a packet's bytes does not depend on what follows them.
LEMMA SumsAppend ==
    ASSUME NEW s \in Seq(Byte), NEW b \in Byte
    PROVE  \A k \in 0 .. Len(s) : Sums(Append(s, b))[k] = Sums(s)[k]
<1> DEFINE t == Append(s, b)
           N == Len(s)
           T == {k \in 0 .. N : Sums(t)[k] = Sums(s)[k]}
<1>1. /\ t \in Seq(Byte) /\ Len(t) = N + 1 /\ N \in Nat
      /\ \A i \in 1 .. N : t[i] = s[i]
  BY AppendProperties, LenProperties
<1>2. Sums(t)[0] = 0 /\ Sums(s)[0] = 0  BY <1>1, SumsUnfolds
<1>3. \A k \in 1 .. N : Sums(s)[k] = (Sums(s)[k - 1] + s[k]) % Modulus  BY SumsUnfolds
<1>4. \A k \in 1 .. Len(t) : Sums(t)[k] = (Sums(t)[k - 1] + t[k]) % Modulus
  BY <1>1, SumsUnfolds
<1> HIDE DEF t, N
<1>5. 0 \in T  BY <1>1, <1>2
<1>6. ASSUME NEW k \in 0 .. N - 1, k \in T PROVE k + 1 \in T
  <2>1. k + 1 \in 1 .. N /\ k + 1 \in 1 .. Len(t) /\ (k + 1) - 1 = k /\ k + 1 \in 0 .. N
    BY <1>1
  <2>2. Sums(t)[k + 1] = (Sums(t)[k] + t[k + 1]) % Modulus  BY <1>4, <2>1
  <2>3. Sums(s)[k + 1] = (Sums(s)[k] + s[k + 1]) % Modulus  BY <1>3, <2>1
  <2>4. t[k + 1] = s[k + 1] /\ Sums(t)[k] = Sums(s)[k]  BY <1>1, <1>6, <2>1
  <2>5. Sums(t)[k + 1] = Sums(s)[k + 1]  BY <2>2, <2>3, <2>4
  <2> QED  BY <2>1, <2>5
<1>7. 0 .. N \subseteq T
  <2> HIDE DEF T
  <2> QED  BY <1>1, <1>5, <1>6, RangeInduction
<1> QED  BY <1>7 DEF t, N

\* The packet that comes out is the packet that went in.
LEMMA PacketBack ==
    ASSUME NEW p \in Message, NEW u
    PROVE  PacketOf(FrameState(p, Len(Body(p)), FALSE, u)) = p
<1> DEFINE B == Body(p)
           n == Len(B)
           a == FrameState(p, n, FALSE, u)
           d == Len(p.data)
<1>1. /\ B \in Seq(Byte) /\ n = d + 3 /\ d \in Nat /\ B[1] = p.dest /\ B[2] = d + 1
      /\ \A i \in 1 .. d : B[i + 2] = p.data[i]
      /\ B[d + 3] = CheckSum(p)
  BY BodyFacts, MessageTyped
<1>2. a.body = SubSeq(B, 1, n) /\ a.size = (IF n < 2 THEN 0 ELSE B[2])
  BY DEF FrameState
<1>3. SubSeq(B, 1, n) = B  BY <1>1, SubSeqFull
<1>4. a.body = B /\ a.size = d + 1
  <2> HIDE DEF a, B
  <2>1. ~(n < 2)  BY <1>1
  <2> QED  BY <1>1, <1>2, <1>3, <2>1, Zenon
<1>5. SubSeq(B, 3, d + 2) = p.data
  <2>1. p.data \in Seq(Byte)  BY MessageTyped
  <2>2. \A i \in 3 .. d + 2 : B[i] \in Byte
    <3>1. \A i \in 3 .. d + 2 : i \in 1 .. Len(B)  BY <1>1
    <3> QED  BY <1>1, <3>1, ElementOfSeq
  <2>3. 3 \in Int /\ d + 2 \in Int  BY <1>1
  <2> HIDE DEF B
  <2>4. /\ SubSeq(B, 3, d + 2) \in Seq(Byte)
        /\ Len(SubSeq(B, 3, d + 2)) = IF 3 <= d + 2 THEN (d + 2) - 3 + 1 ELSE 0
        /\ \A i \in 1 .. (d + 2) - 3 + 1 : SubSeq(B, 3, d + 2)[i] = B[3 + i - 1]
    BY <2>2, <2>3, SubSeqProperties
  <2>5. Len(SubSeq(B, 3, d + 2)) = d /\ (d + 2) - 3 + 1 = d  BY <1>1, <2>4
  <2>6. ASSUME NEW i \in 1 .. d PROVE SubSeq(B, 3, d + 2)[i] = p.data[i]
    <3>1. 3 + i - 1 = i + 2  BY <1>1
    <3> QED  BY <1>1, <2>4, <2>5, <3>1
  <2> QED  BY <2>1, <2>4, <2>5, <2>6, SeqEqual
<1>6. (Sums(B)[d + 2] = B[d + 3]) <=> p.ok
  <2>1. Header(p) \in Seq(Byte) /\ Len(Header(p)) = d + 2  BY HeaderFacts
  <2>2. CheckSum(p) \in Byte /\ (p.ok <=> CheckSum(p) = Sums(Header(p))[d + 2])
    BY CheckSumTyped
  <2>3. B = Append(Header(p), CheckSum(p))  BY DEF Body
  <2>4. d + 2 \in 0 .. Len(Header(p))  BY <1>1, <2>1
  <2>5. Sums(B)[d + 2] = Sums(Header(p))[d + 2]  BY <2>1, <2>2, <2>3, <2>4, SumsAppend
  <2> QED  BY <1>1, <2>2, <2>5
<1>7. PacketOf(a) = [dest |-> a.body[1], data |-> SubSeq(a.body, 3, a.size + 1),
                     ok |-> Sums(a.body)[a.size + 1] = a.body[a.size + 2]]
  BY DEF PacketOf
<1>8. a.size + 1 = d + 2 /\ a.size + 2 = d + 3
  <2> HIDE DEF a, B
  <2> QED  BY <1>1, <1>4
<1>9. p = [dest |-> p.dest, data |-> p.data, ok |-> p.ok] /\ p.ok \in BOOLEAN  BY MessageTyped
<1> HIDE DEF a, B, d
<1>10. (Sums(B)[d + 2] = B[d + 3]) = p.ok  BY <1>6, <1>9
<1>11. PacketOf(a) = [dest |-> p.dest, data |-> p.data, ok |-> p.ok]
  BY <1>1, <1>4, <1>5, <1>7, <1>8, <1>10, Zenon
<1> QED  BY <1>9, <1>11 DEF a, n, B

\* The loop finds a packet at the end of its frame and not before.
LEMMA FrameWhole ==
    ASSUME NEW p \in Message
    PROVE  /\ Scanned(Frame(p)).done /\ Scanned(Frame(p)).used = Len(Frame(p))
           /\ PacketOf(Scanned(Frame(p))) = p
           /\ \A k \in 0 .. Len(Frame(p)) - 2 : ~Scans(Frame(p))[k].done
<1> DEFINE t == Frame(p)
           n == Len(Body(p))
           a == FrameState(p, n, FALSE, Len(t))
           h == Scans(t)
<1>1. /\ t \in Seq(Byte) /\ Len(t) >= 4 /\ Len(t) \in Nat /\ t # << >> /\ n \in Nat
  BY FrameFacts, LenProperties, EmptySeq, BodyFacts, MessageTyped
<1>2. Len(t) = 1 + Ends(p, n) /\ Ends(p, n) \in Nat
  <2>1. n \in 0 .. n  BY <1>1
  <2> QED  BY <2>1, FrameBytes
<1>3. h[Ends(p, n)] = FrameState(p, n, FALSE, Ends(p, n) + 1)
  <2>1. n \in 0 .. n  BY <1>1
  <2> QED  BY <2>1, FrameScans
<1>4. Ends(p, n) = Len(t) - 1 /\ Ends(p, n) + 1 = Len(t)  BY <1>2
<1>5. Scanned(t) = a  BY <1>3, <1>4, Zenon DEF Scanned
<1>6. a.done /\ a.used = Len(t)  BY DEF FrameState
<1>7. PacketOf(a) = p  BY PacketBack
<1>8. ASSUME NEW k \in 0 .. Len(t) - 2, h[k].done PROVE FALSE
  <2>1. k \in 0 .. Len(t) - 1 /\ Len(t) - 1 \in k .. Len(t) - 1  BY <1>1
  <2>2. ScanKept(h[k], h[Len(t) - 1])  BY <1>1, <2>1, ScansKept
  <2>3. h[Len(t) - 1] = h[k]  BY <1>8, <2>2 DEF ScanKept
  <2>4. h[k].used = Len(t)  BY <1>5, <1>6, <2>3 DEF Scanned
  <2>5. ScanSound(h[k], k)  BY <1>1, <2>1, ScansSound
  <2>6. h[k].used <= k + 1  BY <2>5 DEF ScanSound
  <2> QED  BY <1>1, <2>4, <2>6
<1> QED  BY <1>5, <1>6, <1>7, <1>8

\* So it is in whatever begins with a frame, or is the beginning of one.
LEMMA WholeAhead ==
    ASSUME NEW p \in Message, NEW x \in Seq(Byte), Begins(Frame(p), x)
    PROVE  /\ Len(x) >= 3 /\ Scanned(x).done /\ Scanned(x).used = Len(Frame(p))
           /\ PacketOf(Scanned(x)) = p
<1> DEFINE t == Frame(p)
           m == Len(t) - 1
<1>1. /\ t \in Seq(Byte) /\ Len(t) >= 4 /\ Len(t) \in Nat /\ Len(x) \in Nat
  BY FrameFacts, LenProperties
<1>2. Len(t) <= Len(x) /\ \A i \in 1 .. Len(t) : t[i] = x[i]  BY DEF Begins
<1>3. x # << >> /\ Len(x) >= 3  BY <1>1, <1>2, EmptySeq
<1>4. m \in 0 .. Len(x) - 1 /\ m \in 0 .. Len(t) - 1 /\ Len(x) - 1 \in m .. Len(x) - 1
  BY <1>1, <1>2
<1> HIDE DEF t
<1>5. \A k \in 0 .. Len(t) - 1 : Scans(t)[k] = Scans(x)[k]
  BY <1>1, <1>2, ScansAgree
<1>6. Scans(x)[m] = Scanned(t)  BY <1>4, <1>5 DEF Scanned
<1>7. ScanKept(Scans(x)[m], Scans(x)[Len(x) - 1])  BY <1>3, <1>4, ScansKept
<1>8. Scanned(t).done  BY FrameWhole DEF t
<1>9. Scanned(x) = Scanned(t)  BY <1>6, <1>7, <1>8 DEF ScanKept, Scanned
<1> QED  BY <1>3, <1>9, FrameWhole DEF t

LEMMA PartAhead ==
    ASSUME NEW p \in Message, NEW x \in Seq(Byte), x # << >>, Len(x) < Len(Frame(p)),
           \A i \in 1 .. Len(x) : x[i] = Frame(p)[i]
    PROVE  ~Scanned(x).done
<1> DEFINE t == Frame(p)
           m == Len(x) - 1
<1>1. /\ t \in Seq(Byte) /\ Len(t) \in Nat /\ Len(x) \in Nat /\ Len(x) >= 1
  BY FrameFacts, LenProperties, EmptySeq
<1>2. Len(x) <= Len(t) /\ Len(x) <= Len(x) /\ \A i \in 1 .. Len(x) : x[i] = t[i]
  BY <1>1
<1>3. m \in 0 .. Len(x) - 1 /\ m \in 0 .. Len(t) - 2  BY <1>1
<1> HIDE DEF t
<1>4. \A k \in 0 .. Len(x) - 1 : Scans(x)[k] = Scans(t)[k]
  BY <1>1, <1>2, ScansAgree
<1>5. Scanned(x) = Scans(t)[m]  BY <1>3, <1>4 DEF Scanned
<1> QED  BY <1>3, <1>5, FrameWhole DEF t

-----------------------------------------------------------------------------
\* A length was taken that the body can never have.
WedgedOn(x) ==
    /\ Len(x) >= 3 /\ Len(Scanned(x).body) >= 2
    /\ Scanned(x).size = 0 \/ Scanned(x).size + 2 > BodySize

LEMMA ScannedSound ==
    ASSUME NEW x \in Seq(Byte), x # << >>
    PROVE  /\ Scanned(x) \in ScanState /\ ScanSound(Scanned(x), Len(x) - 1)
           /\ Len(Scanned(x).body) \in Nat /\ Scanned(x).used \in Nat
           /\ Scanned(x).size \in Nat /\ Scanned(x).esc \in BOOLEAN
           /\ Scanned(x).done \in BOOLEAN
<1>1. Len(x) \in Nat /\ Len(x) - 1 \in 0 .. Len(x) - 1  BY EmptySeq
<1>2. Scanned(x) \in ScanState /\ ScanSound(Scanned(x), Len(x) - 1)
  BY <1>1, ScansSound DEF Scanned
<1>3. Scanned(x).body \in Seq(Byte)  BY <1>2 DEF ScanState
<1>4. Len(Scanned(x).body) \in Nat  BY <1>3, LenProperties
<1>5. Scanned(x).size \in Byte  BY <1>2 DEF ScanState
<1> QED  BY <1>2, <1>4, <1>5, WireConstants DEF ScanState, Byte

\* How much a packet takes up, and how much an unfinished one holds.
LEMMA UsedBound ==
    ASSUME NEW x \in Seq(Byte), x # << >>
    PROVE  /\ Scanned(x).used \in 1 .. Len(x)
           /\ Scanned(x).done => Scanned(x).used <= 2 * BodySize + 1
<1> DEFINE a == Scanned(x)
           n == Len(a.body)
<1>1. /\ ScanSound(a, Len(x) - 1) /\ n \in Nat /\ a.used \in Nat /\ a.esc \in BOOLEAN
  BY ScannedSound
<1>2. Len(x) \in Nat /\ Len(x) >= 1 /\ BodySize \in Nat  BY EmptySeq, WireConstants
<1> HIDE DEF a
<1>3. a.used >= 1 /\ a.used <= (Len(x) - 1) + 1 /\ n <= BodySize
      /\ (a.done => ~a.esc) /\ (~a.esc => a.used - 1 <= 2 * n)
  BY <1>1 DEF ScanSound
<1> HIDE DEF n
<1> QED  BY <1>1, <1>2, <1>3 DEF a

LEMMA HeldBound ==
    ASSUME NEW x \in Seq(Byte), x # << >>, ~Scanned(x).done, ~WedgedOn(x), BodySize >= 3
    PROVE  Len(x) <= 2 * BodySize + 1
<1> DEFINE a == Scanned(x)
           n == Len(a.body)
<1>1. /\ ScanSound(a, Len(x) - 1) /\ n \in Nat /\ a.used \in Nat /\ a.esc \in BOOLEAN
      /\ a.size \in Nat
  BY ScannedSound
<1>2. Len(x) \in Nat /\ Len(x) >= 1 /\ BodySize \in Nat  BY EmptySeq, WireConstants
<1>3. Len(x) < 3 \/ n < 2 \/ (a.size # 0 /\ a.size + 2 <= BodySize)
  BY <1>1, <1>2 DEF WedgedOn
<1>4. /\ n < BodySize => a.used = (Len(x) - 1) + 1
      /\ n >= 2 /\ a.size # 0 => n < a.size + 2
      /\ a.used - 2 <= 2 * n
  BY <1>1 DEF ScanSound
<1> HIDE DEF a, n
<1>5. CASE Len(x) < 3  BY <1>2, <1>5
<1>6. CASE n < 2  BY <1>1, <1>2, <1>4, <1>6
<1>7. CASE n >= 2 /\ a.size # 0 /\ a.size + 2 <= BodySize
  <2>1. n < BodySize  BY <1>1, <1>2, <1>4, <1>7
  <2>2. a.used = Len(x)  BY <1>2, <1>4, <2>1
  <2> QED  BY <1>1, <1>2, <1>4, <2>1, <2>2
<1> QED  BY <1>1, <1>3, <1>5, <1>6, <1>7

LEMMA WedgedStays ==
    ASSUME NEW x \in Seq(Byte), NEW y \in Seq(Byte), Begins(x, y), WedgedOn(x)
    PROVE  WedgedOn(y) /\ ~Scanned(y).done
<1>1. Len(x) \in Nat /\ Len(y) \in Nat /\ Len(x) >= 3  BY LenProperties DEF WedgedOn
<1>2. Len(x) <= Len(y) /\ \A i \in 1 .. Len(x) : x[i] = y[i]  BY DEF Begins
<1>3. x # << >> /\ y # << >>  BY <1>1, <1>2, EmptySeq
<1> DEFINE m == Len(x) - 1
<1>4. m \in 0 .. Len(x) - 1 /\ m \in 0 .. Len(y) - 1 /\ Len(y) - 1 \in m .. Len(y) - 1
  BY <1>1, <1>2
<1>5. \A k \in 0 .. Len(x) - 1 : Scans(x)[k] = Scans(y)[k]  BY <1>1, <1>2, ScansAgree
<1>6. Scans(y)[m] = Scanned(x)  BY <1>4, <1>5 DEF Scanned
<1>7. ScanKept(Scans(y)[m], Scans(y)[Len(y) - 1])  BY <1>3, <1>4, ScansKept
<1>8. Len(Scanned(y).body) >= 2 /\ Scanned(y).size = Scanned(x).size
  BY <1>6, <1>7 DEF ScanKept, Scanned, WedgedOn
<1>9. WedgedOn(y)  BY <1>1, <1>2, <1>8 DEF WedgedOn
<1>10. ~Scanned(y).done
  <2> DEFINE a == Scanned(y)
  <2>1. ScanSound(a, Len(y) - 1) /\ Len(a.body) \in Nat /\ a.size \in Nat /\ BodySize \in Nat
    BY <1>3, ScannedSound, WireConstants
  <2>2. a.size = 0 \/ a.size + 2 > BodySize  BY <1>9 DEF WedgedOn
  <2> HIDE DEF a
  <2>3. ~a.done  BY <2>1, <2>2 DEF ScanSound
  <2> QED  BY <2>3 DEF a
<1> QED  BY <1>9, <1>10

\* "Find SYNC".
LEMMA FromSyncFacts ==
    ASSUME NEW s \in Seq(Byte)
    PROVE  \/ FromSync(s) = << >> /\ \A i \in 1 .. Len(s) : s[i] # SYNC
           \/ \E d \in 0 .. Len(s) - 1 :
                 /\ s[d + 1] = SYNC /\ \A i \in 1 .. d : s[i] # SYNC
                 /\ FromSync(s) = SubSeq(s, d + 1, Len(s))
<1> DEFINE syncs == {i \in DOMAIN s : s[i] = SYNC}
           first == CHOOSE i \in syncs : \A j \in syncs : i <= j
<1>1. DOMAIN s = 1 .. Len(s) /\ Len(s) \in Nat  BY LenProperties
<1>2. FromSync(s) = IF syncs = {} THEN << >> ELSE SubSeq(s, first, Len(s))  BY DEF FromSync
<1>3. CASE syncs = {}
  <2>1. \A i \in 1 .. Len(s) : s[i] # SYNC  BY <1>1, <1>3
  <2>2. FromSync(s) = << >>  BY <1>2, <1>3
  <2> QED  BY <2>1, <2>2
<1>4. CASE syncs # {}
  <2>1. syncs \in SUBSET Nat  BY <1>1
  <2>2. \E i \in syncs : \A j \in syncs : i <= j  BY <1>4, <2>1, LeastNatural
  <2>3. first \in syncs /\ \A j \in syncs : first <= j  BY <2>2
  <2> HIDE DEF first
  <2>4. first \in 1 .. Len(s) /\ s[first] = SYNC  BY <1>1, <2>3
  <2>5. ASSUME NEW i \in 1 .. first - 1 PROVE s[i] # SYNC
    <3>1. i \in DOMAIN s /\ ~(first <= i)  BY <1>1, <2>4
    <3> QED  BY <2>3, <3>1
  <2>6. first - 1 \in 0 .. Len(s) - 1 /\ (first - 1) + 1 = first  BY <1>1, <2>4
  <2>7. FromSync(s) = SubSeq(s, (first - 1) + 1, Len(s))  BY <1>2, <1>4, <2>6
  <2> QED  BY <2>4, <2>5, <2>6, <2>7
<1> QED  BY <1>3, <1>4

LEMMA SyncFirst ==
    ASSUME NEW s \in Seq(Byte), s # << >>, s[1] = SYNC
    PROVE  FromSync(s) = s
<1>1. Len(s) \in Nat /\ Len(s) >= 1  BY EmptySeq
<1>2. ~ \A i \in 1 .. Len(s) : s[i] # SYNC  BY <1>1
<1>3. PICK d \in 0 .. Len(s) - 1 :
         /\ s[d + 1] = SYNC /\ \A i \in 1 .. d : s[i] # SYNC
         /\ FromSync(s) = SubSeq(s, d + 1, Len(s))
  BY <1>2, FromSyncFacts
<1>4. d = 0  BY <1>1, <1>3
<1>5. FromSync(s) = SubSeq(s, 1, Len(s))  BY <1>3, <1>4
<1> QED  BY <1>5, SubSeqFull

-----------------------------------------------------------------------------
\* x is what is left of the packets s when the first k of them are gone, behind c bytes
\* that hold no SYNC.
OnTheWire(x, s, k, c) ==
    /\ k \in 0 .. Len(s) /\ c \in Nat
    /\ Len(x) = c + Len(AllOf(s)) - Off(s, k)
    /\ \A i \in 1 .. c : x[i] # SYNC
    /\ \A i \in 1 .. Len(AllOf(s)) - Off(s, k) : x[c + i] = AllOf(s)[Off(s, k) + i]

LEMMA WireSend ==
    ASSUME NEW x \in Seq(Byte), NEW s \in Seq(Message), NEW k, NEW c, OnTheWire(x, s, k, c),
           NEW p \in Message
    PROVE  OnTheWire(x \o Frame(p), Append(s, p), k, c)
<1> DEFINE F == Frame(p)
           t == Append(s, p)
           A == AllOf(s)
           o == Off(s, k)
<1>1. /\ F \in Seq(Byte) /\ A \in Seq(Byte) /\ Len(F) \in Nat /\ Len(A) \in Nat
      /\ Len(x) \in Nat
  BY FrameFacts, WiredFacts, LenProperties
<1>2. k \in 0 .. Len(s) /\ Len(s) \in Nat /\ c \in Nat /\ Len(x) = c + Len(A) - o
      /\ (\A i \in 1 .. c : x[i] # SYNC) /\ \A i \in 1 .. Len(A) - o : x[c + i] = A[o + i]
  BY LenProperties DEF OnTheWire
<1>3. o \in Nat /\ o <= Len(A)  BY <1>2, WiredFacts
<1>4. Len(t) = Len(s) + 1  BY AppendProperties
<1>5. Off(t, k) = o /\ AllOf(t) = A \o F  BY <1>2, WiredAppend
<1> HIDE DEF F, A, o, t
<1>6. /\ Len(A \o F) = Len(A) + Len(F)
      /\ \A i \in 1 .. Len(A) + Len(F) :
            (A \o F)[i] = IF i <= Len(A) THEN A[i] ELSE F[i - Len(A)]
  BY <1>1, ConcatProperties
<1>7. /\ Len(x \o F) = Len(x) + Len(F)
      /\ \A i \in 1 .. Len(x) + Len(F) :
            (x \o F)[i] = IF i <= Len(x) THEN x[i] ELSE F[i - Len(x)]
  BY <1>1, ConcatProperties
<1>8. Len(x \o F) = c + Len(A \o F) - o  BY <1>1, <1>2, <1>3, <1>6, <1>7
<1>9. \A i \in 1 .. c : (x \o F)[i] # SYNC  BY <1>1, <1>2, <1>3, <1>7
<1>10. ASSUME NEW i \in 1 .. Len(A \o F) - o PROVE (x \o F)[c + i] = (A \o F)[o + i]
  <2>1. c + i \in 1 .. Len(x) + Len(F) /\ o + i \in 1 .. Len(A) + Len(F)
    BY <1>1, <1>2, <1>3, <1>6
  <2>2. CASE o + i <= Len(A)
    <3>1. c + i <= Len(x) /\ i \in 1 .. Len(A) - o  BY <1>1, <1>2, <1>3, <2>2
    <3> QED  BY <1>2, <1>6, <1>7, <2>1, <2>2, <3>1
  <2>3. CASE ~(o + i <= Len(A))
    <3>1. ~(c + i <= Len(x)) /\ (c + i) - Len(x) = (o + i) - Len(A)
      BY <1>1, <1>2, <1>3, <2>3
    <3> QED  BY <1>6, <1>7, <2>1, <2>3, <3>1
  <2> QED  BY <2>2, <2>3
<1>11. k \in 0 .. Len(t)  BY <1>2, <1>4
<1> QED  BY <1>2, <1>5, <1>8, <1>9, <1>10, <1>11 DEF OnTheWire, F, t

LEMMA WireDrop ==
    ASSUME NEW x \in Seq(Byte), NEW s \in Seq(Message), NEW k, NEW c, OnTheWire(x, s, k, c),
           NEW d \in 0 .. c
    PROVE  OnTheWire(SubSeq(x, d + 1, Len(x)), s, k, c - d)
<1> DEFINE A == AllOf(s)
           o == Off(s, k)
           y == SubSeq(x, d + 1, Len(x))
<1>1. Len(A) \in Nat /\ Len(x) \in Nat  BY WiredFacts, LenProperties
<1>2. k \in 0 .. Len(s) /\ c \in Nat /\ Len(x) = c + Len(A) - o
      /\ (\A i \in 1 .. c : x[i] # SYNC) /\ \A i \in 1 .. Len(A) - o : x[c + i] = A[o + i]
  BY DEF OnTheWire
<1>3. o \in Nat /\ o <= Len(A)  BY <1>2, WiredFacts
<1>4. d \in 0 .. Len(x)  BY <1>1, <1>2, <1>3
<1>5. Len(y) = Len(x) - d /\ \A i \in 1 .. Len(x) - d : y[i] = x[d + i]
  BY <1>4, SuffixFacts
<1> HIDE DEF A, o, y
<1>6. c - d \in Nat /\ Len(y) = (c - d) + Len(A) - o  BY <1>1, <1>2, <1>3, <1>5
<1>7. \A i \in 1 .. c - d : y[i] # SYNC
  <2> TAKE i \in 1 .. c - d
  <2>1. i \in 1 .. Len(x) - d /\ d + i \in 1 .. c  BY <1>1, <1>2, <1>3
  <2> QED  BY <1>2, <1>5, <2>1
<1>8. \A i \in 1 .. Len(A) - o : y[(c - d) + i] = A[o + i]
  <2> TAKE i \in 1 .. Len(A) - o
  <2>1. (c - d) + i \in 1 .. Len(x) - d /\ d + ((c - d) + i) = c + i  BY <1>1, <1>2, <1>3
  <2> QED  BY <1>2, <1>5, <2>1
<1> QED  BY <1>2, <1>6, <1>7, <1>8 DEF OnTheWire, A, o, y

\* The packet that is next on the wire, and what is left when it is gone.
LEMMA WireHead ==
    ASSUME NEW x \in Seq(Byte), NEW s \in Seq(Message), NEW k, OnTheWire(x, s, k, 0),
           k < Len(s)
    PROVE  /\ s[k + 1] \in Message /\ Begins(Frame(s[k + 1]), x)
           /\ OnTheWire(SubSeq(x, Len(Frame(s[k + 1])) + 1, Len(x)), s, k + 1, 0)
<1> DEFINE A == AllOf(s)
           o == Off(s, k)
           q == Off(s, k + 1)
           F == Frame(s[k + 1])
           y == SubSeq(x, Len(F) + 1, Len(x))
<1>1. Len(A) \in Nat /\ Len(x) \in Nat /\ Len(s) \in Nat  BY WiredFacts, LenProperties
<1>2. k \in 0 .. Len(s) /\ Len(x) = 0 + Len(A) - o
      /\ \A i \in 1 .. Len(A) - o : x[0 + i] = A[o + i]
  BY DEF OnTheWire
<1>3. k + 1 \in 1 .. Len(s) /\ k + 1 \in 0 .. Len(s) /\ (k + 1) - 1 = k  BY <1>1, <1>2
<1>4. s[k + 1] \in Message  BY <1>3, ElementOfSeq
<1>5. /\ o \in Nat /\ o <= Len(A) /\ q \in Nat /\ q <= Len(A)
      /\ q = o + Len(F) /\ \A i \in 1 .. Len(F) : A[o + i] = F[i]
  <2>1. o \in Nat /\ o <= Len(A) /\ q \in Nat /\ q <= Len(A)  BY <1>2, <1>3, WiredFacts
  <2>2. /\ Off(s, k + 1) = Off(s, (k + 1) - 1) + Len(F)
        /\ \A i \in 1 .. Len(F) : A[Off(s, (k + 1) - 1) + i] = F[i]
    BY <1>3, WiredFacts
  <2> QED  BY <1>3, <2>1, <2>2
<1>6. Len(F) \in Nat  BY <1>4, FrameFacts, LenProperties
<1>7. Len(F) \in 0 .. Len(x)
  <2> HIDE DEF F, A, o, q
  <2> QED  BY <1>1, <1>2, <1>5, <1>6
<1>8. Len(y) = Len(x) - Len(F) /\ \A i \in 1 .. Len(x) - Len(F) : y[i] = x[Len(F) + i]
  BY <1>7, SuffixFacts
<1> HIDE DEF A, o, q, F, y
<1>9. Begins(F, x)
  <2>1. Len(F) <= Len(x)  BY <1>1, <1>2, <1>5, <1>6
  <2>2. ASSUME NEW i \in 1 .. Len(F) PROVE x[i] = F[i]
    <3>1. i \in 1 .. Len(A) - o /\ 0 + i = i  BY <1>1, <1>2, <1>5, <1>6
    <3> QED  BY <1>2, <1>5, <3>1
  <2> QED  BY <2>1, <2>2 DEF Begins
<1>10. Len(y) = 0 + Len(A) - q  BY <1>1, <1>2, <1>5, <1>6, <1>8
<1>11. \A i \in 1 .. Len(A) - q : y[0 + i] = A[q + i]
  <2> TAKE i \in 1 .. Len(A) - q
  <2>1. i \in 1 .. Len(x) - Len(F) /\ 0 + i = i /\ Len(F) + i \in 1 .. Len(A) - o
        /\ 0 + (Len(F) + i) = Len(F) + i /\ o + (Len(F) + i) = q + i
    BY <1>1, <1>2, <1>5, <1>6
  <2>2. y[i] = x[Len(F) + i]  BY <1>8, <2>1
  <2>3. x[Len(F) + i] = A[q + i]  BY <1>2, <2>1
  <2> QED  BY <2>1, <2>2, <2>3
<1>12. OnTheWire(y, s, k + 1, 0)  BY <1>3, <1>10, <1>11 DEF OnTheWire, A, q
<1> QED  BY <1>4, <1>9, <1>12 DEF F, y

LEMMA WireEnd ==
    ASSUME NEW x \in Seq(Byte), NEW s \in Seq(Message), NEW k, NEW c, OnTheWire(x, s, k, c)
    PROVE  /\ k = Len(s) => Len(x) = c
           /\ k < Len(s) => c + 4 <= Len(x) /\ x[c + 1] = SYNC
<1>1. /\ k \in 0 .. Len(s) /\ c \in Nat /\ Len(s) \in Nat /\ Len(x) \in Nat
      /\ Len(x) = c + Len(AllOf(s)) - Off(s, k) /\ Len(AllOf(s)) = Off(s, Len(s))
      /\ Off(s, k) \in Nat /\ Off(s, Len(s)) \in Nat
  <2>1. k \in 0 .. Len(s) /\ Len(s) \in Nat  BY LenProperties DEF OnTheWire
  <2>2. Len(s) \in 0 .. Len(s)  BY <2>1
  <2> QED  BY <2>1, <2>2, WiredFacts, LenProperties DEF OnTheWire
<1>2. CASE k = Len(s)  BY <1>1, <1>2
<1>3. CASE k < Len(s)
  <2> DEFINE y == SubSeq(x, c + 1, Len(x))
  <2>1. c \in 0 .. c /\ c - c = 0  BY <1>1
  <2>2. OnTheWire(y, s, k, 0)  BY <2>1, WireDrop
  <2>3. Off(s, k) <= Len(AllOf(s))  BY <1>1, WiredFacts
  <2>4. c \in 0 .. Len(x)  BY <1>1, <2>3
  <2>5. /\ y \in Seq(Byte) /\ Len(y) = Len(x) - c
        /\ \A i \in 1 .. Len(x) - c : y[i] = x[c + i]
    BY <2>4, SuffixFacts
  <2> HIDE DEF y
  <2>6. s[k + 1] \in Message /\ Begins(Frame(s[k + 1]), y)  BY <1>3, <2>2, <2>5, WireHead
  <2>7. Len(Frame(s[k + 1])) >= 4 /\ Len(Frame(s[k + 1])) \in Nat /\ Frame(s[k + 1])[1] = SYNC
    BY <2>6, FrameFacts, LenProperties
  <2>8. Len(y) >= 4 /\ y[1] = SYNC
    BY <2>5, <2>6, <2>7, LenProperties DEF Begins
  <2>9. c + 4 <= Len(x) /\ 1 \in 1 .. Len(x) - c  BY <1>1, <2>5, <2>8
  <2> QED  BY <1>3, <1>1, <2>5, <2>8, <2>9
<1> QED  BY <1>1, <1>2, <1>3

\* The byte a packet ends with is the one after which it is whole.
LEMMA WholeAt ==
    ASSUME NEW x \in Seq(Byte), x # << >>, Scanned(x).done
    PROVE  Scans(x)[Scanned(x).used - 1].done
<1> DEFINE h == Scans(x)
           N == Len(x) - 1
           T == {k \in 0 .. N : h[k].done => h[h[k].used - 1].done}
<1>1. N \in Nat  BY EmptySeq
<1>2. /\ h[0] = ScanStart
      /\ \A k \in 1 .. N : h[k] = Scan(h[k - 1], x[k + 1])
  BY ScansUnfolds
<1>3. \A k \in 0 .. N : h[k] \in ScanState /\ ScanSound(h[k], k)  BY ScansSound
<1> HIDE DEF h, N
<1>4. 0 \in T  BY <1>1, <1>2 DEF ScanStart
<1>5. ASSUME NEW k \in 0 .. N - 1, k \in T PROVE k + 1 \in T
  <2> DEFINE a == h[k]
             c == h[k + 1]
  <2>1. k + 1 \in 1 .. N /\ (k + 1) - 1 = k /\ k + 1 \in 0 .. N /\ k \in 0 .. N /\ k \in Nat
    BY <1>1
  <2>2. c = Scan(a, x[(k + 1) + 1])  BY <1>2, <2>1
  <2>3. ScanSound(a, k) /\ a \in ScanState /\ ScanSound(c, k + 1) /\ c \in ScanState
    BY <1>3, <2>1
  <2>4. CASE a.done \/ Len(a.body) = BodySize
    <3>1. c = a  BY <2>2, <2>4 DEF Scan
    <3> QED  BY <1>5, <2>1, <3>1
  <2>5. CASE ~(a.done \/ Len(a.body) = BodySize)
    <3>1. Len(a.body) \in Nat /\ a.used \in Nat /\ BodySize \in Nat /\ a.done \in BOOLEAN
      BY <2>3, LenProperties, WireConstants DEF ScanState
    <3>2. a.used = k + 1  BY <2>3, <2>5, <3>1 DEF ScanSound
    <3>3. c.used = a.used + 1
      <4> DEFINE b == x[(k + 1) + 1]
      <4>1. CASE b = ESCAPE /\ ~a.esc
        <5>1. c = [a EXCEPT !.esc = TRUE, !.used = @ + 1]  BY <2>2, <2>5, <4>1 DEF Scan
        <5> QED  BY <2>3, <5>1 DEF ScanState
      <4>2. CASE ~(b = ESCAPE /\ ~a.esc)  BY <2>2, <2>5, <4>2 DEF Scan
      <4> QED  BY <4>1, <4>2
    <3>4. c.used - 1 = k + 1  BY <2>1, <3>2, <3>3
    <3>5. c.done => h[c.used - 1].done  BY <3>4
    <3> QED  BY <2>1, <3>5
  <2> QED  BY <2>4, <2>5
<1>6. 0 .. N \subseteq T
  <2> HIDE DEF T
  <2> QED  BY <1>1, <1>4, <1>5, RangeInduction
<1>7. N \in T /\ Scanned(x) = h[N]  BY <1>1, <1>6 DEF Scanned, h, N
<1> QED  BY <1>7 DEF h

-----------------------------------------------------------------------------
\* x is k bytes of a packet that was given up, and behind them the packets s.
AstrayOn(x, s, p, k) ==
    /\ p \in Message /\ k \in 1 .. Len(Frame(p)) - 1
    /\ Len(x) = k + Len(AllOf(s))
    /\ \A i \in 1 .. k : x[i] = Frame(p)[i]
    /\ \A i \in 1 .. Len(AllOf(s)) : x[k + i] = AllOf(s)[i]

LEMMA AstraySend ==
    ASSUME NEW x \in Seq(Byte), NEW s \in Seq(Message), NEW q, NEW k, AstrayOn(x, s, q, k),
           NEW p \in Message
    PROVE  AstrayOn(x \o Frame(p), Append(s, p), q, k)
<1> DEFINE F == Frame(p)
           t == Append(s, p)
           A == AllOf(s)
<1>1. /\ F \in Seq(Byte) /\ A \in Seq(Byte) /\ Len(F) \in Nat /\ Len(A) \in Nat
      /\ Len(x) \in Nat
  BY FrameFacts, WiredFacts, LenProperties
<1>2. /\ q \in Message /\ k \in 1 .. Len(Frame(q)) - 1 /\ Len(x) = k + Len(A)
      /\ \A i \in 1 .. k : x[i] = Frame(q)[i]
      /\ \A i \in 1 .. Len(A) : x[k + i] = A[i]
  BY DEF AstrayOn
<1>3. k \in Nat  BY <1>2, FrameFacts, LenProperties
<1>4. AllOf(t) = A \o F  BY WiredAppend
<1> HIDE DEF F, A, t
<1>5. /\ Len(A \o F) = Len(A) + Len(F)
      /\ \A i \in 1 .. Len(A) + Len(F) :
            (A \o F)[i] = IF i <= Len(A) THEN A[i] ELSE F[i - Len(A)]
  BY <1>1, ConcatProperties
<1>6. /\ Len(x \o F) = Len(x) + Len(F)
      /\ \A i \in 1 .. Len(x) + Len(F) :
            (x \o F)[i] = IF i <= Len(x) THEN x[i] ELSE F[i - Len(x)]
  BY <1>1, ConcatProperties
<1>7. Len(x \o F) = k + Len(A \o F)  BY <1>1, <1>2, <1>3, <1>5, <1>6
<1>8. \A i \in 1 .. k : (x \o F)[i] = Frame(q)[i]  BY <1>1, <1>2, <1>3, <1>6
<1>9. ASSUME NEW i \in 1 .. Len(A \o F) PROVE (x \o F)[k + i] = (A \o F)[i]
  <2>1. k + i \in 1 .. Len(x) + Len(F) /\ i \in 1 .. Len(A) + Len(F)
    BY <1>1, <1>2, <1>3, <1>5
  <2>2. CASE i <= Len(A)
    <3>1. k + i <= Len(x) /\ i \in 1 .. Len(A)  BY <1>1, <1>2, <1>3, <2>2
    <3> QED  BY <1>2, <1>5, <1>6, <2>1, <2>2, <3>1
  <2>3. CASE ~(i <= Len(A))
    <3>1. ~(k + i <= Len(x)) /\ (k + i) - Len(x) = i - Len(A)
      BY <1>1, <1>2, <1>3, <2>3
    <3> QED  BY <1>5, <1>6, <2>1, <2>3, <3>1
  <2> QED  BY <2>2, <2>3
<1> QED  BY <1>2, <1>4, <1>7, <1>8, <1>9 DEF AstrayOn, F, t

\* A packet given up in the middle is not whole before the bytes behind it are used.
LEMMA AstrayUses ==
    ASSUME NEW x \in Seq(Byte), NEW p \in Message, NEW k \in 1 .. Len(Frame(p)) - 1,
           x # << >>, \A i \in 1 .. Len(x) : i <= k => x[i] = Frame(p)[i],
           Scanned(x).done
    PROVE  Scanned(x).used > k
<1> DEFINE F == Frame(p)
           u == Scanned(x).used
<1>1. F \in Seq(Byte) /\ Len(F) \in Nat /\ Len(F) >= 4 /\ Len(x) \in Nat /\ Len(x) >= 1
  BY FrameFacts, LenProperties, EmptySeq
<1>2. u \in 1 .. Len(x)  BY UsedBound
<1>3. Scans(x)[u - 1].done  BY WholeAt
<1> HIDE DEF F, u
<1>4. SUFFICES ASSUME u <= k PROVE FALSE
  <2>1. k \in Nat  BY <1>1 DEF F
  <2> QED  BY <1>2, <2>1 DEF u
<1>5. k \in 1 .. Len(F) - 1 /\ k \in Nat  BY <1>1 DEF F
<1>6. u \in Nat /\ u >= 1 /\ u <= Len(x) /\ u <= Len(F) /\ u - 1 \in 0 .. u - 1
      /\ u - 1 \in 0 .. Len(F) - 2
  BY <1>1, <1>2, <1>4, <1>5
<1>7. \A i \in 1 .. u : x[i] = F[i]  BY <1>1, <1>2, <1>4, <1>5 DEF F
<1>8. \A j \in 0 .. u - 1 : Scans(x)[j] = Scans(F)[j]  BY <1>1, <1>6, <1>7, ScansAgree
<1>9. Scans(F)[u - 1].done  BY <1>3, <1>6, <1>8
<1> QED  BY <1>6, <1>9, FrameWhole DEF F

\* When something is taken for a packet, what is left is the rest of a packet that was
\* begun before it ended, and all that follow.
LEMMA AstrayRecovers ==
    ASSUME NEW x \in Seq(Byte), NEW s \in Seq(Message), NEW p, NEW k, AstrayOn(x, s, p, k),
           NEW u \in k + 1 .. Len(x)
    PROVE  \E l \in 1 .. Len(s), c \in Nat :
              OnTheWire(SubSeq(x, u + 1, Len(x)), s, l, c) /\ Off(s, l - 1) < u - k
<1> DEFINE A == AllOf(s)
           d == u - k
           T == {l \in 0 .. Len(s) : d <= Off(s, l)}
           y == SubSeq(x, u + 1, Len(x))
<1>1. Len(A) \in Nat /\ Len(x) \in Nat /\ Len(s) \in Nat  BY WiredFacts, LenProperties
<1>2. /\ k \in Nat /\ k >= 1 /\ Len(x) = k + Len(A)
      /\ \A i \in 1 .. Len(A) : x[k + i] = A[i]
  BY FrameFacts, LenProperties DEF AstrayOn
<1>3. d \in 1 .. Len(A) /\ u \in Nat /\ u = k + d /\ Len(x) - u = Len(A) - d
  BY <1>1, <1>2
<1>4. Len(A) = Off(s, Len(s)) /\ Off(s, 0) = 0  BY WiredFacts
<1>5. \E l \in T : \A m \in T : l <= m
  <2>1. Len(s) \in T  BY <1>1, <1>3, <1>4
  <2>2. T \in SUBSET Nat /\ T # {}  BY <1>1, <2>1
  <2> HIDE DEF T
  <2> QED  BY <2>2, LeastNatural
<1>6. PICK l \in T : \A m \in T : l <= m  BY <1>5
<1>7. l \in 1 .. Len(s) /\ d <= Off(s, l)  BY <1>1, <1>3, <1>4, <1>6
<1>8. l - 1 \notin T /\ l - 1 \in 0 .. Len(s) /\ l \in 0 .. Len(s)  BY <1>1, <1>6, <1>7
<1>9. ~(d <= Off(s, l - 1))  BY <1>8
<1> DEFINE o == Off(s, l)
           b == Off(s, l - 1)
           F == Frame(s[l])
<1>10. /\ o \in Nat /\ o <= Len(A) /\ b \in Nat /\ o = b + Len(F)
       /\ \A i \in 1 .. Len(F) : A[b + i] = F[i]
  <2>1. o \in Nat /\ o <= Len(A) /\ b \in Nat  BY <1>8, WiredFacts
  <2>2. o = b + Len(F) /\ \A i \in 1 .. Len(F) : A[b + i] = F[i]  BY <1>7, WiredFacts
  <2> QED  BY <2>1, <2>2
<1>11. s[l] \in Message  BY <1>7, ElementOfSeq
<1>12. Len(F) \in Nat /\ \A i \in 2 .. Len(F) : F[i] # SYNC
  BY <1>11, FrameFacts, LenProperties
<1>13. u \in 0 .. Len(x)  BY <1>1, <1>3
<1>14. y \in Seq(Byte) /\ Len(y) = Len(x) - u /\ \A i \in 1 .. Len(x) - u : y[i] = x[u + i]
  BY <1>13, SuffixFacts
<1> HIDE DEF A, T, y, o, b, F
<1>15. b < d /\ d <= o  BY <1>3, <1>7, <1>9, <1>10 DEF o, b
<1> HIDE DEF d
<1> DEFINE c == o - d
<1>16. c \in Nat /\ Len(y) = c + Len(A) - o  BY <1>1, <1>2, <1>3, <1>10, <1>14, <1>15
<1>17. ASSUME NEW i \in 1 .. Len(y) PROVE y[i] = A[d + i] /\ d + i \in 1 .. Len(A)
  <2>1. i \in 1 .. Len(x) - u /\ d + i \in 1 .. Len(A) /\ k + (d + i) = u + i
    BY <1>1, <1>2, <1>3, <1>14
  <2> QED  BY <1>2, <1>14, <2>1
<1>18. ASSUME NEW i \in 1 .. c PROVE y[i] # SYNC
  <2>1. i \in 1 .. Len(y)  BY <1>1, <1>10, <1>16
  <2>2. y[i] = A[d + i]  BY <1>17, <2>1
  <2>3. d + i - b \in 2 .. Len(F) /\ d + i - b \in 1 .. Len(F) /\ b + (d + i - b) = d + i
    <3>1. d \in Nat /\ b \in Nat /\ o = b + Len(F) /\ Len(F) \in Nat /\ b < d /\ d <= o
      BY <1>1, <1>3, <1>10, <1>12, <1>15
    <3> QED  BY <3>1
  <2>4. A[d + i] = F[d + i - b]  BY <1>10, <2>3
  <2> QED  BY <1>12, <2>2, <2>3, <2>4
<1>19. ASSUME NEW i \in 1 .. Len(A) - o PROVE y[c + i] = A[o + i]
  <2>1. c + i \in 1 .. Len(y) /\ d + (c + i) = o + i  BY <1>1, <1>3, <1>10, <1>16
  <2> QED  BY <1>17, <2>1
<1> HIDE DEF c
<1>20. OnTheWire(y, s, l, c)
  BY <1>8, <1>16, <1>18, <1>19 DEF OnTheWire, A, o
<1>21. Off(s, l - 1) < u - k  BY <1>15 DEF b, d
<1> QED  BY <1>7, <1>16, <1>20, <1>21 DEF y

-----------------------------------------------------------------------------
\* What is on its way: what was written and not used, and what is not written yet.
Stream == in \o line

Received == [dest : Byte, data : Seq(Byte), ok : BOOLEAN]

Types ==
    /\ line \in Seq(Byte) /\ in \in Seq(Byte) /\ Len(in) <= FIFO_SIZE
    /\ busy \in BOOLEAN /\ aborted \in BOOLEAN
    /\ sent \in Seq(Message) /\ Len(sent) <= MaxSent
    /\ handled \in Seq(Received)

Fits == Len(in) + Len(line) <= FIFO_SIZE

\* Between two writes consume_input() holds an unfinished packet or nothing.
Settled ==
    ~busy => in = << >> \/ (in[1] = SYNC /\ (Len(in) >= 3 => ~Scanned(in).done))

\* The packets handled are those sent, but for an invented one that stands in for the
\* first `lost` of them, and the stream goes on where they end.
InStepAt(invented, lost, c) ==
    /\ invented <= Len(handled)
    /\ invented = 0 <=> lost = 0
    /\ ~aborted => invented = 0
    /\ lost > 0 => Off(sent, lost - 1) < 2 * BodySize
    /\ \A i \in 1 .. Len(handled) - invented : handled[invented + i] = sent[lost + i]
    /\ OnTheWire(Stream, sent, lost + Len(handled) - invented, c)
    /\ Fits

InStep == \E invented \in 0 .. 1, lost \in 0 .. Len(sent), c \in Nat :
             InStepAt(invented, lost, c)

\* The packet that was given up is still ahead.
Astray == /\ aborted /\ handled = << >> /\ Fits
          /\ \E p, k : AstrayOn(Stream, sent, p, k)

\* The parser waits for good.
Stuck == aborted /\ in # << >> /\ in[1] = SYNC /\ WedgedOn(in)

WireInv == Types /\ Settled /\ (InStep \/ Astray \/ Stuck)

LEMMA BodyRoom ==
    ASSUME NEW p \in Message
    PROVE  BodySize >= 3
<1> QED  BY MessageTyped, WireConstants

LEMMA StreamFacts ==
    ASSUME Types
    PROVE  /\ Stream \in Seq(Byte) /\ Len(Stream) = Len(in) + Len(line)
           /\ Len(in) \in Nat /\ Len(line) \in Nat /\ Len(sent) \in Nat /\ Len(handled) \in Nat
           /\ \A i \in 1 .. Len(in) : Stream[i] = in[i]
<1>1. line \in Seq(Byte) /\ in \in Seq(Byte)  BY DEF Types
<1>2. Len(in) \in Nat /\ Len(line) \in Nat /\ Len(sent) \in Nat /\ Len(handled) \in Nat
  BY LenProperties DEF Types
<1>3. /\ in \o line \in Seq(Byte) /\ Len(in \o line) = Len(in) + Len(line)
      /\ \A i \in 1 .. Len(in) + Len(line) :
            (in \o line)[i] = IF i <= Len(in) THEN in[i] ELSE line[i - Len(in)]
  BY <1>1, ConcatProperties
<1>4. \A i \in 1 .. Len(in) : (in \o line)[i] = in[i]  BY <1>2, <1>3
<1> QED  BY <1>2, <1>3, <1>4 DEF Stream

\* What waits between two writes takes up no more than one packet, unless it is stuck.
LEMMA LittleHeld ==
    ASSUME WireInv, ~busy, NEW p \in Message
    PROVE  Len(in) <= 2 * BodySize + 1 \/ Stuck
<1>1. Types /\ Len(in) \in Nat /\ BodySize \in Nat /\ BodySize >= 3
  BY StreamFacts, BodyRoom, WireConstants DEF WireInv
<1>2. CASE in = << >>
  <2>1. Len(in) = 0  BY <1>2, EmptySeq
  <2> QED  BY <1>1, <2>1
<1>3. CASE Len(in) < 3  BY <1>1, <1>3
<1>4. CASE in # << >> /\ Len(in) >= 3
  <2>1. in[1] = SYNC /\ ~Scanned(in).done  BY <1>4 DEF WireInv, Settled
  <2>2. CASE ~WedgedOn(in)
    <3>1. Len(in) <= 2 * BodySize + 1  BY <1>1, <1>4, <2>1, <2>2, HeldBound DEF Types
    <3> QED  BY <3>1
  <2>3. CASE WedgedOn(in) /\ aborted  BY <1>4, <2>1, <2>3 DEF Stuck
  <2>4. CASE ~aborted
    <3>1. PICK invented \in 0 .. 1, lost \in 0 .. Len(sent), c \in Nat :
             InStepAt(invented, lost, c)
      BY <2>4 DEF WireInv, InStep, Astray, Stuck
    <3> DEFINE k == lost + Len(handled) - invented
    <3>2. OnTheWire(Stream, sent, k, c)  BY <3>1 DEF InStepAt
    <3>3. /\ Stream \in Seq(Byte) /\ Len(Stream) = Len(in) + Len(line) /\ Len(line) \in Nat
          /\ \A i \in 1 .. Len(in) : Stream[i] = in[i]
      BY <1>1, StreamFacts
    <3>4. sent \in Seq(Message) /\ in \in Seq(Byte)  BY <1>1 DEF Types
    <3> HIDE DEF k
    <3>5. Stream[1] = SYNC  BY <1>1, <1>4, <2>1, <3>3
    <3>6. c = 0
      <4>1. \A i \in 1 .. c : Stream[i] # SYNC  BY <3>2 DEF OnTheWire
      <4> QED  BY <3>5, <4>1
    <3>7. k < Len(sent)
      <4>1. k \in 0 .. Len(sent) /\ Len(sent) \in Nat
        BY <1>1, <3>2, StreamFacts DEF OnTheWire
      <4>2. k = Len(sent) => Len(Stream) = c  BY <3>2, <3>3, <3>4, WireEnd
      <4>3. Len(Stream) # c  BY <1>1, <1>4, <3>3, <3>6
      <4> QED  BY <4>1, <4>2, <4>3
    <3> DEFINE F == Frame(sent[k + 1])
    <3>8. sent[k + 1] \in Message /\ Begins(F, Stream)
      BY <3>2, <3>3, <3>4, <3>6, <3>7, WireHead
    <3>9. Len(F) <= 1 + 2 * BodySize /\ Len(F) \in Nat  BY <3>8, FrameFacts, LenProperties
    <3>10. CASE Len(F) <= Len(in)
      <4>1. Begins(F, in)
        <5> HIDE DEF F
        <5> QED  BY <1>1, <3>3, <3>8, <3>9, <3>10 DEF Begins
      <4>2. Scanned(in).done  BY <3>4, <3>8, <4>1, WholeAhead
      <4> QED  BY <2>1, <4>2
    <3>11. CASE ~(Len(F) <= Len(in))
      <4> HIDE DEF F
      <4> QED  BY <1>1, <3>9, <3>11
    <3> QED  BY <3>10, <3>11
  <2>5. aborted \in BOOLEAN  BY <1>1 DEF Types
  <2> QED  BY <2>2, <2>3, <2>4, <2>5
<1> QED  BY <1>1, <1>2, <1>3, <1>4

LEMMA NothingSent == AllOf(<< >>) = << >> /\ Off(<< >>, 0) = 0
<1>1. << >> \in Seq(Message) /\ Len(<< >>) = 0  BY EmptySeq
<1>2. Wired(<< >>)[0] = << >>  BY <1>1, WiredUnfolds
<1> QED  BY <1>1, <1>2 DEF AllOf, Off

LEMMA InitWireInv == WireInit => WireInv
<1> SUFFICES ASSUME WireInit PROVE WireInv
  OBVIOUS
<1>1. /\ line = << >> /\ in = << >> /\ busy = FALSE
      /\ sent = << >> /\ aborted = FALSE /\ handled = << >>
  BY DEF WireInit
<1>2. Types
  <2>1. /\ << >> \in Seq(Byte) /\ << >> \in Seq(Message) /\ << >> \in Seq(Received)
        /\ Len(<< >>) = 0 /\ 0 <= FIFO_SIZE /\ 0 <= MaxSent
    BY EmptySeq, WireConstants
  <2> QED  BY <1>1, <2>1, Zenon DEF Types
<1>3. Settled  BY <1>1 DEF Settled
<1>4. Len(in) = 0 /\ Len(line) = 0 /\ Len(sent) = 0 /\ Len(handled) = 0 /\ Len(Stream) = 0
  BY <1>1, <1>2, StreamFacts, EmptySeq
<1>5. AllOf(sent) = << >> /\ Off(sent, 0) = 0  BY <1>1, NothingSent
<1>6. OnTheWire(Stream, sent, 0, 0)
  BY <1>1, <1>4, <1>5 DEF OnTheWire
<1>7. InStepAt(0, 0, 0)
  <2>1. 0 + Len(handled) - 0 = 0  BY <1>4
  <2>2. Fits  BY <1>4, WireConstants DEF Fits
  <2> QED  BY <1>1, <1>4, <1>6, <2>1, <2>2 DEF InStepAt
<1>8. InStep  BY <1>4, <1>7 DEF InStep
<1> QED  BY <1>2, <1>3, <1>8 DEF WireInv

LEMMA SendKeeps ==
    ASSUME WireInv, NEW p \in Message, Send(p)
    PROVE  WireInv'
<1> DEFINE F == Frame(p)
<1>1. /\ ~busy /\ Len(sent) < MaxSent /\ Len(line) + Len(F) <= MaxLine
      /\ line' = line \o F /\ sent' = Append(sent, p)
      /\ in' = in /\ busy' = busy /\ aborted' = aborted /\ handled' = handled
  BY DEF Send
<1>2. Types /\ Settled  BY DEF WireInv
<1>3. /\ line \in Seq(Byte) /\ in \in Seq(Byte) /\ sent \in Seq(Message)
      /\ Len(in) \in Nat /\ Len(line) \in Nat /\ Len(sent) \in Nat /\ Len(handled) \in Nat
      /\ F \in Seq(Byte) /\ Len(F) \in Nat
      /\ Stream \in Seq(Byte)
  BY <1>2, StreamFacts, FrameFacts, LenProperties DEF Types
<1> HIDE DEF F
<1>4. line' \in Seq(Byte) /\ Len(line') = Len(line) + Len(F)  BY <1>1, <1>3, ConcatProperties
<1>5. sent' \in Seq(Message) /\ Len(sent') = Len(sent) + 1
      /\ \A i \in 1 .. Len(sent) : sent'[i] = sent[i]
  BY <1>1, <1>3, AppendProperties
<1>6. Types'
  <2>1. Len(sent') <= MaxSent  BY <1>1, <1>3, <1>5, WireConstants
  <2> QED  BY <1>1, <1>2, <1>4, <1>5, <2>1 DEF Types
<1>7. Settled'  BY <1>1, <1>2 DEF Settled
<1>8. CASE Stuck
  <2>1. Stuck'  BY <1>1, <1>8 DEF Stuck
  <2> QED  BY <1>6, <1>7, <2>1 DEF WireInv
<1>9. CASE ~Stuck
  <2>1. Len(in) <= 2 * BodySize + 1  BY <1>1, <1>9, LittleHeld
  <2>2. Fits'
    <3>1. Len(line') <= MaxLine  BY <1>1, <1>4
    <3>2. 1 + 2 * BodySize + MaxLine <= FIFO_SIZE  BY RoomAssumption
    <3> QED  BY <1>1, <1>3, <1>4, <2>1, <3>1, <3>2, WireConstants DEF Fits
  <2>3. Stream' = Stream \o F
    <3>1. in \in Seq(Byte) /\ line \in Seq(Byte) /\ F \in Seq(Byte)  BY <1>3
    <3>2. \A x, y, z \in Seq(Byte) : (x \o y) \o z = x \o (y \o z)
      BY ConcatAssociative
    <3>3. (in \o line) \o F = in \o (line \o F)  BY <3>1, <3>2
    <3> QED  BY <1>1, <3>3 DEF Stream
  <2>4. CASE InStep
    <3>1. PICK invented \in 0 .. 1, lost \in 0 .. Len(sent), c \in Nat :
             InStepAt(invented, lost, c)
      BY <2>4 DEF InStep
    <3> DEFINE k == lost + Len(handled) - invented
    <3>2. OnTheWire(Stream, sent, k, c)  BY <3>1 DEF InStepAt
    <3> HIDE DEF k
    <3>3. OnTheWire(Stream', sent', k, c)
      BY <1>1, <1>3, <2>3, <3>2, WireSend DEF F
    <3>4. k \in 0 .. Len(sent)  BY <3>2 DEF OnTheWire
    <3>5. lost \in 0 .. Len(sent')  BY <1>3, <1>5
    <3>6. lost > 0 => Off(sent', lost - 1) = Off(sent, lost - 1)
      <4>1. lost > 0 => lost - 1 \in 0 .. Len(sent)  BY <1>3
      <4> QED  BY <1>1, <1>3, <4>1, WiredAppend
    <3>7. \A i \in 1 .. Len(handled) - invented : handled'[invented + i] = sent'[lost + i]
      <4> TAKE i \in 1 .. Len(handled) - invented
      <4>1. lost + i \in 1 .. Len(sent)  BY <1>3, <3>4 DEF k
      <4>2. handled[invented + i] = sent[lost + i]  BY <3>1 DEF InStepAt
      <4> QED  BY <1>1, <1>5, <4>1, <4>2
    <3>8. InStepAt(invented, lost, c)'
      BY <1>1, <2>2, <3>1, <3>3, <3>6, <3>7 DEF InStepAt, k
    <3>9. InStep'  BY <3>5, <3>8 DEF InStep
    <3> QED  BY <1>6, <1>7, <3>9 DEF WireInv
  <2>5. CASE Astray
    <3>1. PICK q, k : AstrayOn(Stream, sent, q, k)  BY <2>5 DEF Astray
    <3>2. AstrayOn(Stream', sent', q, k)
      BY <1>1, <1>3, <2>3, <3>1, AstraySend DEF F
    <3>3. Astray'  BY <1>1, <2>2, <2>5, <3>2 DEF Astray
    <3> QED  BY <1>6, <1>7, <3>3 DEF WireInv
  <2> QED  BY <1>9, <2>4, <2>5 DEF WireInv
<1> QED  BY <1>8, <1>9

\* With nothing written and nothing held everything sent was handled.
LEMMA AllHandled ==
    ASSUME Types, in = << >>, line = << >>, NEW k, NEW c, OnTheWire(Stream, sent, k, c)
    PROVE  k = Len(sent) /\ c = 0
<1>1. Stream \in Seq(Byte) /\ Len(Stream) = 0 /\ sent \in Seq(Message) /\ Len(sent) \in Nat
  BY StreamFacts, EmptySeq DEF Types
<1>2. k \in 0 .. Len(sent) /\ c \in Nat  BY DEF OnTheWire
<1>3. (k = Len(sent) => Len(Stream) = c) /\ (k < Len(sent) => c + 4 <= Len(Stream))
  BY <1>1, WireEnd
<1> QED  BY <1>1, <1>2, <1>3

LEMMA SendPartKeeps ==
    ASSUME WireInv, NEW p \in Message, SendPart(p)
    PROVE  WireInv'
<1> DEFINE F == Frame(p)
<1>1. /\ line = << >> /\ ~busy /\ sent = << >> /\ in = << >> /\ aborted' = TRUE
      /\ in' = in /\ busy' = busy /\ sent' = sent /\ handled' = handled
  BY DEF SendPart
<1>2. PICK k \in 1 .. Len(F) - 1 : line' = SubSeq(F, 1, k)  BY DEF SendPart
<1>3. Types /\ Settled  BY DEF WireInv
<1>4. F \in Seq(Byte) /\ Len(F) \in Nat /\ Len(F) <= 1 + 2 * BodySize
  BY FrameFacts, LenProperties
<1>5. Len(in) = 0 /\ Len(line) = 0 /\ Len(sent) = 0 /\ Len(Stream) = 0 /\ Len(handled) \in Nat
  BY <1>1, <1>3, StreamFacts, EmptySeq
<1>6. k \in 0 .. Len(F)  BY <1>4
<1> HIDE DEF F
<1>7. /\ line' \in Seq(Byte) /\ Len(line') = k
      /\ \A i \in 1 .. k : line'[i] = F[i]
  BY <1>2, <1>4, <1>6, PrefixFacts
<1>8. Types'  BY <1>1, <1>3, <1>7 DEF Types
<1>9. Settled'  BY <1>1 DEF Settled
<1>10. Fits'
  <2>1. 1 + 2 * BodySize + MaxLine <= FIFO_SIZE  BY RoomAssumption
  <2> QED  BY <1>1, <1>4, <1>5, <1>7, <2>1, WireConstants DEF Fits
<1>11. Stream' = line'
  <2>1. Stream' = << >> \o line'  BY <1>1 DEF Stream
  <2> QED  BY <1>7, <2>1, ConcatEmptySeq
<1>12. handled = << >>
  <2>1. CASE InStep
    <3>1. PICK invented \in 0 .. 1, lost \in 0 .. Len(sent), c \in Nat :
             InStepAt(invented, lost, c)
      BY <2>1 DEF InStep
    <3>2. OnTheWire(Stream, sent, lost + Len(handled) - invented, c) /\ (invented = 0 <=> lost = 0)
      BY <3>1 DEF InStepAt
    <3>3. lost + Len(handled) - invented \in 0 .. Len(sent)  BY <3>2 DEF OnTheWire
    <3>4. Len(handled) = 0  BY <1>5, <3>2, <3>3
    <3>5. handled \in Seq(Received)  BY <1>3 DEF Types
    <3> QED  BY <3>4, <3>5, EmptySeq
  <2>2. CASE Astray  BY <2>2 DEF Astray
  <2>3. CASE Stuck  BY <1>1, <2>3 DEF Stuck
  <2> QED  BY <2>1, <2>2, <2>3 DEF WireInv
<1>13. AstrayOn(Stream', sent', p, k)
  <2>1. AllOf(sent') = << >> /\ Len(<< >>) = 0  BY <1>1, NothingSent, EmptySeq
  <2>2. k \in 1 .. Len(Frame(p)) - 1  BY DEF F
  <2>3. \A i \in 1 .. k : Stream'[i] = Frame(p)[i]  BY <1>7, <1>11 DEF F
  <2>4. Len(Stream') = k + Len(AllOf(sent'))  BY <1>6, <1>4, <1>7, <1>11, <2>1
  <2>5. \A i \in 1 .. Len(AllOf(sent')) : Stream'[k + i] = AllOf(sent')[i]  BY <2>1
  <2> QED  BY <2>2, <2>3, <2>4, <2>5 DEF AstrayOn
<1>14. Astray'  BY <1>1, <1>10, <1>12, <1>13 DEF Astray
<1> QED  BY <1>8, <1>9, <1>14 DEF WireInv

LEMMA SendNoiseKeeps ==
    ASSUME WireInv, NEW n \in Noise, SendNoise(n)
    PROVE  WireInv'
<1>1. /\ line = << >> /\ ~busy /\ in = << >> /\ line' = n
      /\ in' = in /\ busy' = busy /\ sent' = sent /\ aborted' = aborted /\ handled' = handled
  BY DEF SendNoise
<1>2. Types /\ Settled  BY DEF WireInv
<1>3. n \in Seq(Byte \ {SYNC}) /\ Len(n) <= MaxLine  BY WireAssumption, RoomAssumption
<1>4. n \in Seq(Byte) /\ Len(n) \in Nat /\ \A i \in 1 .. Len(n) : n[i] # SYNC
  BY <1>3, SeqMonotonic, LenProperties, ElementOfSeq
<1>5. Types'  BY <1>1, <1>2, <1>4 DEF Types
<1>6. Settled'  BY <1>1 DEF Settled
<1>7. Len(in) = 0 /\ Len(line) = 0 /\ Len(Stream) = 0 /\ Len(sent) \in Nat
      /\ Len(handled) \in Nat
  BY <1>1, <1>2, StreamFacts, EmptySeq
<1>8. Stream' = n
  <2>1. Stream' = << >> \o n  BY <1>1 DEF Stream
  <2> QED  BY <1>4, <2>1, ConcatEmptySeq
<1>9. Fits'
  <2>1. 1 + 2 * BodySize + MaxLine <= FIFO_SIZE  BY RoomAssumption
  <2> QED  BY <1>1, <1>3, <1>4, <1>7, <2>1, WireConstants DEF Fits
<1>10. CASE InStep
  <2>1. PICK invented \in 0 .. 1, lost \in 0 .. Len(sent), c \in Nat :
           InStepAt(invented, lost, c)
    BY <1>10 DEF InStep
  <2> DEFINE k == lost + Len(handled) - invented
  <2>2. OnTheWire(Stream, sent, k, c)  BY <2>1 DEF InStepAt
  <2>3. k = Len(sent) /\ sent \in Seq(Message)
    <3> HIDE DEF k
    <3> QED  BY <1>1, <1>2, <2>2, AllHandled DEF Types
  <2>4. OnTheWire(n, sent, k, Len(n))
    <3>1. Len(AllOf(sent)) = Off(sent, Len(sent)) /\ Len(AllOf(sent)) \in Nat
      BY <2>3, WiredFacts, LenProperties
    <3> HIDE DEF k
    <3> QED  BY <1>4, <1>7, <2>3, <3>1 DEF OnTheWire
  <2>5. InStepAt(invented, lost, Len(n))'
    BY <1>1, <1>8, <1>9, <2>1, <2>4 DEF InStepAt
  <2>6. InStep'  BY <1>1, <1>4, <2>5 DEF InStep
  <2> QED  BY <1>5, <1>6, <2>6 DEF WireInv
<1>11. CASE Astray
  <2>1. PICK q, k : AstrayOn(Stream, sent, q, k)  BY <1>11 DEF Astray
  <2>2. q \in Message /\ k \in 1 .. Len(Frame(q)) - 1 /\ Len(Stream) = k + Len(AllOf(sent))
    BY <2>1 DEF AstrayOn
  <2>3. Len(Frame(q)) \in Nat /\ Len(AllOf(sent)) \in Nat
    BY <1>2, <2>2, FrameFacts, WiredFacts, LenProperties DEF Types
  <2>4. k \in Nat /\ k >= 1  BY <2>2, <2>3
  <2> DEFINE a == Len(AllOf(sent))
  <2>5. k + a = 0 /\ a \in Nat  BY <1>7, <2>2, <2>3, Zenon
  <2> HIDE DEF a
  <2>6. FALSE  BY <2>4, <2>5
  <2> QED  BY <2>6
<1>12. CASE Stuck  BY <1>1, <1>12 DEF Stuck
<1> QED  BY <1>10, <1>11, <1>12 DEF WireInv

LEMMA WriteKeeps ==
    ASSUME WireInv, NEW n \in Chunk, Write(n)
    PROVE  WireInv'
<1> DEFINE m    == Least(n, Len(line))
           room == FIFO_SIZE - Len(in)
           j    == Least(m, room)
<1>1. /\ in' = in \o SubSeq(line, 1, j) /\ line' = SubSeq(line, m + 1, Len(line))
      /\ busy' = TRUE /\ sent' = sent /\ aborted' = aborted /\ handled' = handled
  BY DEF Write
<1>2. Types  BY DEF WireInv
<1>3. /\ line \in Seq(Byte) /\ in \in Seq(Byte)
      /\ Len(in) \in Nat /\ Len(line) \in Nat /\ Len(in) <= FIFO_SIZE /\ FIFO_SIZE \in Nat
      /\ n \in Nat
  BY <1>2, StreamFacts, WireConstants, WireAssumption DEF Types
<1>4. /\ m \in 0 .. Len(line) /\ j \in 0 .. Len(line) /\ j <= room
      /\ m <= room => j = m
  BY <1>3 DEF Least
<1> HIDE DEF m, j
<1>5. /\ SubSeq(line, 1, j) \in Seq(Byte) /\ Len(SubSeq(line, 1, j)) = j
  BY <1>3, <1>4, PrefixFacts
<1>6. line' \in Seq(Byte) /\ Len(line') = Len(line) - m  BY <1>1, <1>3, <1>4, SuffixFacts
<1>7. /\ in' \in Seq(Byte) /\ Len(in') = Len(in) + j
      /\ \A i \in 1 .. Len(in) + j :
            in'[i] = IF i <= Len(in) THEN in[i] ELSE SubSeq(line, 1, j)[i - Len(in)]
  BY <1>1, <1>3, <1>5, ConcatProperties
<1>8. Len(in') <= FIFO_SIZE  BY <1>3, <1>4, <1>7
<1>9. Types'  BY <1>1, <1>2, <1>6, <1>7, <1>8 DEF Types
<1>10. Settled'  BY <1>1 DEF Settled
<1>11. CASE Stuck
  <2>1. Begins(in, in')  BY <1>3, <1>4, <1>7 DEF Begins
  <2>2. aborted /\ in # << >> /\ in[1] = SYNC /\ WedgedOn(in)  BY <1>11 DEF Stuck
  <2>3. WedgedOn(in')  BY <1>3, <1>7, <2>1, <2>2, WedgedStays
  <2>4. Len(in) >= 1  BY <1>3, <2>2, EmptySeq
  <2>5. in'[1] = in[1] /\ in' # << >>
    BY <1>3, <1>4, <1>7, <2>1, <2>4, EmptySeq DEF Begins
  <2>6. Stuck'  BY <1>1, <2>2, <2>3, <2>5 DEF Stuck
  <2> QED  BY <1>9, <1>10, <2>6 DEF WireInv
<1>12. CASE Fits
  <2>1. j = m  BY <1>3, <1>4, <1>12 DEF Fits
  <2>2. Stream' = Stream
    <3>1. \A x, y \in Seq(Byte) : \A i \in 0 .. Len(y) :
             (x \o SubSeq(y, 1, i)) \o SubSeq(y, i + 1, Len(y)) = x \o y
      BY MoveConcat
    <3> QED  BY <1>1, <1>3, <1>4, <2>1, <3>1 DEF Stream
  <2>3. Fits'  BY <1>3, <1>4, <1>6, <1>7, <1>12, <2>1 DEF Fits
  <2>4. CASE InStep
    <3>1. PICK invented \in 0 .. 1, lost \in 0 .. Len(sent), c \in Nat :
             InStepAt(invented, lost, c)
      BY <2>4 DEF InStep
    <3>2. InStepAt(invented, lost, c)'  BY <1>1, <2>2, <2>3, <3>1 DEF InStepAt
    <3>3. InStep'  BY <1>1, <3>2 DEF InStep
    <3> QED  BY <1>9, <1>10, <3>3 DEF WireInv
  <2>5. CASE Astray
    <3>1. Astray'  BY <1>1, <2>2, <2>3, <2>5 DEF Astray
    <3> QED  BY <1>9, <1>10, <3>1 DEF WireInv
  <2>6. CASE Stuck  BY <1>11, <2>6
  <2> QED  BY <2>4, <2>5, <2>6 DEF WireInv
<1>13. Stuck \/ Fits  BY DEF WireInv, InStep, InStepAt, Astray
<1> QED  BY <1>11, <1>12, <1>13

\* What a whole packet is made of.
LEMMA PacketTyped ==
    ASSUME NEW x \in Seq(Byte), x # << >>, Scanned(x).done
    PROVE  PacketOf(Scanned(x)) \in Received
<1> DEFINE a == Scanned(x)
<1>1. a \in ScanState /\ ScanSound(a, Len(x) - 1) /\ a.size \in Nat  BY ScannedSound
<1>2. a.body \in Seq(Byte) /\ Len(a.body) = a.size + 2 /\ a.done
  BY <1>1 DEF ScanState, ScanSound
<1> HIDE DEF a
<1>3. \A i \in 3 .. a.size + 1 : a.body[i] \in Byte
  <2>1. \A i \in 3 .. a.size + 1 : i \in 1 .. Len(a.body)  BY <1>1, <1>2
  <2> QED  BY <1>2, <2>1, ElementOfSeq
<1>4. 3 \in Int /\ a.size + 1 \in Int  BY <1>1
<1>5. SubSeq(a.body, 3, a.size + 1) \in Seq(Byte)  BY <1>3, <1>4, SubSeqProperties
<1>6. a.body[1] \in Byte
  <2>1. 1 \in 1 .. Len(a.body)  BY <1>1, <1>2
  <2> QED  BY <1>2, <2>1, ElementOfSeq
<1>7. (Sums(a.body)[a.size + 1] = a.body[a.size + 2]) \in BOOLEAN  OBVIOUS
<1>8. PacketOf(a) \in Received  BY <1>5, <1>6, <1>7, Zenon DEF PacketOf, Received
<1> QED  BY <1>8 DEF a

\* The two things a turn of the loop can do.
TakesOut(s) ==
    /\ Len(s) >= 3 /\ Scanned(s).done
    /\ handled' = Append(handled, PacketOf(Scanned(s)))
    /\ in' = SubSeq(s, Scanned(s).used + 1, Len(s))
    /\ busy' = busy

HoldsBack(s) ==
    /\ ~(Len(s) >= 3 /\ Scanned(s).done)
    /\ in' = s /\ busy' = FALSE /\ handled' = handled

LEMMA ConsumeCases ==
    ASSUME Consume
    PROVE  /\ busy /\ line' = line /\ sent' = sent /\ aborted' = aborted
           /\ TakesOut(FromSync(in)) \/ HoldsBack(FromSync(in))
<1> QED  BY DEF Consume, TakesOut, HoldsBack

LEMMA FromSyncTyped ==
    ASSUME Types
    PROVE  /\ FromSync(in) \in Seq(Byte) /\ Len(FromSync(in)) \in Nat
           /\ Len(FromSync(in)) <= Len(in)
           /\ FromSync(in) # << >> => FromSync(in)[1] = SYNC
<1>1. in \in Seq(Byte) /\ Len(in) \in Nat  BY StreamFacts DEF Types
<1>2. CASE FromSync(in) = << >>
  <2>1. << >> \in Seq(Byte) /\ Len(<< >>) = 0  BY EmptySeq
  <2> QED  BY <1>1, <1>2, <2>1
<1>3. CASE FromSync(in) # << >>
  <2>1. PICK d \in 0 .. Len(in) - 1 :
           /\ in[d + 1] = SYNC /\ \A i \in 1 .. d : in[i] # SYNC
           /\ FromSync(in) = SubSeq(in, d + 1, Len(in))
    BY <1>1, <1>3, FromSyncFacts
  <2>2. d \in 0 .. Len(in) /\ 1 \in 1 .. Len(in) - d  BY <1>1
  <2>3. /\ SubSeq(in, d + 1, Len(in)) \in Seq(Byte)
        /\ Len(SubSeq(in, d + 1, Len(in))) = Len(in) - d
        /\ \A i \in 1 .. Len(in) - d : SubSeq(in, d + 1, Len(in))[i] = in[d + i]
    BY <1>1, <2>2, SuffixFacts
  <2>4. FromSync(in)[1] = SYNC  BY <2>1, <2>2, <2>3
  <2> QED  BY <1>1, <2>1, <2>2, <2>3, <2>4
<1> QED  BY <1>2, <1>3

LEMMA ConsumeTyped ==
    ASSUME WireInv, Consume
    PROVE  Types' /\ Settled' /\ (Fits => Fits')
<1> DEFINE s == FromSync(in)
<1>1. Types /\ busy /\ line' = line /\ sent' = sent /\ aborted' = aborted
      /\ (TakesOut(s) \/ HoldsBack(s))
  BY ConsumeCases DEF WireInv
<1>2. /\ s \in Seq(Byte) /\ Len(s) \in Nat /\ Len(s) <= Len(in) /\ Len(in) \in Nat
      /\ Len(line) \in Nat /\ (s # << >> => s[1] = SYNC)
  BY <1>1, FromSyncTyped, StreamFacts
<1>3. Len(in) <= FIFO_SIZE /\ FIFO_SIZE \in Nat  BY <1>1, WireConstants DEF Types
<1> HIDE DEF s
<1>4. CASE TakesOut(s)
  <2> DEFINE u == Scanned(s).used
  <2>1. s # << >> /\ Scanned(s).done  BY <1>2, <1>4, EmptySeq DEF TakesOut
  <2>2. u \in 1 .. Len(s) /\ u \in 0 .. Len(s)  BY <1>2, <2>1, UsedBound
  <2>3. in' \in Seq(Byte) /\ Len(in') = Len(s) - u
    BY <1>2, <1>4, <2>2, SuffixFacts DEF TakesOut
  <2> HIDE DEF u
  <2>4. Len(in') <= Len(in)  BY <1>2, <2>2, <2>3
  <2>5. PacketOf(Scanned(s)) \in Received  BY <1>2, <2>1, PacketTyped
  <2>6. handled \in Seq(Received)  BY <1>1 DEF Types
  <2>7. handled' \in Seq(Received)  BY <1>4, <2>5, <2>6, AppendProperties DEF TakesOut
  <2>8. busy'  BY <1>1, <1>4 DEF TakesOut
  <2>9. Len(in') <= FIFO_SIZE  BY <1>2, <1>3, <2>2, <2>3
  <2>10. Types'  BY <1>1, <1>4, <2>3, <2>7, <2>9 DEF Types, TakesOut
  <2>11. Fits => Fits'  BY <1>1, <1>2, <1>3, <2>2, <2>3 DEF Fits
  <2> QED  BY <2>8, <2>10, <2>11 DEF Settled
<1>5. CASE HoldsBack(s)
  <2>1. in' = s /\ busy' = FALSE /\ handled' = handled /\ ~(Len(s) >= 3 /\ Scanned(s).done)
    BY <1>5 DEF HoldsBack
  <2>2. Len(in') <= FIFO_SIZE  BY <1>2, <1>3, <2>1
  <2>3. Types'  BY <1>1, <1>2, <2>1, <2>2 DEF Types
  <2>4. Fits => Fits'  BY <1>1, <1>2, <1>3, <2>1 DEF Fits
  <2>5. Settled'  BY <1>2, <2>1 DEF Settled
  <2> QED  BY <2>3, <2>4, <2>5
<1> QED  BY <1>1, <1>4, <1>5

LEMMA StreamDrop ==
    ASSUME Types, NEW d \in 0 .. Len(in)
    PROVE  /\ SubSeq(in, d + 1, Len(in)) \o line = SubSeq(Stream, d + 1, Len(Stream))
           /\ SubSeq(in, d + 1, Len(in)) \in Seq(Byte)
           /\ Len(SubSeq(in, d + 1, Len(in))) = Len(in) - d
           /\ \A i \in 1 .. Len(in) - d : SubSeq(in, d + 1, Len(in))[i] = in[d + i]
<1>1. in \in Seq(Byte) /\ line \in Seq(Byte)  BY DEF Types
<1>2. \A x, y \in Seq(Byte) : \A i \in 0 .. Len(x) :
         SubSeq(x, i + 1, Len(x)) \o y = SubSeq(x \o y, i + 1, Len(x \o y))
  BY DropConcat
<1>3. SubSeq(in, d + 1, Len(in)) \o line = SubSeq(Stream, d + 1, Len(Stream))
  BY <1>1, <1>2 DEF Stream
<1> QED  BY <1>1, <1>3, SuffixFacts

\* With the stream cut at its first SYNC, if there is one among what was written.
LEMMA SyncFound ==
    ASSUME Types
    PROVE  \/ /\ FromSync(in) = << >> /\ \A i \in 1 .. Len(in) : in[i] # SYNC
           \/ \E d \in 0 .. Len(in) - 1 :
                 /\ in[d + 1] = SYNC /\ \A i \in 1 .. d : in[i] # SYNC
                 /\ FromSync(in) = SubSeq(in, d + 1, Len(in))
<1> QED  BY FromSyncFacts DEF Types

LEMMA ConsumeStuck ==
    ASSUME WireInv, Consume, Stuck
    PROVE  Stuck'
<1>1. Types /\ in \in Seq(Byte) /\ aborted /\ in # << >> /\ in[1] = SYNC /\ WedgedOn(in)
  BY DEF WireInv, Types, Stuck
<1>2. FromSync(in) = in  BY <1>1, SyncFirst
<1>3. Begins(in, in)
  <2>1. Len(in) \in Nat  BY <1>1, LenProperties
  <2> QED  BY <2>1 DEF Begins
<1>4. ~Scanned(in).done  BY <1>1, <1>3, WedgedStays
<1>5. HoldsBack(in) /\ aborted' = aborted  BY <1>2, <1>4, ConsumeCases DEF TakesOut
<1> QED  BY <1>1, <1>5 DEF HoldsBack, Stuck

LEMMA ConsumeAstray ==
    ASSUME WireInv, Consume, Astray
    PROVE  Astray' \/ InStep'
<1>1. /\ Types /\ busy /\ line' = line /\ sent' = sent /\ aborted' = aborted
      /\ TakesOut(FromSync(in)) \/ HoldsBack(FromSync(in))
  BY ConsumeCases DEF WireInv
<1>2. aborted /\ handled = << >> /\ Fits /\ Fits'  BY ConsumeTyped DEF Astray
<1>3. PICK p, k : AstrayOn(Stream, sent, p, k)  BY DEF Astray
<1>4. /\ Stream \in Seq(Byte) /\ Len(Stream) = Len(in) + Len(line)
      /\ Len(in) \in Nat /\ Len(line) \in Nat /\ Len(sent) \in Nat
      /\ \A i \in 1 .. Len(in) : Stream[i] = in[i]
      /\ in \in Seq(Byte) /\ sent \in Seq(Message)
  BY <1>1, StreamFacts DEF Types
<1>5. /\ p \in Message /\ k \in 1 .. Len(Frame(p)) - 1 /\ \A i \in 1 .. k : Stream[i] = Frame(p)[i]
  BY <1>3 DEF AstrayOn
<1>6. Frame(p)[1] = SYNC /\ Len(Frame(p)) \in Nat /\ k \in Nat /\ k >= 1
  BY <1>5, FrameFacts, LenProperties
<1>7. CASE in = << >>
  <2>1. Len(in) = 0  BY <1>7, EmptySeq
  <2>2. FromSync(in) = << >>  BY <1>1, <1>4, <2>1, SyncFound
  <2>3. HoldsBack(<< >>)  BY <1>1, <2>2, EmptySeq DEF TakesOut
  <2>4. in' = in /\ handled' = handled  BY <1>7, <2>3 DEF HoldsBack
  <2>5. Stream' = Stream  BY <1>1, <2>4 DEF Stream
  <2>6. Astray'  BY <1>1, <1>2, <1>3, <2>4, <2>5 DEF Astray
  <2> QED  BY <2>6
<1>8. CASE in # << >>
  <2>1. Len(in) >= 1  BY <1>4, <1>8, EmptySeq
  <2>2. in[1] = SYNC
    <3>1. 1 \in 1 .. Len(in) /\ 1 \in 1 .. k  BY <1>4, <1>6, <2>1
    <3> QED  BY <1>4, <1>5, <1>6, <3>1
  <2>3. FromSync(in) = in  BY <1>4, <1>8, <2>2, SyncFirst
  <2>4. CASE HoldsBack(in)
    <3>1. in' = in /\ handled' = handled  BY <2>4 DEF HoldsBack
    <3>2. Stream' = Stream  BY <1>1, <3>1 DEF Stream
    <3>3. Astray'  BY <1>1, <1>2, <1>3, <3>1, <3>2 DEF Astray
    <3> QED  BY <3>3
  <2>5. CASE TakesOut(in)
    <3> DEFINE u == Scanned(in).used
    <3>1. Scanned(in).done /\ handled' = Append(handled, PacketOf(Scanned(in)))
          /\ in' = SubSeq(in, u + 1, Len(in))
      BY <2>5 DEF TakesOut
    <3>2. u \in 1 .. Len(in) /\ u <= 2 * BodySize + 1  BY <1>4, <1>8, <3>1, UsedBound
    <3>3. u > k
      <4>1. \A i \in 1 .. Len(in) : i <= k => in[i] = Frame(p)[i]
        <5> TAKE i \in 1 .. Len(in)
        <5>1. i <= k => i \in 1 .. k  BY <1>4
        <5> QED  BY <1>4, <1>5, <5>1
      <4> QED  BY <1>4, <1>5, <1>8, <3>1, <4>1, AstrayUses
    <3> HIDE DEF u
    <3>4. u \in k + 1 .. Len(Stream) /\ u \in 0 .. Len(in)
      BY <1>4, <1>6, <3>2, <3>3
    <3>5. PICK l \in 1 .. Len(sent), c \in Nat :
             OnTheWire(SubSeq(Stream, u + 1, Len(Stream)), sent, l, c)
             /\ Off(sent, l - 1) < u - k
      BY <1>3, <1>4, <3>4, AstrayRecovers
    <3>6. Stream' = SubSeq(Stream, u + 1, Len(Stream))
      BY <1>1, <3>1, <3>4, StreamDrop DEF Stream
    <3>7. Off(sent, l - 1) < 2 * BodySize
      <4>1. l - 1 \in 0 .. Len(sent)  BY <1>4
      <4>2. Off(sent, l - 1) \in Nat  BY <1>4, <4>1, WiredFacts
      <4> QED  BY <1>4, <1>6, <3>2, <3>3, <3>5, <4>2, WireConstants
    <3>8. Len(handled') = 1
      <4>1. PacketOf(Scanned(in)) \in Received  BY <1>4, <1>8, <3>1, PacketTyped
      <4>2. handled \in Seq(Received) /\ Len(handled) = 0  BY <1>1, <1>2, EmptySeq DEF Types
      <4>3. Len(handled') = Len(handled) + 1  BY <3>1, <4>1, <4>2, AppendProperties
      <4> QED  BY <4>2, <4>3
    <3>9. InStepAt(1, l, c)'
      <4>1. l + Len(handled') - 1 = l  BY <1>4, <3>8
      <4>2. OnTheWire(Stream', sent', l + Len(handled') - 1, c)
        BY <1>1, <3>5, <3>6, <4>1
      <4>3. \A i \in 1 .. Len(handled') - 1 : handled'[1 + i] = sent'[l + i]  BY <3>8
      <4>4. aborted' /\ 1 <= Len(handled') /\ l > 0 /\ Off(sent', l - 1) < 2 * BodySize
        BY <1>1, <1>2, <3>7, <3>8
      <4> QED  BY <1>2, <4>2, <4>3, <4>4 DEF InStepAt
    <3>10. l \in 0 .. Len(sent') /\ 1 \in 0 .. 1  BY <1>1, <1>4
    <3>11. InStep'  BY <3>9, <3>10 DEF InStep
    <3> QED  BY <3>11
  <2> QED  BY <1>1, <2>3, <2>4, <2>5
<1> QED  BY <1>7, <1>8

LEMMA ConsumeInStep ==
    ASSUME WireInv, Consume, InStep
    PROVE  InStep'
<1>1. /\ Types /\ busy /\ line' = line /\ sent' = sent /\ aborted' = aborted
      /\ TakesOut(FromSync(in)) \/ HoldsBack(FromSync(in))
  BY ConsumeCases DEF WireInv
<1>2. PICK invented \in 0 .. 1, lost \in 0 .. Len(sent), c \in Nat :
         InStepAt(invented, lost, c)
  BY DEF InStep
<1> DEFINE k == lost + Len(handled) - invented
<1>3. OnTheWire(Stream, sent, k, c) /\ Fits /\ Fits'
  BY <1>2, ConsumeTyped DEF InStepAt
<1>4. /\ Stream \in Seq(Byte) /\ Len(Stream) = Len(in) + Len(line)
      /\ Len(in) \in Nat /\ Len(line) \in Nat /\ Len(sent) \in Nat /\ Len(handled) \in Nat
      /\ \A i \in 1 .. Len(in) : Stream[i] = in[i]
      /\ in \in Seq(Byte) /\ sent \in Seq(Message) /\ handled \in Seq(Received)
  BY <1>1, StreamFacts DEF Types
<1>5. /\ invented <= Len(handled) /\ (invented = 0 <=> lost = 0)
      /\ (~aborted => invented = 0)
      /\ (lost > 0 => Off(sent, lost - 1) < 2 * BodySize)
      /\ \A i \in 1 .. Len(handled) - invented : handled[invented + i] = sent[lost + i]
  BY <1>2 DEF InStepAt
<1>6. k \in Nat /\ k = lost + Len(handled) - invented  BY <1>4, <1>5
\* Whatever is dropped without a packet taken, what was handled stays in step.
<1>7. invented \in 0 .. 1 /\ lost \in Nat  BY <1>2, <1>4
<1>8. ASSUME handled' = handled, NEW x, NEW e \in Nat, Stream' = x, OnTheWire(x, sent, k, e)
      PROVE  InStep'
  <2>1. InStepAt(invented, lost, e)'  BY <1>1, <1>3, <1>5, <1>8 DEF InStepAt
  <2> QED  BY <1>1, <2>1 DEF InStep
<1> HIDE DEF k
<1>9. /\ k \in 0 .. Len(sent)
      /\ \A i \in 1 .. c : Stream[i] # SYNC
      /\ k = Len(sent) => Len(Stream) = c
      /\ k < Len(sent) => Stream[c + 1] = SYNC
  <2>1. k \in 0 .. Len(sent) /\ \A i \in 1 .. c : Stream[i] # SYNC
    BY <1>3 DEF OnTheWire
  <2>2. (k = Len(sent) => Len(Stream) = c) /\ (k < Len(sent) => Stream[c + 1] = SYNC)
    BY <1>3, <1>4, WireEnd
  <2> QED  BY <2>1, <2>2
<1>10. CASE FromSync(in) = << >> /\ \A i \in 1 .. Len(in) : in[i] # SYNC
  <2>1. HoldsBack(<< >>)  BY <1>1, <1>10, EmptySeq DEF TakesOut
  <2>2. in' = << >> /\ handled' = handled  BY <2>1 DEF HoldsBack
  <2>3. Len(in) \in 0 .. c
    <3>1. CASE k = Len(sent)  BY <1>4, <1>9, <3>1
    <3>2. CASE k < Len(sent)
      <4>1. ASSUME c < Len(in) PROVE FALSE
        <5>1. c + 1 \in 1 .. Len(in)  BY <1>4, <4>1
        <5> QED  BY <1>4, <1>9, <1>10, <3>2, <5>1
      <4> QED  BY <1>4, <4>1
    <3> QED  BY <1>4, <1>9, <3>1, <3>2
  <2>4. OnTheWire(SubSeq(Stream, Len(in) + 1, Len(Stream)), sent, k, c - Len(in))
    BY <1>3, <1>4, <2>3, WireDrop
  <2>5. Stream' = SubSeq(Stream, Len(in) + 1, Len(Stream))
    <3>1. Stream' = << >> \o line  BY <1>1, <2>2 DEF Stream
    <3>2. line \in Seq(Byte)  BY <1>1 DEF Types
    <3>3. Stream' = line  BY <3>1, <3>2, ConcatEmptySeq
    <3>4. \A x, y \in Seq(Byte) : SubSeq(x \o y, Len(x) + 1, Len(x \o y)) = y  BY Halves
    <3> QED  BY <1>4, <3>2, <3>3, <3>4 DEF Stream
  <2>6. c - Len(in) \in Nat  BY <1>4, <2>3
  <2> QED  BY <1>8, <2>2, <2>4, <2>5, <2>6
<1>11. ASSUME NEW d \in 0 .. Len(in) - 1,
              in[d + 1] = SYNC, \A i \in 1 .. d : in[i] # SYNC,
              FromSync(in) = SubSeq(in, d + 1, Len(in))
       PROVE  InStep'
  <2> DEFINE s == SubSeq(in, d + 1, Len(in))
             y == SubSeq(Stream, d + 1, Len(Stream))
  <2>1. d \in 0 .. Len(in) /\ d \in 0 .. Len(Stream) /\ d \in Nat  BY <1>4
  <2>2. /\ s \o line = y /\ s \in Seq(Byte) /\ Len(s) = Len(in) - d
        /\ \A i \in 1 .. Len(in) - d : s[i] = in[d + i]
    BY <1>1, <2>1, StreamDrop
  <2>3. /\ y \in Seq(Byte) /\ Len(y) = Len(Stream) - d
        /\ \A i \in 1 .. Len(Stream) - d : y[i] = Stream[d + i]
    BY <1>4, <2>1, SuffixFacts
  <2>4. FromSync(in) = s  BY <1>11
  <2> HIDE DEF s, y
  <2>5. Len(s) \in Nat /\ Len(s) >= 1 /\ s # << >>
    <3>1. Len(s) \in Nat  BY <2>2, LenProperties
    <3>2. Len(s) >= 1  BY <1>4, <2>1, <2>2
    <3>3. s # << >>  BY <2>2, <3>2, EmptySeq
    <3> QED  BY <3>1, <3>2, <3>3
  <2>6. d >= c
    <3>1. ASSUME d < c PROVE FALSE
      <4>1. d + 1 \in 1 .. c /\ d + 1 \in 1 .. Len(in)  BY <1>4, <2>1, <3>1
      <4> QED  BY <1>4, <1>9, <1>11, <4>1
    <3> QED  BY <2>1, <3>1
  <2>7. k < Len(sent)
    <3>1. Len(Stream) # c  BY <1>4, <2>1, <2>6
    <3> QED  BY <1>4, <1>9, <3>1
  <2>8. d = c
    <3>1. ASSUME c < d PROVE FALSE
      <4>1. c + 1 \in 1 .. d /\ c + 1 \in 1 .. Len(in)  BY <1>4, <2>1, <3>1
      <4> QED  BY <1>4, <1>9, <1>11, <2>7, <4>1
    <3> QED  BY <2>1, <2>6, <3>1
  <2>9. OnTheWire(y, sent, k, 0)
    <3>1. c \in 0 .. c /\ c - c = 0  OBVIOUS
    <3>2. OnTheWire(SubSeq(Stream, c + 1, Len(Stream)), sent, k, c - c)
      BY <1>3, <1>4, <3>1, WireDrop
    <3> QED  BY <2>8, <3>1, <3>2 DEF y
  <2> DEFINE F == Frame(sent[k + 1])
             z == SubSeq(y, Len(F) + 1, Len(y))
  <2>10. /\ sent[k + 1] \in Message /\ Begins(F, y)
         /\ OnTheWire(z, sent, k + 1, 0)
    BY <1>4, <2>3, <2>7, <2>9, WireHead
  <2>11. F \in Seq(Byte) /\ Len(F) \in Nat /\ Len(F) >= 4
    BY <2>10, FrameFacts, LenProperties
  <2>12. \A i \in 1 .. Len(s) : s[i] = y[i]
    <3> TAKE i \in 1 .. Len(s)
    <3>1. i \in 1 .. Len(in) - d /\ i \in 1 .. Len(Stream) - d /\ d + i \in 1 .. Len(in)
      BY <1>4, <2>1, <2>2
    <3> QED  BY <1>4, <2>2, <2>3, <3>1
  <2>13. CASE Len(F) <= Len(s)
    <3>1. Begins(F, s)
      <4> HIDE DEF F
      <4> QED  BY <2>5, <2>10, <2>11, <2>12, <2>13 DEF Begins
    <3>2. /\ Len(s) >= 3 /\ Scanned(s).done /\ Scanned(s).used = Len(F)
          /\ PacketOf(Scanned(s)) = sent[k + 1]
      BY <2>2, <2>10, <3>1, WholeAhead
    <3>3. /\ handled' = Append(handled, sent[k + 1])
          /\ in' = SubSeq(s, Len(F) + 1, Len(s))
      BY <1>1, <2>4, <3>2 DEF TakesOut, HoldsBack
    <3>4. Stream' = z
      <4>1. \A a, b \in Seq(Byte) : \A i \in 0 .. Len(a) :
               SubSeq(a, i + 1, Len(a)) \o b = SubSeq(a \o b, i + 1, Len(a \o b))
        BY DropConcat
      <4>2. line \in Seq(Byte)  BY <1>1 DEF Types
      <4>3. Len(F) \in 0 .. Len(s)
        <5> HIDE DEF F
        <5> QED  BY <2>5, <2>11, <2>13
      <4> HIDE DEF F
      <4>4. SubSeq(s, Len(F) + 1, Len(s)) \o line = SubSeq(y, Len(F) + 1, Len(y))
        BY <2>2, <4>1, <4>2, <4>3
      <4> QED  BY <1>1, <3>3, <4>4 DEF Stream
    <3>5. sent[k + 1] \in Received
      BY <2>2, <2>5, <3>2, PacketTyped
    <3>6. /\ Len(handled') = Len(handled) + 1
          /\ \A i \in 1 .. Len(handled) : handled'[i] = handled[i]
          /\ handled'[Len(handled) + 1] = sent[k + 1]
      BY <1>4, <3>3, <3>5, AppendProperties
    <3>7. ASSUME NEW i \in 1 .. Len(handled') - invented
          PROVE  handled'[invented + i] = sent'[lost + i]
      <4>1. CASE i <= Len(handled) - invented
        <5>1. i \in 1 .. Len(handled) - invented /\ invented + i \in 1 .. Len(handled)
          BY <1>4, <1>5, <3>6, <4>1
        <5> QED  BY <1>1, <1>5, <3>6, <5>1
      <4>2. CASE ~(i <= Len(handled) - invented)
        <5> DEFINE h == Len(handled)
        <5>1. h \in Nat /\ invented \in 0 .. 1 /\ invented <= h /\ i \in 1 .. (h + 1) - invented
              /\ ~(i <= h - invented) /\ lost \in Nat /\ k = lost + h - invented
          BY <1>4, <1>5, <1>6, <1>7, <3>6, <4>2
        <5> HIDE DEF h
        <5>2. invented + i = h + 1 /\ lost + i = k + 1  BY <5>1
        <5>3. invented + i = Len(handled) + 1 /\ lost + i = k + 1  BY <5>2 DEF h
        <5> QED  BY <1>1, <3>6, <5>3
      <4> QED  BY <4>1, <4>2
    <3>8. lost + Len(handled') - invented = k + 1 /\ invented <= Len(handled')
      <4> DEFINE h == Len(handled)
                 g == Len(handled')
      <4>1. h \in Nat /\ g = h + 1 /\ invented \in 0 .. 1 /\ invented <= h
            /\ lost \in Nat /\ k = lost + h - invented
        BY <1>4, <1>5, <1>6, <1>7, <3>6
      <4> HIDE DEF h, g
      <4>2. lost + g - invented = k + 1 /\ invented <= g  BY <4>1
      <4> QED  BY <4>2 DEF g
    <3>9. OnTheWire(Stream', sent', lost + Len(handled') - invented, 0)
      BY <1>1, <2>10, <3>4, <3>8
    <3>10. InStepAt(invented, lost, 0)'
      BY <1>1, <1>3, <1>5, <3>7, <3>8, <3>9 DEF InStepAt
    <3>11. lost \in 0 .. Len(sent')  BY <1>1
    <3> QED  BY <3>10, <3>11 DEF InStep
  <2>14. CASE ~(Len(F) <= Len(s))
    <3>1. Len(s) < Len(F) /\ \A i \in 1 .. Len(s) : s[i] = F[i]
      <4> HIDE DEF F
      <4>1. Len(s) < Len(F)  BY <2>5, <2>11, <2>14
      <4>2. \A i \in 1 .. Len(s) : i \in 1 .. Len(F)  BY <2>5, <2>11, <4>1
      <4> QED  BY <2>10, <2>12, <4>1, <4>2 DEF Begins
    <3>2. ~Scanned(s).done  BY <2>2, <2>5, <2>10, <3>1, PartAhead
    <3>3. HoldsBack(s)  BY <1>1, <2>4, <3>2 DEF TakesOut
    <3>4. in' = s /\ handled' = handled  BY <3>3 DEF HoldsBack
    <3>5. Stream' = y  BY <1>1, <2>2, <3>4 DEF Stream
    <3> QED  BY <1>8, <2>9, <3>4, <3>5
  <2> QED  BY <2>13, <2>14
<1> QED  BY <1>1, <1>10, <1>11, SyncFound

LEMMA ConsumeKeeps ==
    ASSUME WireInv, Consume
    PROVE  WireInv'
<1>1. Types' /\ Settled'  BY ConsumeTyped
<1>2. InStep' \/ Astray' \/ Stuck'
  BY ConsumeStuck, ConsumeAstray, ConsumeInStep DEF WireInv
<1> QED  BY <1>1, <1>2 DEF WireInv

LEMMA NextWireInv == WireInv /\ [WireNext]_wireVars => WireInv'
<1> SUFFICES ASSUME WireInv, [WireNext]_wireVars PROVE WireInv'
  OBVIOUS
<1>1. ASSUME NEW p \in Message, Send(p) PROVE WireInv'  BY <1>1, SendKeeps
<1>2. ASSUME NEW p \in Message, SendPart(p) PROVE WireInv'  BY <1>2, SendPartKeeps
<1>3. ASSUME NEW n \in Noise, SendNoise(n) PROVE WireInv'  BY <1>3, SendNoiseKeeps
<1>4. ASSUME NEW n \in Chunk, Write(n) PROVE WireInv'  BY <1>4, WriteKeeps
<1>5. CASE Consume  BY <1>5, ConsumeKeeps
<1>6. CASE UNCHANGED wireVars
  BY <1>6 DEF wireVars, WireInv, Types, Settled, InStep, InStepAt, Astray, Stuck, Fits, Stream
<1>7. CASE Done  BY <1>6, <1>7 DEF Done
<1> QED  BY <1>1, <1>2, <1>3, <1>4, <1>5, <1>6, <1>7 DEF WireNext

LEMMA WireInvHolds == WireSpec => []WireInv
<1> QED  BY InitWireInv, NextWireInv, PTL DEF WireSpec

-----------------------------------------------------------------------------
(***************************************************************************)
(* For every modulus, packet set and room: the bytes the game puts on the  *)
(* line stay bytes, and no write runs over the end of the buffer they are  *)
(* collected in (jvs.c es3_jvs_write, consume_input).                      *)
(***************************************************************************)
THEOREM WireTypes == WireSpec => []WireTyped
<1>1. WireInv => WireTyped
  <2> SUFFICES ASSUME WireInv PROVE WireTyped
    OBVIOUS
  <2>1. Types  BY DEF WireInv
  <2>2. \A i \in DOMAIN handled : handled[i].dest \in Byte
    <3>1. handled \in Seq(Received)  BY <2>1 DEF Types
    <3>2. \A i \in DOMAIN handled : handled[i] \in Received  BY <3>1, LenProperties, ElementOfSeq
    <3> QED  BY <3>2 DEF Received
  <2>3. {busy, aborted} \subseteq BOOLEAN  BY <2>1 DEF Types
  <2> QED  BY <2>1, <2>2, <2>3 DEF Types, WireTyped
<1> QED  BY <1>1, WireInvHolds, PTL

\* A sequence that another one goes on from.
LEMMA AgreeingPrefix ==
    ASSUME NEW S, NEW a \in Seq(S), NEW b \in Seq(S), Len(a) <= Len(b),
           \A i \in 1 .. Len(a) : a[i] = b[i]
    PROVE  IsPrefix(a, b) /\ (Len(a) = Len(b) => a = b)
<1>1. Len(a) \in Nat /\ Len(b) \in Nat  BY LenProperties
<1>2. Len(a) \in 0 .. Len(b)  BY <1>1
<1>3. /\ SubSeq(b, 1, Len(a)) \in Seq(S) /\ Len(SubSeq(b, 1, Len(a))) = Len(a)
      /\ \A i \in 1 .. Len(a) : SubSeq(b, 1, Len(a))[i] = b[i]
  BY <1>2, PrefixFacts
<1>4. SubSeq(b, 1, Len(a)) = a  BY <1>3, SeqEqual
<1>5. SubSeq(a, 1, Len(a)) = a  BY SubSeqFull
<1>6. Len(a) = Len(b) => a = b  BY SeqEqual
<1> QED  BY <1>4, <1>5, <1>6 DEF IsPrefix

\* What was handled and what was sent, as sequences of the same kind of thing.
LEMMA HandledSent ==
    ASSUME Types
    PROVE  handled \in Seq(Received) /\ sent \in Seq(Received)
<1>1. Message \subseteq Received  BY WireAssumption DEF Received
<1> QED  BY <1>1, SeqMonotonic DEF Types

LEMMA HandledThenSent ==
    ASSUME WireInv, ~aborted
    PROVE  /\ Len(handled) <= Len(sent)
           /\ \A i \in 1 .. Len(handled) : handled[i] = sent[i]
           /\ \E c \in Nat : OnTheWire(Stream, sent, Len(handled), c)
<1>1. Types  BY DEF WireInv
<1>2. Len(handled) \in Nat /\ Len(sent) \in Nat  BY <1>1, StreamFacts
<1>3. PICK invented \in 0 .. 1, lost \in 0 .. Len(sent), c \in Nat :
         InStepAt(invented, lost, c)
  BY DEF WireInv, InStep, Astray, Stuck
<1>4. invented = 0 /\ lost = 0  BY <1>3 DEF InStepAt
<1>5. OnTheWire(Stream, sent, 0 + Len(handled) - 0, c)
      /\ \A i \in 1 .. Len(handled) - 0 : handled[0 + i] = sent[0 + i]
  BY <1>3, <1>4 DEF InStepAt
<1>6. 0 + Len(handled) - 0 = Len(handled) /\ Len(handled) - 0 = Len(handled)  BY <1>2
<1>7. Len(handled) \in 0 .. Len(sent)  BY <1>5, <1>6 DEF OnTheWire
<1>8. \A i \in 1 .. Len(handled) : handled[i] = sent[i]  BY <1>2, <1>5, <1>6
<1> QED  BY <1>2, <1>5, <1>6, <1>7, <1>8

(***************************************************************************)
(* No packet is invented, lost, repeated or overtaken, and a wrong sum is  *)
(* noticed, for any packets and any cut of the stream into writes: the     *)
(* parser of consume_input() undoes reply()'s framing.                     *)
(***************************************************************************)
THEOREM InOrder == WireSpec => []HandledInOrder
<1>1. WireInv => HandledInOrder
  <2> SUFFICES ASSUME WireInv, ~aborted PROVE IsPrefix(handled, sent)
    BY DEF HandledInOrder
  <2>1. handled \in Seq(Received) /\ sent \in Seq(Received)  BY HandledSent DEF WireInv
  <2> QED  BY <2>1, HandledThenSent, AgreeingPrefix
<1> QED  BY <1>1, WireInvHolds, PTL

\* consume_input() returns when no whole packet is left.
LEMMA AllTaken ==
    ASSUME WireInv, ~aborted, line = << >>, ~busy
    PROVE  in = << >>
<1>1. Types /\ Settled  BY DEF WireInv
<1>2. PICK c \in Nat : OnTheWire(Stream, sent, Len(handled), c)  BY HandledThenSent
<1> DEFINE k == Len(handled)
<1>3. in \in Seq(Byte) /\ sent \in Seq(Message) /\ Len(in) \in Nat /\ Len(sent) \in Nat
  BY <1>1, StreamFacts DEF Types
<1>4. Stream = in  BY <1>3, ConcatEmptySeq DEF Stream
<1>5. SUFFICES ASSUME in # << >> PROVE FALSE
  OBVIOUS
<1>6. in[1] = SYNC /\ (Len(in) >= 3 => ~Scanned(in).done)  BY <1>1, <1>5 DEF Settled
<1>7. Len(in) >= 1  BY <1>3, <1>5, EmptySeq
<1>8. c = 0
  <2>1. ASSUME c # 0 PROVE FALSE
    <3>1. 1 \in 1 .. c  BY <2>1
    <3>2. Stream[1] # SYNC  BY <1>2, <3>1 DEF OnTheWire
    <3> QED  BY <1>4, <1>6, <3>2
  <2> QED  BY <2>1
<1>9. k \in 0 .. Len(sent)  BY <1>2 DEF OnTheWire
<1>10. k # Len(sent)
  <2>1. k = Len(sent) => Len(in) = c  BY <1>2, <1>3, <1>4, WireEnd
  <2> QED  BY <1>7, <1>8, <2>1
<1> HIDE DEF k
<1>11. k < Len(sent)  BY <1>3, <1>9, <1>10
<1>12. sent[k + 1] \in Message /\ Begins(Frame(sent[k + 1]), in)
  BY <1>2, <1>3, <1>4, <1>8, <1>11, WireHead DEF k
<1>13. Len(in) >= 3 /\ Scanned(in).done  BY <1>3, <1>12, WholeAhead
<1> QED  BY <1>6, <1>13

(***************************************************************************)
(* Nothing is held back: once the game has written whole packets, in any   *)
(* pieces, and consume_input() has returned, every one of them has been    *)
(* handled.                                                                *)
(***************************************************************************)
THEOREM HeldBackNothing == WireSpec => []NothingHeldBack
<1>1. WireInv => NothingHeldBack
  <2> SUFFICES ASSUME WireInv, ~aborted, line = << >>, ~busy PROVE handled = sent
    BY DEF NothingHeldBack
  <2>1. Types  BY DEF WireInv
  <2>2. PICK c \in Nat : OnTheWire(Stream, sent, Len(handled), c)  BY HandledThenSent
  <2>3. Len(handled) = Len(sent)  BY <2>1, <2>2, AllTaken, AllHandled
  <2>4. handled \in Seq(Received) /\ sent \in Seq(Received)  BY <2>1, HandledSent
  <2>5. \A i \in 1 .. Len(handled) : handled[i] = sent[i]  BY HandledThenSent
  <2> QED  BY <2>3, <2>4, <2>5, SeqEqual
<1> QED  BY <1>1, WireInvHolds, PTL

\* The suffixes BackInStep speaks of.
LEMMA SuffixesAgree ==
    ASSUME Types, NEW m \in 0 .. Len(handled), NEW n \in 0 .. Len(sent),
           n + Len(handled) - m <= Len(sent),
           \A i \in 1 .. Len(handled) - m : handled[m + i] = sent[n + i]
    PROVE  /\ IsPrefix(From(handled, m + 1), From(sent, n + 1))
           /\ n + Len(handled) - m = Len(sent) => From(handled, m + 1) = From(sent, n + 1)
<1> DEFINE a == From(handled, m + 1)
           b == From(sent, n + 1)
<1>1. handled \in Seq(Received) /\ sent \in Seq(Received)  BY HandledSent
<1>2. /\ a \in Seq(Received) /\ Len(a) = Len(handled) - m
      /\ \A i \in 1 .. Len(handled) - m : a[i] = handled[m + i]
  BY <1>1, SuffixFacts DEF From
<1>3. /\ b \in Seq(Received) /\ Len(b) = Len(sent) - n
      /\ \A i \in 1 .. Len(sent) - n : b[i] = sent[n + i]
  BY <1>1, SuffixFacts DEF From
<1>4. Len(handled) \in Nat /\ Len(sent) \in Nat  BY StreamFacts
<1> HIDE DEF a, b
<1>5. Len(a) <= Len(b) /\ (n + Len(handled) - m = Len(sent) => Len(a) = Len(b))
  BY <1>2, <1>3, <1>4
<1>6. \A i \in 1 .. Len(a) : i \in 1 .. Len(handled) - m /\ i \in 1 .. Len(sent) - n
  BY <1>2, <1>3, <1>4, <1>5
<1>7. \A i \in 1 .. Len(a) : a[i] = b[i]  BY <1>2, <1>3, <1>6
<1>8. IsPrefix(a, b) /\ (Len(a) = Len(b) => a = b)
  BY <1>2, <1>3, <1>5, <1>7, AgreeingPrefix
<1> QED  BY <1>5, <1>8 DEF a, b

(***************************************************************************)
(* The game gives up in the middle of a packet: for any packets, the node  *)
(* invents at most one, loses no more than a body's worth of what follows, *)
(* and then handles every packet once and in order - or it waits for a     *)
(* length that no packet can have (consume_input).                         *)
(***************************************************************************)
THEOREM StepRegained == WireSpec => []BackInStep
<1>1. ASSUME WireInv PROVE BackInStep
  <2>1. Types  BY <1>1 DEF WireInv
  <2>2. /\ in \in Seq(Byte) /\ Len(in) \in Nat /\ Len(line) \in Nat
        /\ Len(sent) \in Nat /\ Len(handled) \in Nat /\ Len(Stream) = Len(in) + Len(line)
    BY <2>1, StreamFacts DEF Types
  <2>3. CASE Stuck
    <3>1. FromSync(in) = in  BY <2>2, <2>3, SyncFirst DEF Stuck
    <3>2. Wedged  BY <2>3, <3>1 DEF Stuck, Wedged, WedgedOn
    <3> QED  BY <3>2 DEF BackInStep
  <2>4. CASE Astray
    <3>1. handled = << >> /\ Len(handled) = 0  BY <2>2, <2>4, EmptySeq DEF Astray
    <3>2. Len(Stream) > 0
      <4>1. PICK p, k : AstrayOn(Stream, sent, p, k)  BY <2>4 DEF Astray
      <4> QED  BY <2>2, <4>1 DEF AstrayOn
    <3>3. ~(line = << >> /\ in = << >>)  BY <2>2, <3>2, EmptySeq
    <3>4. 0 \in 0 .. Len(handled) /\ 0 \in 0 .. Len(sent) /\ 0 + Len(handled) - 0 <= Len(sent)
      BY <2>2, <3>1
    <3>5. \A i \in 1 .. Len(handled) - 0 : handled[0 + i] = sent[0 + i]  BY <3>1
    <3>6. IsPrefix(From(handled, 0 + 1), From(sent, 0 + 1))
      BY <2>1, <3>4, <3>5, SuffixesAgree
    <3>7. 0 \in 0 .. Least(1, Len(handled))  BY <3>1 DEF Least
    <3> QED  BY <3>3, <3>4, <3>6, <3>7 DEF BackInStep
  <2>5. CASE InStep
    <3>1. PICK invented \in 0 .. 1, lost \in 0 .. Len(sent), c \in Nat :
             InStepAt(invented, lost, c)
      BY <2>5 DEF InStep
    <3>2. /\ invented <= Len(handled) /\ (invented = 0 <=> lost = 0)
          /\ (lost > 0 => Off(sent, lost - 1) < 2 * BodySize)
          /\ \A i \in 1 .. Len(handled) - invented : handled[invented + i] = sent[lost + i]
          /\ OnTheWire(Stream, sent, lost + Len(handled) - invented, c)
      BY <3>1 DEF InStepAt
    <3>3. invented \in 0 .. Len(handled) /\ invented \in 0 .. Least(1, Len(handled))
      BY <2>2, <3>2 DEF Least
    <3>4. lost + Len(handled) - invented <= Len(sent)  BY <3>2 DEF OnTheWire
    <3>5. /\ IsPrefix(From(handled, invented + 1), From(sent, lost + 1))
          /\ lost + Len(handled) - invented = Len(sent) =>
                From(handled, invented + 1) = From(sent, lost + 1)
      BY <2>1, <3>2, <3>3, <3>4, SuffixesAgree
    <3>6. line = << >> /\ in = << >> => From(handled, invented + 1) = From(sent, lost + 1)
      BY <2>1, <3>2, <3>5, AllHandled
    <3>7. lost > 0 => Len(Wired(sent)[lost - 1]) < 2 * BodySize  BY <3>2 DEF Off
    <3> QED  BY <3>2, <3>3, <3>5, <3>6, <3>7 DEF BackInStep
  <2> QED  BY <1>1, <2>3, <2>4, <2>5 DEF WireInv
<1> QED  BY <1>1, WireInvHolds, PTL
=============================================================================
