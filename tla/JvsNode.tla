------------------------------ MODULE JvsNode -------------------------------
(***************************************************************************)
(* The JVS node itself: what a packet does to the board's address and coin *)
(* counters and what it is answered (jvs.c handle_packet), against the     *)
(* ticker thread that turns a coin key into coins (input_poll) and the     *)
(* game thread that takes them without the wire (es3_coin_take).           *)
(*                                                                         *)
(* es3_jvs_write() holds the port's lock while a packet is handled, and    *)
(* each command is a step of its own here, so that what does not take the  *)
(* lock can happen between two commands of one packet.                     *)
(***************************************************************************)
EXTENDS Integers, Sequences, FiniteSets

CONSTANTS
    Slots,          \* JVS_COIN_SLOTS; only the first has a coin switch
    Packet,         \* the packets the game sends: [dest, cmds]
    Broadcast,      \* JVS_BROADCAST
    Room,           \* sizeof body - 80: no command is begun beyond it
    Longest,        \* 254: a reply that is longer is not sent
    CountModulus,   \* 2^14, what a coin counter has room for in a report
    MaxPresses,     \* how often a coin key is pressed
    MaxReturns,     \* how often the game's window comes back to the front
    None

\* The commands told apart.  "other" stands for all that change nothing the
\* node keeps and answer a report of their own; "ident" is the one whose
\* report is long.
Command ==
    [op : {"reset", "ident", "other", "unknown"}]
    \cup [op : {"setaddr"}, addr : Nat]
    \cup [op : {"coinp"}, slots : Nat]
    \cup [op : {"coindec", "coininc"}, slot : Nat, amount : Nat]

ASSUME NodeAssumption ==
    /\ Slots \in Nat \ {0} /\ {Room, Longest} \subseteq Nat /\ CountModulus \in Nat \ {0}
    /\ Broadcast \in Nat \ {0} /\ MaxPresses \in Nat
    /\ MaxReturns \in Nat
    /\ \A p \in Packet : p.dest \in Nat /\ p.cmds \in Seq(Command)

Slot == 1 .. Slots

VARIABLES
    address,    \* 0 until the master assigns one
    coin,       \* g_port.coin: coins waiting in each slot
    pending,    \* g_coins_pending: coins for a title that takes them directly
    packet,     \* the packet being handled under the lock, or None
    at,         \* i: the next command of it
    len,        \* the length of the reply so far
    status,     \* body[0]
    reports,    \* the reports so far: [cmd, counts]
    reply,      \* the last reply pushed
    hadCoin,    \* had_coin
    ticker,     \* "idle", or "insert" when an edge was seen and the lock is due
    key, pad,   \* is the coin key down, is the pad's button?
    front,      \* has a window of this process the foreground?
    presses,    \* how often the key or the button went down
    returns,    \* how often the foreground came back
    inserted,   \* coins counted
    spent,      \* coins the game took over the wire
    handed      \* coins the game took with es3_coin_take()

boardVars  == <<address, coin, spent>>
packetVars == <<packet, at, len, status, reports, reply>>
coinVars   == <<pending, handed>>
inputVars  == <<key, pad, front, presses, returns>>
tickVars   == <<hadCoin, ticker, inserted>>
vars == <<boardVars, packetVars, coinVars, inputVars, tickVars>>

Init == /\ address = 0 /\ coin = [s \in Slot |-> 0] /\ spent = 0
        /\ packet = None /\ at = 1 /\ len = 0 /\ status = 1 /\ reports = << >>
        /\ reply = None
        /\ pending = 0 /\ handed = 0
        /\ key = FALSE /\ pad = FALSE /\ front = TRUE /\ presses = 0
        /\ returns = 0
        /\ hadCoin = FALSE /\ ticker = "idle" /\ inserted = 0
-----------------------------------------------------------------------------
(***************************************************************************)
(* The packet.                                                             *)
(***************************************************************************)

\* es3_jvs_write() took the lock and consume_input() found packet p.
BeginPacket(p) ==
    /\ packet = None
    /\ p.dest \in {Broadcast, address}
    /\ packet' = p /\ at' = 1 /\ len' = 1 /\ status' = 1 /\ reports' = << >>
    /\ UNCHANGED <<boardVars, reply, coinVars, inputVars, tickVars>>

Cmd == packet.cmds[at]

InPacket == packet # None /\ at <= Len(packet.cmds)

\* "if (len > sizeof body - 80) break" ends the switch's loop after a command.
Cut == len > Room

\* The bytes a report takes.
ReportLength(c) == CASE c.op = "ident" -> 67
                     [] c.op = "coinp" -> 1 + 2 * c.slots
                     [] OTHER          -> 1

Report(c, counts) ==
    /\ reports' = Append(reports, [cmd |-> c, counts |-> counts])
    /\ len' = len + ReportLength(c)
    /\ at' = at + 1
    /\ UNCHANGED <<packet, status, reply, coinVars, inputVars, tickVars>>

\* 0xF0: the address is gone, the rest of the packet ignored, nothing answered.
Reset ==
    /\ InPacket /\ ~Cut /\ Cmd.op = "reset"
    /\ address' = 0
    /\ packet' = None
    /\ at' = 1 /\ len' = 0 /\ status' = 1 /\ reports' = << >>
    /\ UNCHANGED <<coin, spent, reply, coinVars, inputVars, tickVars>>

\* 0xF1.
SetAddress ==
    /\ InPacket /\ ~Cut /\ Cmd.op = "setaddr"
    /\ address' = Cmd.addr
    /\ Report(Cmd, << >>)
    /\ UNCHANGED <<coin, spent>>

\* 0x10 and the commands that change nothing the node keeps.
Inform ==
    /\ InPacket /\ ~Cut /\ Cmd.op \in {"ident", "other"}
    /\ Report(Cmd, << >>)
    /\ UNCHANGED boardVars

\* 0x21: one count for each slot asked for, none beyond the node's own.
CoinInput ==
    /\ InPacket /\ ~Cut /\ Cmd.op = "coinp"
    /\ Report(Cmd, [s \in 1 .. Cmd.slots |->
                      IF s \in Slot THEN coin[s] % CountModulus ELSE 0])
    /\ UNCHANGED boardVars

\* What if an unknown slot stopped the command without a report?
DecreaseUnreported ==
    /\ InPacket /\ ~Cut /\ Cmd.op = "coindec"
    /\ coin' = [s \in Slot |-> IF s # Cmd.slot THEN coin[s]
                               ELSE IF coin[s] > Cmd.amount
                                    THEN coin[s] - Cmd.amount ELSE 0]
    /\ spent' = IF Cmd.slot \in Slot THEN spent + coin[Cmd.slot] - coin'[Cmd.slot]
                ELSE spent
    /\ IF Cmd.slot \in Slot THEN Report(Cmd, << >>)
       ELSE /\ at' = at + 1
            /\ UNCHANGED <<packet, len, status, reports, reply,
                           coinVars, inputVars, tickVars>>
    /\ UNCHANGED address

\* 0x30: saturates at zero; a slot the node does not have is ignored and
\* reported all the same.
CoinDecrease ==
    /\ InPacket /\ ~Cut /\ Cmd.op = "coindec"
    /\ coin' = [s \in Slot |-> IF s # Cmd.slot THEN coin[s]
                               ELSE IF coin[s] > Cmd.amount
                                    THEN coin[s] - Cmd.amount ELSE 0]
    /\ spent' = IF Cmd.slot \in Slot THEN spent + coin[Cmd.slot] - coin'[Cmd.slot]
                ELSE spent
    /\ Report(Cmd, << >>)
    /\ UNCHANGED address

\* 0x31: its three bytes are skipped and it is reported.
CoinIncrease ==
    /\ InPacket /\ ~Cut /\ Cmd.op = "coininc"
    /\ Report(Cmd, << >>)
    /\ UNCHANGED boardVars

\* Any other byte: the reports so far are thrown away and the rest ignored.
Unknown ==
    /\ InPacket /\ ~Cut /\ Cmd.op = "unknown"
    /\ status' = 2 /\ len' = 1 /\ reports' = << >>
    /\ at' = Len(packet.cmds) + 1
    /\ UNCHANGED <<boardVars, packet, reply, coinVars, inputVars, tickVars>>

\* reply(): the reply goes to the ring, unless its length does not fit a byte,
\* and the lock is released.
EndPacket ==
    /\ packet # None /\ (~InPacket \/ Cut)
    /\ reply' = IF len > Longest THEN reply
                ELSE [packet |-> packet, status |-> status, reports |-> reports,
                      cut |-> InPacket]
    /\ packet' = None /\ at' = 1 /\ len' = 0 /\ status' = 1 /\ reports' = << >>
    /\ UNCHANGED <<boardVars, coinVars, inputVars, tickVars>>

Handle == Reset \/ SetAddress \/ Inform \/ CoinInput \/ CoinDecrease
          \/ CoinIncrease \/ Unknown \/ EndPacket
-----------------------------------------------------------------------------
(***************************************************************************)
(* The coins.                                                              *)
(***************************************************************************)

\* The keyboard counts only in the foreground, the pad always.
CoinDown == (front /\ key) \/ pad

\* What if every poll that finds the key down were a coin?
PollLevel ==
    /\ ticker = "idle"
    /\ IF CoinDown THEN ticker' = "insert" /\ UNCHANGED hadCoin
                   ELSE hadCoin' = FALSE /\ UNCHANGED ticker
    /\ UNCHANGED <<boardVars, packetVars, coinVars, inputVars, inserted>>

\* input_poll(): an edge is a coin, and needs the lock.
Poll ==
    /\ ticker = "idle"
    /\ IF CoinDown /\ ~hadCoin
       THEN ticker' = "insert" /\ UNCHANGED hadCoin
       ELSE hadCoin' = CoinDown /\ UNCHANGED ticker
    /\ UNCHANGED <<boardVars, packetVars, coinVars, inputVars, inserted>>

\* What if a coin were counted without the port's lock?
InsertUnlocked ==
    /\ ticker = "insert"
    /\ coin' = [coin EXCEPT ![1] = @ + 1]
    /\ pending' = pending + 1
    /\ inserted' = inserted + 1
    /\ hadCoin' = TRUE /\ ticker' = "idle"
    /\ UNCHANGED <<address, spent, packetVars, handed, inputVars>>

\* The coin, counted twice over under the lock: for the wire and for
\* es3_coin_take().
Insert ==
    /\ ticker = "insert" /\ packet = None
    /\ coin' = [coin EXCEPT ![1] = @ + 1]
    /\ pending' = pending + 1
    /\ inserted' = inserted + 1
    /\ hadCoin' = TRUE /\ ticker' = "idle"
    /\ UNCHANGED <<address, spent, packetVars, handed, inputVars>>

\* What if es3_coin_take() did not consume what it returns?
TakeWithoutConsuming ==
    /\ pending > 0 /\ handed < MaxPresses + 1
    /\ handed' = handed + pending
    /\ UNCHANGED <<boardVars, packetVars, pending, inputVars, tickVars>>

\* es3_coin_take(), on the game's own thread and without the lock.
CoinTake ==
    /\ pending > 0
    /\ handed' = handed + pending /\ pending' = 0
    /\ UNCHANGED <<boardVars, packetVars, inputVars, tickVars>>
-----------------------------------------------------------------------------
(***************************************************************************)
(* The person in front of the cabinet.                                     *)
(***************************************************************************)
MoveKey == /\ key \/ presses < MaxPresses
           /\ key' = ~key
           /\ presses' = IF key THEN presses ELSE presses + 1
           /\ UNCHANGED <<boardVars, packetVars, coinVars, tickVars, pad, front,
                         returns>>

MovePad == /\ pad \/ presses < MaxPresses
           /\ pad' = ~pad
           /\ presses' = IF pad THEN presses ELSE presses + 1
           /\ UNCHANGED <<boardVars, packetVars, coinVars, tickVars, key, front,
                         returns>>

MoveFocus == /\ front \/ returns < MaxReturns
             /\ front' = ~front
             /\ returns' = IF front THEN returns ELSE returns + 1
             /\ UNCHANGED <<boardVars, packetVars, coinVars, tickVars, key, pad,
                            presses>>

Next == \/ \E p \in Packet : BeginPacket(p)
        \/ Handle
        \/ Poll \/ Insert \/ CoinTake
        \/ MoveKey \/ MovePad \/ MoveFocus

Spec == Init /\ [][Next]_vars
-----------------------------------------------------------------------------
(***************************************************************************)
(* Type invariant of the node (jvs.c JvsPort.address, .coin and the locals *)
(* of handle_packet).                                                      *)
(***************************************************************************)
TypeOK ==
    /\ address \in Nat
    /\ coin \in [Slot -> Nat] /\ pending \in Nat
    /\ spent \in Nat /\ handed \in Nat /\ inserted \in Nat /\ presses \in Nat
    /\ returns \in Nat
    /\ packet \in Packet \cup {None} /\ at \in Nat \ {0} /\ len \in Nat
    /\ status \in {1, 2}
    /\ {key, pad, front, hadCoin} \subseteq BOOLEAN
    /\ ticker \in {"idle", "insert"}

(***************************************************************************)
(* Every coin is counted on both sides and none is made or lost: over the  *)
(* wire, what waits in slot 1 and what the game spent is what went in;     *)
(* without it, what es3_coin_take() handed out and what it still holds is. *)
(* "Taking it consumes it, so two callers cannot both spend the same coin" *)
(* (jvs.c, above es3_coin_take).                                           *)
(***************************************************************************)
CoinsAccounted == /\ coin[1] + spent = inserted
                  /\ handed + pending = inserted
                  /\ \A s \in Slot \ {1} : coin[s] = 0

(***************************************************************************)
(* "Edges, not a level: one press is one coin" (jvs.c, above               *)
(* es3_coin_take): a key held for any number of polls, alone or with the   *)
(* pad, is one coin, and one more at most each time the window comes back  *)
(* to the foreground, which looks like a press (input_poll).               *)
(***************************************************************************)
CoinsFromEdges == inserted <= presses + returns

(***************************************************************************)
(* A reply of status 1 has a report for each command of its packet, in the *)
(* packet's order, up to where the reply had no more room (handle_packet). *)
(* A reply too long for its length byte is not sent at all (reply).        *)
(***************************************************************************)
EveryCommandReported ==
    reply # None /\ reply.status = 1 =>
        /\ \A i \in DOMAIN reply.reports :
             reply.reports[i].cmd = reply.packet.cmds[i]
        /\ ~reply.cut => Len(reply.reports) = Len(reply.packet.cmds)

(***************************************************************************)
(* Two counts of one slot in one reply differ by what the packet itself    *)
(* took in between: the ticker's coins wait for the lock.                  *)
(***************************************************************************)
CountsAgree ==
    reply # None =>
        \A i, j \in DOMAIN reply.reports :
            LET a == reply.reports[i]  b == reply.reports[j]
            IN  /\ i < j
                /\ a.cmd.op = "coinp" /\ b.cmd.op = "coinp"
                /\ \A m \in i .. j : reply.reports[m].cmd.op # "coindec"
                => \A s \in DOMAIN a.counts \cap DOMAIN b.counts :
                     a.counts[s] = b.counts[s]
=============================================================================
