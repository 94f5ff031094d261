------------------------------ MODULE JvsWire -------------------------------
(***************************************************************************)
(* The framing of JVS packets: how a packet is put on the wire (jvs.c      *)
(* reply, out_byte) and how consume_input() gets whole packets back out of *)
(* whatever pieces the game wrote.                                         *)
(*                                                                         *)
(* The arithmetic is the code's with Modulus in place of 256.  The game's  *)
(* sender is not part of the repository: it is taken to frame its packets  *)
(* by the rules in the header of jvs.c, which are reply()'s.               *)
(***************************************************************************)
EXTENDS Integers, Sequences, SequencesExt

CONSTANTS
    Modulus,     \* 256
    SYNC,        \* JVS_SYNC
    ESCAPE,      \* JVS_ESCAPE
    BodySize,    \* sizeof body in consume_input()
    FIFO_SIZE,   \* what g_port.in holds
    Message,     \* the packets sent: [dest, data, ok], ok if the sum is right
    Noise,       \* what may be on the line between packets
    Chunk,       \* how many bytes a write carries
    MaxSent,     \* how many packets are sent
    MaxLine,     \* how many bytes the game puts together before it writes them
    Aborts       \* may the game stop in the middle of a packet?

Byte == 0 .. Modulus - 1

ASSUME WireAssumption ==
    /\ Modulus \in Nat /\ {SYNC, ESCAPE} \subseteq Byte \ {0}
    /\ ESCAPE \notin {SYNC, SYNC + 1}
    /\ BodySize \in Nat /\ FIFO_SIZE \in Nat
    /\ MaxSent \in Nat /\ MaxLine \in Nat
    /\ Chunk \subseteq Nat \ {0} /\ Aborts \in BOOLEAN
    /\ Message \subseteq [dest : Byte, data : Seq(Byte), ok : BOOLEAN]
    /\ \A n \in Noise : n \in Seq(Byte \ {SYNC})

\* A packet fits the buffer it is un-escaped into and its length fits a byte; and
\* what the game writes without an answer to what it wrote before fits behind what
\* an unfinished packet can take up: 3583 bytes, in the code.
ASSUME RoomAssumption ==
    /\ \A p \in Message : Len(p.data) + 3 <= BodySize /\ Len(p.data) + 1 < Modulus
    /\ \A n \in Noise : Len(n) <= MaxLine
    /\ 1 + 2 * BodySize + MaxLine <= FIFO_SIZE

VARIABLES
    line,      \* what the game has yet to write
    in,        \* g_port.in: what was written and not used
    busy,      \* is consume_input() at work?
    sent,      \* the whole packets the game has begun to write, in order
    aborted,   \* has it given up in the middle of one?
    handled    \* the packets handed to handle_packet() or refused for their sum

wireVars == <<line, in, busy, sent, aborted, handled>>

WireInit ==
    /\ line = << >> /\ in = << >> /\ busy = FALSE
    /\ sent = << >> /\ aborted = FALSE /\ handled = << >>
-----------------------------------------------------------------------------
\* out_byte(): every byte but the leading SYNC is escaped.
Escaped(b) == IF b \in {SYNC, ESCAPE} THEN <<ESCAPE, b - 1>> ELSE <<b>>

\* The bytes on the wire for the first k of some bytes.
Stuffed(bytes) ==
    LET put[k \in 0 .. Len(bytes)] ==
          IF k = 0 THEN << >> ELSE put[k - 1] \o Escaped(bytes[k])
    IN  put

\* The sum of the first k of some bytes.
Sums(bytes) ==
    LET sum[k \in 0 .. Len(bytes)] ==
          IF k = 0 THEN 0 ELSE (sum[k - 1] + bytes[k]) % Modulus
    IN  sum

\* reply(): SYNC, where to, the length with the sum, the body, the sum.
Header(p)   == <<p.dest, Len(p.data) + 1>> \o p.data
CheckSum(p) == LET sum == Sums(Header(p))[Len(p.data) + 2]
               IN  IF p.ok THEN sum ELSE (sum + 1) % Modulus
Body(p)     == Append(Header(p), CheckSum(p))
Frame(p)    == <<SYNC>> \o Stuffed(Body(p))[Len(p.data) + 3]

\* Send a packet, together with what is not written yet of the ones before, or
\* give up in the middle of one.
Send(p) ==
    /\ ~busy /\ Len(sent) < MaxSent
    /\ Len(line) + Len(Frame(p)) <= MaxLine
    /\ line' = line \o Frame(p)
    /\ sent' = Append(sent, p)
    /\ UNCHANGED <<in, busy, aborted, handled>>

SendPart(p) ==
    /\ Aborts /\ line = << >> /\ ~busy /\ sent = << >> /\ in = << >>
    /\ \E k \in 1 .. Len(Frame(p)) - 1 : line' = SubSeq(Frame(p), 1, k)
    /\ aborted' = TRUE
    /\ UNCHANGED <<in, busy, sent, handled>>

SendNoise(n) ==
    /\ line = << >> /\ ~busy /\ in = << >> /\ Len(sent) < MaxSent
    /\ line' = n
    /\ UNCHANGED <<in, busy, sent, aborted, handled>>

Least(m, n) == IF m <= n THEN m ELSE n

\* What if what did not fit were not cut off?
WriteUnclamped(n) ==
    LET m == Least(n, Len(line))
    IN  /\ line # << >> /\ ~busy
        /\ in' = in \o SubSeq(line, 1, m)
        /\ line' = SubSeq(line, m + 1, Len(line))
        /\ busy' = TRUE
        /\ UNCHANGED <<sent, aborted, handled>>

\* es3_jvs_write(): as much of n bytes as there is room for; the caller is
\* told that all of them were written.
Write(n) ==
    LET m    == Least(n, Len(line))
        room == FIFO_SIZE - Len(in)
    IN  /\ line # << >> /\ ~busy
        /\ in' = in \o SubSeq(line, 1, Least(m, room))
        /\ line' = SubSeq(line, m + 1, Len(line))
        /\ busy' = TRUE
        /\ UNCHANGED <<sent, aborted, handled>>
-----------------------------------------------------------------------------
\* "Find SYNC": what is before it is dropped.
FromSync(s) ==
    LET at == {i \in DOMAIN s : s[i] = SYNC}
    IN  IF at = {} THEN << >>
        ELSE SubSeq(s, CHOOSE i \in at : \A j \in at : i <= j, Len(s))

\* What if the byte after an escape were taken as it is?
ScanKeepingEscaped(a, b) ==
    LET body == Append(a.body, b)
        size == IF Len(body) = 2 THEN b ELSE a.size
    IN  IF a.done \/ Len(a.body) = BodySize THEN a
        ELSE IF b = ESCAPE /\ ~a.esc THEN [a EXCEPT !.esc = TRUE, !.used = @ + 1]
        ELSE [body |-> body, size |-> size, esc |-> FALSE, used |-> a.used + 1,
              done |-> Len(body) >= 2 /\ size # 0 /\ Len(body) = size + 2]

\* One byte of the loop that un-escapes: the body so far, its size once the
\* second byte is there, whether the next byte is escaped, the bytes used,
\* and whether the packet is whole.
Scan(a, b) ==
    LET v    == IF a.esc THEN (b + 1) % Modulus ELSE b
        body == Append(a.body, v)
        size == IF Len(body) = 2 THEN v ELSE a.size
    IN  IF a.done \/ Len(a.body) = BodySize THEN a
        ELSE IF b = ESCAPE /\ ~a.esc THEN [a EXCEPT !.esc = TRUE, !.used = @ + 1]
        ELSE [body |-> body, size |-> size, esc |-> FALSE, used |-> a.used + 1,
              done |-> Len(body) >= 2 /\ size # 0 /\ Len(body) = size + 2]

\* What the loop knows k bytes after the SYNC that s begins with.
Scans(s) ==
    LET scan[k \in 0 .. Len(s) - 1] ==
          IF k = 0
          THEN [body |-> << >>, size |-> 0, esc |-> FALSE, used |-> 1, done |-> FALSE]
          ELSE Scan(scan[k - 1], s[k + 1])
    IN  scan

Scanned(s) == Scans(s)[Len(s) - 1]

\* What if the sum were not checked?
TrustingPacket(a) ==
    [dest |-> a.body[1], data |-> SubSeq(a.body, 3, a.size + 1), ok |-> TRUE]

\* The packet a whole body is, its sum checked against its last byte.
PacketOf(a) ==
    [dest |-> a.body[1], data |-> SubSeq(a.body, 3, a.size + 1),
     ok |-> Sums(a.body)[a.size + 1] = a.body[a.size + 2]]

\* What if what follows a packet in the same write were dropped with it?
ConsumeOnce ==
    LET s == FromSync(in)
        a == Scanned(s)
    IN  /\ busy
        /\ IF Len(s) >= 3 /\ a.done
           THEN /\ handled' = Append(handled, PacketOf(a))
                /\ in' = << >>
                /\ UNCHANGED busy
           ELSE in' = s /\ busy' = FALSE /\ UNCHANGED handled
        /\ UNCHANGED <<line, sent, aborted>>

\* consume_input(), one turn of its loop: a whole packet is taken out, or
\* there is none and the rest waits for more.
Consume ==
    LET s == FromSync(in)
        a == Scanned(s)
    IN  /\ busy
        /\ IF Len(s) >= 3 /\ a.done
           THEN /\ handled' = Append(handled, PacketOf(a))
                /\ in' = SubSeq(s, a.used + 1, Len(s))
                /\ UNCHANGED busy
           ELSE in' = s /\ busy' = FALSE /\ UNCHANGED handled
        /\ UNCHANGED <<line, sent, aborted>>

\* Everything was sent and looked at.
Done == /\ Len(sent) = MaxSent /\ line = << >> /\ ~busy
        /\ UNCHANGED wireVars

WireNext ==
    \/ \E p \in Message : Send(p) \/ SendPart(p)
    \/ \E n \in Noise : SendNoise(n)
    \/ \E n \in Chunk : Write(n)
    \/ Consume
    \/ Done

WireSpec == WireInit /\ [][WireNext]_wireVars
-----------------------------------------------------------------------------
(***************************************************************************)
(* Type invariant of the wire.  Its bound on Len(in) is that no write runs *)
(* over the end of JvsPort.in, even when consume_input() is stuck on a     *)
(* packet whose length can never be reached (jvs.c es3_jvs_write).         *)
(***************************************************************************)
WireTyped ==
    /\ line \in Seq(Byte) /\ in \in Seq(Byte) /\ Len(in) <= FIFO_SIZE
    /\ {busy, aborted} \subseteq BOOLEAN
    /\ sent \in Seq(Message) /\ Len(sent) <= MaxSent
    /\ \A i \in DOMAIN handled : handled[i].dest \in Byte

(***************************************************************************)
(* No packet is invented, none overtakes another, and a packet is refused  *)
(* exactly when its sum was wrong, however the game's writes cut the       *)
(* stream, in the middle of an escape too (consume_input).                 *)
(***************************************************************************)
HandledInOrder == ~aborted => IsPrefix(handled, sent)

(***************************************************************************)
(* consume_input() holds nothing back: when the game has written whole     *)
(* packets, in any pieces, each has been handled.                          *)
(***************************************************************************)
NothingHeldBack == ~aborted /\ line = << >> /\ ~busy => handled = sent

From(s, k) == SubSeq(s, k, Len(s))

\* What the first k of some packets are on the wire.
Wired(packets) ==
    LET put[k \in 0 .. Len(packets)] ==
          IF k = 0 THEN << >> ELSE put[k - 1] \o Frame(packets[k])
    IN  put

\* The parser waits for a length that no packet can have.
Wedged == LET s == FromSync(in)
              a == Scanned(s)
          IN  /\ Len(s) >= 3 /\ Len(a.body) >= 2
              /\ a.size = 0 \/ a.size + 2 > BodySize

(***************************************************************************)
(* After a packet that was given up in the middle the node is back in step *)
(* unless it took a byte for a length that cannot be (consume_input): at   *)
(* most one packet that was never sent is handled, it swallowed no more    *)
(* than a body's worth of what followed, and every packet after that is    *)
(* handled, once and in order.                                             *)
(***************************************************************************)
BackInStep ==
    \/ Wedged
    \/ \E invented \in 0 .. Least(1, Len(handled)), lost \in 0 .. Len(sent) :
        /\ invented = 0 => lost = 0
        /\ lost > 0 => Len(Wired(sent)[lost - 1]) < 2 * BodySize
        /\ IsPrefix(From(handled, invented + 1), From(sent, lost + 1))
        /\ line = << >> /\ in = << >> =>
             From(handled, invented + 1) = From(sent, lost + 1)
=============================================================================
