------------------------------ MODULE CardPort ------------------------------
(***************************************************************************)
(* The wire and the port of the IC card reader (src/src/runtime/card.c):   *)
(* consume() takes frames out of whatever pieces the game wrote, what      *)
(* command() answers waits in a ring, and a posted read ends when the ring *)
(* holds enough or its hundred milliseconds are over.  The region a thread *)
(* runs under the lock is one step.                                        *)
(*                                                                         *)
(* A reply is ReplyLen bytes here whatever it says: what the commands do   *)
(* to the card is CardReader's subject.                                    *)
(***************************************************************************)
EXTENDS Integers, Sequences

CONSTANTS
    Thread,     \* the game's threads that use the reader
    Message,    \* what the game sends: [kind, data], data the payload of a "frame"
    FIFO,       \* what g_p.in holds
    OutRoom,    \* what g_p.out holds: FIFO - 1
    ReplyLen,   \* bytes of a reply
    Length,     \* the lengths reads ask for
    MaxSent,    \* bound: messages sent
    MaxReads,   \* bound: reads posted
    MaxQueued   \* bound: completions waiting when a write is begun with one

Byte == 0 .. 255

\* A frame's length is one byte, and not the zero that is an acknowledgement's.
ASSUME PortAssumption ==
    /\ Message \subseteq [kind : {"ack", "nack", "wake", "frame"}, data : Seq(Byte)]
    /\ \A m \in Message : m.kind = "frame" => Len(m.data) \in 1 .. 255
    /\ Length \subseteq Nat /\ {ReplyLen, FIFO, OutRoom} \subseteq Nat
    /\ Thread # {} /\ MaxSent \in Nat /\ MaxReads \in Nat

VARIABLES
    line,       \* what the game has yet to write of the message it is sending
    said,       \* messages sent so far
    sent,       \* the payloads sent, in order
    in,         \* g_p.in
    done,       \* the payloads command() was called with, in order
    out,        \* the ring: each byte a reply's number and its place in it
    cut,        \* the numbers of the replies that did not fit the ring
    taken,      \* the bytes the game was given, in order
    read,       \* the posted read
    reads,      \* reads posted so far
    late,       \* is read_deadline over?
    apc,        \* the completions queued to each thread
    writing     \* the threads between a write and its completion

portVars == <<line, said, sent, in, done, out, cut, taken, read, reads, late,
              apc, writing>>

NoRead == [id |-> 0, len |-> 0, thread |-> CHOOSE t \in Thread : TRUE]

CardInit ==
    /\ line = << >> /\ said = 0 /\ sent = << >> /\ in = << >> /\ done = << >>
    /\ out = << >> /\ cut = {} /\ taken = << >>
    /\ read = NoRead /\ reads = 0 /\ late = FALSE
    /\ apc = [t \in Thread |-> << >>] /\ writing = {}
-----------------------------------------------------------------------------
Least(m, n) == IF m <= n THEN m ELSE n
Total(s)    == LET sum[k \in 0 .. Len(s)] ==
                     IF k = 0 THEN 0 ELSE (sum[k - 1] + s[k]) % 256
               IN  sum[Len(s)]

\* The host's frames, send_frame()'s own layout: preamble, start, length and its
\* checksum, payload, data checksum, postamble.
Wire(m) == CASE m.kind = "ack"   -> <<0, 0, 255, 0, 255, 0>>
             [] m.kind = "nack"  -> <<0, 0, 255, 255, 0, 0>>
             [] m.kind = "wake"  -> <<85, 85, 0>>
             [] m.kind = "frame" -> <<0, 0, 255, Len(m.data), 256 - Len(m.data)>> \o m.data
                                    \o <<(256 - Total(m.data)) % 256, 0>>

\* What is left of an input is four bytes at most, and a message fits behind it:
\* the input is FIFO bytes long in the code, and a message 262 at most.
ASSUME RoomAssumption == \A m \in Message : 4 + Len(Wire(m)) <= FIFO

Say(m) ==
    /\ line = << >> /\ said < MaxSent
    /\ line' = Wire(m) /\ said' = said + 1
    /\ sent' = IF m.kind = "frame" THEN Append(sent, m.data) ELSE sent
    /\ UNCHANGED <<in, done, out, cut, taken, read, reads, late, apc, writing>>

\* A bare ACK or NACK is skipped, its postamble with it when that is there.
Skip(s) == IF Len(s) >= 6 THEN 6 ELSE 5

\* What if the length were not waited for?
TurnUnwaiting(c) ==
    LET s == c.in
        n == s[4]
    IN  IF c.stop \/ Len(s) < 5 THEN c
        ELSE IF SubSeq(s, 1, 3) # <<0, 0, 255>> THEN [c EXCEPT !.in = Tail(s)]
        ELSE IF <<n, s[5]>> \in {<<0, 255>>, <<255, 0>>}
        THEN [c EXCEPT !.in = SubSeq(s, Skip(s) + 1, Len(s))]
        ELSE IF (n + s[5]) % 256 # 0 THEN [c EXCEPT !.in = Tail(s)]
        ELSE [c EXCEPT !.in = SubSeq(s, n + 8, Len(s)),
                       !.cmds = Append(@, SubSeq(s, 6, Least(n + 5, Len(s))))]

\* One turn of consume()'s loop on what is left of the input.
Turn(c) ==
    LET s == c.in
        n == s[4]
    IN  IF c.stop \/ Len(s) < 5 THEN c
        ELSE IF SubSeq(s, 1, 3) # <<0, 0, 255>> THEN [c EXCEPT !.in = Tail(s)]
        ELSE IF <<n, s[5]>> \in {<<0, 255>>, <<255, 0>>}
        THEN [c EXCEPT !.in = SubSeq(s, Skip(s) + 1, Len(s))]
        ELSE IF (n + s[5]) % 256 # 0 THEN [c EXCEPT !.in = Tail(s)]
        ELSE IF Len(s) < n + 7 THEN [c EXCEPT !.stop = TRUE]
        ELSE [c EXCEPT !.in = SubSeq(s, n + 8, Len(s)),
                       !.cmds = Append(@, SubSeq(s, 6, n + 5))]

\* The first turns on input s.
Turns(s) ==
    LET turn[k \in 0 .. Len(s)] ==
          IF k = 0 THEN [in |-> s, cmds |-> << >>, stop |-> FALSE] ELSE Turn(turn[k - 1])
    IN  turn

\* consume(): turns until fewer than five bytes, or part of a frame, are left.
Consumed(s) == Turns(s)[Len(s)]

\* send_frame() for up to n replies after the first k.
Answers(k, n) ==
    LET put[i \in 0 .. n] ==
          IF i = 0 THEN << >> ELSE put[i - 1] \o [j \in 1 .. ReplyLen |-> <<k + i, j>>]
    IN  put

\* out_push() for each byte of r: behind what waits in ring o while there is room.
Pushed(o, r) == o \o SubSeq(r, 1, Least(Len(r), OutRoom - Len(o)))

\* A completion is queued, unless there is no memory for it, no handle of the thread
\* it goes to or no such thread any more.
Queued(q, t, c) == {q, [q EXCEPT ![t] = Append(@, c)]}

\* What if a read took only a full answer, its deadline over or not?
EndsFull(r, o, l) == r.id # 0 /\ Len(o) >= r.len

Ends(r, o, l) == r.id # 0 /\ (Len(o) >= r.len \/ l)

\* finish_read() on read r, ring o and queues q.
FinishRead(r, o, l, q) ==
    IF Ends(r, o, l)
    THEN LET n == Least(r.len, Len(o))
         IN  /\ out' = SubSeq(o, n + 1, Len(o))
             /\ taken' = taken \o SubSeq(o, 1, n)
             /\ read' = NoRead /\ late' = FALSE
             /\ apc' \in Queued(q, r.thread, r.id)
    ELSE /\ out' = o /\ read' = r /\ late' = l /\ apc' = q
         /\ UNCHANGED taken

\* es3_card_write(): as much of n bytes as there is room for, the frames in it
\* answered, the read that waits for an answer ended.
Write(n) ==
    LET m == Least(n, Len(line))
        c == Consumed(in \o SubSeq(line, 1, Least(m, FIFO - Len(in))))
        a == Answers(Len(done), Len(c.cmds))
    IN  /\ line # << >>
        /\ line' = SubSeq(line, m + 1, Len(line))
        /\ in' = c.in
        /\ done' = done \o c.cmds
        /\ FinishRead(read, Pushed(out, a[Len(c.cmds)]), late, apc)
        /\ cut' = cut \cup {Len(done) + i : i \in {j \in 1 .. Len(c.cmds) :
                                                   Len(out) + Len(a[j]) > OutRoom}}
        /\ UNCHANGED <<said, sent, reads>>

WriteFile(t, n) == t \notin writing /\ Write(n) /\ UNCHANGED writing

\* hle_write_file_ex: the write, and as a step of its own its completion.
WriteFileEx(t, n) ==
    /\ t \notin writing /\ Len(apc[t]) < MaxQueued
    /\ Write(n) /\ writing' = writing \cup {t}

\* es3_card_complete_write(); a write's completion is 0 in the queues.
CompleteWrite(t) ==
    /\ t \in writing /\ writing' = writing \ {t}
    /\ apc' \in Queued(apc, t, 0)
    /\ UNCHANGED <<line, said, sent, in, done, out, cut, taken, read, reads, late>>

\* What if a blocking read left the bytes for the posted one?
ReadFileLeaving(t, n) ==
    /\ t \notin writing
    /\ taken' = taken \o SubSeq(out, 1, Least(n, Len(out)))
    /\ UNCHANGED <<line, said, sent, in, done, out, cut, read, reads, late, apc, writing>>

\* es3_card_read(): what is there, up to n.
ReadFile(t, n) ==
    LET m == Least(n, Len(out))
    IN  /\ t \notin writing
        /\ out' = SubSeq(out, m + 1, Len(out))
        /\ taken' = taken \o SubSeq(out, 1, m)
        /\ UNCHANGED <<line, said, sent, in, done, cut, read, reads, late, apc, writing>>

\* es3_card_post_read(): a read that is still pending is forgotten.
PostRead(t, n) ==
    /\ t \notin writing /\ reads < MaxReads
    /\ reads' = reads + 1
    /\ FinishRead([id |-> reads + 1, len |-> n, thread |-> t], out, FALSE, apc)
    /\ UNCHANGED <<line, said, sent, in, done, cut, writing>>

\* es3_card_cancel(); the deadline is left as it is, and nothing asks for it until
\* the next read sets it.
Cancel(t) ==
    /\ t \notin writing
    /\ read' = NoRead /\ late' = FALSE
    /\ UNCHANGED <<line, said, sent, in, done, out, cut, taken, reads, apc, writing>>

\* GetTickCount64() passes read_deadline.
DeadlineEnds ==
    /\ read.id # 0 /\ ~late /\ late' = TRUE
    /\ UNCHANGED <<line, said, sent, in, done, out, cut, taken, read, reads, apc, writing>>

\* ticker(), every two milliseconds.
Ticker ==
    /\ Ends(read, out, late)
    /\ FinishRead(read, out, late, apc)
    /\ UNCHANGED <<line, said, sent, in, done, cut, reads, writing>>

\* deliver(): the thread waits alertably and its queue is run.
AlertableWait(t) ==
    /\ t \notin writing /\ apc[t] # << >>
    /\ apc' = [apc EXCEPT ![t] = << >>]
    /\ UNCHANGED <<line, said, sent, in, done, out, cut, taken, read, reads, late, writing>>
-----------------------------------------------------------------------------
IsPrefixOf(s, u) == Len(s) <= Len(u) /\ SubSeq(u, 1, Len(s)) = s

\* Type invariant of the reader's port (g_p): no write runs over the end of its input,
\* no reply over the ring's, and the deadline is over only for a read that is pending.
PortTypeOK ==
    /\ line \in Seq(Byte) /\ in \in Seq(Byte) /\ Len(in) <= FIFO
    /\ said \in 0 .. MaxSent /\ sent \in Seq(Seq(Byte)) /\ done \in Seq(Seq(Byte))
    /\ out \in Seq(Nat \X Nat) /\ Len(out) <= OutRoom /\ taken \in Seq(Nat \X Nat)
    /\ read \in [id : 0 .. MaxReads, len : Nat, thread : Thread]
    /\ reads \in 0 .. MaxReads /\ read.id <= reads
    /\ late \in BOOLEAN /\ (late => read.id # 0)
    /\ apc \in [Thread -> Seq(0 .. MaxReads)] /\ writing \subseteq Thread

\* In queues q no read's completion is there twice, and neither r's nor one beyond n's.
QueuedOnce(q, r, n) ==
    /\ \A t \in Thread : \A i \in DOMAIN q[t] : q[t][i] <= n /\ q[t][i] \notin {r} \ {0}
    /\ \A t, u \in Thread : \A i \in DOMAIN q[t], j \in DOMAIN q[u] :
          q[t][i] = q[u][j] /\ q[t][i] # 0 => t = u /\ i = j

\* A read is ended by the call that posts it, a write, the ticker or nobody; whoever it
\* is, its completion is queued at most once, and only when it is no longer pending
\* (finish_read).
ReadsEndOnce == QueuedOnce(apc, read.id, reads)

\* However the game cuts its frames, acknowledgements and wake-up bytes into
\* writes, the reader executes the commands sent, each once, in order, and holds
\* none back that was written whole.
CommandsInOrder == IsPrefixOf(done, sent) /\ (line = << >> => done = sent)

\* What comes before byte i of stream s: of a reply's first byte, nothing of that
\* reply or a later one; of any other, the byte that is before it in the reply.
Follows(s, i) ==
    IF s[i][2] = 1 THEN i > 1 => s[i - 1][1] < s[i][1]
                   ELSE i > 1 /\ s[i - 1] = <<s[i][1], s[i][2] - 1>>

\* Stream s is made of answers to the first n commands, each byte once and in order;
\* no reply misses any but its last bytes.
OfReplies(s, n) == \A i \in DOMAIN s : s[i][1] \in 1 .. n /\ Follows(s, i)

\* Stream s has all of reply k.
Whole(s, k) == \A j \in 1 .. ReplyLen : \E i \in DOMAIN s : s[i] = <<k, j>>

\* Whichever of the blocking read, the posted read, the write, the ticker and a
\* read posted over another takes the bytes, the game reads one stream: every reply
\* once, in the order of its command, and whole unless out_push() found the ring
\* full.
RepliesInOrder ==
    /\ OfReplies(taken \o out, Len(done))
    /\ \A k \in 1 .. Len(done) : k \in cut \/ Whole(taken \o out, k)
=============================================================================
