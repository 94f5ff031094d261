------------------------------ MODULE Loopback ------------------------------
(***************************************************************************)
(* The two servers the runtime keeps on the loopback adapter: the one that *)
(* answers for ALL.Net (src/src/runtime/allnet.c), started by the first    *)
(* name the game resolves, and the one that shows the card                 *)
(* (src/src/runtime/passport.c).  Each accepts and serves on one thread.   *)
(* A connection's request is pieces, as TCP delivers them: HeadLen of      *)
(* headers and then its body, or ViewLen of a browser's.  A peer may fall  *)
(* silent part way, or go away.  What a reply says is left out; so are     *)
(* headers longer than ALL.Net's buffer, which the game does not send, and *)
(* a queue of more than the eight connections listen() asks for.           *)
(***************************************************************************)
EXTENDS Integers, Sequences

CONSTANTS
    Client,      \* the game's threads that talk to ALL.Net, a request each
    Viewer,      \* the requests of the browser that shows the card
    HeadLen,     \* pieces of the headers
    BodyLen,     \* pieces of the body that Content-Length counts
    ViewLen,     \* pieces of a browser's request
    MayPause,    \* who may fall silent part way for longer than the five seconds
    MayLeave,    \* who may close its end before it is answered
    MayFail      \* which of "accept" and "CreateThread" may fail on their own account

Peer == Client \cup Viewer
Size(p) == IF p \in Client THEN HeadLen + BodyLen ELSE ViewLen

ASSUME LoopbackAssumption ==
    /\ Client \cap Viewer = {} /\ MayPause \subseteq Peer /\ MayLeave \subseteq Peer
    /\ HeadLen \in Nat \ {0} /\ BodyLen \in Nat /\ ViewLen \in Nat \ {0}
    /\ MayFail \subseteq {"accept", "CreateThread"}

Server == {"allnet", "passport"}
ServerOf(p) == IF p \in Client THEN "allnet" ELSE "passport"
Nobody == "nobody"

VARIABLES
    started,     \* g_started of allnet.c
    taken,       \* ports something else on the machine listens on
    listener,    \* [Server -> "none", "up", "failed"]
    addr,        \* what each peer is about to connect to
    conn,        \* [Peer -> "new", "binding", "resolved", "open", "refused", "closed"]
    pieces,      \* how much of its request each peer has sent
    paused,      \* the peers that have fallen silent
    left,        \* the peers that have gone away
    answer,      \* [Peer -> "none", "reply", "reset", "dropped"]
    backlog,     \* connections not accepted yet, in order
    at, who,     \* what each server's thread does, "ended" for good, and for whom
    got          \* how much of that request it has received

netVars == <<started, taken, listener, addr, conn, pieces, paused, left, answer, backlog, at, who, got>>

NetInit ==
    /\ started = FALSE /\ taken \in SUBSET Server
    /\ listener = [s \in Server |-> "none"]
    /\ addr = [p \in Peer |-> IF p \in Client THEN "none" ELSE "127.0.0.1"]
    /\ conn = [p \in Peer |-> IF p \in Client THEN "new" ELSE "resolved"]
    /\ pieces = [p \in Peer |-> 0] /\ paused = {} /\ left = {} /\ answer = [p \in Peer |-> "none"]
    /\ backlog = [s \in Server |-> << >>]
    /\ at = [s \in Server |-> "accept"] /\ who = [s \in Server |-> Nobody]
    /\ got = [s \in Server |-> 0]

serverVars == <<at, who, got>>
peerVars   == <<addr, conn, pieces, paused, left, answer>>
-----------------------------------------------------------------------------
\* bind() and listen() fail on a port that is taken.  ALL.Net's thread is made when
\* the socket listens already, and nobody looks whether there is one; the window's
\* makes its socket itself.
Listen(s) ==
    \/ /\ listener' = [listener EXCEPT ![s] = IF s \in taken THEN "failed" ELSE "up"]
       /\ UNCHANGED serverVars
    \/ /\ "CreateThread" \in MayFail /\ s \notin taken
       /\ listener' = [listener EXCEPT ![s] = IF s = "allnet" THEN "up" ELSE "failed"]
       /\ at' = [at EXCEPT ![s] = "ended"]
       /\ UNCHANGED <<who, got>>

\* es3_passport_start(), once, when the reader's port is first opened.
PassportStart ==
    /\ listener["passport"] = "none" /\ Listen("passport")
    /\ UNCHANGED <<started, taken, peerVars, backlog>>

\* What the resolvers and WinHttpConnect make of a name: the machine's own goes to
\* the real resolver.
Answer(how) == CASE how = "own"            -> "own"
                 [] how = "gethostbyname"  -> "192.0.2.1"
                 [] how \in {"getaddrinfo", "WinHttpConnect"} -> "127.0.0.1"

\* to_loopback(), in connect() and sendto(): the invented address is put back.
ToLoopback(a) == IF a = "192.0.2.1" THEN "127.0.0.1" ELSE a

\* The first of those calls starts the listener, whatever it asks for: g_started is
\* set before there is one, so a second thread does not wait for it.
Resolve(p, how) ==
    /\ p \in Client /\ conn[p] = "new"
    /\ started' = TRUE
    /\ addr' = [addr EXCEPT ![p] = Answer(how)]
    /\ conn' = [conn EXCEPT ![p] = IF ~started THEN "binding"
                                   ELSE IF how = "own" THEN "new" ELSE "resolved"]
    /\ UNCHANGED <<taken, listener, pieces, paused, left, answer, backlog, serverVars>>

\* allnet_start(), from bind() on.
BindListen(p) ==
    /\ conn[p] = "binding"
    /\ Listen("allnet")
    /\ conn' = [conn EXCEPT ![p] = IF addr[p] = "own" THEN "new" ELSE "resolved"]
    /\ UNCHANGED <<started, taken, addr, pieces, paused, left, answer, backlog>>

\* The peer's connect(), which the loopback adapter refuses without a listener.  The
\* window's page is opened by its server.
Connect(p) ==
    LET s == ServerOf(p)
        up == listener[s] = "up" /\ ToLoopback(addr[p]) = "127.0.0.1"
    IN  /\ conn[p] = "resolved" /\ (p \in Viewer => up)
        /\ conn' = [conn EXCEPT ![p] = IF up THEN "open" ELSE "refused"]
        /\ backlog' = IF up THEN [backlog EXCEPT ![s] = Append(@, p)] ELSE backlog
        /\ addr' = [addr EXCEPT ![p] = "none"]
        /\ UNCHANGED <<started, taken, listener, pieces, paused, left, answer, serverVars>>

\* What comes after the server has closed is answered with a reset, and the reply may
\* be thrown away before it is read.
SendPiece(p) ==
    /\ conn[p] \in {"open", "closed"} /\ p \notin left /\ pieces[p] < Size(p)
    /\ pieces' = [pieces EXCEPT ![p] = @ + 1]
    /\ answer' = IF answer[p] = "reply" THEN [answer EXCEPT ![p] = "reset"] ELSE answer
    /\ UNCHANGED <<started, taken, listener, addr, conn, paused, left, backlog, serverVars>>

\* Five seconds without a piece; the peer may go on later.
Pause(p) ==
    /\ p \in MayPause \ left /\ conn[p] = "open" /\ pieces[p] < Size(p)
    /\ paused' = paused \cup {p}
    /\ UNCHANGED <<started, taken, listener, addr, conn, pieces, left, answer, backlog, serverVars>>

\* A peer closes its end or resets it, accepted or not.
Leave(p) ==
    /\ p \in MayLeave \ left /\ conn[p] = "open"
    /\ left' = left \cup {p}
    /\ UNCHANGED <<started, taken, listener, addr, conn, pieces, paused, answer, backlog, serverVars>>

\* What a peer does for itself: one that has fallen silent need not go on.
Talk(p) == p \notin paused /\ (SendPiece(p) \/ Pause(p))

Waiting(s) == {backlog[s][i] : i \in DOMAIN backlog[s]}

\* accept() in allnet_thread() and passport_thread().
Accept(s) ==
    /\ at[s] = "accept" /\ backlog[s] # << >>
    /\ who' = [who EXCEPT ![s] = Head(backlog[s])]
    /\ backlog' = [backlog EXCEPT ![s] = Tail(@)]
    /\ at' = [at EXCEPT ![s] = "recv"]
    /\ UNCHANGED <<started, taken, listener, got, peerVars>>

\* It may return INVALID_SOCKET instead, as WinSock does for a connection that was
\* reset while it waited: the loop ends, and the thread with it.  The window's closes
\* its listener, with what waits there; ALL.Net's leaves it listening.
AcceptFails(s) ==
    /\ at[s] = "accept" /\ backlog[s] # << >>
    /\ "accept" \in MayFail \/ Head(backlog[s]) \in left
    /\ at' = [at EXCEPT ![s] = "ended"]
    /\ IF s = "allnet"
       THEN UNCHANGED <<listener, conn, answer, backlog>>
       ELSE /\ listener' = [listener EXCEPT ![s] = "failed"]
            /\ conn' = [p \in Peer |-> IF p \in Waiting(s) THEN "closed" ELSE conn[p]]
            /\ answer' = [p \in Peer |-> IF p \in Waiting(s) THEN "reset" ELSE answer[p]]
            /\ backlog' = [backlog EXCEPT ![s] = << >>]
    /\ UNCHANGED <<started, taken, addr, pieces, paused, left, who, got>>

Close(s, a) ==
    LET p == who[s]
    IN  /\ answer' = [answer EXCEPT ![p] = a]
        /\ conn' = [conn EXCEPT ![p] = "closed"]
        /\ at' = [at EXCEPT ![s] = "accept"] /\ who' = [who EXCEPT ![s] = Nobody]
        /\ got' = [got EXCEPT ![s] = 0]
        /\ UNCHANGED <<started, taken, listener, addr, pieces, paused, left, backlog>>

\* What if the body were left in the socket?
EnoughHead(s) == IF s = "allnet" THEN got[s] >= HeadLen ELSE got[s] > 0

\* serve() of allnet.c reads to the end of the headers and then of the body;
\* serve_one() of passport.c makes one recv() do.
Enough(s) == IF s = "allnet" THEN got[s] >= HeadLen + BodyLen ELSE got[s] > 0

\* A recv() that returns what has arrived, or as much of it as the buffer has room for.
Receive(s) ==
    /\ at[s] = "recv" /\ ~Enough(s)
    /\ \E n \in got[s] + 1 .. pieces[who[s]] : got' = [got EXCEPT ![s] = n]
    /\ UNCHANGED <<started, taken, listener, peerVars, backlog, at, who>>

\* What if only the recv() of the headers had a timeout?
TimesOutInHead(s) == s = "allnet" /\ got[s] < HeadLen

\* SO_RCVTIMEO is set on ALL.Net's connections and not on the window's.
TimesOut(s) == s = "allnet"

\* recv() gives up, after the five seconds or because the peer has gone: without whole
\* headers there is no reply, nor in the window's server, and with part of a body there
\* is one.
GiveUpOn(s) ==
    /\ at[s] = "recv" /\ ~Enough(s) /\ pieces[who[s]] = got[s]
    /\ who[s] \in left \/ (TimesOut(s) /\ who[s] \in paused)
    /\ IF s = "passport" \/ got[s] < HeadLen
       THEN Close(s, "dropped")
       ELSE at' = [at EXCEPT ![s] = "reply"]
            /\ UNCHANGED <<started, taken, listener, peerVars, backlog, who, got>>

GoOn(s) ==
    /\ at[s] = "recv" /\ Enough(s)
    /\ at' = [at EXCEPT ![s] = "reply"]
    /\ UNCHANGED <<started, taken, listener, peerVars, backlog, who, got>>

\* send(), shutdown(), closesocket(): with bytes left unread the close is a reset,
\* and a reset throws the reply away.
Reply(s) ==
    /\ at[s] = "reply"
    /\ Close(s, IF pieces[who[s]] > got[s] THEN "reset" ELSE "reply")

Serve(s) == Accept(s) \/ AcceptFails(s) \/ Receive(s) \/ GiveUpOn(s) \/ GoOn(s) \/ Reply(s)

\* The two servers have nothing in common: one, with those who talk to it.
NetNext(s) ==
    \/ s = "passport" /\ PassportStart
    \/ /\ s = "allnet"
       /\ \E p \in Client :
             \/ BindListen(p)
             \/ \E how \in {"own", "gethostbyname", "getaddrinfo", "WinHttpConnect"} : Resolve(p, how)
    \/ \E p \in {q \in Peer : ServerOf(q) = s} : Connect(p) \/ SendPiece(p) \/ Pause(p) \/ Leave(p)
    \/ Serve(s)

\* Types and bounds of the two servers and those who talk to them.
NetTyped ==
    /\ started \in BOOLEAN /\ taken \subseteq Server
    /\ listener \in [Server -> {"none", "up", "failed"}]
    /\ addr \in [Peer -> {"none", "own", "192.0.2.1", "127.0.0.1"}]
    /\ conn \in [Peer -> {"new", "binding", "resolved", "open", "refused", "closed"}]
    /\ pieces \in [Peer -> Nat] /\ \A p \in Peer : pieces[p] <= Size(p)
    /\ paused \subseteq MayPause /\ left \subseteq MayLeave
    /\ answer \in [Peer -> {"none", "reply", "reset", "dropped"}]
    /\ backlog \in [Server -> Seq(Peer)]
    /\ at \in [Server -> {"accept", "recv", "reply", "ended"}]
    /\ who \in [Server -> Peer \cup {Nobody}]
    /\ got \in [Server -> Nat]
-----------------------------------------------------------------------------
\* ALL.Net's reply is never thrown away by a reset, and no request to it is dropped,
\* unless its sender fell silent or went away: "an RST throws away the reply that was
\* already written" (allnet.c).  The window's server promises nothing of the kind.
RepliesArrive ==
    \A p \in Client : answer[p] \in {"reset", "dropped"} => p \in paused \cup left

\* Whoever sends a whole request gets an end to it, whoever else has connected before
\* it and said nothing or gone away, as long as the server has its thread.  The
\* window's server has no timeout, and only for it a silent connection is an excuse.
EveryRequestEnds ==
    \A p \in Peer : pieces[p] = Size(p) ~>
        \/ answer[p] # "none"
        \/ at[ServerOf(p)] = "ended"
        \/ who["passport"] \in paused /\ p \in Viewer

\* "One connection must not be able to stop the server" (allnet.c): with every call of
\* the system's going well, ALL.Net's thread never ends.
ServerStays == at["allnet"] # "ended"
=============================================================================
