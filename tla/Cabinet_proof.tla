---------------------------- MODULE Cabinet_proof ---------------------------
(***************************************************************************)
(* Proofs about Cabinet: the loopback servers, the image and its child     *)
(* process, the watch over the display and the board on the USB tree, for  *)
(* any number of peers, libraries, windows, hubs, ports and siblings.      *)
(***************************************************************************)
EXTENDS Cabinet, FiniteSetTheorems, TLAPS

\* A step is one part's and leaves the other three alone.
LEMMA Parts ==
    ASSUME [Next]_vars
    PROVE  /\ UNCHANGED netVars \/ \E s \in Server : NetNext(s)
           /\ UNCHANGED imageVars \/ ImageNext
           /\ UNCHANGED screenVars \/ ScreenNext
           /\ UNCHANGED usbVars \/ UsbNext
  BY DEF Next, vars, Net, Image, Screen, Usb
-----------------------------------------------------------------------------
(***************************************************************************)
(* The servers.                                                            *)
(***************************************************************************)
\* Who waits for a server, or is served by it, came to that server.
Served ==
    /\ \A s \in Server : \A i \in 1 .. Len(backlog[s]) : ServerOf(backlog[s][i]) = s
    /\ \A s \in Server : at[s] \in {"recv", "reply"} => who[s] \in Peer /\ ServerOf(who[s]) = s

\* A server has received no more than was sent.
Heard ==
    \A s \in Server : /\ at[s] = "accept" => got[s] = 0
                      /\ at[s] \in {"recv", "reply"} => got[s] <= pieces[who[s]]

Excused == paused \cup left

\* ALL.Net replies when the request is whole, or its sender has fallen silent or gone.
WholeOrSilent ==
    at["allnet"] = "reply" => got["allnet"] >= HeadLen + BodyLen \/ who["allnet"] \in Excused

AnsweredWhole == \A p \in Client : answer[p] = "reply" => pieces[p] = Size(p) \/ p \in Excused

NetInv == NetTyped /\ Served /\ Heard /\ WholeOrSilent /\ AnsweredWhole /\ RepliesArrive

LEMMA Sizes == /\ \A p \in Peer : Size(p) \in Nat
               /\ \A p \in Client : Size(p) = HeadLen + BodyLen
  BY LoopbackAssumption DEF Size

LEMMA Servers == \A p \in Peer : ServerOf(p) \in Server /\ (ServerOf(p) = "allnet" <=> p \in Client)
  BY DEF Server, ServerOf

LEMMA NetStart == NetInit => NetInv
<1> SUFFICES ASSUME NetInit PROVE NetInv
  OBVIOUS
<1>1. NetTyped
  <2>1. \A p \in Peer : 0 <= Size(p)
    <3>1. \A n \in Nat : 0 <= n
      OBVIOUS
    <3> QED  BY <3>1, Sizes
  <2>2. backlog \in [Server -> Seq(Peer)] /\ got \in [Server -> Nat]
    BY DEF NetInit
  <2>3. pieces \in [Peer -> Nat] /\ \A p \in Peer : pieces[p] <= Size(p)
    BY <2>1 DEF NetInit
  <2>4. addr \in [Peer -> {"none", "own", "192.0.2.1", "127.0.0.1"}]
    BY DEF NetInit
  <2>5. conn \in [Peer -> {"new", "binding", "resolved", "open", "refused", "closed"}]
    BY DEF NetInit
  <2> QED  BY <2>2, <2>3, <2>4, <2>5 DEF NetInit, NetTyped
<1>2. "allnet" \in Server /\ Client \subseteq Peer
  BY DEF Server, Peer
<1>3. Served /\ Heard /\ WholeOrSilent /\ AnsweredWhole /\ RepliesArrive
  BY <1>2 DEF NetInit, Served, Heard, WholeOrSilent, AnsweredWhole, RepliesArrive
<1> QED
  BY <1>1, <1>3 DEF NetInv

\* What each client's answer may become while its server does nothing for it.
Undone(p) ==
    \/ answer'[p] = answer[p] /\ (pieces'[p] = pieces[p] \/ answer[p] # "reply")
    \/ answer[p] = "reply" /\ answer'[p] = "reset" /\ pieces[p] # Size(p)

\* What a peer does: the servers' threads are where they were.
LEMMA PeerSteps ==
    ASSUME NetInv, UNCHANGED serverVars, NetTyped',
           paused \subseteq paused', left \subseteq left', \A p \in Client : Undone(p),
           \A p \in Peer : pieces[p] <= pieces'[p],
           \A s \in Server : \/ backlog'[s] = backlog[s]
                             \/ \E p \in Peer : ServerOf(p) = s /\ backlog'[s] = Append(backlog[s], p)
    PROVE  NetInv'
<1>1. at' = at /\ who' = who /\ got' = got
  BY DEF serverVars
<1>2. Excused \subseteq Excused'
  BY DEF Excused
<1>3. Served'
  <2>1. \A s \in Server : \A i \in 1 .. Len(backlog'[s]) : ServerOf(backlog'[s][i]) = s
    <3> SUFFICES ASSUME NEW s \in Server, NEW i \in 1 .. Len(backlog'[s])
                 PROVE  ServerOf(backlog'[s][i]) = s
      OBVIOUS
    <3>1. CASE backlog'[s] = backlog[s]
      BY <3>1 DEF NetInv, Served
    <3>2. CASE \E p \in Peer : ServerOf(p) = s /\ backlog'[s] = Append(backlog[s], p)
      <4>1. PICK p \in Peer : ServerOf(p) = s /\ backlog'[s] = Append(backlog[s], p)
        BY <3>2
      <4>2. backlog[s] \in Seq(Peer)
        BY DEF NetInv, NetTyped
      <4>3. Len(backlog'[s]) = Len(backlog[s]) + 1 /\ Len(backlog[s]) \in Nat
        BY <4>1, <4>2
      <4>4. CASE i = Len(backlog[s]) + 1
        <5>1. backlog'[s][i] = p
          BY <4>1, <4>2, <4>4
        <5> QED  BY <4>1, <5>1
      <4>5. CASE i \in 1 .. Len(backlog[s])
        <5>1. backlog'[s][i] = backlog[s][i]
          BY <4>1, <4>2, <4>5
        <5> QED  BY <4>5, <5>1 DEF NetInv, Served
      <4> QED  BY <4>3, <4>4, <4>5
    <3> QED  BY <3>1, <3>2
  <2> QED  BY <1>1, <2>1 DEF NetInv, Served
<1>4. Heard'
  <2> SUFFICES ASSUME NEW s \in Server, at[s] \in {"recv", "reply"} PROVE got[s] <= pieces'[who[s]]
    BY <1>1 DEF NetInv, Heard
  <2>1. who[s] \in Peer
    BY DEF NetInv, Served
  <2>2. /\ pieces[who[s]] \in Nat /\ pieces'[who[s]] \in Nat /\ pieces[who[s]] <= pieces'[who[s]]
        /\ got[s] \in Nat /\ got[s] <= pieces[who[s]]
    BY <2>1 DEF NetInv, NetTyped, Heard
  <2> QED  BY <2>2
<1>5. WholeOrSilent'
  BY <1>1, <1>2 DEF NetInv, WholeOrSilent
<1>6. AnsweredWhole'
  BY <1>2 DEF NetInv, AnsweredWhole, Undone, Size
<1>7. RepliesArrive'
  <2>1. \A p \in Client : answer'[p] \in {"reset", "dropped"} =>
             answer[p] \in {"reset", "dropped"} \/ (answer[p] = "reply" /\ pieces[p] # Size(p))
    BY DEF Undone
  <2> QED  BY <1>2, <2>1 DEF NetInv, AnsweredWhole, RepliesArrive, Excused
<1> QED
  BY <1>3, <1>4, <1>5, <1>6, <1>7 DEF NetInv

\* A thread that is not made, or ends, leaves what was promised as it was.
LEMMA EndedStep ==
    ASSUME NetInv, NEW s \in Server, at' = [at EXCEPT ![s] = "ended"],
           UNCHANGED <<who, got, pieces, paused, left>>, NetTyped',
           \A q \in Server : backlog'[q] = backlog[q] \/ backlog'[q] = << >>,
           \A p \in Client : answer'[p] = answer[p]
    PROVE  NetInv'
<1>1. at'[s] = "ended" /\ \A q \in Server \ {s} : at'[q] = at[q]
  BY DEF NetInv, NetTyped
<1>2. Served'
  <2>1. \A q \in Server : \A i \in 1 .. Len(backlog'[q]) : ServerOf(backlog'[q][i]) = q
    BY DEF NetInv, Served
  <2> QED  BY <1>1, <2>1 DEF NetInv, Served
<1>3. Heard' /\ WholeOrSilent'
  BY <1>1 DEF NetInv, Heard, WholeOrSilent, Excused, Server
<1>4. AnsweredWhole' /\ RepliesArrive'
  BY DEF NetInv, AnsweredWhole, RepliesArrive, Excused, Size
<1> QED
  BY <1>2, <1>3, <1>4 DEF NetInv

LEMMA ListenStep ==
    ASSUME NetInv, NEW s \in Server, Listen(s),
           UNCHANGED <<taken, pieces, paused, left, answer, backlog>>,
           started' \in BOOLEAN, addr' \in [Peer -> {"none", "own", "192.0.2.1", "127.0.0.1"}],
           conn' \in [Peer -> {"new", "binding", "resolved", "open", "refused", "closed"}]
    PROVE  NetInv'
<1>1. listener' \in [Server -> {"none", "up", "failed"}]
  BY DEF NetInv, NetTyped, Listen
<1>2. CASE UNCHANGED serverVars
  <2>1. NetTyped'
    BY <1>1, <1>2 DEF NetInv, NetTyped, serverVars
  <2>2. \A p \in Peer : pieces[p] <= pieces'[p]
    BY DEF NetInv, NetTyped
  <2> QED  BY <1>2, <2>1, <2>2, PeerSteps DEF Undone
<1>3. CASE ~UNCHANGED serverVars
  <2>1. at' = [at EXCEPT ![s] = "ended"] /\ who' = who /\ got' = got
    BY <1>3 DEF Listen
  <2>2. NetTyped'
    BY <1>1, <2>1 DEF NetInv, NetTyped
  <2> QED  BY <2>1, <2>2, EndedStep
<1> QED
  BY <1>2, <1>3

LEMMA StartSteps ==
    ASSUME NetInv, PassportStart \/ \E p \in Client :
                     \/ BindListen(p)
                     \/ \E how \in {"own", "gethostbyname", "getaddrinfo", "WinHttpConnect"} : Resolve(p, how)
    PROVE  NetInv'
<1>1. CASE PassportStart
  <2>1. Listen("passport") /\ UNCHANGED <<started, taken, addr, conn, pieces, paused, left, answer, backlog>>
    BY <1>1 DEF PassportStart, peerVars
  <2>2. "passport" \in Server
    BY DEF Server
  <2>3. /\ started' \in BOOLEAN /\ addr' \in [Peer -> {"none", "own", "192.0.2.1", "127.0.0.1"}]
        /\ conn' \in [Peer -> {"new", "binding", "resolved", "open", "refused", "closed"}]
    BY <2>1 DEF NetInv, NetTyped
  <2> QED  BY <2>1, <2>2, <2>3, ListenStep
<1>2. ASSUME NEW p \in Client, BindListen(p) PROVE NetInv'
  <2>1. /\ Listen("allnet") /\ UNCHANGED <<started, taken, addr, pieces, paused, left, answer, backlog>>
        /\ conn' = [conn EXCEPT ![p] = IF addr[p] = "own" THEN "new" ELSE "resolved"]
    BY <1>2 DEF BindListen
  <2>2. "allnet" \in Server
    BY DEF Server
  <2>3. /\ started' \in BOOLEAN /\ addr' \in [Peer -> {"none", "own", "192.0.2.1", "127.0.0.1"}]
        /\ conn' \in [Peer -> {"new", "binding", "resolved", "open", "refused", "closed"}]
    BY <2>1 DEF NetInv, NetTyped
  <2> QED  BY <2>1, <2>2, <2>3, ListenStep
<1>3. ASSUME NEW p \in Client, NEW how \in {"own", "gethostbyname", "getaddrinfo", "WinHttpConnect"},
             Resolve(p, how)
      PROVE  NetInv'
  <2>1. Answer(how) \in {"own", "192.0.2.1", "127.0.0.1"}
    <3>1. CASE how = "own"
      BY <3>1 DEF Answer
    <3>2. CASE how = "gethostbyname"
      BY <3>2 DEF Answer
    <3>3. CASE how = "getaddrinfo" \/ how = "WinHttpConnect"
      BY <3>3 DEF Answer
    <3> QED  BY <1>3, <3>1, <3>2, <3>3
  <2>2. /\ addr' \in [Peer -> {"none", "own", "192.0.2.1", "127.0.0.1"}]
        /\ conn' \in [Peer -> {"new", "binding", "resolved", "open", "refused", "closed"}]
    BY <1>3, <2>1 DEF Resolve, NetInv, NetTyped
  <2>3. UNCHANGED <<taken, listener, pieces, paused, left, answer, backlog, serverVars>> /\ started' = TRUE
    BY <1>3 DEF Resolve
  <2>4. NetTyped'
    BY <2>2, <2>3 DEF NetInv, NetTyped, serverVars
  <2>5. \A q \in Peer : pieces[q] <= pieces'[q]
    BY <2>3 DEF NetInv, NetTyped
  <2> QED  BY <2>3, <2>4, <2>5, PeerSteps DEF Undone
<1> QED
  BY <1>1, <1>2, <1>3

LEMMA TalkSteps ==
    ASSUME NetInv, NEW p \in Peer, Connect(p) \/ SendPiece(p) \/ Pause(p) \/ Leave(p)
    PROVE  NetInv'
<1>0. \A q \in Peer : pieces[q] \in Nat /\ pieces[q] <= pieces[q]
  BY DEF NetInv, NetTyped
<1>1. CASE Connect(p)
  <2> DEFINE s  == ServerOf(p)
             up == listener[s] = "up" /\ ToLoopback(addr[p]) = "127.0.0.1"
  <2>1. s \in Server
    BY Servers
  <2>2. /\ conn' = [conn EXCEPT ![p] = IF up THEN "open" ELSE "refused"]
        /\ backlog' = IF up THEN [backlog EXCEPT ![s] = Append(@, p)] ELSE backlog
        /\ addr' = [addr EXCEPT ![p] = "none"]
        /\ UNCHANGED <<started, taken, listener, pieces, paused, left, answer, serverVars>>
    BY <1>1 DEF Connect
  <2> HIDE DEF up
  <2>3. \A q \in Server : \/ backlog'[q] = backlog[q]
                          \/ \E r \in Peer : ServerOf(r) = q /\ backlog'[q] = Append(backlog[q], r)
    BY <2>1, <2>2 DEF NetInv, NetTyped
  <2>4. /\ addr' \in [Peer -> {"none", "own", "192.0.2.1", "127.0.0.1"}]
        /\ conn' \in [Peer -> {"new", "binding", "resolved", "open", "refused", "closed"}]
    BY <2>2 DEF NetInv, NetTyped
  <2>5. backlog' \in [Server -> Seq(Peer)]
    BY <2>1, <2>2 DEF NetInv, NetTyped
  <2>6. NetTyped'
    BY <2>2, <2>4, <2>5 DEF NetInv, NetTyped, serverVars
  <2> QED  BY <1>0, <2>2, <2>3, <2>6, PeerSteps DEF Undone
<1>2. CASE SendPiece(p)
  <2>1. /\ pieces' = [pieces EXCEPT ![p] = @ + 1] /\ pieces[p] < Size(p) /\ pieces[p] \in Nat
        /\ answer' = IF answer[p] = "reply" THEN [answer EXCEPT ![p] = "reset"] ELSE answer
        /\ UNCHANGED <<started, taken, listener, addr, conn, paused, left, backlog, serverVars>>
    BY <1>2 DEF SendPiece, NetInv, NetTyped
  <2>2. pieces' \in [Peer -> Nat] /\ \A q \in Peer : pieces'[q] <= Size(q) /\ pieces[q] <= pieces'[q]
    BY <2>1, Sizes DEF NetInv, NetTyped
  <2>3. answer' \in [Peer -> {"none", "reply", "reset", "dropped"}]
    BY <2>1 DEF NetInv, NetTyped
  <2>4. NetTyped'
    BY <2>1, <2>2, <2>3 DEF NetInv, NetTyped, serverVars
  <2>5. \A q \in Client : Undone(q)
    <3> SUFFICES ASSUME NEW q \in Client PROVE Undone(q)
      OBVIOUS
    <3>1. CASE q = p
      <4>1. pieces[p] # Size(p)
        BY <2>1, Sizes
      <4> QED  BY <2>1, <3>1, <4>1 DEF Undone, NetInv, NetTyped
    <3>2. CASE q # p
      <4>1. q \in Peer
        BY DEF Peer
      <4> QED  BY <2>1, <3>2, <4>1 DEF Undone, NetInv, NetTyped
    <3> QED  BY <3>1, <3>2
  <2> QED  BY <2>1, <2>2, <2>4, <2>5, PeerSteps
<1>3. CASE Pause(p) \/ Leave(p)
  <2>1. /\ paused \subseteq paused' /\ paused' \subseteq MayPause /\ left \subseteq left' /\ left' \subseteq MayLeave
        /\ UNCHANGED <<started, taken, listener, addr, conn, pieces, answer, backlog, serverVars>>
    BY <1>3 DEF Pause, Leave, NetInv, NetTyped
  <2>2. NetTyped'
    BY <2>1 DEF NetInv, NetTyped, serverVars
  <2> QED  BY <1>0, <2>1, <2>2, PeerSteps DEF Undone
<1> QED
  BY <1>1, <1>2, <1>3

\* A server closes a connection: a client's answer is thrown away only if it has fallen
\* silent or gone, and is a reply only if it has, or has sent everything.
LEMMA CloseStep ==
    ASSUME NetInv, NEW s \in Server, at[s] \in {"recv", "reply"}, NEW a \in {"reply", "reset", "dropped"},
           Close(s, a),
           who[s] \in Client => \/ who[s] \in Excused
                                \/ a = "reply" /\ pieces[who[s]] = Size(who[s])
    PROVE  NetInv'
<1> DEFINE p == who[s]
<1>1. /\ answer' = [answer EXCEPT ![p] = a] /\ conn' = [conn EXCEPT ![p] = "closed"]
      /\ at' = [at EXCEPT ![s] = "accept"] /\ who' = [who EXCEPT ![s] = Nobody]
      /\ got' = [got EXCEPT ![s] = 0]
      /\ UNCHANGED <<started, taken, listener, addr, pieces, paused, left, backlog>>
  BY DEF Close
<1>2. p \in Peer
  BY DEF NetInv, Served
<1>3. NetTyped'
  BY <1>1 DEF NetInv, NetTyped
<1>4. \A q \in Server \ {s} : at'[q] = at[q] /\ who'[q] = who[q] /\ got'[q] = got[q]
  BY <1>1 DEF NetInv, NetTyped
<1>5. at'[s] = "accept" /\ got'[s] = 0
  BY <1>1 DEF NetInv, NetTyped
<1>6. Served'
  BY <1>1, <1>4, <1>5 DEF NetInv, Served
<1>7. Heard' /\ WholeOrSilent'
  <2>1. Heard'
    BY <1>1, <1>4, <1>5 DEF NetInv, Heard
  <2>2. "allnet" \in Server
    BY DEF Server
  <2> QED  BY <1>1, <1>4, <1>5, <2>1, <2>2 DEF NetInv, WholeOrSilent, Excused
<1>8. answer'[p] = a /\ \A q \in Client \ {p} : answer'[q] = answer[q]
  <2>1. Client \subseteq Peer
    BY DEF Peer
  <2> QED  BY <1>1, <1>2, <2>1 DEF NetInv, NetTyped
<1>9. AnsweredWhole' /\ RepliesArrive'
  BY <1>1, <1>8 DEF NetInv, AnsweredWhole, RepliesArrive, Excused, Size
<1> QED
  BY <1>3, <1>6, <1>7, <1>9 DEF NetInv

LEMMA AcceptStep ==
    ASSUME NetInv, NEW s \in Server, Accept(s) PROVE NetInv'
<1>1. /\ at[s] = "accept" /\ backlog[s] # << >>
      /\ who' = [who EXCEPT ![s] = Head(backlog[s])] /\ backlog' = [backlog EXCEPT ![s] = Tail(@)]
      /\ at' = [at EXCEPT ![s] = "recv"]
      /\ UNCHANGED <<started, taken, listener, got, addr, conn, pieces, paused, left, answer>>
  BY DEF Accept, peerVars
<1>2. backlog[s] \in Seq(Peer)
  BY DEF NetInv, NetTyped
<1>3. /\ Head(backlog[s]) = backlog[s][1] /\ 1 \in 1 .. Len(backlog[s]) /\ backlog[s][1] \in Peer
      /\ Tail(backlog[s]) \in Seq(Peer)
      /\ \A i \in 1 .. Len(Tail(backlog[s])) : /\ Tail(backlog[s])[i] = backlog[s][i + 1]
                                               /\ i + 1 \in 1 .. Len(backlog[s])
  BY <1>1, <1>2
<1>4. /\ who' \in [Server -> Peer \cup {Nobody}] /\ at' \in [Server -> {"accept", "recv", "reply", "ended"}]
      /\ backlog' \in [Server -> Seq(Peer)]
  BY <1>1, <1>3 DEF NetInv, NetTyped
<1>5. NetTyped'
  BY <1>1, <1>4 DEF NetInv, NetTyped
<1>6. /\ \A q \in Server \ {s} : at'[q] = at[q] /\ who'[q] = who[q] /\ backlog'[q] = backlog[q]
      /\ at'[s] = "recv" /\ who'[s] = backlog[s][1] /\ backlog'[s] = Tail(backlog[s])
  BY <1>1, <1>3 DEF NetInv, NetTyped
<1>7. Served'
  <2>1. \A q \in Server : \A i \in 1 .. Len(backlog'[q]) : ServerOf(backlog'[q][i]) = q
    <3>1. \A q \in Server \ {s} : \A i \in 1 .. Len(backlog'[q]) : ServerOf(backlog'[q][i]) = q
      BY <1>6 DEF NetInv, Served
    <3>2. \A i \in 1 .. Len(backlog'[s]) : ServerOf(backlog'[s][i]) = s
      <4> SUFFICES ASSUME NEW i \in 1 .. Len(backlog'[s]) PROVE ServerOf(backlog'[s][i]) = s
        OBVIOUS
      <4>1. backlog'[s][i] = backlog[s][i + 1] /\ i + 1 \in 1 .. Len(backlog[s])
        BY <1>3, <1>6
      <4> QED  BY <4>1 DEF NetInv, Served
    <3> QED  BY <3>1, <3>2
  <2>2. \A q \in Server : at'[q] \in {"recv", "reply"} => who'[q] \in Peer /\ ServerOf(who'[q]) = q
    BY <1>3, <1>6 DEF NetInv, Served
  <2> QED  BY <2>1, <2>2 DEF Served
<1>8. Heard'
  <2>1. got[s] = 0 /\ pieces[backlog[s][1]] \in Nat
    BY <1>1, <1>3 DEF NetInv, Heard, NetTyped
  <2>2. got[s] <= pieces[backlog[s][1]]
    BY <2>1
  <2> QED  BY <1>1, <1>6, <2>2 DEF NetInv, Heard
<1>9. WholeOrSilent' /\ AnsweredWhole' /\ RepliesArrive'
  <2>1. "allnet" \in Server
    BY DEF Server
  <2> QED  BY <1>1, <1>6, <2>1 DEF NetInv, WholeOrSilent, AnsweredWhole, RepliesArrive, Excused, Size
<1> QED
  BY <1>5, <1>7, <1>8, <1>9 DEF NetInv

LEMMA AcceptFailsStep ==
    ASSUME NetInv, NEW s \in Server, AcceptFails(s) PROVE NetInv'
<1>1. at' = [at EXCEPT ![s] = "ended"] /\ UNCHANGED <<started, taken, addr, pieces, paused, left, who, got>>
  BY DEF AcceptFails
<1>2. CASE s = "allnet"
  <2>1. UNCHANGED <<listener, conn, answer, backlog>>
    BY <1>2 DEF AcceptFails
  <2>2. NetTyped'
    BY <1>1, <2>1 DEF NetInv, NetTyped
  <2> QED  BY <1>1, <2>1, <2>2, EndedStep
<1>3. CASE s # "allnet"
  <2>1. /\ listener' = [listener EXCEPT ![s] = "failed"] /\ backlog' = [backlog EXCEPT ![s] = << >>]
        /\ conn' = [p \in Peer |-> IF p \in Waiting(s) THEN "closed" ELSE conn[p]]
        /\ answer' = [p \in Peer |-> IF p \in Waiting(s) THEN "reset" ELSE answer[p]]
    BY <1>3 DEF AcceptFails
  <2>2. NetTyped'
    <3>1. backlog' \in [Server -> Seq(Peer)] /\ listener' \in [Server -> {"none", "up", "failed"}]
      BY <2>1 DEF NetInv, NetTyped
    <3>2. conn' \in [Peer -> {"new", "binding", "resolved", "open", "refused", "closed"}]
      BY <2>1 DEF NetInv, NetTyped
    <3>3. answer' \in [Peer -> {"none", "reply", "reset", "dropped"}]
      BY <2>1 DEF NetInv, NetTyped
    <3> QED  BY <1>1, <3>1, <3>2, <3>3 DEF NetInv, NetTyped
  <2>3. \A p \in Client : answer'[p] = answer[p]
    <3> SUFFICES ASSUME NEW p \in Client PROVE answer'[p] = answer[p]
      OBVIOUS
    <3>1. p \in Peer /\ ServerOf(p) = "allnet"
      BY DEF Peer, ServerOf
    <3>2. p \notin Waiting(s)
      <4>1. \A i \in DOMAIN backlog[s] : ServerOf(backlog[s][i]) = s
        <5>1. DOMAIN backlog[s] = 1 .. Len(backlog[s])
          BY DEF NetInv, NetTyped
        <5> QED  BY <5>1 DEF NetInv, Served
      <4> QED  BY <1>3, <3>1, <4>1 DEF Waiting
    <3> QED  BY <2>1, <3>1, <3>2
  <2>4. \A q \in Server : backlog'[q] = backlog[q] \/ backlog'[q] = << >>
    BY <2>1 DEF NetInv, NetTyped
  <2> QED  BY <1>1, <2>2, <2>3, <2>4, EndedStep
<1> QED
  BY <1>2, <1>3

\* The steps of a server that is reading.
LEMMA ReadSteps ==
    ASSUME NetInv, NEW s \in Server, Receive(s) \/ GoOn(s) \/ GiveUpOn(s) PROVE NetInv'
<1>0. "allnet" \in Server
  BY DEF Server
<1>1. CASE Receive(s)
  <2>1. PICK n \in got[s] + 1 .. pieces[who[s]] : got' = [got EXCEPT ![s] = n]
    BY <1>1 DEF Receive
  <2>2. /\ at[s] = "recv"
        /\ UNCHANGED <<started, taken, listener, addr, conn, pieces, paused, left, answer, backlog, at, who>>
    BY <1>1 DEF Receive, peerVars
  <2>3. who[s] \in Peer /\ pieces[who[s]] \in Nat /\ got[s] \in Nat
    BY <2>2 DEF NetInv, Served, NetTyped
  <2>4. n \in Nat /\ n <= pieces[who[s]]
    BY <2>3
  <2>5. NetTyped'
    BY <2>1, <2>2, <2>4 DEF NetInv, NetTyped
  <2>6. got'[s] = n /\ \A q \in Server \ {s} : got'[q] = got[q]
    BY <2>1 DEF NetInv, NetTyped
  <2>7. Heard' /\ WholeOrSilent'
    BY <1>0, <2>2, <2>4, <2>6 DEF NetInv, Heard, WholeOrSilent, Excused
  <2> QED  BY <2>2, <2>5, <2>7 DEF NetInv, Served, AnsweredWhole, RepliesArrive, Excused, Size
<1>2. ASSUME at[s] = "recv", at' = [at EXCEPT ![s] = "reply"],
             s = "allnet" => got[s] >= HeadLen + BodyLen \/ who[s] \in Excused,
             UNCHANGED <<started, taken, listener, peerVars, backlog, who, got>>
      PROVE  NetInv'
  <2>1. UNCHANGED <<started, taken, listener, addr, conn, pieces, paused, left, answer, backlog, who, got>>
    BY <1>2 DEF peerVars
  <2>2. NetTyped'
    BY <1>2, <2>1 DEF NetInv, NetTyped
  <2>3. at'[s] = "reply" /\ \A q \in Server \ {s} : at'[q] = at[q]
    BY <1>2 DEF NetInv, NetTyped
  <2>4. Served' /\ Heard'
    BY <1>2, <2>1, <2>3 DEF NetInv, Served, Heard
  <2>5. WholeOrSilent'
    BY <1>0, <1>2, <2>1, <2>3 DEF NetInv, WholeOrSilent, Excused
  <2> QED  BY <2>1, <2>2, <2>4, <2>5 DEF NetInv, AnsweredWhole, RepliesArrive, Excused, Size
<1>3. CASE GoOn(s)
  BY <1>2, <1>3 DEF GoOn, Enough
<1>4. CASE GiveUpOn(s)
  <2>1. at[s] = "recv" /\ who[s] \in Excused
    BY <1>4 DEF GiveUpOn, Excused
  <2>2. CASE s = "passport" \/ got[s] < HeadLen
    BY <1>4, <2>1, <2>2, CloseStep DEF GiveUpOn
  <2>3. CASE ~(s = "passport" \/ got[s] < HeadLen)
    BY <1>2, <1>4, <2>1, <2>3 DEF GiveUpOn
  <2> QED  BY <2>2, <2>3
<1> QED
  BY <1>1, <1>3, <1>4

LEMMA ReplyStep ==
    ASSUME NetInv, NEW s \in Server, Reply(s) PROVE NetInv'
<1> DEFINE a == IF pieces[who[s]] > got[s] THEN "reset" ELSE "reply"
<1>1. at[s] = "reply" /\ Close(s, a)
  BY DEF Reply
<1>2. who[s] \in Peer /\ ServerOf(who[s]) = s
  BY <1>1 DEF NetInv, Served
<1>3. ASSUME who[s] \in Client, who[s] \notin Excused
      PROVE  a = "reply" /\ pieces[who[s]] = Size(who[s])
  <2>1. s = "allnet"
    BY <1>2, <1>3, Servers
  <2>2. got[s] >= HeadLen + BodyLen /\ got[s] <= pieces[who[s]]
    BY <1>1, <1>3, <2>1 DEF NetInv, WholeOrSilent, Heard
  <2>3. /\ pieces[who[s]] <= Size(who[s]) /\ pieces[who[s]] \in Nat /\ got[s] \in Nat
        /\ Size(who[s]) = HeadLen + BodyLen /\ HeadLen + BodyLen \in Nat
    BY <1>2, <1>3, Sizes, LoopbackAssumption DEF NetInv, NetTyped
  <2> QED  BY <2>2, <2>3
<1>4. a \in {"reply", "reset", "dropped"}
  OBVIOUS
<1> HIDE DEF a
<1> QED
  BY <1>1, <1>3, <1>4, CloseStep

LEMMA NetAlways == Spec => []NetInv
<1>1. Init => NetInv
  BY NetStart DEF Init
<1>2. ASSUME NetInv, UNCHANGED netVars PROVE NetInv'
  BY <1>2 DEF netVars, NetInv, NetTyped, Served, Heard, WholeOrSilent, AnsweredWhole, RepliesArrive,
              Excused, Size
<1>3. ASSUME NetInv, NEW s \in Server, NetNext(s) PROVE NetInv'
  BY <1>3, StartSteps, TalkSteps, AcceptStep, AcceptFailsStep, ReadSteps, ReplyStep DEF NetNext, Serve
<1>4. NetInv /\ [Next]_vars => NetInv'
  BY <1>2, <1>3, Parts
<1> QED
  BY <1>1, <1>4, PTL DEF Spec

\* For any number of the game's threads and any cut of their requests, however they
\* queue behind each other, fall silent or go away, and wherever a thread is not made
\* or its accept() fails: ALL.Net's reply is thrown away, or a request to it dropped,
\* only when its sender fell silent part way or went away.
THEOREM RepliesReach == Spec => []RepliesArrive
<1>1. NetInv => RepliesArrive
  BY DEF NetInv
<1> QED
  BY <1>1, NetAlways, PTL
-----------------------------------------------------------------------------
(***************************************************************************)
(* The processes.  The mark goes from parent to child, so the chain stops  *)
(* at the child; a parent is gone only after its child.                    *)
(***************************************************************************)
Family ==
    /\ proc \in [Gen -> {"none", "loading", "reserving", "suspended", "waiting", "guest", "gone"}]
    /\ env \subseteq Gen /\ reserved \subseteq Gen
    /\ status \in [Gen -> {"none", "failed", "killed", "guest's"}]
    /\ proc[2] = "none" /\ status[2] = "none"
    /\ proc[0] \notin {"none", "suspended"} /\ proc[1] \notin {"reserving", "waiting"}
    /\ proc[1] # "none" => 1 \in env /\ proc[0] \in {"reserving", "waiting", "gone"}
    /\ proc[0] = "reserving" <=> proc[1] = "suspended"
    /\ proc[0] = "waiting" => proc[1] # "none"
    /\ proc[0] = "gone" => proc[1] \in {"none", "gone"}
    /\ status[1] # "none" => proc[1] = "gone"
    /\ proc[0] = "gone" /\ status[1] = "guest's" => status[0] = "guest's"

LEMMA FamilyStart == ImageInit => Family
  BY DEF ImageInit, Family, Gen

\* One step of the first process.
LEMMA ParentStep ==
    ASSUME Family, Launch(0) PROVE Family'
<1>1. 0 \in Gen /\ 1 \in Gen /\ 2 \in Gen /\ 0 + 1 = 1
  BY DEF Gen
<1>2. ASSUME NEW x, Ends(0, x), x \in {"none", "failed", "killed", "guest's"}
      PROVE  /\ proc' = [proc EXCEPT ![0] = "gone"] /\ status' = [status EXCEPT ![0] = x]
             /\ proc'[0] = "gone" /\ proc'[1] = proc[1] /\ proc'[2] = proc[2]
             /\ status'[0] = x /\ status'[1] = status[1] /\ status'[2] = status[2]
             /\ proc' \in [Gen -> {"none", "loading", "reserving", "suspended", "waiting", "guest", "gone"}]
             /\ status' \in [Gen -> {"none", "failed", "killed", "guest's"}]
  BY <1>1, <1>2 DEF Ends, Family
<1>3. CASE NotAnImage(0) \/ GiveUp(0) \/ CreateProcessFails(0)
  <2>1. /\ proc[0] = "loading" /\ Ends(0, "failed") /\ env' \subseteq env \cup {0} /\ env \subseteq env'
        /\ reserved' = reserved
    BY <1>3 DEF NotAnImage, GiveUp, CreateProcessFails
  <2>2. proc[1] = "none" /\ status[1] = "none"
    BY <2>1 DEF Family
  <2> QED  BY <1>1, <1>2, <2>1, <2>2 DEF Family
<1>4. CASE GuestEnds(0)
  <2>1. proc[0] = "guest" /\ Ends(0, "guest's") /\ env' = env /\ reserved' = reserved
    BY <1>4 DEF GuestEnds
  <2> QED  BY <1>1, <1>2, <2>1 DEF Family
<1>5. CASE PassOn(0)
  <2>1. proc[0] = "waiting" /\ proc[1] = "gone" /\ Ends(0, status[1]) /\ env' = env /\ reserved' = reserved
    BY <1>1, <1>5 DEF PassOn
  <2>2. status[1] \in {"none", "failed", "killed", "guest's"}
    BY <1>1 DEF Family
  <2> QED  BY <1>1, <1>2, <2>1, <2>2 DEF Family
<1>6. CASE Load(0)
  <2>1. /\ proc[0] = "loading" /\ proc' = [proc EXCEPT ![0] = "guest"]
        /\ env' = env /\ reserved' = reserved /\ status' = status
    BY <1>6 DEF Load
  <2> QED  BY <1>1, <2>1 DEF Family
<1>7. CASE Relaunch(0)
  <2>1. /\ proc[0] = "loading" /\ proc' = [proc EXCEPT ![0] = "reserving", ![1] = "suspended"]
        /\ env' = env \cup {0, 1} /\ reserved' = reserved /\ status' = status
    BY <1>1, <1>7 DEF Relaunch
  <2>2. proc'[0] = "reserving" /\ proc'[1] = "suspended" /\ proc'[2] = proc[2]
    BY <1>1, <2>1 DEF Family
  <2>3. proc[1] = "none"
    BY <2>1 DEF Family
  <2> QED  BY <1>1, <2>1, <2>2, <2>3 DEF Family
<1>8. CASE ReserveInChild(0)
  <2>1. /\ proc[0] = "reserving" /\ proc' = [proc EXCEPT ![0] = "waiting", ![1] = "loading"]
        /\ env' = env /\ reserved' = reserved \cup {1} /\ status' = status
    BY <1>1, <1>8 DEF ReserveInChild
  <2>2. proc'[0] = "waiting" /\ proc'[1] = "loading" /\ proc'[2] = proc[2]
    BY <1>1, <2>1 DEF Family
  <2> QED  BY <1>1, <2>1, <2>2 DEF Family
<1>9. CASE ReserveFails(0)
  <2>1. /\ proc[0] = "reserving" /\ proc' = [proc EXCEPT ![0] = "gone", ![1] = "gone"]
        /\ env' = env /\ reserved' = reserved
        /\ status' = [status EXCEPT ![0] = "failed", ![1] = "killed"]
    BY <1>1, <1>9 DEF ReserveFails
  <2>2. /\ proc'[0] = "gone" /\ proc'[1] = "gone" /\ proc'[2] = proc[2]
        /\ status'[0] = "failed" /\ status'[1] = "killed" /\ status'[2] = status[2]
    BY <1>1, <2>1 DEF Family
  <2> QED  BY <1>1, <2>1, <2>2 DEF Family
<1> QED
  BY <1>3, <1>4, <1>5, <1>6, <1>7, <1>8, <1>9 DEF Launch

\* One step of its child, which is marked and starts none; there is no third process.
LEMMA ChildStep ==
    ASSUME Family, NEW g \in {1, 2}, Launch(g) PROVE Family'
<1>1. 0 \in Gen /\ 1 \in Gen /\ 2 \in Gen
  BY DEF Gen
<1>2. g = 1 /\ proc[1] \in {"loading", "guest"}
  BY DEF Family, Launch, NotAnImage, Load, Relaunch, GiveUp, CreateProcessFails, ReserveInChild,
         ReserveFails, GuestEnds, PassOn
<1>3. 1 \in env /\ proc[0] = "waiting"
  BY <1>2 DEF Family
<1>4. CASE Load(1)
  <2>1. /\ proc' = [proc EXCEPT ![1] = "guest"]
        /\ env' = env /\ reserved' = reserved /\ status' = status
    BY <1>4 DEF Load
  <2> QED  BY <1>1, <1>2, <1>3, <2>1 DEF Family
<1>5. CASE ~Load(1)
  <2>1. PICK x \in {"failed", "guest's"} : Ends(1, x) /\ env' = env /\ reserved' = reserved
    BY <1>2, <1>3, <1>5 DEF Launch, NotAnImage, Relaunch, GiveUp, CreateProcessFails, ReserveInChild,
                            ReserveFails, GuestEnds, PassOn
  <2>2. /\ proc' = [proc EXCEPT ![1] = "gone"] /\ status' = [status EXCEPT ![1] = x]
        /\ proc'[1] = "gone" /\ proc'[0] = proc[0] /\ proc'[2] = proc[2]
        /\ status'[0] = status[0] /\ status'[2] = status[2]
    BY <1>1, <2>1 DEF Ends, Family
  <2> QED  BY <1>1, <1>2, <1>3, <2>1, <2>2 DEF Family
<1> QED
  BY <1>2, <1>4, <1>5

LEMMA FamilyAlways == Spec => []Family
<1>1. Init => Family
  BY FamilyStart DEF Init
<1>2. ASSUME Family, UNCHANGED procVars PROVE Family'
  BY <1>2 DEF procVars, Family
<1>3. ASSUME Family, ImageNext PROVE Family'
  <2>1. CASE \E g \in Gen : Launch(g)
    <3>1. Launch(0) \/ \E g \in {1, 2} : Launch(g)
      BY <2>1 DEF Gen
    <3> QED  BY <1>3, <3>1, ParentStep, ChildStep
  <2>2. CASE ~\E g \in Gen : Launch(g)
    <3>1. UNCHANGED procVars
      BY <1>3, <2>2 DEF ImageNext, LoadLibrary, LoadUntold, Writes, Diff, Plant, Resnapshot
    <3> QED  BY <1>2, <1>3, <3>1
  <2> QED  BY <2>1, <2>2
<1>4. UNCHANGED imageVars => UNCHANGED procVars
  BY DEF imageVars, procVars
<1>5. Family /\ [Next]_vars => Family'
  BY <1>2, <1>3, <1>4, Parts
<1> QED
  BY <1>1, <1>5, PTL DEF Spec

\* Wherever starting the child, reserving in it or loading fails: one process runs
\* the game, no child starts another, and the first process ends as the game did.
THEOREM GuestIsOne == Spec => []OneGuest
<1>1. Family => OneGuest
  <2> SUFFICES ASSUME Family PROVE OneGuest
    OBVIOUS
  <2> DEFINE G == {g \in Gen : proc[g] = "guest"}
  <2>1. G \subseteq {0} \/ G \subseteq {1}
    BY DEF Family, Gen
  <2>2. Cardinality(G) <= 1
    <3>1. \A x : IsFiniteSet({x}) /\ Cardinality({x}) = 1
      BY FS_Singleton
    <3>2. ASSUME NEW x, G \in SUBSET {x} PROVE Cardinality(G) <= 1
      <4> HIDE DEF G
      <4>1. Cardinality(G) <= Cardinality({x})
        BY <3>1, <3>2, FS_Subset
      <4> QED  BY <3>1, <4>1
    <3> QED  BY <2>1, <3>2
  <2>3. \A g \in Gen \ {2} : status[g + 1] = "guest's" /\ proc[g] = "gone" => status[g] = "guest's"
    <3>1. \A g \in Gen \ {2} : g = 0 \/ g = 1
      BY DEF Gen
    <3> QED  BY <3>1 DEF Family
  <2> QED  BY <2>2, <2>3 DEF OneGuest, Family
<1> QED
  BY <1>1, FamilyAlways, PTL
-----------------------------------------------------------------------------
(***************************************************************************)
(* The code.  What differs from the copy, and was not left unsaid, is one  *)
(* library's that is in, or the one planted jump's.                        *)
(***************************************************************************)
CodeTyped ==
    /\ code \in [Cell -> Writer] /\ copy \in [Cell -> Writer]
    /\ libs \in [Dll -> {"out", "in", "told"}]
    /\ planting \subseteq Cell /\ blamed \subseteq Dll \X Writer /\ unsaid \subseteq Writer

Accounted ==
    \A c \in Cell : code[c] # copy[c] => \/ code[c] \in unsaid
                                         \/ code[c] \in Coming
                                         \/ c \in planting /\ code[c] = "planted"

\* Who comes in together, and a jump planted meanwhile, is among the unsaid.
Together ==
    /\ \A d, e \in Coming : d = e \/ d \in unsaid
    /\ planting # {} /\ Coming # {} => "planted" \in unsaid
    /\ \A c, e \in planting : c = e

CodeInv == CodeTyped /\ Accounted /\ Together /\ BlamedRight

LEMMA WritesTyped ==
    ASSUME CodeInv, NEW d \in Dll, NEW cells \in SUBSET Cell, Writes(d, cells)
    PROVE  /\ code' = [c \in Cell |-> IF c \in cells THEN d ELSE code[c]]
           /\ code' \in [Cell -> Writer] /\ libs[d] = "out"
           /\ UNCHANGED <<copy, planting, blamed>>
  BY DEF Writes, CodeInv, CodeTyped, Writer

LEMMA CodeAlways == Spec => []CodeInv
<1>1. Init => CodeInv
  BY DEF Init, ImageInit, CodeInv, CodeTyped, Accounted, Together, BlamedRight, Writer, Coming
<1>2. ASSUME CodeInv, UNCHANGED codeVars PROVE CodeInv'
  BY <1>2 DEF codeVars, CodeInv, CodeTyped, Accounted, Together, BlamedRight, Writer, Coming
<1>3. ASSUME CodeInv, NEW d \in Dll, NEW cells \in SUBSET Cell, LoadLibrary(d, cells) PROVE CodeInv'
  <2>1. /\ code' = [c \in Cell |-> IF c \in cells THEN d ELSE code[c]]
        /\ code' \in [Cell -> Writer] /\ libs[d] = "out"
        /\ UNCHANGED <<copy, planting, blamed>>
    BY <1>3, WritesTyped DEF LoadLibrary
  <2>2. /\ libs' = [libs EXCEPT ![d] = "in"]
        /\ unsaid' = unsaid \cup (IF Coming = {} THEN {} ELSE Coming \cup {d})
                            \cup (IF planting = {} THEN {} ELSE {"planted"})
    BY <1>3 DEF LoadLibrary
  <2>3. CodeTyped'
    <3>1. unsaid' \subseteq Writer
      BY <1>3, <2>2 DEF CodeInv, CodeTyped, Writer, Coming
    <3> QED  BY <1>3, <2>1, <2>2, <3>1 DEF CodeInv, CodeTyped
  <2>4. Coming' = Coming \cup {d}
    BY <1>3, <2>2 DEF CodeInv, CodeTyped, Coming
  <2>5. unsaid \subseteq unsaid'
    BY <2>2
  <2>6. Accounted'
    BY <1>3, <2>1, <2>4, <2>5 DEF CodeInv, Accounted
  <2>7. Together'
    <3>1. \A e, g \in Coming' : e = g \/ e \in unsaid'
      BY <1>3, <2>2, <2>4 DEF CodeInv, Together
    <3>2. planting' # {} => "planted" \in unsaid'
      BY <2>1, <2>2
    <3> QED  BY <1>3, <2>1, <3>1, <3>2 DEF CodeInv, Together
  <2> QED  BY <1>3, <2>1, <2>3, <2>5, <2>6, <2>7 DEF CodeInv, BlamedRight
<1>4. ASSUME CodeInv, NEW d \in Dll, NEW cells \in SUBSET Cell, LoadUntold(d, cells) PROVE CodeInv'
  <2>1. /\ code' = [c \in Cell |-> IF c \in cells THEN d ELSE code[c]]
        /\ code' \in [Cell -> Writer] /\ libs[d] = "out"
        /\ UNCHANGED <<copy, planting, blamed>>
    BY <1>4, WritesTyped DEF LoadUntold
  <2>2. libs' = [libs EXCEPT ![d] = "told"] /\ unsaid' = unsaid \cup {d}
    BY <1>4 DEF LoadUntold
  <2>3. CodeTyped'
    <3>1. unsaid' \subseteq Writer
      BY <1>4, <2>2 DEF CodeInv, CodeTyped, Writer
    <3> QED  BY <1>4, <2>1, <2>2, <3>1 DEF CodeInv, CodeTyped
  <2>4. Coming' = Coming
    BY <1>4, <2>1, <2>2 DEF CodeInv, CodeTyped, Coming
  <2>5. Accounted'
    BY <1>4, <2>1, <2>2, <2>4 DEF CodeInv, Accounted
  <2>6. Together'
    BY <1>4, <2>1, <2>2, <2>4 DEF CodeInv, Together
  <2> QED  BY <1>4, <2>1, <2>2, <2>3, <2>5, <2>6 DEF CodeInv, BlamedRight
<1>5. ASSUME CodeInv, NEW d \in Dll, NEW told \in SUBSET Cell, Diff(d, told) PROVE CodeInv'
  <2> DEFINE new == {c \in Cell : code[c] # copy[c]}
  <2>1. /\ libs[d] = "in" /\ told \subseteq new
        /\ libs' = [libs EXCEPT ![d] = "told"]
        /\ copy' = [c \in Cell |-> IF c \in told THEN code[c] ELSE copy[c]]
        /\ blamed' = blamed \cup {<<d, code[c]>> : c \in told}
        /\ unsaid' = unsaid \cup {code[c] : c \in new \ told}
        /\ UNCHANGED <<code, planting>>
    BY <1>5 DEF Diff
  <2>2. CodeTyped'
    <3>1. \A c \in told : <<d, code[c]>> \in Dll \X Writer
      BY <1>5 DEF CodeInv, CodeTyped
    <3>2. unsaid' \subseteq Writer
      BY <1>5, <2>1 DEF CodeInv, CodeTyped
    <3>3. libs' \in [Dll -> {"out", "in", "told"}] /\ copy' \in [Cell -> Writer]
      BY <1>5, <2>1 DEF CodeInv, CodeTyped
    <3> QED  BY <1>5, <2>1, <3>1, <3>2, <3>3 DEF CodeInv, CodeTyped
  <2>3. Coming' = Coming \ {d} /\ d \in Coming
    BY <1>5, <2>1 DEF CodeInv, CodeTyped, Coming
  <2>4. unsaid \subseteq unsaid'
    BY <2>1
  <2>5. Accounted'
    <3> SUFFICES ASSUME NEW c \in Cell, code'[c] # copy'[c] PROVE code'[c] \in unsaid'
      BY DEF Accounted
    <3>1. c \in new \ told
      BY <2>1
    <3> QED  BY <2>1, <3>1
  <2>6. Together'
    BY <1>5, <2>1, <2>3, <2>4 DEF CodeInv, Together
  <2>7. BlamedRight'
    <3> SUFFICES ASSUME NEW b \in blamed' PROVE b[1] = b[2] \/ b[2] \in unsaid'
      BY DEF BlamedRight
    <3>1. CASE b \in blamed
      BY <1>5, <2>4, <3>1 DEF CodeInv, BlamedRight
    <3>2. CASE b \notin blamed
      <4>1. PICK c \in told : b = <<d, code[c]>>
        BY <2>1, <3>2
      <4>2. c \in Cell /\ code[c] # copy[c]
        BY <2>1, <4>1
      <4>3. code[c] \in unsaid \/ code[c] = d
        BY <1>5, <2>3, <4>2 DEF CodeInv, Accounted, Together
      <4> QED  BY <2>4, <4>1, <4>3
    <3> QED  BY <3>1, <3>2
  <2> QED  BY <2>2, <2>5, <2>6, <2>7 DEF CodeInv
<1>6. ASSUME CodeInv, NEW c \in Cell, Plant(c) PROVE CodeInv'
  <2>1. /\ planting = {} /\ code' = [code EXCEPT ![c] = "planted"] /\ planting' = {c}
        /\ unsaid' = IF Coming = {} THEN unsaid ELSE unsaid \cup {"planted"}
        /\ UNCHANGED <<copy, libs, blamed>>
    BY <1>6 DEF Plant
  <2>2. CodeTyped'
    <3>1. unsaid' \subseteq Writer
      BY <1>6, <2>1 DEF CodeInv, CodeTyped, Writer
    <3> QED  BY <1>6, <2>1, <3>1 DEF CodeInv, CodeTyped, Writer
  <2>3. code'[c] = "planted" /\ \A e \in Cell \ {c} : code'[e] = code[e]
    BY <1>6, <2>1 DEF CodeInv, CodeTyped
  <2>4. Coming' = Coming /\ unsaid \subseteq unsaid'
    BY <2>1 DEF Coming
  <2>5. Accounted'
    BY <1>6, <2>1, <2>3, <2>4 DEF CodeInv, Accounted
  <2>6. Together'
    BY <1>6, <2>1, <2>4 DEF CodeInv, Together
  <2> QED  BY <1>6, <2>1, <2>2, <2>4, <2>5, <2>6 DEF CodeInv, BlamedRight
<1>7. ASSUME CodeInv, NEW c \in Cell, Resnapshot(c) PROVE CodeInv'
  <2>1. /\ c \in planting /\ planting' = {} /\ copy' = [copy EXCEPT ![c] = code[c]]
        /\ UNCHANGED <<code, libs, blamed, unsaid>>
    BY <1>7 DEF Resnapshot
  <2>2. CodeTyped'
    BY <1>7, <2>1 DEF CodeInv, CodeTyped
  <2>3. copy'[c] = code[c] /\ \A e \in Cell \ {c} : copy'[e] = copy[e]
    BY <1>7, <2>1 DEF CodeInv, CodeTyped
  <2>4. \A e \in Cell \ {c} : e \notin planting
    BY <1>7, <2>1 DEF CodeInv, Together
  <2>5. Coming' = Coming
    BY <2>1 DEF Coming
  <2>6. Accounted'
    BY <1>7, <2>1, <2>3, <2>4, <2>5 DEF CodeInv, Accounted
  <2>7. Together'
    BY <1>7, <2>1, <2>5 DEF CodeInv, Together
  <2> QED  BY <1>7, <2>1, <2>2, <2>6, <2>7 DEF CodeInv, BlamedRight
<1>8. ASSUME NEW g \in Gen, Launch(g) PROVE UNCHANGED codeVars
  BY <1>8 DEF Launch, NotAnImage, Load, Relaunch, GiveUp, CreateProcessFails, ReserveInChild,
              ReserveFails, GuestEnds, PassOn
<1>9. UNCHANGED imageVars => UNCHANGED codeVars
  BY DEF imageVars, codeVars
<1>10. CodeInv /\ [Next]_vars => CodeInv'
  BY <1>2, <1>3, <1>4, <1>5, <1>6, <1>7, <1>8, <1>9, Parts DEF ImageNext
<1> QED
  BY <1>1, <1>10, PTL DEF Spec

\* For any number of libraries and ranges, and whatever each rewrites, comes in with,
\* fails with or loads unseen: a report blames another writer than the library it names
\* only if that writer's bytes had no report of their own to tell them.
THEOREM BlameIsRight == Spec => []BlamedRight
<1>1. CodeInv => BlamedRight
  BY DEF CodeInv
<1> QED
  BY <1>1, CodeAlways, PTL
-----------------------------------------------------------------------------
(***************************************************************************)
(* The board.  While the game looks its key up and nobody else has walked, *)
(* the splice is armed and the board is given out exactly when the game    *)
(* stands on it.                                                           *)
(***************************************************************************)
Counted ==
    /\ boards = IF claim = Unclaimed THEN 0 ELSE 1
    /\ claim = Unclaimed <=> asked \cap Empty = {}
    /\ scan.at \in {"key", "lookup"} => claim # Unclaimed
    /\ scan.at \in {"ports", "key", "lookup"} => scan.hub \in Hub

Walked ==
    /\ \A w \in Walker : walk[w] # Nowhere => walk[w].chain >= 1
    /\ scan.at # "lookup" => walk["game"] = Nowhere

Spliced ==
    /\ armed /\ ~given => scan.at = "lookup"
    /\ scan.at = "lookup" /\ ~shared =>
          /\ walk["dinput"] = Nowhere /\ walk["game"] # Nowhere
          /\ armed /\ given = walk["game"].board
    /\ scan.at \in {"hubs", "ports", "idle"} /\ claim # Unclaimed /\ ~shared => found

UsbInv == UsbTyped /\ Counted /\ Walked /\ Spliced

LEMMA NowhereIs == Nowhere.chain = 0 /\ Nowhere.left = 0 /\ Nowhere.board = FALSE
  BY DEF Nowhere

LEMMA UsbStart == UsbInit => UsbInv
<1> SUFFICES ASSUME UsbInit PROVE UsbInv
  OBVIOUS
<1>1. UsbTyped
  BY DEF UsbInit, UsbTyped, Unclaimed, Nowhere
<1> QED
  BY <1>1 DEF UsbInit, UsbInv, Counted, Walked, Spliced, Walker

\* The steps of the scan that leave the tree alone.
LEMMA ScanSteps ==
    ASSUME UsbInv, \/ NewScan \/ CloseHub
                   \/ \E h \in Hub, n \in HubHandle : OpenHub(h, n)
                   \/ \E p \in Port : AskPort(p)
    PROVE  UsbInv'
<1>1. UNCHANGED <<armed, given, walk, found, shared>>
  BY DEF NewScan, CloseHub, OpenHub, AskPort, treeVars
<1>2. CASE NewScan
  <2>1. /\ scan.at = "idle" /\ scan' = [scan EXCEPT !.at = "hubs"] /\ scans' = scans + 1
        /\ asked' = {} /\ boards' = 0 /\ claim' = Unclaimed
    BY <1>2 DEF NewScan
  <2>2. UsbTyped'
    BY <1>1, <2>1 DEF UsbInv, UsbTyped, Unclaimed
  <2>3. scan'.at = "hubs"
    BY <2>1 DEF UsbInv, UsbTyped
  <2> QED  BY <1>1, <2>1, <2>2, <2>3 DEF UsbInv, Counted, Walked, Spliced
<1>3. CASE CloseHub
  <2>1. /\ scan.at = "ports" /\ UNCHANGED <<claim, scans, asked, boards>>
        /\ scan' = [scan EXCEPT !.at = IF Hub \X Port \subseteq asked THEN "idle" ELSE "hubs"]
    BY <1>3 DEF CloseHub
  <2>2. scan'.at \in {"idle", "hubs"}
    BY <2>1 DEF UsbInv, UsbTyped
  <2>3. UsbTyped'
    BY <1>1, <2>1 DEF UsbInv, UsbTyped
  <2> QED  BY <1>1, <2>1, <2>2, <2>3 DEF UsbInv, Counted, Walked, Spliced
<1>4. ASSUME NEW h \in Hub, NEW n \in HubHandle, OpenHub(h, n) PROVE UsbInv'
  <2>1. /\ scan.at = "hubs" /\ UNCHANGED <<claim, scans, asked, boards>>
        /\ scan' = [at |-> "ports", hub |-> h, handle |-> n]
    BY <1>4 DEF OpenHub
  <2>2. UsbTyped'
    BY <1>1, <2>1 DEF UsbInv, UsbTyped
  <2> QED  BY <1>1, <2>1, <2>2 DEF UsbInv, Counted, Walked, Spliced
<1>5. ASSUME NEW p \in Port, AskPort(p) PROVE UsbInv'
  <2>1. scan.at = "ports" /\ asked' = asked \cup {<<scan.hub, p>>} /\ scans' = scans
    BY <1>5 DEF AskPort
  <2>2. CASE Claims(p)
    <3>1. /\ claim' = [hub |-> scan.handle, port |-> p] /\ boards' = boards + 1
          /\ scan' = [scan EXCEPT !.at = "key"]
      BY <1>5, <2>2 DEF AskPort
    <3>2. claim = Unclaimed /\ boards = 0 /\ <<scan.hub, p>> \in Empty
      BY <2>2 DEF Claims, UsbInv, Counted
    <3>3. claim' # Unclaimed
      <4>1. p # 0
        BY UsbAssumption
      <4> QED  BY <3>1, <4>1 DEF Unclaimed
    <3>4. <<scan.hub, p>> \in Hub \X Port
      BY <3>2, UsbAssumption
    <3>5. scan'.at = "key"
      BY <3>1 DEF UsbInv, UsbTyped
    <3>6. UsbTyped'
      BY <1>1, <2>1, <3>1, <3>2, <3>4 DEF UsbInv, UsbTyped
    <3>7. Counted'
      <4>1. scan'.hub = scan.hub /\ scan.hub \in Hub
        BY <2>1, <3>1 DEF UsbInv, UsbTyped, Counted
      <4> QED  BY <2>1, <3>1, <3>2, <3>3, <4>1 DEF Counted
    <3> QED  BY <1>1, <2>1, <3>5, <3>6, <3>7 DEF UsbInv, Walked, Spliced
  <2>3. CASE ~Claims(p)
    <3>1. UNCHANGED <<claim, boards, scan>>
      BY <1>5, <2>3 DEF AskPort
    <3>2. <<scan.hub, p>> \in Hub \X Port
      BY <1>5, <2>1 DEF UsbInv, Counted
    <3>3. claim # Unclaimed \/ <<scan.hub, p>> \notin Empty
      BY <2>3 DEF Claims
    <3>4. UsbTyped'
      BY <1>1, <2>1, <3>1, <3>2 DEF UsbInv, UsbTyped
    <3>5. Counted'
      BY <2>1, <3>1, <3>3 DEF UsbInv, Counted
    <3> QED  BY <1>1, <2>1, <3>1, <3>4, <3>5 DEF UsbInv, Walked, Spliced
  <2> QED  BY <2>2, <2>3
<1> QED
  BY <1>2, <1>3, <1>4, <1>5

LEMMA LookupSteps ==
    ASSUME UsbInv, DriverKey \/ DinputWalks PROVE UsbInv'
<1>1. "game" \in Walker /\ "dinput" \in Walker /\ \A w \in Walker : w = "game" \/ w = "dinput"
  BY DEF Walker
<1> DEFINE new == [chain |-> Chains, left |-> Siblings, board |-> FALSE]
<1>2. new \in [chain : Nat, left : Nat, board : BOOLEAN] /\ new # Nowhere /\ new.chain >= 1
      /\ new.board = FALSE
  BY UsbAssumption DEF Nowhere
<1> HIDE DEF new
<1>3. CASE DriverKey
  <2>1. /\ scan.at = "key" /\ claim # Unclaimed /\ armed' = TRUE /\ given' = FALSE
        /\ scan' = [scan EXCEPT !.at = "lookup"] /\ walk' = [walk EXCEPT !["game"] = new]
        /\ found' = FALSE /\ shared' = (walk["dinput"] # Nowhere)
        /\ UNCHANGED <<claim, scans, asked, boards>>
    BY <1>3 DEF DriverKey, new
  <2>2. scan'.at = "lookup" /\ walk'["game"] = new /\ walk'["dinput"] = walk["dinput"]
    BY <1>1, <2>1 DEF UsbInv, UsbTyped
  <2>3. UsbTyped'
    <3>1. shared' \in BOOLEAN
      BY <2>1
    <3>2. walk' \in [Walker -> [chain : Nat, left : Nat, board : BOOLEAN]]
      BY <1>2, <2>1 DEF UsbInv, UsbTyped
    <3> QED  BY <2>1, <3>1, <3>2 DEF UsbInv, UsbTyped
  <2>4. Counted' /\ Walked'
    BY <1>1, <1>2, <2>1, <2>2 DEF UsbInv, Counted, Walked
  <2>5. Spliced'
    BY <1>2, <2>1, <2>2 DEF Spliced
  <2> QED  BY <2>3, <2>4, <2>5 DEF UsbInv
<1>4. CASE DinputWalks
  <2>1. /\ walk' = [walk EXCEPT !["dinput"] = new] /\ shared' = TRUE
        /\ UNCHANGED <<claim, scan, scans, asked, boards, armed, given, found>>
    BY <1>4 DEF DinputWalks, new
  <2>2. walk'["dinput"] = new /\ walk'["game"] = walk["game"]
    BY <1>1, <2>1 DEF UsbInv, UsbTyped
  <2>3. UsbTyped'
    BY <1>2, <2>1 DEF UsbInv, UsbTyped
  <2>4. Counted' /\ Walked' /\ Spliced'
    BY <1>1, <1>2, <2>1, <2>2 DEF UsbInv, Counted, Walked, Spliced
  <2> QED  BY <2>3, <2>4 DEF UsbInv
<1> QED
  BY <1>3, <1>4

LEMMA SiblingStep ==
    ASSUME UsbInv, NEW w \in Walker, ~(w = "game" /\ walk[w].board), GetSibling(w) PROVE UsbInv'
<1> DEFINE a == walk[w]
<1>1. "game" \in Walker /\ "dinput" \in Walker /\ \A u \in Walker : u = "game" \/ u = "dinput"
  BY DEF Walker
<1>2. a # Nowhere /\ UNCHANGED <<claim, scans, asked, boards, armed, found, shared>>
  BY DEF GetSibling
<1>3. a \in [chain : Nat, left : Nat, board : BOOLEAN] /\ a.chain >= 1
  BY <1>2 DEF UsbInv, UsbTyped, Walked
<1>4. scan' = IF w = "game" /\ walk'[w] = Nowhere THEN [scan EXCEPT !.at = "ports"] ELSE scan
  BY DEF GetSibling
\* The walk after the step, and whether it was the splice.
<1>5. PICK b \in [chain : Nat, left : Nat, board : BOOLEAN] :
        /\ walk' = [walk EXCEPT ![w] = b] /\ (b = Nowhere \/ b.chain >= 1)
        /\ \/ b # Nowhere /\ b.board = a.board /\ given' = given /\ ~a.board
           \/ b # Nowhere /\ b.board /\ given' = TRUE /\ Splices /\ ~a.board
           \/ ~b.board /\ given' = given /\ (a.board \/ ~Splices)
  <2>1. CASE ~a.board /\ a.left > 0
    <3>1. walk' = [walk EXCEPT ![w] = [a EXCEPT !.left = @ - 1]] /\ given' = given
      BY <2>1 DEF GetSibling, UsbInv, UsbTyped
    <3>2. [a EXCEPT !.left = @ - 1] \in [chain : Nat, left : Nat, board : BOOLEAN]
      BY <1>3, <2>1
    <3>3. [a EXCEPT !.left = @ - 1].chain = a.chain /\ [a EXCEPT !.left = @ - 1].board = a.board
      BY <1>3
    <3>4. [a EXCEPT !.left = @ - 1] # Nowhere
      BY <1>3, <3>3, NowhereIs
    <3> QED  BY <1>3, <2>1, <3>1, <3>2, <3>3, <3>4
  <2>2. CASE ~(~a.board /\ a.left > 0) /\ ~a.board /\ Splices
    <3>1. walk' = [walk EXCEPT ![w] = [a EXCEPT !.board = TRUE]] /\ given' = TRUE
      BY <2>2 DEF GetSibling, UsbInv, UsbTyped
    <3>2. /\ [a EXCEPT !.board = TRUE] \in [chain : Nat, left : Nat, board : BOOLEAN]
          /\ [a EXCEPT !.board = TRUE].chain = a.chain /\ [a EXCEPT !.board = TRUE].board
      BY <1>3
    <3>3. [a EXCEPT !.board = TRUE] # Nowhere
      BY <3>2, NowhereIs
    <3> QED  BY <1>3, <2>2, <3>1, <3>2, <3>3
  <2>3. CASE ~(~a.board /\ a.left > 0) /\ ~(~a.board /\ Splices)
    <3> DEFINE b == IF a.chain > 1 THEN [chain |-> a.chain - 1, left |-> Siblings, board |-> FALSE]
                    ELSE Nowhere
    <3>1. walk' = [walk EXCEPT ![w] = b] /\ given' = given
      BY <2>3 DEF GetSibling
    <3>2. b \in [chain : Nat, left : Nat, board : BOOLEAN] /\ (b = Nowhere \/ b.chain >= 1)
      BY <1>3, UsbAssumption DEF Nowhere
    <3>3. ~b.board
      BY NowhereIs
    <3> HIDE DEF b
    <3> QED  BY <2>3, <3>1, <3>2, <3>3
  <2> QED  BY <2>1, <2>2, <2>3
<1>6. walk'[w] = b /\ \A u \in Walker \ {w} : walk'[u] = walk[u]
  BY <1>5 DEF UsbInv, UsbTyped
<1>7. UsbTyped'
  <2>1. given' \in BOOLEAN
    BY <1>5 DEF UsbInv, UsbTyped
  <2>2. scan' \in [at : {"idle", "hubs", "ports", "key", "lookup"}, hub : Hub \cup {"none"},
                   handle : HubHandle \cup {"none"}]
    BY <1>4 DEF UsbInv, UsbTyped
  <2> QED  BY <1>2, <1>5, <2>1, <2>2 DEF UsbInv, UsbTyped
<1>8. CASE w = "game"
  <2>1. scan.at = "lookup" /\ claim # Unclaimed /\ ~a.board
    BY <1>2, <1>8 DEF UsbInv, Walked, Counted
  <2>2. CASE b = Nowhere
    <3>1. scan'.at = "ports" /\ ~b.board /\ given' = given /\ ~Splices
      BY <1>4, <1>5, <1>6, <1>8, <2>1, <2>2, NowhereIs DEF UsbInv, UsbTyped
    <3>2. ~armed \/ given
      BY <2>1, <3>1 DEF Splices
    <3>3. shared
      BY <1>8, <2>1, <3>2 DEF UsbInv, Spliced
    <3>4. Counted'
      <4>1. scan'.hub = scan.hub
        BY <1>4, <1>6, <1>8, <2>2 DEF UsbInv, UsbTyped
      <4> QED  BY <1>2, <2>1, <3>1, <4>1 DEF UsbInv, Counted
    <3>5. Walked'
      BY <1>1, <1>5, <1>6, <1>8, <2>2 DEF UsbInv, Walked
    <3>6. Spliced'
      BY <1>2, <3>1, <3>2, <3>3 DEF Spliced
    <3> QED  BY <1>7, <3>4, <3>5, <3>6 DEF UsbInv
  <2>3. CASE b # Nowhere
    <3>1. scan' = scan
      BY <1>4, <1>6, <1>8, <2>3
    <3>2. Counted' /\ Walked'
      BY <1>1, <1>2, <1>5, <1>6, <1>8, <2>1, <2>3, <3>1 DEF UsbInv, Counted, Walked
    <3>3. ~shared => given' = b.board
      <4> SUFFICES ASSUME ~shared PROVE given' = b.board
        OBVIOUS
      <4>1. armed /\ ~given
        BY <1>8, <2>1 DEF UsbInv, Spliced
      <4>2. Splices
        BY <2>1, <4>1 DEF Splices
      <4>3. given \in BOOLEAN /\ b.board \in BOOLEAN
        BY <1>5 DEF UsbInv, UsbTyped
      <4>4. (given' /\ b.board) \/ (~given' /\ ~b.board)
        BY <1>5, <2>1, <4>1, <4>2
      <4>5. given' \in BOOLEAN
        BY <1>7 DEF UsbTyped
      <4> QED  BY <4>3, <4>4, <4>5
    <3>4. Spliced'
      BY <1>1, <1>2, <1>5, <1>6, <1>8, <2>1, <2>3, <3>1, <3>3 DEF UsbInv, Spliced
    <3> QED  BY <1>7, <3>2, <3>4 DEF UsbInv
  <2> QED  BY <2>2, <2>3
<1>9. CASE w = "dinput"
  <2>1. scan' = scan /\ walk'["game"] = walk["game"]
    BY <1>1, <1>4, <1>6, <1>9
  <2>2. scan.at = "lookup" => shared
    BY <1>2, <1>9 DEF UsbInv, Spliced
  <2>3. Counted' /\ Walked'
    BY <1>1, <1>2, <1>5, <1>6, <1>9, <2>1 DEF UsbInv, Counted, Walked
  <2>4. ~given' => ~given
    BY <1>5
  <2>5. Spliced'
    BY <1>2, <2>1, <2>2, <2>4 DEF UsbInv, Spliced
  <2> QED  BY <1>7, <2>3, <2>5 DEF UsbInv
<1> QED
  BY <1>1, <1>8, <1>9

LEMMA KeyStep ==
    ASSUME UsbInv, NEW w \in Walker, ReadKey(w) PROVE UsbInv'
<1>1. "game" \in Walker /\ "dinput" \in Walker /\ \A u \in Walker : u = "game" \/ u = "dinput"
  BY DEF Walker
<1>2. /\ walk[w].board /\ claim # Unclaimed /\ armed' = FALSE /\ found' = (found \/ w = "game")
      /\ scan' = IF w = "game" THEN [scan EXCEPT !.at = "ports"] ELSE scan
      /\ walk' = IF w = "game" THEN [walk EXCEPT ![w] = Nowhere] ELSE walk
      /\ UNCHANGED <<claim, scans, asked, boards, given, shared>>
  BY DEF ReadKey
<1>3. walk[w] # Nowhere
  BY <1>2, NowhereIs
<1>4. UsbTyped'
  <2>1. found' \in BOOLEAN
    BY <1>2
  <2>2. walk' \in [Walker -> [chain : Nat, left : Nat, board : BOOLEAN]]
    BY <1>2 DEF UsbInv, UsbTyped, Nowhere
  <2>3. scan' \in [at : {"idle", "hubs", "ports", "key", "lookup"}, hub : Hub \cup {"none"},
                   handle : HubHandle \cup {"none"}]
    BY <1>2 DEF UsbInv, UsbTyped
  <2> QED  BY <1>2, <2>1, <2>2, <2>3 DEF UsbInv, UsbTyped
<1>5. CASE w = "game"
  <2>1. scan'.at = "ports" /\ walk'["game"] = Nowhere /\ walk'["dinput"] = walk["dinput"] /\ found'
    BY <1>1, <1>2, <1>5 DEF UsbInv, UsbTyped
  <2>2. scan'.hub = scan.hub /\ scan.at = "lookup"
    BY <1>2, <1>3, <1>5 DEF UsbInv, UsbTyped, Walked
  <2> QED  BY <1>1, <1>2, <1>4, <2>1, <2>2 DEF UsbInv, Counted, Walked, Spliced
<1>6. CASE w = "dinput"
  <2>1. scan' = scan /\ walk' = walk /\ (found => found')
    BY <1>2, <1>6
  <2>2. scan.at = "lookup" => shared
    BY <1>3, <1>6 DEF UsbInv, Spliced
  <2> QED  BY <1>2, <1>4, <2>1, <2>2 DEF UsbInv, Counted, Walked, Spliced
<1> QED
  BY <1>1, <1>5, <1>6

LEMMA UsbAlways == Spec => []UsbInv
<1>1. Init => UsbInv
  BY UsbStart DEF Init
<1>2. ASSUME UsbInv, UNCHANGED usbVars PROVE UsbInv'
  BY <1>2 DEF usbVars, UsbInv, UsbTyped, Counted, Walked, Spliced
<1>3. UsbInv /\ [Next]_vars => UsbInv'
  BY <1>2, Parts, ScanSteps, LookupSteps, SiblingStep, KeyStep DEF UsbNext
<1> QED
  BY <1>1, <1>3, PTL DEF Spec

\* For any hubs, ports, handle numbers, chains and siblings: a scan shows the game
\* one board when a port is free, its key is found again unless DirectInput walked
\* meanwhile, and outside the game's lookup nobody can be handed the node.
THEOREM BoardIsOne == Spec => []OneBoard
<1>1. UsbInv => OneBoard
  BY DEF UsbInv, Counted, Spliced, OneBoard
<1> QED
  BY <1>1, UsbAlways, PTL
-----------------------------------------------------------------------------
LEMMA WithoutOne ==
    ASSUME ScreenTyped, NEW i \in DOMAIN order
    PROVE  Without(i) \in Seq(Window) /\ order[i] \in Window
<1>1. order \in Seq(Window) /\ Len(order) \in Nat /\ i \in 1 .. Len(order)
  BY DEF ScreenTyped
<1>2. Len(order) - 1 \in Nat
  BY <1>1
<1>3. \A j \in 1 .. Len(order) - 1 : order[j] \in Window /\ order[j + 1] \in Window
  BY <1>1
<1>4. Without(i) \in [1 .. Len(order) - 1 -> Window]
  BY <1>3 DEF Without
<1> QED
  BY <1>1, <1>2, <1>4

LEMMA ScreenAlways == Spec => []ScreenTyped
<1>1. Init => ScreenTyped
  <2> SUFFICES ASSUME ScreenInit PROVE ScreenTyped
    BY DEF Init
  <2>1. ended \in BOOLEAN /\ putting \in BOOLEAN /\ caught \in Nat
    BY DEF ScreenInit
  <2>2. order \in Seq(Window)
    BY DEF ScreenInit
  <2> QED  BY <2>1, <2>2 DEF ScreenInit, ScreenTyped
<1>2. ASSUME ScreenTyped, UNCHANGED screenVars PROVE ScreenTyped'
  BY <1>2 DEF screenVars, ScreenTyped
<1>3. ASSUME ScreenTyped, Wake \/ LookAt \/ \E stays \in BOOLEAN : PutBack(stays) PROVE ScreenTyped'
  <2>1. NextWindow \in Window \cup {Asleep, Front}
    <3>1. CASE \E i \in DOMAIN order : Behind(i) = stand
      <4>1. (CHOOSE i \in DOMAIN order : Behind(i) = stand) \in DOMAIN order
        BY <3>1
      <4>2. \A i \in DOMAIN order : order[i] \in Window
        BY <1>3 DEF ScreenTyped
      <4> QED  BY <3>1, <4>1, <4>2 DEF NextWindow
    <3>2. CASE ~\E i \in DOMAIN order : Behind(i) = stand
      BY <3>2 DEF NextWindow
    <3> QED  BY <3>1, <3>2
  <2>2. CASE Wake
    BY <1>3, <2>2 DEF Wake, ScreenTyped
  <2>3. CASE LookAt
    <3>1. /\ stand' = NextWindow /\ putting' = (NextWindow \in covering)
          /\ caught' = IF NextWindow \in covering THEN caught + 1 ELSE caught
          /\ UNCHANGED <<order, covering, hung, ended>>
      BY <2>3 DEF LookAt
    <3>2. putting' \in BOOLEAN
      BY <3>1
    <3>3. caught' \in Nat
      BY <1>3, <3>1 DEF ScreenTyped
    <3>4. stand' \in Window \cup {Asleep, Front}
      BY <2>1, <3>1
    <3>5. order' \in Seq(Window) /\ covering' \subseteq Window /\ hung' \subseteq Window /\ ended' \in BOOLEAN
      BY <1>3, <3>1 DEF ScreenTyped
    <3> QED  BY <3>2, <3>3, <3>4, <3>5 DEF ScreenTyped
  <2>4. ASSUME NEW stays \in BOOLEAN, PutBack(stays) PROVE ScreenTyped'
    <3>1. covering' \subseteq Window
      BY <1>3, <2>4 DEF PutBack, ScreenTyped
    <3>2. ended' \in BOOLEAN
      BY <2>4 DEF PutBack
    <3>3. putting' \in BOOLEAN /\ UNCHANGED <<order, hung, stand, caught>>
      BY <2>4 DEF PutBack
    <3> QED  BY <1>3, <3>1, <3>2, <3>3 DEF ScreenTyped
  <2> QED  BY <1>3, <2>2, <2>3, <2>4
<1>4. ASSUME ScreenTyped, NEW w \in Window, Create(w) \/ Resize(w) \/ Hang(w) PROVE ScreenTyped'
  <2>1. CASE Create(w)
    <3>1. <<w>> \o order \in Seq(Window)
      BY <1>4 DEF ScreenTyped
    <3> QED  BY <1>4, <2>1, <3>1 DEF Create, walkVars, ScreenTyped
  <2>2. CASE Resize(w) \/ Hang(w)
    BY <1>4, <2>2 DEF Resize, Hang, walkVars, ScreenTyped
  <2> QED  BY <1>4, <2>1, <2>2
<1>5. ASSUME ScreenTyped, NEW i \in 1 .. Len(order), Destroy(i) \/ Raise(i) PROVE ScreenTyped'
  <2>1. i \in DOMAIN order
    BY <1>5 DEF Destroy, Raise
  <2>2. Without(i) \in Seq(Window) /\ order[i] \in Window
    BY <1>5, <2>1, WithoutOne
  <2>3. CASE Destroy(i)
    BY <1>5, <2>2, <2>3 DEF Destroy, walkVars, ScreenTyped
  <2>4. CASE Raise(i)
    <3>1. <<order[i]>> \o Without(i) \in Seq(Window)
      BY <2>2
    <3> QED  BY <1>5, <2>4, <3>1 DEF Raise, walkVars, ScreenTyped
  <2> QED  BY <1>5, <2>3, <2>4
<1>6. ScreenTyped /\ [Next]_vars => ScreenTyped'
  BY <1>2, <1>3, <1>4, <1>5, Parts DEF ScreenNext, Watching
<1> QED
  BY <1>1, <1>6, PTL DEF Spec

\* The state of the four parts stays within its types: no piece, reply or index goes
\* past its bound, whatever the peers, processes, windows and walks.
THEOREM CabinetTyped == Spec => []TypeOK
<1>1. NetInv /\ Family /\ CodeInv /\ UsbInv /\ ScreenTyped => TypeOK
  BY DEF TypeOK, NetInv, Family, CodeInv, CodeTyped, UsbInv, ImageTyped
<1> QED
  BY <1>1, NetAlways, FamilyAlways, CodeAlways, UsbAlways, ScreenAlways, PTL
=============================================================================
