--------------------------- MODULE JvsPort_proof ----------------------------
(***************************************************************************)
(* Proofs about JvsPort: whatever the number of threads, reads and writes, *)
(* the timeouts and the size of the ring, completions reach the thread     *)
(* that asked, once, none is lost, and the bytes stay in order.            *)
(***************************************************************************)
EXTENDS JvsPort, ByteRing, SequenceTheorems, TLAPS

NoDup(s) == \A i, j \in DOMAIN s : s[i] = s[j] => i = j

\* A completion that is new to a queue joins it.
LEMMA AppendQueue ==
    \A s \in Seq(Op) : \A o \in Op :
        /\ Append(s, o) \in Seq(Op)
        /\ ToSet(Append(s, o)) = ToSet(s) \cup {o}
        /\ NoDup(s) /\ o \notin ToSet(s) => NoDup(Append(s, o))
<1> TAKE s \in Seq(Op)
<1> TAKE o \in Op
<1> DEFINE a == Append(s, o)
           n == Len(s)
<1>1. /\ a \in Seq(Op) /\ Len(a) = n + 1 /\ n \in Nat
      /\ \A i \in 1 .. n : a[i] = s[i]
      /\ a[n + 1] = o
      /\ DOMAIN s = 1 .. n
  BY AppendProperties, LenProperties
<1>2. DOMAIN a = 1 .. n + 1  BY <1>1, LenProperties
<1> HIDE DEF a, n
<1>3. ToSet(a) = ToSet(s) \cup {o}  BY <1>1, <1>2 DEF ToSet
<1>4. ASSUME NoDup(s), o \notin ToSet(s) PROVE NoDup(a)
  <2>1. \A i \in 1 .. n : s[i] # o  BY <1>1, <1>4 DEF ToSet
  <2> QED  BY <1>1, <1>2, <1>4, <2>1 DEF NoDup
<1> QED  BY <1>1, <1>3, <1>4 DEF a

\* Taking the oldest completion leaves the others.
LEMMA TailQueue ==
    \A s \in Seq(Op) : s # << >> =>
        /\ Head(s) \in Op /\ Head(s) \in ToSet(s)
        /\ Tail(s) \in Seq(Op)
        /\ ToSet(Tail(s)) \subseteq ToSet(s)
        /\ ToSet(s) \subseteq ToSet(Tail(s)) \cup {Head(s)}
        /\ NoDup(s) => NoDup(Tail(s)) /\ Head(s) \notin ToSet(Tail(s))
<1> SUFFICES ASSUME NEW s \in Seq(Op), s # << >>
             PROVE  /\ Head(s) \in Op /\ Head(s) \in ToSet(s)
                    /\ Tail(s) \in Seq(Op)
                    /\ ToSet(Tail(s)) \subseteq ToSet(s)
                    /\ ToSet(s) \subseteq ToSet(Tail(s)) \cup {Head(s)}
                    /\ NoDup(s) => /\ NoDup(Tail(s))
                                   /\ Head(s) \notin ToSet(Tail(s))
  OBVIOUS
<1> DEFINE u == Tail(s)
           n == Len(s)
<1>1. /\ n \in Nat \ {0} /\ DOMAIN s = 1 .. n /\ Head(s) = s[1]
      /\ s \in [1 .. n -> Op]
  BY LenProperties, EmptySeq
<1>2. /\ u \in Seq(Op) /\ Len(u) = n - 1
      /\ \A i \in 1 .. n - 1 : u[i] = s[i + 1]
  BY HeadTailProperties
<1>3. DOMAIN u = 1 .. n - 1  BY <1>2, LenProperties
<1> HIDE DEF u, n
<1>4. Head(s) \in Op /\ Head(s) \in ToSet(s)  BY <1>1 DEF ToSet
<1>5. ToSet(u) \subseteq ToSet(s)  BY <1>1, <1>2, <1>3 DEF ToSet
<1>6. ToSet(s) \subseteq ToSet(u) \cup {Head(s)}
  <2> SUFFICES ASSUME NEW i \in 1 .. n PROVE s[i] \in ToSet(u) \cup {s[1]}
    BY <1>1 DEF ToSet
  <2>1. CASE i = 1  BY <2>1
  <2>2. CASE i # 1
    <3>1. i - 1 \in 1 .. n - 1 /\ (i - 1) + 1 = i  BY <2>2, <1>1
    <3>2. u[i - 1] = s[i]  BY <3>1, <1>2
    <3> QED  BY <3>1, <3>2, <1>3 DEF ToSet
  <2> QED  BY <2>1, <2>2
<1>7. ASSUME NoDup(s) PROVE NoDup(u) /\ Head(s) \notin ToSet(u)
  <2>1. \A i, j \in 1 .. n - 1 : u[i] = u[j] => i = j
    <3> TAKE i, j \in 1 .. n - 1
    <3>1. i + 1 \in 1 .. n /\ j + 1 \in 1 .. n  BY <1>1
    <3>2. s[i + 1] = s[j + 1] => i + 1 = j + 1  BY <3>1, <1>1, <1>7 DEF NoDup
    <3> QED  BY <3>2, <1>2
  <2>2. \A i \in 1 .. n - 1 : u[i] # s[1]
    <3> TAKE i \in 1 .. n - 1
    <3>1. i + 1 \in 1 .. n /\ 1 \in 1 .. n /\ i + 1 # 1  BY <1>1
    <3>2. s[i + 1] # s[1]  BY <3>1, <1>1, <1>7 DEF NoDup
    <3> QED  BY <3>2, <1>2
  <2> QED  BY <1>1, <1>3, <2>1, <2>2 DEF NoDup, ToSet
<1> QED  BY <1>2, <1>4, <1>5, <1>6, <1>7 DEF u

\* A read takes the front of the ring and leaves the rest, losing nothing.
LEMMA TakeAndLeave ==
    \A o \in Seq(Write) : \A n \in Nat :
        /\ TakeFrom(o, n) \in Seq(Write)
        /\ LeaveOf(o, n) \in Seq(Write)
        /\ TakeFrom(o, n) \o LeaveOf(o, n) = o
<1> TAKE o \in Seq(Write)
<1> TAKE n \in Nat
<1> DEFINE k == Least(n, Len(o))
<1>1. Len(o) \in Nat /\ \A i \in 1 .. Len(o) : o[i] \in Write
  BY LenProperties, ElementOfSeq
<1>2. k \in 0 .. Len(o)  BY <1>1 DEF Least
<1> HIDE DEF k
<1>3. SubSeq(o, 1, k) \in Seq(Write)
  <2>1. 1 \in Int /\ k \in Int /\ \A i \in 1 .. k : o[i] \in Write
    BY <1>1, <1>2
  <2> QED  BY <2>1, SubSeqProperties
<1>4. SubSeq(o, k + 1, Len(o)) \in Seq(Write)
  <2>1. /\ k + 1 \in Int /\ Len(o) \in Int
        /\ \A i \in k + 1 .. Len(o) : o[i] \in Write
    BY <1>1, <1>2
  <2> QED  BY <2>1, SubSeqProperties
<1>5. SubSeq(o, 1, k) \o SubSeq(o, k + 1, Len(o)) = SubSeq(o, 1, Len(o))
  <2>1. 1 \in 1 .. Len(o) + 1 /\ k \in 1 - 1 .. Len(o) /\ Len(o) \in k .. Len(o)
    BY <1>1, <1>2
  <2> QED  BY <2>1, ConcatAdjacentSubSeq
<1>6. SubSeq(o, 1, Len(o)) = o  BY SubSeqFull
<1> QED  BY <1>3, <1>4, <1>5, <1>6 DEF k, TakeFrom, LeaveOf
\* What was taken and what is left stay the same stream.
LEMMA TakeKeepsStream ==
    \A s, o \in Seq(Write) : \A n \in Nat :
        /\ s \o TakeFrom(o, n) \in Seq(Write)
        /\ (s \o TakeFrom(o, n)) \o LeaveOf(o, n) = s \o o
<1> TAKE s, o \in Seq(Write)
<1> TAKE n \in Nat
<1>1. PICK f \in Seq(Write), r \in Seq(Write) :
        f = TakeFrom(o, n) /\ r = LeaveOf(o, n) /\ f \o r = o
  BY TakeAndLeave
<1>2. s \o f \in Seq(Write) /\ (s \o f) \o r = s \o (f \o r)  OBVIOUS
<1> QED  BY <1>1, <1>2, Zenon
-----------------------------------------------------------------------------
Status == {"new", "posted", "filled", "replaced", "cancelled"}

Unique == \A t \in Thread : NoDup(apc[t])

\* An operation whose routine ran was somebody's and is not queued any more.
CalledIsOver == \A o \in called : owner[o] # None /\ ~Queued(o)

\* The status of a read agrees with who posted it, with what the port holds
\* and with the queues.
ReadsAgree ==
    \A r \in Read :
        /\ status[r] = "new" <=> owner[r] = None
        /\ status[r] = "posted" <=> pending = r
        /\ r \in called \/ Queued(r) => status[r] = "filled"

\* The pending read has the handle of the thread that posted it, or none
\* because DuplicateHandle() failed for it.
PendingOwned ==
    pending # None => \/ read_thread = owner[pending]
                      \/ read_thread = None /\ pending \in failed

\* What a read has waited and what it has left are its own wait.
ClockAgrees == pending # None => left + age = OwnWait(terms, read_len)

\* A write that is not over has not completed.
WritesAgree ==
    /\ \A t \in Thread : inWrite[t] # None =>
         /\ owner[inWrite[t]] = t
         /\ inWrite[t] \notin called /\ ~Queued(inWrite[t])

IInv == /\ TypeOK /\ Unique /\ CompletedOnItsThread /\ CalledIsOver
        /\ ReadsAgree /\ PendingOwned /\ WritesAgree
        /\ ClockAgrees /\ NoCompletionLost /\ BytesInOrder

\* Queues hold operations.
LEMMA QueueMembers ==
    \A s \in Seq(Op) : ToSet(s) \subseteq Op
BY ElementOfSeq, LenProperties DEF ToSet

\* QueueUserAPC() adds to one queue at most, at its end; what it does not add
\* had no routine, no living thread, or failed.
LEMMA QueueAdds ==
    ASSUME NEW t \in Thread \cup {None}, NEW o \in Op, NEW f, TypeOK, Unique,
           ~Queued(o), Queue(t, o, f)
    PROVE  /\ apc' \in [Thread -> Seq(Op)]
           /\ Unique'
           /\ \A u \in Thread : \A x \in ToSet(apc'[u]) :
                x \in ToSet(apc[u]) \/ (x = o /\ u = t)
           /\ \A x : Queued(x) => Queued(x)'
           /\ \A x : Queued(x)' => Queued(x) \/ x = o
           /\ Queued(o)' \/ o \in Silent \/ t \notin alive \/ o \in failed'
           /\ failed' = f \/ failed' = f \cup {o}
<1>1. apc \in [Thread -> Seq(Op)] /\ alive \subseteq Thread  BY DEF TypeOK
<1>2. CASE /\ o \notin Silent /\ t \in alive
           /\ apc' = [apc EXCEPT ![t] = Append(apc[t], o)] /\ failed' = f
  <2>0. t \in Thread  BY <1>1, <1>2
  <2>1. /\ Append(apc[t], o) \in Seq(Op)
        /\ ToSet(Append(apc[t], o)) = ToSet(apc[t]) \cup {o}
        /\ NoDup(Append(apc[t], o))
    BY <1>1, <2>0, AppendQueue DEF Unique, Queued
  <2>2. \A u \in Thread : apc'[u] = IF u = t THEN Append(apc[t], o) ELSE apc[u]
    BY <1>1, <1>2
  <2>3. apc' \in [Thread -> Seq(Op)]  BY <1>1, <1>2, <2>1
  <2>4. Unique'  BY <2>1, <2>2 DEF Unique
  <2>5. \A u \in Thread : ToSet(apc'[u]) =
          IF u = t THEN ToSet(apc[u]) \cup {o} ELSE ToSet(apc[u])
    BY <2>1, <2>2
  <2> QED  BY <1>2, <2>0, <2>3, <2>4, <2>5 DEF Queued
<1>3. CASE o \in Silent \/ t \notin alive \/ o \in failed'
  <2>1. CASE apc' = apc
    <3>1. Unique' /\ \A x : Queued(x)' <=> Queued(x)
      BY <2>1 DEF Unique, Queued
    <3> QED  BY <1>1, <1>3, <2>1, <3>1 DEF Queue
  <2> QED  BY <1>2, <2>1 DEF Queue
<1> QED  BY <1>2, <1>3 DEF Queue

(***************************************************************************)
(* The stores a region under the lock makes before it reaches              *)
(* finish_read(): the port holds read p of n bytes by thread t, the ring   *)
(* is o, st is the status of the reads and f the calls that failed, and    *)
(* the owners, the writes, the clock and the bytes accepted agree.         *)
(***************************************************************************)
MidRegion(p, n, t, o, st, f) ==
    /\ p \in Read \cup {None} /\ n \in Nat
    /\ o \in Seq(Write) /\ st \in [Read -> Status]
    /\ UNCHANGED <<alive, called, timeouts>>
    /\ read_len' \in Nat /\ read_thread' \in Thread \cup {None}
    /\ left' \in 0 .. MaxLeft /\ age' \in Nat /\ f \in SUBSET Op
    /\ terms' \in [interval : Nat, mult : Nat, const : Nat]
    /\ inWrite' \in [Thread -> Write \cup {None}]
    /\ owner' \in [Op -> Thread \cup {None}]
    /\ accepted' \in Seq(Write)
    /\ taken \o o = accepted'
    /\ p # None => /\ read_thread' = t /\ t \in Thread \cup {None}
                   /\ owner'[p] = t \/ (t = None /\ p \in f)
                   /\ left' + age' = OwnWait(terms', read_len')
    /\ \A x \in Op : owner[x] # None => owner'[x] = owner[x]
    /\ \A r \in Read : /\ st[r] = "new" <=> owner'[r] = None
                       /\ st[r] = "posted" <=> p = r
                       /\ r \in called \/ Queued(r) => st[r] = "filled"
    /\ \A u \in Thread : inWrite'[u] # None =>
           /\ owner'[inWrite'[u]] = u
           /\ inWrite'[u] \notin called /\ ~Queued(inWrite'[u])
    /\ \A x \in Op \ Silent :
           (IF x \in Read THEN st[x] = "filled"
            ELSE owner'[x] # None /\ inWrite'[owner'[x]] # x)
           => x \in called \/ Queued(x) \/ owner'[x] \notin alive \/ x \in f

\* finish_read() at the end of such a region keeps the invariant.
LEMMA FinishKeeps ==
    ASSUME NEW p, NEW n, NEW t, NEW o, NEW l, NEW st, NEW f,
           IInv, MidRegion(p, n, t, o, st, f), FinishRead(p, n, t, o, l, st, f)
    PROVE  IInv'
<1>0. TypeOK /\ Unique /\ None \notin Op /\ Read \cap Write = {}
  BY PortAssumption DEF IInv, Op
<1>1. \A u \in Thread : \A x \in ToSet(apc[u]) : owner'[x] = u
  <2> SUFFICES ASSUME NEW u \in Thread, NEW x \in ToSet(apc[u]) PROVE owner'[x] = u
    OBVIOUS
  <2>1. x \in Op  BY <1>0, QueueMembers DEF TypeOK
  <2>2. owner[x] = u  BY DEF IInv, CompletedOnItsThread
  <2>3. u # None  BY PortAssumption
  <2>4. \A y \in Op : owner[y] # None => owner'[y] = owner[y]  BY DEF MidRegion
  <2> QED  BY <2>1, <2>2, <2>3, <2>4, Zenon
<1> USE DEF MidRegion
<1>2. CASE Finishes(p, n, o, l)
  <2>1. /\ pending' = None
        /\ out' = LeaveOf(o, n)
        /\ taken' = taken \o TakeFrom(o, n)
        /\ bytes' = [bytes EXCEPT ![p] = TakeFrom(o, n)]
        /\ status' = [st EXCEPT ![p] = "filled"]
        /\ Queue(t, p, f)
    BY <1>2 DEF FinishRead
  <2>2. /\ p \in Read /\ p \in Op /\ t \in Thread \cup {None}
        /\ owner'[p] = t \/ (t = None /\ p \in f)
    BY <1>2 DEF Finishes, Op
  <2>3. st[p] = "posted"  BY <2>2
  <2>4. ~Queued(p) /\ p \notin called  BY <2>2, <2>3
  <2>5. /\ apc' \in [Thread -> Seq(Op)]
        /\ Unique'
        /\ \A u \in Thread : \A x \in ToSet(apc'[u]) :
             x \in ToSet(apc[u]) \/ (x = p /\ u = t)
        /\ \A x : Queued(x) => Queued(x)'
        /\ \A x : Queued(x)' => Queued(x) \/ x = p
        /\ Queued(p)' \/ p \in Silent \/ t \notin alive \/ p \in failed'
        /\ failed' = f \/ failed' = f \cup {p}
    BY <1>0, <2>1, <2>2, <2>4, QueueAdds
  <2>6. /\ TakeFrom(o, n) \in Seq(Write)
        /\ LeaveOf(o, n) \in Seq(Write)
        /\ TakeFrom(o, n) \o LeaveOf(o, n) = o
    BY TakeAndLeave
  <2>7. taken \in Seq(Write)  BY <1>0 DEF TypeOK
  <2>8. taken' \o out' = accepted' /\ taken' \in Seq(Write)
    <3>1. /\ taken \o TakeFrom(o, n) \in Seq(Write)
          /\ (taken \o TakeFrom(o, n)) \o LeaveOf(o, n) = taken \o o
      BY <2>7, TakeKeepsStream
    <3>2. taken' \o out' = (taken \o TakeFrom(o, n)) \o LeaveOf(o, n)
      BY <2>1, Zenon
    <3> QED  BY <2>1, <3>1, <3>2, Zenon
  <2>9. \A r \in Read : status'[r] = IF r = p THEN "filled" ELSE st[r]
    BY <2>1
  <2>10. None \notin Thread  BY PortAssumption
  <2>11. TypeOK'
    <3>1. failed' \in SUBSET Op /\ pending' \in Read \cup {None}
      BY <2>1, <2>2, <2>5
    <3>2. /\ status' \in [Read -> Status] /\ bytes' \in [Read -> Seq(Write)]
          /\ out' \in Seq(Write)
      BY <1>0, <2>1, <2>2, <2>6 DEF TypeOK, Status
    <3> QED  BY <1>0, <2>5, <2>8, <3>1, <3>2 DEF TypeOK, Status
  <2>12. CompletedOnItsThread'
    BY <1>1, <2>2, <2>5, <2>10 DEF CompletedOnItsThread
  <2>13. CalledIsOver'
    <3> SUFFICES ASSUME NEW x \in called PROVE owner'[x] # None /\ ~(Queued(x)')
      BY DEF CalledIsOver, Queued
    <3>1. x \in Op /\ owner[x] # None /\ ~Queued(x)
      BY <1>0 DEF IInv, CalledIsOver, TypeOK
    <3>2. x # p  BY <2>4
    <3> QED  BY <2>5, <3>1, <3>2
  <2>14. ReadsAgree'
    BY <1>0, <2>1, <2>2, <2>5, <2>9 DEF ReadsAgree, Op
  <2>15. PendingOwned' /\ ClockAgrees'
    BY <2>1 DEF PendingOwned, ClockAgrees
  <2>16. WritesAgree'
    BY <1>0, <2>2, <2>5 DEF WritesAgree, Op
  <2>17. NoCompletionLost'
    <3> SUFFICES ASSUME NEW x \in Op \ Silent,
                        IF x \in Read THEN status'[x] = "filled"
                        ELSE owner'[x] # None /\ inWrite'[owner'[x]] # x
                 PROVE  \/ x \in called \/ Queued(x)'
                        \/ owner'[x] \notin alive \/ x \in failed'
      BY DEF NoCompletionLost
    <3>1. CASE x = p
      <4>1. alive \subseteq Thread  BY <1>0 DEF TypeOK
      <4> QED  BY <2>2, <2>5, <2>10, <3>1, <4>1
    <3>2. CASE x # p
      <4>1. IF x \in Read THEN st[x] = "filled"
            ELSE owner'[x] # None /\ inWrite'[owner'[x]] # x
        BY <2>9, <3>2
      <4>2. x \in called \/ Queued(x) \/ owner'[x] \notin alive \/ x \in f
        BY <4>1
      <4> QED  BY <2>5, <4>2
    <3> QED  BY <3>1, <3>2
  <2> QED  BY <2>5, <2>8, <2>11, <2>12, <2>13, <2>14, <2>15, <2>16, <2>17
           DEF IInv, BytesInOrder
<1>3. CASE ~Finishes(p, n, o, l)
  <2>1. /\ pending' = p /\ out' = o /\ status' = st /\ failed' = f
        /\ UNCHANGED <<taken, bytes, apc>>
    BY <1>3 DEF FinishRead
  <2>2. TypeOK'  BY <1>0, <2>1 DEF TypeOK, Status
  <2>3. Unique' BY <1>0, <2>1 DEF Unique
  <2>4. \A x : Queued(x)' <=> Queued(x)  BY <2>1 DEF Queued
  <2>5. CompletedOnItsThread'
    BY <1>1, <2>1 DEF CompletedOnItsThread
  <2>6. CalledIsOver'
    BY <1>0, <2>4 DEF IInv, CalledIsOver, TypeOK
  <2>7. ReadsAgree'  BY <2>1, <2>4 DEF ReadsAgree
  <2>8. PendingOwned' /\ ClockAgrees'  BY <2>1 DEF PendingOwned, ClockAgrees
  <2>9. WritesAgree'  BY <2>4 DEF WritesAgree
  <2>10. NoCompletionLost'  BY <2>1, <2>4 DEF NoCompletionLost
  <2>11. BytesInOrder'  BY <2>1 DEF BytesInOrder
  <2> QED  BY <2>2, <2>3, <2>5, <2>6, <2>7, <2>8, <2>9, <2>10, <2>11 DEF IInv
<1> QED  BY <1>2, <1>3
-----------------------------------------------------------------------------
\* A deadline fits whatever the game's timeouts are.
LEMMA DeadlineFits ==
    ASSUME TypeOK, NEW n \in Nat
    PROVE  /\ Deadline(n) \in 0 .. MaxLeft
           /\ Deadline(n) = OwnWait(timeouts, n)
<1> DEFINE sum == timeouts.mult * n + timeouts.const
<1>1. Modulus \in Nat \ {0} /\ Fallback \in Nat  BY PortAssumption
<1>2. sum \in Nat
  <2>1. timeouts.mult \in Nat /\ timeouts.const \in Nat  BY DEF TypeOK
  <2> QED  BY <2>1
<1> HIDE DEF sum
<1>3. sum % Modulus \in 0 .. Modulus - 1  BY <1>1, <1>2
<1>4. /\ 0 \in 0 .. MaxLeft /\ Fallback \in 0 .. MaxLeft
      /\ sum % Modulus \in 0 .. MaxLeft
  BY <1>1, <1>3 DEF MaxLeft
<1>5. Deadline(n) \in 0 .. MaxLeft  BY <1>4 DEF Deadline, sum
<1>6. timeouts = [interval |-> Modulus - 1, mult |-> 0, const |-> 0]
        <=> /\ timeouts.interval = Modulus - 1
            /\ timeouts.mult = 0 /\ timeouts.const = 0
  BY DEF TypeOK
<1>7. Deadline(n) = OwnWait(timeouts, n)
  <2>1. CASE timeouts = [interval |-> Modulus - 1, mult |-> 0, const |-> 0]
    BY <1>6, <2>1 DEF Deadline, OwnWait
  <2>2. CASE timeouts # [interval |-> Modulus - 1, mult |-> 0, const |-> 0]
    <3>1. Deadline(n) = IF sum % Modulus = 0 THEN Fallback ELSE sum % Modulus
      BY <1>6, <2>2 DEF Deadline, sum
    <3>2. OwnWait(timeouts, n)
            = IF sum % Modulus = 0 THEN Fallback ELSE sum % Modulus
      BY <2>2 DEF OwnWait, sum
    <3> QED  BY <3>1, <3>2
  <2> QED  BY <2>1, <2>2
<1> QED  BY <1>5, <1>7

LEMMA InitIInv == Init => IInv
<1> SUFFICES ASSUME Init PROVE IInv  OBVIOUS
<1>1. /\ None \notin Read /\ None \notin Thread /\ 0 \in 0 .. MaxLeft
      /\ NoTimeouts \in [interval : Nat, mult : Nat, const : Nat]
  BY PortAssumption DEF MaxLeft, NoTimeouts
<1>2. TypeOK  BY <1>1 DEF Init, TypeOK
<1>3. \A t \in Thread : ToSet(apc[t]) = {} /\ NoDup(apc[t])
  BY DEF Init, ToSet, NoDup
<1>4. Unique /\ CompletedOnItsThread /\ CalledIsOver /\ ReadsAgree
  BY <1>1, <1>3 DEF Init, Unique, CompletedOnItsThread, CalledIsOver,
     ReadsAgree, Queued, Op
<1>5. PendingOwned /\ ClockAgrees /\ WritesAgree /\ NoCompletionLost
  BY <1>1 DEF Init, PendingOwned, ClockAgrees, WritesAgree, NoCompletionLost, Op
<1>6. BytesInOrder  BY DEF Init, BytesInOrder
<1> QED  BY <1>2, <1>4, <1>5, <1>6 DEF IInv

\* A read that is posted is a new one, so nothing of it is queued yet.
LEMMA PostReadKeeps ==
    ASSUME IInv, NEW t \in Thread, NEW r \in Read, NEW n \in Length,
           PostRead(t, r, n)
    PROVE  IInv'
<1> DEFINE st == Posted(r)
<1>1. /\ TypeOK /\ None \notin Thread /\ None \notin Op /\ n \in Nat
      /\ Read \cap Write = {} /\ r \in Op /\ r # None
  BY PortAssumption DEF IInv, Op
<1>2. /\ status[r] = "new"
      /\ read_len' = n /\ left' = Deadline(n) /\ age' = 0 /\ terms' = timeouts
      /\ owner' = [owner EXCEPT ![r] = t]
      /\ UNCHANGED <<timeouts, alive, inWrite, called, accepted>>
  BY DEF PostRead
<1>3. st \in [Read -> Status]  BY <1>1 DEF TypeOK, Status, Posted
<1>4. \A p \in Read : st[p] = IF p = r THEN "posted"
                              ELSE IF p = pending THEN "replaced" ELSE status[p]
  BY DEF Posted
<1> HIDE DEF st
<1>5. /\ owner[r] = None /\ ~Queued(r) /\ r \notin called
  BY <1>2 DEF IInv, ReadsAgree
<1>6. \A x \in Op : owner'[x] = IF x = r THEN t ELSE owner[x]
  BY <1>1, <1>2 DEF TypeOK
<1>7. \A p \in Read : /\ st[p] = "new" <=> owner'[p] = None
                      /\ st[p] = "posted" <=> r = p
                      /\ p \in called \/ Queued(p) => st[p] = "filled"
  <2> TAKE p \in Read
  <2>1. CASE p = r  BY <1>1, <1>4, <1>5, <1>6, <2>1
  <2>2. CASE p # r /\ p = pending
    <3>1. status[p] = "posted" /\ p \in Op  BY <2>2 DEF IInv, ReadsAgree, Op
    <3>2. owner[p] # None /\ p \notin called /\ ~Queued(p)
      BY <3>1 DEF IInv, ReadsAgree
    <3> QED  BY <1>4, <1>6, <2>2, <3>1, <3>2
  <2>3. CASE p # r /\ p # pending
    <3>1. st[p] = status[p] /\ owner'[p] = owner[p]
      BY <1>4, <1>6, <2>3 DEF Op
    <3> QED  BY <2>3, <3>1 DEF IInv, ReadsAgree
  <2> QED  BY <2>1, <2>2, <2>3
<1>8. \A u \in Thread : inWrite'[u] # None =>
        /\ owner'[inWrite'[u]] = u
        /\ inWrite'[u] \notin called /\ ~Queued(inWrite'[u])
  BY <1>1, <1>2, <1>6 DEF IInv, WritesAgree, TypeOK, Op
<1>9. \A x \in Op \ Silent :
        (IF x \in Read THEN st[x] = "filled"
         ELSE owner'[x] # None /\ inWrite'[owner'[x]] # x)
        => x \in called \/ Queued(x) \/ owner'[x] \notin alive \/ x \in failed
  <2> SUFFICES ASSUME NEW x \in Op \ Silent,
                      IF x \in Read THEN st[x] = "filled"
                      ELSE owner'[x] # None /\ inWrite'[owner'[x]] # x
               PROVE  \/ x \in called \/ Queued(x)
                      \/ owner'[x] \notin alive \/ x \in failed
    OBVIOUS
  <2>1. CASE x \in Read
    <3>1. x # r /\ st[x] = status[x] /\ owner'[x] = owner[x]
      BY <1>4, <1>6, <2>1
    <3> QED  BY <2>1, <3>1 DEF IInv, NoCompletionLost
  <2>2. CASE x \notin Read
    <3>1. owner'[x] = owner[x] /\ inWrite' = inWrite  BY <1>2, <1>6, <2>2
    <3> QED  BY <2>2, <3>1 DEF IInv, NoCompletionLost
  <2> QED  BY <2>1, <2>2
<1>10. /\ owner' \in [Op -> Thread \cup {None}]
       /\ left' \in 0 .. MaxLeft
       /\ inWrite' \in [Thread -> Write \cup {None}]
       /\ read_len' \in Nat
       /\ out \in Seq(Write) /\ accepted' \in Seq(Write)
       /\ taken \o out = accepted' /\ timeouts' = timeouts
       /\ age' \in Nat /\ terms' \in [interval : Nat, mult : Nat, const : Nat]
       /\ left' + age' = OwnWait(terms', read_len')
       /\ failed \in SUBSET Op /\ failed \cup {r} \in SUBSET Op
  <2>1. /\ left' \in 0 .. MaxLeft /\ left' = OwnWait(timeouts, n)
        /\ MaxLeft \in Nat
    BY <1>1, <1>2, DeadlineFits, PortAssumption DEF MaxLeft
  <2>2. left' + age' = OwnWait(terms', read_len')  BY <1>2, <2>1
  <2> QED  BY <1>1, <1>2, <2>1, <2>2 DEF TypeOK, IInv, BytesInOrder
<1>11. /\ \A x \in Op : owner[x] # None => owner'[x] = owner[x]
       /\ owner'[r] = t
  BY <1>1, <1>5, <1>6
<1>12. CASE read_thread' = t /\ FinishRead(r, n, t, out, left', st, failed)
  <2>1. MidRegion(r, n, t, out, st, failed)
    BY <1>1, <1>2, <1>3, <1>7, <1>8, <1>9, <1>10, <1>11, <1>12 DEF MidRegion
  <2> QED  BY <1>12, <2>1, FinishKeeps
<1>13. CASE /\ read_thread' = None
            /\ FinishRead(r, n, None, out, left', st, failed \cup {r})
  <2>1. \A x \in Op \ Silent :
          (IF x \in Read THEN st[x] = "filled"
           ELSE owner'[x] # None /\ inWrite'[owner'[x]] # x)
          => \/ x \in called \/ Queued(x)
             \/ owner'[x] \notin alive \/ x \in failed \cup {r}
    BY <1>9
  <2>2. MidRegion(r, n, None, out, st, failed \cup {r})
    BY <1>1, <1>2, <1>3, <1>7, <1>8, <1>10, <1>11, <1>13, <2>1 DEF MidRegion
  <2> QED  BY <1>13, <2>2, FinishKeeps
<1>14. \/ read_thread' = t /\ FinishRead(r, n, t, out, left', st, failed)
       \/ /\ read_thread' = None
          /\ FinishRead(r, n, None, out, left', st, failed \cup {r})
  BY DEF PostRead, st
<1> QED  BY <1>12, <1>13, <1>14

\* The ticker only looks at the read that is pending.
LEMMA TickerKeeps ==
    ASSUME IInv, Ticker
    PROVE  IInv'
<1>1. /\ pending \in Read \cup {None} /\ read_len \in Nat
      /\ out \in Seq(Write) /\ status \in [Read -> Status]
   BY DEF IInv, TypeOK, Status
<1>2. /\ UNCHANGED <<read_len, read_thread, left, age, terms, timeouts, owner, called,
                     accepted, alive, inWrite>>
      /\ FinishRead(pending, read_len, read_thread, out, left, status, failed)
   BY DEF Ticker, clockVars
<1>3. /\ UNCHANGED <<alive, called>>
      /\ read_len' \in Nat /\ read_thread' \in Thread \cup {None}
      /\ left' \in 0 .. MaxLeft /\ timeouts' = timeouts
      /\ inWrite' \in [Thread -> Write \cup {None}]
      /\ owner' \in [Op -> Thread \cup {None}]
      /\ accepted' \in Seq(Write)
      /\ taken \o out = accepted'
      /\ age' \in Nat /\ failed \in SUBSET Op
      /\ terms' \in [interval : Nat, mult : Nat, const : Nat]
      /\ pending # None => /\ read_thread' = read_thread
                           /\ read_thread \in Thread \cup {None}
                           /\ \/ owner'[pending] = read_thread
                              \/ read_thread = None /\ pending \in failed
                           /\ left' + age' = OwnWait(terms', read_len')
  BY <1>2 DEF IInv, TypeOK, BytesInOrder, PendingOwned, ClockAgrees
<1>4. \A x \in Op : owner[x] # None => owner'[x] = owner[x] BY <1>2
<1>5. \A r \in Read : /\ status[r] = "new" <=> owner'[r] = None
                      /\ status[r] = "posted" <=> pending = r
                      /\ r \in called \/ Queued(r) => status[r] = "filled"
  BY <1>2 DEF IInv, ReadsAgree
<1>6.           \A u \in Thread : inWrite'[u] # None =>
               /\ owner'[inWrite'[u]] = u
               /\ inWrite'[u] \notin called /\ ~Queued(inWrite'[u])
  BY <1>2 DEF IInv, WritesAgree
<1>7.           \A x \in Op \ Silent :
               (IF x \in Read THEN status[x] = "filled"
                ELSE owner'[x] # None /\ inWrite'[owner'[x]] # x)
               => x \in called \/ Queued(x) \/ owner'[x] \notin alive \/ x \in failed
  BY <1>2 DEF IInv, NoCompletionLost
<1>8. MidRegion(pending, read_len, read_thread, out, status, failed)
  BY <1>1, <1>2, <1>3, <1>4, <1>5, <1>6, <1>7 DEF MidRegion
<1> QED BY <1>2, <1>8, FinishKeeps

\* A write adds its reply to the ring before it looks at the pending read.
LEMMA StartWriteKeeps ==
    ASSUME IInv, NEW t \in Thread, NEW w \in Write, NEW k \in 0 .. MaxReply,
           StartWrite(t, w, k)
    PROVE  IInv'
<1> DEFINE m == Least(k, Capacity - Len(out))
           reply == [i \in 1 .. m |-> w]
<1>1. /\ TypeOK /\ None \notin Thread /\ None \notin Op
      /\ Read \cap Write = {} /\ w \in Op /\ w \notin Read
  BY PortAssumption DEF IInv, Op
<1>2. /\ t \in alive /\ inWrite[t] = None /\ owner[w] = None
      /\ owner' = [owner EXCEPT ![w] = t]
      /\ inWrite' = [inWrite EXCEPT ![t] = w]
      /\ accepted' = accepted \o reply
      /\ FinishRead(pending, read_len, read_thread, out \o reply, left, status,
                    failed)
      /\ UNCHANGED <<read_len, read_thread, left, age, terms, timeouts, alive,
                     called>>
  BY DEF StartWrite, Runs, clockVars
<1>3. reply \in Seq(Write)
  <2>1. MaxReply \in Nat /\ Capacity \in Nat /\ Len(out) \in Nat
    BY <1>1, PortAssumption, LenProperties DEF TypeOK
  <2>2. m \in Int  BY <2>1 DEF Least
  <2> HIDE DEF m
  <2>3. CASE m >= 0
    <3>1. m \in Nat  BY <2>2, <2>3
    <3> QED  BY <3>1
  <2>4. CASE ~(m >= 0)
    <3>1. 1 .. m = 1 .. 0  BY <2>2, <2>4
    <3>2. [i \in 1 .. 0 |-> w] \in Seq(Write)  OBVIOUS
    <3> QED  BY <3>1, <3>2, Zenon
  <2> QED  BY <2>3, <2>4
<1> HIDE DEF reply, m
<1>4. /\ out \o reply \in Seq(Write)
      /\ accepted' \in Seq(Write)
      /\ taken \o (out \o reply) = accepted'
  <2>1. /\ out \in Seq(Write) /\ taken \in Seq(Write)
        /\ accepted \in Seq(Write)
    BY <1>1 DEF TypeOK
  <2>2. (taken \o out) \o reply = taken \o (out \o reply)
    BY <1>3, <2>1
  <2>3. taken \o out = accepted  BY DEF IInv, BytesInOrder
  <2>4. out \o reply \in Seq(Write) /\ accepted \o reply \in Seq(Write)
    BY <1>3, <2>1
  <2> QED  BY <1>2, <2>2, <2>3, <2>4, Zenon
<1>5. /\ \A x \in Op : owner'[x] = IF x = w THEN t ELSE owner[x]
      /\ \A u \in Thread : inWrite'[u] = IF u = t THEN w ELSE inWrite[u]
  BY <1>1, <1>2 DEF TypeOK
<1>6. w \notin called /\ ~Queued(w)
  <2>1. w \notin called  BY <1>2 DEF IInv, CalledIsOver
  <2>2. ~Queued(w)
    BY <1>1, <1>2 DEF IInv, CompletedOnItsThread, Queued
  <2> QED  BY <2>1, <2>2
<1>7. \A r \in Read : /\ status[r] = "new" <=> owner'[r] = None
                      /\ status[r] = "posted" <=> pending = r
                      /\ r \in called \/ Queued(r) => status[r] = "filled"
  BY <1>1, <1>5 DEF IInv, ReadsAgree, Op
<1>8. \A u \in Thread : inWrite'[u] # None =>
        /\ owner'[inWrite'[u]] = u
        /\ inWrite'[u] \notin called /\ ~Queued(inWrite'[u])
  <2> SUFFICES ASSUME NEW u \in Thread, inWrite'[u] # None
               PROVE  /\ owner'[inWrite'[u]] = u
                      /\ inWrite'[u] \notin called /\ ~Queued(inWrite'[u])
    OBVIOUS
  <2>1. CASE u = t  BY <1>1, <1>5, <1>6, <2>1
  <2>2. CASE u # t
    <3>1. inWrite'[u] = inWrite[u] /\ inWrite[u] \in Op
      BY <1>1, <1>5, <2>2 DEF TypeOK, Op
    <3>2. /\ owner[inWrite[u]] = u
          /\ inWrite[u] \notin called /\ ~Queued(inWrite[u])
      BY <3>1 DEF IInv, WritesAgree
    <3>3. inWrite[u] # w  BY <1>1, <1>2, <3>2
    <3> QED  BY <1>5, <3>1, <3>2, <3>3
  <2> QED  BY <2>1, <2>2
<1>9. \A x \in Op \ Silent :
        (IF x \in Read THEN status[x] = "filled"
         ELSE owner'[x] # None /\ inWrite'[owner'[x]] # x)
        => x \in called \/ Queued(x) \/ owner'[x] \notin alive \/ x \in failed
  <2> SUFFICES ASSUME NEW x \in Op \ Silent,
                      IF x \in Read THEN status[x] = "filled"
                      ELSE owner'[x] # None /\ inWrite'[owner'[x]] # x
               PROVE  \/ x \in called \/ Queued(x)
                      \/ owner'[x] \notin alive \/ x \in failed
    OBVIOUS
  <2>1. CASE x \in Read
    <3>1. owner'[x] = owner[x]  BY <1>1, <1>5, <2>1
    <3> QED  BY <2>1, <3>1 DEF IInv, NoCompletionLost
  <2>2. CASE x \notin Read
    <3>1. x # w  BY <1>5, <2>2, <1>1
    <3>2. /\ owner'[x] = owner[x] /\ owner[x] # None
          /\ owner[x] \in Thread
      BY <1>1, <1>5, <2>2, <3>1 DEF TypeOK
    <3>3. inWrite[owner[x]] # x
      BY <1>1, <1>2, <1>5, <2>2, <3>1, <3>2
    <3> QED  BY <2>2, <3>2, <3>3 DEF IInv, NoCompletionLost
  <2> QED  BY <2>1, <2>2
<1>10. MidRegion(pending, read_len, read_thread, out \o reply, status, failed)
  <2>1. /\ pending \in Read \cup {None} /\ read_len \in Nat
        /\ status \in [Read -> Status]
        /\ left' \in 0 .. MaxLeft
        /\ read_thread' \in Thread \cup {None} /\ read_len' \in Nat
        /\ inWrite' \in [Thread -> Write \cup {None}]
        /\ owner' \in [Op -> Thread \cup {None}]
        /\ age' \in Nat /\ failed \in SUBSET Op
        /\ terms' \in [interval : Nat, mult : Nat, const : Nat]
    BY <1>1, <1>2 DEF TypeOK, Status
  <2>2. pending # None => /\ read_thread' = read_thread
                          /\ read_thread \in Thread \cup {None}
                          /\ \/ owner'[pending] = read_thread
                             \/ read_thread = None /\ pending \in failed
                          /\ left' + age' = OwnWait(terms', read_len')
    <3> SUFFICES ASSUME pending # None
                 PROVE  /\ \/ owner'[pending] = read_thread
                           \/ read_thread = None /\ pending \in failed
                        /\ left' + age' = OwnWait(terms', read_len')
      BY <1>2, <2>1
    <3>1. pending \in Op /\ pending # w  BY <1>1, <2>1 DEF Op
    <3> QED  BY <1>2, <1>5, <3>1 DEF IInv, PendingOwned, ClockAgrees
  <2>3. \A x \in Op : owner[x] # None => owner'[x] = owner[x]
    BY <1>2, <1>5
  <2> QED  BY <1>2, <1>4, <1>7, <1>8, <1>9, <2>1, <2>2, <2>3 DEF MidRegion
<1> QED  BY <1>2, <1>10, FinishKeeps

\* The end of a write queues its completion, once.
LEMMA EndWriteKeeps ==
    ASSUME IInv, NEW t \in Thread, EndWrite(t)
    PROVE  IInv'
<1>0. PICK w : w = inWrite[t]  OBVIOUS
<1>1. /\ TypeOK /\ Unique /\ None \notin Thread /\ None \notin Op
      /\ Read \cap Write = {}
  BY PortAssumption DEF IInv, Op
<1>2. /\ w # None /\ inWrite' = [inWrite EXCEPT ![t] = None]
      /\ Queue(t, w, failed)
      /\ UNCHANGED <<portVars, owner, status, bytes, called, accepted, taken,
                     alive>>
  BY <1>0 DEF EndWrite
<1>3. w \in Write /\ w \in Op /\ w \notin Read  BY <1>0, <1>1, <1>2 DEF TypeOK, Op
<1>4. owner[w] = t /\ w \notin called /\ ~Queued(w)
  BY <1>0, <1>2 DEF IInv, WritesAgree
<1>5. /\ apc' \in [Thread -> Seq(Op)]
      /\ Unique'
      /\ \A u \in Thread : \A x \in ToSet(apc'[u]) :
           x \in ToSet(apc[u]) \/ (x = w /\ u = t)
      /\ \A x : Queued(x) => Queued(x)'
      /\ \A x : Queued(x)' => Queued(x) \/ x = w
      /\ Queued(w)' \/ w \in Silent \/ t \notin alive \/ w \in failed'
      /\ failed' = failed \/ failed' = failed \cup {w}
  <2>1. t \in Thread \cup {None}  OBVIOUS
  <2> QED  BY <1>1, <1>2, <1>3, <1>4, <2>1, QueueAdds
<1>7. \A u \in Thread : inWrite'[u] = IF u = t THEN None ELSE inWrite[u]
  BY <1>1, <1>2 DEF TypeOK
<1>8. TypeOK'
  <2>1. failed' \in SUBSET Op  BY <1>1, <1>3, <1>5 DEF TypeOK
  <2>2. inWrite' \in [Thread -> Write \cup {None}]  BY <1>1, <1>2 DEF TypeOK
  <2> QED  BY <1>1, <1>2, <1>5, <2>1, <2>2 DEF TypeOK, portVars, clockVars
<1>9. CompletedOnItsThread'
  BY <1>2, <1>4, <1>5 DEF IInv, CompletedOnItsThread
<1>10. CalledIsOver'
  BY <1>1, <1>2, <1>4, <1>5 DEF IInv, CalledIsOver, TypeOK
<1>11. ReadsAgree'
  BY <1>2, <1>3, <1>5 DEF IInv, ReadsAgree, portVars, clockVars, Op
<1>12. PendingOwned' /\ ClockAgrees'
  BY <1>2, <1>5 DEF IInv, PendingOwned, ClockAgrees, portVars, clockVars
<1>13. WritesAgree'
  <2> SUFFICES ASSUME NEW u \in Thread, inWrite'[u] # None
               PROVE  /\ owner'[inWrite'[u]] = u
                      /\ inWrite'[u] \notin called'
                      /\ ~(Queued(inWrite[u])')
    BY <1>7 DEF WritesAgree, Queued
  <2>1. u # t /\ inWrite'[u] = inWrite[u]  BY <1>7
  <2>2. /\ owner[inWrite[u]] = u /\ inWrite[u] \notin called
        /\ ~Queued(inWrite[u])
    BY <2>1 DEF IInv, WritesAgree
  <2>3. inWrite[u] # w /\ inWrite[u] \in Op
    BY <1>1, <1>4, <2>1, <2>2 DEF TypeOK, Op
  <2> QED  BY <1>2, <1>5, <2>1, <2>2, <2>3
<1>14. NoCompletionLost'
  <2> SUFFICES ASSUME NEW x \in Op \ Silent,
                      IF x \in Read THEN status'[x] = "filled"
                      ELSE owner'[x] # None /\ inWrite'[owner'[x]] # x
               PROVE  \/ x \in called' \/ Queued(x)'
                      \/ owner'[x] \notin alive' \/ x \in failed'
    BY DEF NoCompletionLost
  <2>1. CASE x = w
    <3>1. owner'[x] = t /\ alive' = alive  BY <1>2, <1>4, <2>1
    <3>2. Queued(x)' \/ x \in Silent \/ t \notin alive \/ x \in failed'
      BY <1>5, <2>1
    <3> QED  BY <3>1, <3>2
  <2>2. CASE x # w
    <3>1. IF x \in Read THEN status[x] = "filled"
          ELSE owner[x] # None /\ inWrite[owner[x]] # x
      <4>1. CASE x \in Read  BY <1>2, <4>1
      <4>2. CASE x \notin Read
        <5>1. owner[x] # None /\ owner[x] \in Thread
          BY <1>1, <1>2, <4>2 DEF TypeOK
        <5>2. CASE owner[x] = t  BY <2>2, <4>2, <5>1, <5>2, <1>0
        <5>3. CASE owner[x] # t  BY <1>2, <1>7, <4>2, <5>1, <5>3
        <5> QED  BY <5>2, <5>3
      <4> QED  BY <4>1, <4>2
    <3>2. x \in called \/ Queued(x) \/ owner[x] \notin alive \/ x \in failed
      BY <3>1 DEF IInv, NoCompletionLost
    <3> QED  BY <1>2, <1>5, <3>2
  <2> QED  BY <2>1, <2>2
<1>15. BytesInOrder'  BY <1>2 DEF IInv, BytesInOrder, portVars
<1> QED  BY <1>5, <1>8, <1>9, <1>10, <1>11, <1>12, <1>13, <1>14, <1>15 DEF IInv

\* A read that does not wait takes bytes and touches no read.
LEMMA ReadNowKeeps ==
    ASSUME IInv, NEW t \in Thread, NEW n \in Length, ReadNow(t, n)
    PROVE  IInv'
<1>1. TypeOK /\ n \in Nat  BY PortAssumption DEF IInv
<1>2. /\ out' = LeaveOf(out, n)
      /\ taken' = taken \o TakeFrom(out, n)
      /\ UNCHANGED <<pending, read_len, read_thread, left, age, terms, timeouts,
                     owner, status, bytes, called, failed, accepted, apc, alive,
                     inWrite>>
  BY DEF ReadNow, clockVars
<1>3. out \in Seq(Write) /\ taken \in Seq(Write)  BY <1>1 DEF TypeOK
<1>4. /\ LeaveOf(out, n) \in Seq(Write)
      /\ taken \o TakeFrom(out, n) \in Seq(Write)
      /\ (taken \o TakeFrom(out, n)) \o LeaveOf(out, n) = taken \o out
  BY <1>1, <1>3, TakeAndLeave, TakeKeepsStream
<1>5. TypeOK'  BY <1>1, <1>2, <1>4 DEF TypeOK
<1>6. BytesInOrder'
  <2>1. taken' \o out' = (taken \o TakeFrom(out, n)) \o LeaveOf(out, n)
    BY <1>2, Zenon
  <2>2. taken \o out = accepted /\ accepted' = accepted
    BY <1>2 DEF IInv, BytesInOrder
  <2> QED  BY <1>4, <2>1, <2>2, Zenon DEF BytesInOrder
<1> QED  BY <1>2, <1>5, <1>6
         DEF IInv, Unique, CompletedOnItsThread, CalledIsOver, ReadsAgree,
             PendingOwned, ClockAgrees, WritesAgree, NoCompletionLost, Queued

\* A cancelled read leaves the port without a completion.
LEMMA CancelKeeps ==
    ASSUME IInv, NEW t \in Thread, Cancel(t)
    PROVE  IInv'
<1>1. TypeOK  BY DEF IInv
<1>2. /\ pending # None /\ pending' = None
      /\ status' = [status EXCEPT ![pending] = "cancelled"]
      /\ UNCHANGED <<out, read_len, read_thread, left, age, terms, timeouts, owner,
                     bytes, called, failed, accepted, taken, apc, alive, inWrite>>
  BY DEF Cancel, clockVars
<1>3. pending \in Read /\ status[pending] = "posted"
  BY <1>1, <1>2 DEF TypeOK, IInv, ReadsAgree
<1>4. \A r \in Read : status'[r] = IF r = pending THEN "cancelled" ELSE status[r]
  BY <1>1, <1>2 DEF TypeOK
<1>5. TypeOK'  BY <1>1, <1>2 DEF TypeOK
<1>6. \A x : Queued(x)' <=> Queued(x)  BY <1>2 DEF Queued
<1>7. ReadsAgree'
  <2> SUFFICES ASSUME NEW r \in Read
               PROVE  /\ status'[r] = "new" <=> owner'[r] = None
                      /\ status'[r] = "posted" <=> pending' = r
                      /\ r \in called' \/ Queued(r)' => status'[r] = "filled"
    BY DEF ReadsAgree
  <2>1. r # None  BY PortAssumption
  <2>2. /\ status[r] = "new" <=> owner[r] = None
        /\ status[r] = "posted" <=> pending = r
        /\ r \in called \/ Queued(r) => status[r] = "filled"
    BY DEF IInv, ReadsAgree
  <2> QED  BY <1>2, <1>3, <1>4, <1>6, <2>1, <2>2
<1>8. NoCompletionLost'
  BY <1>2, <1>3, <1>4, <1>6 DEF IInv, NoCompletionLost
<1> QED  BY <1>2, <1>5, <1>7, <1>8
         DEF IInv, Unique, CompletedOnItsThread, CalledIsOver, PendingOwned,
             ClockAgrees, WritesAgree, BytesInOrder, Queued

\* New timeouts are for the reads to come.
LEMMA SetTimeoutsKeeps ==
    ASSUME IInv, NEW t \in Thread, NEW to \in Timeouts, SetTimeouts(t, to)
    PROVE  IInv'
<1>1. /\ timeouts' = to
      /\ UNCHANGED <<out, pending, read_len, read_thread, left, age, terms, owner,
                     status, bytes, called, failed, accepted, taken, apc, alive,
                     inWrite>>
  BY DEF SetTimeouts, opVars, clockVars
<1>2. TypeOK'  BY <1>1, PortAssumption DEF IInv, TypeOK
<1> QED  BY <1>1, <1>2
         DEF IInv, Unique, CompletedOnItsThread, CalledIsOver, ReadsAgree,
             PendingOwned, ClockAgrees, WritesAgree, NoCompletionLost, BytesInOrder,
             Queued

\* An alertable wait moves one operation from its thread's queue to the called.
LEMMA AlertableWaitKeeps ==
    ASSUME IInv, NEW t \in Thread, AlertableWait(t)
    PROVE  IInv'
<1> DEFINE h == Head(apc[t])
<1>1. /\ TypeOK /\ Unique /\ None \notin Thread  BY PortAssumption DEF IInv
<1>2. /\ apc[t] # << >> /\ inWrite[t] = None
      /\ called' = called \cup {h}
      /\ apc' = [apc EXCEPT ![t] = Tail(apc[t])]
      /\ UNCHANGED <<portVars, owner, status, bytes, failed, accepted, taken,
                     alive, inWrite>>
  BY DEF AlertableWait, Runs
<1>3. /\ h \in Op /\ h \in ToSet(apc[t])
      /\ Tail(apc[t]) \in Seq(Op)
      /\ ToSet(Tail(apc[t])) \subseteq ToSet(apc[t])
      /\ ToSet(apc[t]) \subseteq ToSet(Tail(apc[t])) \cup {h}
      /\ NoDup(Tail(apc[t])) /\ h \notin ToSet(Tail(apc[t]))
  BY <1>1, <1>2, TailQueue DEF TypeOK, Unique
<1> HIDE DEF h
<1>4. owner[h] = t  BY <1>3 DEF IInv, CompletedOnItsThread
<1>5. \A u \in Thread : apc'[u] = IF u = t THEN Tail(apc[t]) ELSE apc[u]
  BY <1>1, <1>2 DEF TypeOK
<1>6. \A x : Queued(x)' <=> Queued(x) /\ x # h
  <2> SUFFICES ASSUME NEW x PROVE Queued(x)' <=> Queued(x) /\ x # h  OBVIOUS
  <2>1. ASSUME Queued(x)' PROVE Queued(x) /\ x # h
    <3>1. PICK u \in Thread : x \in ToSet(apc'[u])  BY <2>1 DEF Queued
    <3>2. CASE u = t  BY <1>3, <1>5, <3>1, <3>2 DEF Queued
    <3>3. CASE u # t
      <4>1. x \in ToSet(apc[u])  BY <1>5, <3>1, <3>3
      <4>2. owner[x] = u  BY <4>1 DEF IInv, CompletedOnItsThread
      <4> QED  BY <1>4, <3>3, <4>1, <4>2 DEF Queued
    <3> QED  BY <3>2, <3>3
  <2>2. ASSUME Queued(x), x # h PROVE Queued(x)'
    <3>1. PICK u \in Thread : x \in ToSet(apc[u])  BY <2>2 DEF Queued
    <3>2. x \in ToSet(apc'[u])  BY <1>3, <1>5, <2>2, <3>1
    <3> QED  BY <3>2 DEF Queued
  <2> QED  BY <2>1, <2>2
<1>7. TypeOK'
  BY <1>1, <1>2, <1>3 DEF TypeOK, portVars, clockVars
<1>8. Unique'  BY <1>1, <1>3, <1>5 DEF Unique
<1>9. CompletedOnItsThread'
  BY <1>2, <1>3, <1>5 DEF IInv, CompletedOnItsThread
<1>10. CalledIsOver'
  BY <1>1, <1>2, <1>4, <1>6 DEF IInv, CalledIsOver
<1>11. ReadsAgree'
  <2>1. h \in Read => status[h] = "filled"
    BY <1>3 DEF IInv, ReadsAgree, Queued
  <2> QED  BY <1>2, <1>6, <2>1 DEF IInv, ReadsAgree, portVars
<1>12. PendingOwned' /\ ClockAgrees'
  BY <1>2 DEF IInv, PendingOwned, ClockAgrees, portVars, clockVars
<1>13. WritesAgree'
  <2>1. \A u \in Thread : inWrite[u] # h
    BY <1>3, PortAssumption DEF IInv, WritesAgree, Queued, Op
  <2> QED  BY <1>2, <1>6, <2>1 DEF IInv, WritesAgree
<1>14. NoCompletionLost'
  BY <1>2, <1>6 DEF IInv, NoCompletionLost
<1>15. BytesInOrder'  BY <1>2 DEF IInv, BytesInOrder, portVars
<1> QED  BY <1>7, <1>8, <1>9, <1>10, <1>11, <1>12, <1>13, <1>14, <1>15 DEF IInv

\* What was queued to a thread that ends is its own, and excused.
LEMMA ThreadExitKeeps ==
    ASSUME IInv, NEW t \in Thread, ThreadExit(t)
    PROVE  IInv'
<1>1. TypeOK /\ Unique  BY DEF IInv
<1>2. /\ alive' = alive \ {t}
      /\ apc' = [apc EXCEPT ![t] = << >>]
      /\ UNCHANGED <<portVars, opVars, inWrite>>
  BY DEF ThreadExit
<1>3. \A u \in Thread : apc'[u] = IF u = t THEN << >> ELSE apc[u]
  BY <1>1, <1>2 DEF TypeOK
<1>4. ToSet(<< >>) = {} /\ NoDup(<< >>) /\ << >> \in Seq(Op)
  BY DEF ToSet, NoDup
<1>5. TypeOK'  BY <1>1, <1>2, <1>4 DEF TypeOK, portVars, clockVars, opVars
<1>6. Unique'  BY <1>1, <1>3, <1>4 DEF Unique
<1>7. CompletedOnItsThread'
  BY <1>2, <1>3, <1>4 DEF IInv, CompletedOnItsThread, opVars
<1>8. \A x : Queued(x)' => Queued(x)  BY <1>3, <1>4 DEF Queued
<1>9. /\ CalledIsOver' /\ ReadsAgree' /\ PendingOwned' /\ ClockAgrees'
      /\ BytesInOrder'
  BY <1>2, <1>8 DEF IInv, CalledIsOver, ReadsAgree, PendingOwned, ClockAgrees,
     BytesInOrder, opVars, portVars, clockVars
<1>10. WritesAgree'
  BY <1>2, <1>8 DEF IInv, WritesAgree, opVars
<1>11. \A x \in Op : Queued(x) => Queued(x)' \/ owner[x] = t
  <2> SUFFICES ASSUME NEW x \in Op, Queued(x) PROVE Queued(x)' \/ owner[x] = t
    OBVIOUS
  <2>1. PICK u \in Thread : x \in ToSet(apc[u])  BY DEF Queued
  <2>2. CASE u = t  BY <2>1, <2>2 DEF IInv, CompletedOnItsThread
  <2>3. CASE u # t  BY <1>3, <2>1, <2>3 DEF Queued
  <2> QED  BY <2>2, <2>3
<1>12. NoCompletionLost'
  BY <1>2, <1>11 DEF IInv, NoCompletionLost, opVars
<1> QED  BY <1>5, <1>6, <1>7, <1>9, <1>10, <1>12 DEF IInv

\* Time only moves the deadline.
LEMMA ElapseKeeps ==
    ASSUME IInv, Elapse
    PROVE  IInv'
<1>1. /\ left > 0 /\ left' = left - 1 /\ age' = age + 1
      /\ UNCHANGED <<out, pending, read_len, read_thread, timeouts, terms, owner,
                     status, bytes, called, failed, accepted, taken, apc, alive,
                     inWrite>>
  BY DEF Elapse, opVars
<1>2. MaxLeft \in Nat  BY PortAssumption DEF MaxLeft
<1>3. TypeOK'  BY <1>1, <1>2 DEF IInv, TypeOK
<1>4. left' + age' = left + age  BY <1>1, <1>2 DEF IInv, TypeOK
<1> QED  BY <1>1, <1>3, <1>4
         DEF IInv, Unique, CompletedOnItsThread, CalledIsOver, ReadsAgree,
             PendingOwned, ClockAgrees, WritesAgree, NoCompletionLost, BytesInOrder,
             Queued

LEMMA StutterKeeps ==
    ASSUME IInv, UNCHANGED vars
    PROVE  IInv'
<1>1. UNCHANGED <<out, pending, read_len, read_thread, left, age, terms, timeouts,
                  owner, status, bytes, called, failed, accepted, taken, apc,
                  alive, inWrite>>
  BY DEF vars, portVars, clockVars, opVars
<1> QED  BY <1>1
         DEF IInv, TypeOK, Unique, CompletedOnItsThread, CalledIsOver, ReadsAgree,
             PendingOwned, ClockAgrees, WritesAgree, NoCompletionLost, BytesInOrder,
             Queued
-----------------------------------------------------------------------------
LEMMA NextIInv ==
    ASSUME IInv, [Next]_vars
    PROVE  IInv'
<1>1. ASSUME NEW t \in Thread, GameStep(t) PROVE IInv'
  <2>1. ASSUME NEW r \in Read, NEW n \in Length, PostRead(t, r, n) PROVE IInv'
    BY <2>1, PostReadKeeps
  <2>2. ASSUME NEW w \in Write, NEW k \in 0 .. MaxReply, StartWrite(t, w, k)
        PROVE  IInv'
    BY <2>2, StartWriteKeeps
  <2>3. CASE EndWrite(t)  BY <2>3, EndWriteKeeps
  <2>4. ASSUME NEW n \in Length, ReadNow(t, n) PROVE IInv'
    BY <2>4, ReadNowKeeps
  <2>5. CASE Cancel(t)  BY <2>5, CancelKeeps
  <2>6. ASSUME NEW to \in Timeouts, SetTimeouts(t, to) PROVE IInv'
    BY <2>6, SetTimeoutsKeeps
  <2>7. CASE AlertableWait(t)  BY <2>7, AlertableWaitKeeps
  <2>8. CASE ThreadExit(t)  BY <2>8, ThreadExitKeeps
  <2> QED  BY <1>1, <2>1, <2>2, <2>3, <2>4, <2>5, <2>6, <2>7, <2>8 DEF GameStep
<1>2. CASE Ticker  BY <1>2, TickerKeeps
<1>3. CASE Elapse  BY <1>3, ElapseKeeps
<1>4. CASE UNCHANGED vars  BY <1>4, StutterKeeps
<1> QED  BY <1>1, <1>2, <1>3, <1>4 DEF Next

LEMMA Invariance == Spec => []IInv
<1>1. IInv /\ [Next]_vars => IInv'  BY NextIInv
<1> QED  BY InitIInv, <1>1, PTL DEF Spec

(***************************************************************************)
(* The port and the calls on it stay well typed, for any set of threads,   *)
(* reads, writes and timeouts (jvs.c JvsPort).                             *)
(***************************************************************************)
THEOREM PortTyped == Spec => []TypeOK
<1>1. IInv => TypeOK  BY DEF IInv
<1> QED  BY Invariance, <1>1, PTL

(***************************************************************************)
(* A completion routine only runs on the thread that asked: whichever      *)
(* thread's write, post or tick reaches finish_read(), it queues the       *)
(* completion to the thread that posted the read.                          *)
(***************************************************************************)
THEOREM CompletionsGoHome == Spec => []CompletedOnItsThread
<1>1. IInv => CompletedOnItsThread  BY DEF IInv
<1> QED  BY Invariance, <1>1, PTL

(***************************************************************************)
(* No call completes twice, none before it is over.                        *)
(***************************************************************************)
THEOREM CompletionsOnce == Spec => []CompletedOnce
<1>1. ASSUME IInv PROVE CompletedOnce
  <2>1. ASSUME NEW t \in Thread, NEW u \in Thread,
               NEW i \in DOMAIN apc[t], NEW j \in DOMAIN apc[u],
               apc[t][i] = apc[u][j]
        PROVE  t = u /\ i = j
    <3>1. apc[t][i] \in ToSet(apc[t]) /\ apc[u][j] \in ToSet(apc[u])
      BY DEF ToSet
    <3>2. t = u  BY <1>1, <2>1, <3>1 DEF IInv, CompletedOnItsThread
    <3> QED  BY <1>1, <2>1, <3>2 DEF IInv, Unique, NoDup
  <2> QED
    BY <1>1, <2>1
    DEF IInv, CompletedOnce, CalledIsOver, ReadsAgree, WritesAgree
<1> QED  BY Invariance, <1>1, PTL

(***************************************************************************)
(* A filled read or a finished write of a thread that is still there has   *)
(* its completion queued or run, unless Windows had no memory or no handle *)
(* for that call.                                                          *)
(***************************************************************************)
THEOREM CompletionsKept == Spec => []NoCompletionLost
<1>1. IInv => NoCompletionLost  BY DEF IInv
<1> QED  BY Invariance, <1>1, PTL

(***************************************************************************)
(* Whatever reads race for them, the board's bytes reach the game in order *)
(* and once.                                                               *)
(***************************************************************************)
THEOREM StreamInOrder == Spec => []BytesInOrder
<1>1. IInv => BytesInOrder  BY DEF IInv
<1> QED  BY Invariance, <1>1, PTL

\* finish_read() fills no read but the pending one, and that one short only
\* with its deadline over.
LEMMA FinishFillsWhole ==
    ASSUME DOMAIN bytes = Read, NEW st, DOMAIN st = Read,
           NEW r \in Read \cup {None}, NEW n \in Nat, NEW t, NEW l \in Nat,
           NEW o \in Seq(Write), NEW f,
           FinishRead(r, n, t, o, l, st, f),
           NEW x \in Read, st[x] # "filled", status'[x] = "filled",
           Len(bytes'[x]) < n
    PROVE  l = 0 /\ r # None
<1>1. Finishes(r, n, o, l) /\ r = x /\ bytes'[x] = TakeFrom(o, n)
  BY DEF FinishRead, Finishes
<1>2. Len(o) \in Nat /\ Least(n, Len(o)) \in 0 .. Len(o)
  BY LenProperties DEF Least
<1>3. \A i \in 1 .. Least(n, Len(o)) : o[i] \in Write
  BY <1>2, ElementOfSeq
<1>4. Len(TakeFrom(o, n)) = Least(n, Len(o))
  BY <1>2, <1>3, SubSeqProperties, 1 \in Int, Least(n, Len(o)) \in Int
  DEF TakeFrom
<1> QED  BY <1>1, <1>2, <1>4 DEF Finishes, Least

(***************************************************************************)
(* Whoever's step ends a read with less than it asked for, the poster's, a *)
(* writer's or the ticker's: it has waited what the timeouts at its own    *)
(* post give its own length, whatever was posted, set or wrapped before.   *)
(***************************************************************************)
THEOREM ShortReadsWaited == Spec => ShortAfterOwnWait
<1> DEFINE Short == \A r \in Read :
              /\ status[r] # "filled" /\ status'[r] = "filled"
              /\ Len(bytes'[r]) < read_len'
              => age' = OwnWait(terms', read_len')
<1>1. ASSUME IInv, [Next]_vars PROVE [Short]_vars
  <2> SUFFICES ASSUME NEW r \in Read,
                      status[r] # "filled", status'[r] = "filled",
                      Len(bytes'[r]) < read_len', ~ UNCHANGED vars
               PROVE  age' = OwnWait(terms', read_len')
    OBVIOUS
  <2> USE PortAssumption
  <2>0. TypeOK /\ TypeOK'  BY <1>1, NextIInv DEF IInv
  <2>a. /\ DOMAIN bytes = Read /\ DOMAIN status = Read
        /\ pending \in Read \cup {None} /\ out \in Seq(Write)
        /\ read_len \in Nat /\ left \in Nat /\ left' \in Nat
        /\ age \in Nat
    BY <2>0 DEF TypeOK, MaxLeft
  <2>b. pending # None => left + age = OwnWait(terms, read_len)
    BY <1>1 DEF IInv, ClockAgrees
  <2>1. ASSUME NEW t \in Thread, NEW p \in Read, NEW n \in Length, PostRead(t, p, n)
        PROVE  age' = OwnWait(terms', read_len')
    <3>1. DOMAIN Posted(p) = Read /\ Posted(p)[r] # "filled"
      BY <2>a DEF Posted
    <3>2. /\ n \in Nat /\ read_len' = n /\ age' = 0 /\ terms' = timeouts
          /\ left' = Deadline(n)
          /\ \/ FinishRead(p, n, t, out, left', Posted(p), failed)
             \/ FinishRead(p, n, None, out, left', Posted(p), failed \cup {p})
      BY <2>1 DEF PostRead
    <3>3. left' = 0  BY <2>a, <3>1, <3>2, FinishFillsWhole
    <3> QED  BY <2>0, <3>2, <3>3, DeadlineFits
  <2>2. ASSUME NEW t \in Thread, NEW w \in Write, NEW k \in 0 .. MaxReply,
               StartWrite(t, w, k)
        PROVE  age' = OwnWait(terms', read_len')
    <3> DEFINE m     == Least(k, Capacity - Len(out))
               reply == [i \in 1 .. m |-> w]
    <3>1. reply \in Seq(Write)
      BY <2>0, LenProperties, IsASeq, SeqDef DEF TypeOK, Least
    <3> HIDE DEF reply
    <3>2. out \o reply \in Seq(Write)  BY <2>0, <3>1, ConcatProperties DEF TypeOK
    <3>3. /\ FinishRead(pending, read_len, read_thread, out \o reply, left,
                        status, failed)
          /\ UNCHANGED <<left, age, terms, read_len>>
      BY <2>2 DEF StartWrite, reply, clockVars
    <3>4. left = 0 /\ pending # None  BY <2>a, <3>2, <3>3, FinishFillsWhole
    <3> QED  BY <2>a, <2>b, <3>3, <3>4
  <2>3. CASE Ticker
    <3>1. /\ FinishRead(pending, read_len, read_thread, out, left, status, failed)
          /\ UNCHANGED <<left, age, terms, read_len>>
      BY <2>3 DEF Ticker, clockVars
    <3>2. left = 0 /\ pending # None  BY <2>a, <3>1, FinishFillsWhole
    <3> QED  BY <2>a, <2>b, <3>1, <3>2
  <2>4. ASSUME NEW t \in Thread, GameStep(t),
               ~ \E p \in Read, n \in Length : PostRead(t, p, n),
               ~ \E w \in Write, k \in 0 .. MaxReply : StartWrite(t, w, k)
        PROVE  FALSE
    <3>1. status' = status \/ \E p \in Read : status' = [status EXCEPT ![p] = "cancelled"]
      BY <2>0, <2>4 DEF GameStep, EndWrite, ReadNow, Cancel, SetTimeouts, AlertableWait,
                        ThreadExit, opVars, TypeOK
    <3> QED  BY <2>0, <3>1 DEF TypeOK
  <2>5. CASE Elapse  BY <2>5 DEF Elapse, opVars
  <2> QED  BY <1>1, <2>1, <2>2, <2>3, <2>4, <2>5 DEF Next
<1>2. IInv /\ [Next]_vars => [Short]_vars  BY <1>1
<1> HIDE DEF Short
<1>3. Spec => [][Short]_vars  BY Invariance, <1>2, PTL DEF Spec
<1> QED  BY <1>3 DEF ShortAfterOwnWait, Short
-----------------------------------------------------------------------------
(***************************************************************************)
(* An index that has run at most once round the ring is brought back by    *)
(* subtracting its size: the two outcomes of every % FIFO_SIZE.            *)
(***************************************************************************)
LEMMA WrapOnce ==
    \A a \in 0 .. 2 * FIFO_SIZE - 1 :
        /\ a % FIFO_SIZE = IF a < FIFO_SIZE THEN a ELSE a - FIFO_SIZE
        /\ a % FIFO_SIZE \in Slot
<1> DEFINE n == FIFO_SIZE
<1>0. n \in Nat \ {0}  BY RingAssumption
<1> HIDE DEF n
<1>1. \A a \in 0 .. n - 1 : a % n = a  BY <1>0
<1>2. \A a \in n .. 2 * n - 1 : a % n = a - n  BY <1>0
<1>3. \A a \in 0 .. 2 * n - 1 : /\ a % n = IF a < n THEN a ELSE a - n
                                /\ a % n \in 0 .. n - 1
  <2> TAKE a \in 0 .. 2 * n - 1
  <2>1. CASE a < n
    <3>1. a \in 0 .. n - 1  BY <2>1, <1>0
    <3> QED  BY <2>1, <3>1, <1>1
  <2>2. CASE ~(a < n)
    <3>1. a \in n .. 2 * n - 1  BY <2>2, <1>0
    <3> QED  BY <2>2, <3>1, <1>2, <1>0
  <2> QED  BY <2>1, <2>2
<1> QED  BY <1>3 DEF n, Slot

\* A slot and a distance of at most the ring's size wrap once.
LEMMA WrapSum ==
    \A a \in Slot : \A b \in 0 .. FIFO_SIZE :
        /\ (a + b) % FIFO_SIZE
             = IF a + b < FIFO_SIZE THEN a + b ELSE a + b - FIFO_SIZE
        /\ (a + b) % FIFO_SIZE \in Slot
<1> TAKE a \in Slot
<1> TAKE b \in 0 .. FIFO_SIZE
<1> DEFINE x == a + b
<1>1. x \in 0 .. 2 * FIFO_SIZE - 1  BY RingAssumption DEF Slot
<1> HIDE DEF x
<1>2. /\ x % FIFO_SIZE = IF x < FIFO_SIZE THEN x ELSE x - FIFO_SIZE
      /\ x % FIFO_SIZE \in Slot
  BY <1>1, WrapOnce
<1> QED  BY <1>2, RingAssumption DEF x, Slot

\* out_avail() is the distance from head to tail round the ring.
LEMMA Distance ==
    \A h \in Slot : \A t \in Slot :
        /\ (t + FIFO_SIZE - h) % FIFO_SIZE
             = IF t >= h THEN t - h ELSE t + FIFO_SIZE - h
        /\ (t + FIFO_SIZE - h) % FIFO_SIZE \in Slot
<1> TAKE h \in Slot
<1> TAKE t \in Slot
<1> DEFINE x == t + FIFO_SIZE - h
<1>1. /\ x \in 0 .. 2 * FIFO_SIZE - 1
      /\ IF x < FIFO_SIZE THEN t < h /\ x = t + FIFO_SIZE - h
                          ELSE t >= h /\ x - FIFO_SIZE = t - h
  BY RingAssumption DEF Slot
<1> HIDE DEF x
<1>2. /\ x % FIFO_SIZE = IF x < FIFO_SIZE THEN x ELSE x - FIFO_SIZE
      /\ x % FIFO_SIZE \in Slot
  BY <1>1, WrapOnce
<1>3. /\ x % FIFO_SIZE = IF t >= h THEN t - h ELSE t + FIFO_SIZE - h
      /\ x % FIFO_SIZE \in Slot
  BY <1>1, <1>2, RingAssumption DEF Slot
<1> QED  BY <1>3 DEF x

LEMMA AvailIsDistance ==
    ASSUME RingTypeOK
    PROVE  /\ OutAvail \in Slot
           /\ OutAvail = IF out_tail >= out_head THEN out_tail - out_head
                         ELSE out_tail + FIFO_SIZE - out_head
BY Distance DEF RingTypeOK, OutAvail

\* The n bytes from slot h on, round the ring.
Stretch(o, h, n) == [i \in 1 .. n |-> o[(h + (i - 1)) % FIFO_SIZE]]

\* A stretch of the ring is a sequence of that length.
LEMMA StretchIsSequence ==
    \A o \in [Slot -> Byte \cup {NoByte}] : \A h, n \in Slot :
        /\ Stretch(o, h, n) \in Seq(Byte \cup {NoByte})
        /\ Len(Stretch(o, h, n)) = n
        /\ \A i \in 1 .. n :
             /\ (h + (i - 1)) % FIFO_SIZE \in Slot
             /\ Stretch(o, h, n)[i] = o[(h + (i - 1)) % FIFO_SIZE]
<1> TAKE o \in [Slot -> Byte \cup {NoByte}]
<1> TAKE h, n \in Slot
<1>1. n \in Nat  BY RingAssumption DEF Slot
<1>2. \A i \in 1 .. n : (h + (i - 1)) % FIFO_SIZE \in Slot
  <2> TAKE i \in 1 .. n
  <2>1. i - 1 \in 0 .. FIFO_SIZE  BY <1>1, RingAssumption DEF Slot
  <2> QED  BY <2>1, WrapSum
<1>3. Stretch(o, h, n) \in [1 .. n -> Byte \cup {NoByte}]
  BY <1>2 DEF Stretch
<1>4. \A i \in 1 .. n : Stretch(o, h, n)[i] = o[(h + (i - 1)) % FIFO_SIZE]
  BY DEF Stretch
<1> HIDE DEF Stretch
<1>5. Stretch(o, h, n) \in Seq(Byte \cup {NoByte}) /\ Len(Stretch(o, h, n)) = n
  BY <1>1, <1>3
<1> QED  BY <1>2, <1>4, <1>5, Zenon

\* The waiting bytes are a sequence of the length out_avail() reports.
LEMMA WaitingIsSequence ==
    ASSUME RingTypeOK
    PROVE  /\ Waiting = Stretch(ring, out_head, OutAvail)
           /\ Waiting \in Seq(Byte \cup {NoByte})
           /\ Len(Waiting) = OutAvail
<1>1. Waiting = Stretch(ring, out_head, OutAvail)  BY DEF Waiting, Stretch
<1> QED  BY <1>1, AvailIsDistance, StretchIsSequence DEF RingTypeOK
-----------------------------------------------------------------------------
RingInv == RingTypeOK /\ WaitingIsWritten

\* The distance from head to tail grows by one when the tail moves on and does
\* not meet the head.
LEMMA OneFurther ==
    \A h, t, n \in Slot :
        n = (IF t + 1 < FIFO_SIZE THEN t + 1 ELSE t + 1 - FIFO_SIZE) /\ n # h =>
        LET before == IF t >= h THEN t - h ELSE t + FIFO_SIZE - h
            after  == IF n >= h THEN n - h ELSE n + FIFO_SIZE - h
        IN  before < FIFO_SIZE - 1 /\ after = before + 1
  BY RingAssumption DEF Slot

\* A pushed byte joins the back of what waits.
LEMMA PushAppends ==
    ASSUME RingInv, NEW b \in Byte, OutPush(b)
    PROVE  /\ RingTypeOK'
           /\ OutAvail < FIFO_SIZE - 1
           /\ OutAvail' = OutAvail + 1
           /\ Waiting' = Append(Waiting, b)
           /\ WaitingIsWritten'
<1> DEFINE next == (out_tail + 1) % FIFO_SIZE
<1>0. FIFO_SIZE \in Nat \ {0}  BY RingAssumption
<1>1. /\ next \in Slot
      /\ next = IF out_tail + 1 < FIFO_SIZE THEN out_tail + 1
                ELSE out_tail + 1 - FIFO_SIZE
  BY <1>0, WrapSum DEF RingInv, RingTypeOK
<1>2. /\ next # out_head
      /\ ring' = [ring EXCEPT ![out_tail] = b]
      /\ out_tail' = next /\ out_head' = out_head /\ dst' = dst
  BY DEF OutPush
<1>3. RingTypeOK'
  BY <1>1, <1>2 DEF RingInv, RingTypeOK
<1>4. /\ OutAvail \in Slot
      /\ OutAvail = IF out_tail >= out_head THEN out_tail - out_head
                    ELSE out_tail + FIFO_SIZE - out_head
  BY AvailIsDistance DEF RingInv
<1>5. OutAvail' = IF out_tail' >= out_head' THEN out_tail' - out_head'
                  ELSE out_tail' + FIFO_SIZE - out_head'
  BY <1>3, Distance DEF RingTypeOK, OutAvail
<1>6. OutAvail < FIFO_SIZE - 1 /\ OutAvail' = OutAvail + 1
  <2>1. out_head \in Slot /\ out_tail \in Slot /\ out_head' = out_head
    BY <1>2 DEF RingInv, RingTypeOK
  <2> HIDE DEF next
  <2> QED  BY <1>1, <1>2, <1>4, <1>5, <2>1, OneFurther
<1>7. \A i \in 1 .. OutAvail :
         (out_head + (i - 1)) % FIFO_SIZE \in Slot \ {out_tail}
  <2> TAKE i \in 1 .. OutAvail
  <2>1. i - 1 \in 0 .. FIFO_SIZE /\ i \in Nat /\ i <= OutAvail
    BY <1>0, <1>4 DEF Slot
  <2>2. /\ (out_head + (i - 1)) % FIFO_SIZE \in Slot
        /\ (out_head + (i - 1)) % FIFO_SIZE
             = IF out_head + (i - 1) < FIFO_SIZE THEN out_head + (i - 1)
               ELSE out_head + (i - 1) - FIFO_SIZE
    BY <2>1, WrapSum DEF RingInv, RingTypeOK
  <2> QED  BY <1>0, <1>4, <2>1, <2>2 DEF RingInv, RingTypeOK, Slot
<1>8. (out_head + ((OutAvail + 1) - 1)) % FIFO_SIZE = out_tail
  <2>1. OutAvail \in 0 .. FIFO_SIZE /\ (OutAvail + 1) - 1 = OutAvail
    BY <1>0, <1>4 DEF Slot
  <2>2. (out_head + OutAvail) % FIFO_SIZE
          = IF out_head + OutAvail < FIFO_SIZE THEN out_head + OutAvail
            ELSE out_head + OutAvail - FIFO_SIZE
    BY <2>1, WrapSum DEF RingInv, RingTypeOK
  <2> QED  BY <1>0, <1>4, <2>1, <2>2 DEF RingInv, RingTypeOK, Slot
<1>9. Waiting' = Append(Waiting, b)
  <2>1. Waiting \in Seq(Byte \cup {NoByte}) /\ Len(Waiting) = OutAvail
    BY WaitingIsSequence DEF RingInv
  <2>2. Waiting' = [i \in 1 .. OutAvail + 1 |->
                      ring'[(out_head + (i - 1)) % FIFO_SIZE]]
    BY <1>2, <1>6 DEF Waiting
  <2>3. \A i \in 1 .. OutAvail :
          ring'[(out_head + (i - 1)) % FIFO_SIZE] = Waiting[i]
    BY <1>2, <1>7 DEF Waiting, RingInv, RingTypeOK
  <2>4. ring'[(out_head + ((OutAvail + 1) - 1)) % FIFO_SIZE] = b
    BY <1>2, <1>8 DEF RingInv, RingTypeOK
  <2>5. /\ Append(Waiting, b) \in Seq(Byte \cup {NoByte})
        /\ Len(Append(Waiting, b)) = OutAvail + 1
        /\ \A i \in 1 .. OutAvail : Append(Waiting, b)[i] = Waiting[i]
        /\ Append(Waiting, b)[OutAvail + 1] = b
    BY <2>1, AppendProperties, b \in Byte \cup {NoByte}
  <2>6. /\ Waiting' \in Seq(Byte \cup {NoByte})
        /\ Len(Waiting') = OutAvail + 1
    <3>1. Waiting' = Stretch(ring', out_head', OutAvail')
      BY DEF Waiting, Stretch
    <3>2. OutAvail' \in Slot  BY <1>0, <1>4, <1>6 DEF Slot
    <3> QED  BY <3>1, <3>2, <1>3, <1>6, StretchIsSequence DEF RingTypeOK
  <2>7. ASSUME NEW i \in 1 .. OutAvail + 1
        PROVE  Waiting'[i] = Append(Waiting, b)[i]
    <3>1. CASE i <= OutAvail
      <4>1. i \in 1 .. OutAvail  BY <3>1, <1>4, <1>0 DEF Slot
      <4> QED  BY <3>1, <4>1, <2>2, <2>3, <2>5
    <3>2. CASE ~(i <= OutAvail)
      <4>1. i = OutAvail + 1  BY <3>2, <1>4, <1>0 DEF Slot
      <4> QED  BY <3>2, <4>1, <2>2, <2>4, <2>5
    <3> QED  BY <3>1, <3>2
  <2> QED  BY <2>5, <2>6, <2>7, SeqEqual
<1>10. WaitingIsWritten'
  <2>1. Waiting \in Seq(Byte \cup {NoByte}) /\ Len(Waiting) = OutAvail
    BY WaitingIsSequence DEF RingInv
  <2>2. ASSUME NEW i \in 1 .. OutAvail + 1  PROVE Append(Waiting, b)[i] # NoByte
    BY <2>1, <1>4, <1>0, RingAssumption DEF RingInv, WaitingIsWritten, Slot
  <2> QED  BY <1>6, <1>9, <2>2 DEF WaitingIsWritten
<1> QED  BY <1>3, <1>6, <1>9, <1>10

\* A read takes the front of what waits and leaves the rest.
LEMMA TakeRemoves ==
    ASSUME RingInv, NEW n \in Request, OutTake(n)
    PROVE  /\ RingTypeOK'
           /\ WaitingIsWritten'
           /\ dst' = SubSeq(Waiting, 1, Fifo!Least(n, Len(Waiting)))
           /\ Waiting' = SubSeq(Waiting, Fifo!Least(n, Len(Waiting)) + 1,
                                Len(Waiting))
<1> DEFINE k == IF n <= OutAvail THEN n ELSE OutAvail
           T == Byte \cup {NoByte}
<1>0. FIFO_SIZE \in Nat \ {0} /\ n \in Nat  BY RingAssumption
<1>1. /\ OutAvail \in Slot
      /\ OutAvail = IF out_tail >= out_head THEN out_tail - out_head
                    ELSE out_tail + FIFO_SIZE - out_head
  BY AvailIsDistance DEF RingInv
<1>2. /\ k \in 0 .. OutAvail
      /\ k \in Slot
      /\ k \in 0 .. FIFO_SIZE
  BY <1>0, <1>1 DEF Slot
<1>3. /\ dst' = Stretch(ring, out_head, k)
      /\ out_head' = (out_head + k) % FIFO_SIZE
      /\ ring' = ring /\ out_tail' = out_tail
  BY DEF OutTake, Stretch
<1>4. /\ Waiting = Stretch(ring, out_head, OutAvail)
      /\ Waiting \in Seq(T)
      /\ Len(Waiting) = OutAvail
  BY WaitingIsSequence DEF RingInv
<1>5. k = Fifo!Least(n, Len(Waiting))  BY <1>4 DEF Fifo!Least
<1> HIDE DEF k
<1>6. /\ out_head' \in Slot
      /\ out_head' = IF out_head + k < FIFO_SIZE THEN out_head + k
                     ELSE out_head + k - FIFO_SIZE
  BY <1>2, <1>3, WrapSum DEF RingInv, RingTypeOK
<1>7. RingTypeOK'
  BY <1>2, <1>3, <1>6, StretchIsSequence DEF RingInv, RingTypeOK
<1>8. OutAvail' = OutAvail - k
  <2>1. OutAvail' = IF out_tail' >= out_head' THEN out_tail' - out_head'
                    ELSE out_tail' + FIFO_SIZE - out_head'
    BY <1>7, Distance DEF RingTypeOK, OutAvail
  <2> QED  BY <1>0, <1>1, <1>2, <1>3, <1>6, <2>1 DEF RingInv, RingTypeOK, Slot
<1>9. OutAvail - k \in Slot  BY <1>0, <1>1, <1>2 DEF Slot
<1>10. /\ Waiting' = Stretch(ring, out_head', OutAvail - k)
       /\ Waiting' \in Seq(T)
       /\ Len(Waiting') = OutAvail - k
  <2>1. Waiting' = Stretch(ring', out_head', OutAvail')
    BY DEF Waiting, Stretch
  <2> QED  BY <2>1, <1>3, <1>6, <1>8, <1>9, StretchIsSequence DEF RingInv, RingTypeOK
<1>11. \A i \in 1 .. OutAvail : Waiting[i] \in T
  BY <1>4, ElementOfSeq
<1>12. dst' = SubSeq(Waiting, 1, k)
  <2>1. /\ SubSeq(Waiting, 1, k) \in Seq(T)
        /\ Len(SubSeq(Waiting, 1, k)) = k
        /\ \A i \in 1 .. k : SubSeq(Waiting, 1, k)[i] = Waiting[i]
    <3>1. k \in Int /\ 1 \in Int /\ \A i \in 1 .. k : Waiting[i] \in T
      BY <1>0, <1>1, <1>2, <1>11 DEF Slot
    <3>2. /\ SubSeq(Waiting, 1, k) \in Seq(T)
          /\ Len(SubSeq(Waiting, 1, k)) = IF 1 <= k THEN k - 1 + 1 ELSE 0
          /\ \A i \in 1 .. k - 1 + 1 :
               SubSeq(Waiting, 1, k)[i] = Waiting[1 + i - 1]
      BY <3>1, SubSeqProperties
    <3> QED  BY <3>2, <1>2, <1>0, <1>1 DEF Slot
  <2>2. /\ dst' \in Seq(T) /\ Len(dst') = k
        /\ \A i \in 1 .. k : dst'[i] = Waiting[i]
    <3>1. \A i \in 1 .. k : i \in 1 .. OutAvail
      BY <1>0, <1>1, <1>2 DEF Slot
    <3>2. \A i \in 1 .. k : dst'[i] = ring[(out_head + (i - 1)) % FIFO_SIZE]
      BY <1>3 DEF Stretch
    <3>3. dst' \in Seq(T) /\ Len(dst') = k
      BY <1>2, <1>3, StretchIsSequence DEF RingInv, RingTypeOK
    <3>4. \A i \in 1 .. k : dst'[i] = Waiting[i]
      BY <3>1, <3>2 DEF Waiting
    <3> QED  BY <3>3, <3>4
  <2> QED  BY <2>1, <2>2, SeqEqual
<1>13. ASSUME NEW i \in 1 .. OutAvail - k
       PROVE  Waiting'[i] = Waiting[k + i]
  <2>1. /\ i \in Int /\ k \in Int /\ k + i \in 1 .. OutAvail
        /\ i - 1 \in 0 .. FIFO_SIZE
        /\ (k + i) - 1 \in 0 .. FIFO_SIZE
    BY <1>0, <1>1, <1>2 DEF Slot
  <2>2. /\ (out_head' + (i - 1)) % FIFO_SIZE
             = IF out_head' + (i - 1) < FIFO_SIZE THEN out_head' + (i - 1)
               ELSE out_head' + (i - 1) - FIFO_SIZE
        /\ (out_head + ((k + i) - 1)) % FIFO_SIZE
             = IF out_head + ((k + i) - 1) < FIFO_SIZE
               THEN out_head + ((k + i) - 1)
               ELSE out_head + ((k + i) - 1) - FIFO_SIZE
    BY <2>1, <1>6, WrapSum DEF RingInv, RingTypeOK
  <2>3. (out_head' + (i - 1)) % FIFO_SIZE
           = (out_head + ((k + i) - 1)) % FIFO_SIZE
    BY <2>1, <2>2, <1>0, <1>1, <1>2, <1>6 DEF RingInv, RingTypeOK, Slot
  <2>4. /\ Waiting'[i] = ring[(out_head' + (i - 1)) % FIFO_SIZE]
        /\ Waiting[k + i] = ring[(out_head + ((k + i) - 1)) % FIFO_SIZE]
    <3>1. Waiting'[i] = ring[(out_head' + (i - 1)) % FIFO_SIZE]
      BY <1>10 DEF Stretch
    <3> QED  BY <2>1, <3>1 DEF Waiting
  <2> QED  BY <2>3, <2>4
<1>14. Waiting' = SubSeq(Waiting, k + 1, OutAvail)
  <2>1. /\ SubSeq(Waiting, k + 1, OutAvail) \in Seq(T)
        /\ Len(SubSeq(Waiting, k + 1, OutAvail)) = OutAvail - k
        /\ \A i \in 1 .. OutAvail - k :
             SubSeq(Waiting, k + 1, OutAvail)[i] = Waiting[k + i]
    <3>1. /\ k + 1 \in Int /\ OutAvail \in Int
          /\ \A i \in k + 1 .. OutAvail : Waiting[i] \in T
      BY <1>0, <1>1, <1>2, <1>11 DEF Slot
    <3>2. /\ SubSeq(Waiting, k + 1, OutAvail) \in Seq(T)
          /\ Len(SubSeq(Waiting, k + 1, OutAvail))
               = IF k + 1 <= OutAvail THEN OutAvail - (k + 1) + 1 ELSE 0
          /\ \A i \in 1 .. OutAvail - (k + 1) + 1 :
               SubSeq(Waiting, k + 1, OutAvail)[i] = Waiting[k + 1 + i - 1]
      BY <3>1, SubSeqProperties
    <3>3. /\ OutAvail - (k + 1) + 1 = OutAvail - k
          /\ \A i \in 1 .. OutAvail - k : k + 1 + i - 1 = k + i
          /\ ~(k + 1 <= OutAvail) => OutAvail - k = 0
      BY <1>2, <1>0, <1>1 DEF Slot
    <3> QED  BY <3>2, <3>3
  <2> QED  BY <1>10, <1>13, <2>1, SeqEqual
<1>15. WaitingIsWritten'
  <2>1. ASSUME NEW i \in 1 .. OutAvail - k  PROVE Waiting'[i] # NoByte
    <3>1. k + i \in 1 .. OutAvail  BY <1>0, <1>1, <1>2 DEF Slot
    <3> QED  BY <3>1, <1>13 DEF RingInv, WaitingIsWritten
  <2> QED  BY <1>8, <2>1 DEF WaitingIsWritten
<1> QED  BY <1>4, <1>5, <1>7, <1>12, <1>14, <1>15
-----------------------------------------------------------------------------
\* The invariant holds initially and every step keeps it.
LEMMA InitRingInv == RingInit => RingInv
<1> SUFFICES ASSUME RingInit PROVE RingInv  OBVIOUS
<1>1. RingTypeOK  BY RingAssumption DEF RingInit, RingTypeOK, Slot
<1>2. OutAvail = 0
  BY <1>1, AvailIsDistance, RingAssumption DEF RingInit, Slot
<1> QED  BY <1>1, <1>2 DEF RingInv, WaitingIsWritten

LEMMA StutterRingInv ==
    ASSUME RingInv, UNCHANGED ringVars
    PROVE  RingInv' /\ Waiting' = Waiting
BY DEF RingInv, ringVars, RingTypeOK, WaitingIsWritten, Waiting, OutAvail, Slot

LEMMA NextRingInv ==
    ASSUME RingInv, [RingNext]_ringVars
    PROVE  RingInv'
<1>1. ASSUME NEW b \in Byte, OutPush(b) PROVE RingInv'
  BY <1>1, PushAppends DEF RingInv
<1>2. ASSUME NEW b \in Byte, OutDrop(b) PROVE RingInv'
  BY <1>2, StutterRingInv DEF OutDrop
<1>3. ASSUME NEW n \in Request, OutTake(n) PROVE RingInv'
  BY <1>3, TakeRemoves DEF RingInv
<1>4. CASE UNCHANGED ringVars  BY <1>4, StutterRingInv
<1> QED  BY <1>1, <1>2, <1>3, <1>4 DEF RingNext

(***************************************************************************)
(* The two indices of the ring stay slots and the ring holds bytes,        *)
(* whatever its size and whatever is pushed and read (jvs.c out_push,      *)
(* out_take).                                                              *)
(***************************************************************************)
THEOREM RingTyped == RingSpec => []RingTypeOK
<1>1. RingInv /\ [RingNext]_ringVars => RingInv'  BY NextRingInv
<1>2. RingInv => RingTypeOK  BY DEF RingInv
<1> QED  BY InitRingInv, <1>1, <1>2, PTL DEF RingSpec

(***************************************************************************)
(* No read of a ring of any size returns a slot nothing was pushed to.     *)
(***************************************************************************)
THEOREM RingWritten == RingSpec => []WaitingIsWritten
<1>1. RingInv /\ [RingNext]_ringVars => RingInv'  BY NextRingInv
<1>2. RingInv => WaitingIsWritten  BY DEF RingInv
<1> QED  BY InitRingInv, <1>1, <1>2, PTL DEF RingSpec

(***************************************************************************)
(* A ring of FIFO_SIZE slots is a queue of FIFO_SIZE - 1 bytes: out_push() *)
(* appends or drops, out_take() removes from the front, in order and once. *)
(***************************************************************************)
THEOREM RingImplementsFifo == RingSpec => ImplementsFifo
<1>1. RingInit => Fifo!Init
  <2> SUFFICES ASSUME RingInit PROVE Waiting = << >> /\ dst = << >>
    BY DEF Fifo!Init
  <2>1. RingInv  BY InitRingInv
  <2>2. OutAvail = 0
    BY <2>1, AvailIsDistance, RingAssumption DEF RingInit, Slot, RingInv
  <2>3. Waiting \in Seq(Byte \cup {NoByte}) /\ Len(Waiting) = 0
    BY <2>1, <2>2, WaitingIsSequence DEF RingInv
  <2> QED  BY <2>3, EmptySeq DEF RingInit
<1>2. ASSUME RingInv, [RingNext]_ringVars PROVE [Fifo!Next]_(Fifo!fifoVars)
  <2>1. ASSUME NEW b \in Byte, OutPush(b) PROVE Fifo!Next
    <3>1. Fifo!Offer(b)
      BY <1>2, <2>1, PushAppends, WaitingIsSequence
      DEF Fifo!Offer, OutPush, RingInv
    <3> QED  BY <3>1 DEF Fifo!Next
  <2>2. ASSUME NEW b \in Byte, OutDrop(b) PROVE UNCHANGED Fifo!fifoVars
    BY <1>2, <2>2, StutterRingInv DEF OutDrop, ringVars, Fifo!fifoVars
  <2>3. ASSUME NEW n \in Request, OutTake(n) PROVE Fifo!Next
    <3>1. Fifo!Take(n)
      BY <1>2, <2>3, TakeRemoves DEF Fifo!Take
    <3> QED  BY <3>1 DEF Fifo!Next
  <2>4. CASE UNCHANGED ringVars
    BY <1>2, <2>4, StutterRingInv DEF ringVars, Fifo!fifoVars
  <2> QED  BY <1>2, <2>1, <2>2, <2>3, <2>4 DEF RingNext
<1>3. RingInv /\ [RingNext]_ringVars => RingInv'  BY NextRingInv
<1> QED  BY InitRingInv, <1>1, <1>2, <1>3, PTL
         DEF RingSpec, ImplementsFifo, Fifo!Spec
=============================================================================
