---------------------------- MODULE Host64_proof ----------------------------
(***************************************************************************)
(* Proofs about Host64: the file table and the board of the 64-bit build,  *)
(* for any number of threads, files, handle values, slots and inits.  Both *)
(* are races without a lock; the invariants say how far each thread in the *)
(* middle of its writes has come, and what the others may rely on.         *)
(***************************************************************************)
EXTENDS Host64, TLAPS

\* A step is one part's and leaves the other two alone.
LEMMA Parts ==
    ASSUME [Next]_vars
    PROVE  /\ UNCHANGED ftVars \/ (\E t \in Thread : FtNext(t)) \/ (\E h \in Handle : NativeClose(h))
           /\ UNCHANGED ioVars \/ IoNext
           /\ UNCHANGED stallVars \/ StallNext
           /\ UNCHANGED option
  BY DEF Next, vars, Files, Board, Watch
-----------------------------------------------------------------------------
(***************************************************************************)
(* The file table.                                                         *)
(***************************************************************************)
\* An open in progress has a value that is named, and no other thread has it.
OpensOwn ==
    \A t \in Thread : opening[t] # Closed =>
        /\ opening[t].at \in {"claim", "store"}
        /\ opening[t].h \in DOMAIN named /\ named[opening[t].h] = opening[t].path
        /\ \A u \in Thread \ {t} : opening[u].h # opening[t].h

\* Its slot is its own, still blank, and behind every slot that holds its value.
SlotsOwn ==
    \A t \in Thread : opening[t].at = "store" =>
        /\ opening[t].i \in 1 .. FtMax /\ opening[t].i <= ftn
        /\ ft[opening[t].i] = Blank
        /\ \A u \in Thread \ {t} : opening[u].at = "store" => opening[u].i # opening[t].i
        /\ \A j \in 1 .. FtMax : ft[j].h = opening[t].h => j < opening[t].i

\* Nothing is written past the count.
Unclaimed64 == \A j \in 1 .. FtMax : j > ftn => ft[j] = Blank

\* What ft_find answers is a slot of the value asked for.
FoundRight ==
    ftn <= FtMax => \A h \in Held : FtFind(h) \in Slots(h) /\ ft[FtFind(h)].path = named[h]

FtInv == FtTyped /\ OpensOwn /\ SlotsOwn /\ Unclaimed64 /\ FoundRight

LEMMA FtStart == FtInit => FtInv
<1> SUFFICES ASSUME FtInit PROVE FtInv
  OBVIOUS
<1>1. FtTyped
  BY FileTableAssumption DEF FtInit, FtTyped, Blank, Closed
<1>2. Held = {}
  BY DEF FtInit, Held
<1> QED
  BY <1>1, <1>2 DEF FtInv, FtInit, OpensOwn, SlotsOwn, Unclaimed64, FoundRight, Closed

LEMMA OpenStep ==
    ASSUME FtInv, NEW t \in Thread, NEW p \in Path, NativeOpen(t, p) PROVE FtInv'
<1>1. PICK h \in Handle \ DOMAIN named :
        /\ named' = [g \in DOMAIN named \cup {h} |-> IF g = h THEN p ELSE named[g]]
        /\ opening' = [opening EXCEPT ![t] = [at |-> "claim", h |-> h, path |-> p, i |-> 0]]
  BY DEF NativeOpen
<1>2. opening[t] = Closed /\ UNCHANGED <<ft, ftn>>
  BY DEF NativeOpen
<1>3. /\ DOMAIN named' = DOMAIN named \cup {h} /\ named'[h] = p
      /\ \A g \in DOMAIN named : named'[g] = named[g]
  BY <1>1
<1>4. /\ opening'[t] = [at |-> "claim", h |-> h, path |-> p, i |-> 0]
      /\ \A u \in Thread \ {t} : opening'[u] = opening[u]
  BY <1>1 DEF FtInv, FtTyped
<1>5. h # 0
  BY FileTableAssumption
<1>6. \A u \in Thread \ {t} : opening[u].h # h
  BY <1>5 DEF FtInv, OpensOwn, Closed
<1>7. FtTyped'
  <2>1. DOMAIN named' \subseteq Handle /\ \A g \in DOMAIN named' : named'[g] \in Path
    BY <1>1, <1>3 DEF FtInv, FtTyped
  <2>2. \A u \in Thread : opening'[u] \in [at : {"out", "claim", "store"}, h : Handle \cup {0},
                                            path : Path \cup {NoFile}, i : 0 .. FtMax]
    BY <1>4, FileTableAssumption DEF FtInv, FtTyped
  <2>3. opening' = [u \in Thread |-> opening'[u]]
    BY <1>1 DEF FtInv, FtTyped
  <2> QED  BY <1>2, <2>1, <2>2, <2>3 DEF FtInv, FtTyped
<1>8. OpensOwn'
  <2>1. opening'[t].at = "claim" /\ opening'[t].h = h /\ opening'[t].path = p
    BY <1>4
  <2> QED  BY <1>3, <1>4, <1>6, <2>1 DEF FtInv, OpensOwn
<1>9. SlotsOwn'
  BY <1>2, <1>4 DEF FtInv, SlotsOwn
<1>10. Held' = Held
  <2>1. \A g \in DOMAIN named : g # h /\ g # 0
    BY <1>1, FileTableAssumption DEF FtInv, FtTyped
  <2>2. \A g \in DOMAIN named : (\E u \in Thread : opening'[u].h = g) <=> (\E u \in Thread : opening[u].h = g)
    BY <1>2, <1>4, <2>1 DEF Closed
  <2> QED  BY <1>3, <1>4, <2>1, <2>2 DEF Held
<1>11. Held \subseteq DOMAIN named
  BY DEF Held
<1>12. FoundRight'
  BY <1>2, <1>3, <1>10, <1>11 DEF FtInv, FoundRight, FtFind, Slots
<1> QED
  BY <1>2, <1>7, <1>8, <1>9, <1>12 DEF FtInv, Unclaimed64

LEMMA ClaimStep ==
    ASSUME FtInv, NEW t \in Thread, ClaimSlot(t) PROVE FtInv'
<1>1. /\ opening[t].at = "claim" /\ ftn' = ftn + 1 /\ UNCHANGED <<named, ft>>
      /\ opening' = [opening EXCEPT ![t] = IF ftn >= FtMax THEN Closed
                                           ELSE [@ EXCEPT !.at = "store", !.i = ftn + 1]]
  BY DEF ClaimSlot
<1>2. /\ ftn \in Nat /\ FtMax \in Nat
      /\ \A u \in Thread \ {t} : opening'[u] = opening[u]
  BY <1>1, FileTableAssumption DEF FtInv, FtTyped
<1>3. CASE ftn >= FtMax
  <2>1. opening'[t] = Closed
    BY <1>1, <1>3 DEF FtInv, FtTyped
  <2>2. FtTyped'
    BY <1>1, <1>2, <1>3 DEF FtInv, FtTyped, Closed
  <2>3. OpensOwn' /\ SlotsOwn' /\ Unclaimed64'
    <3>1. 0 \notin DOMAIN named
      BY FileTableAssumption DEF FtInv, FtTyped
    <3>2. OpensOwn'
      BY <1>1, <1>2, <2>1, <3>1 DEF FtInv, OpensOwn, Closed
    <3>3. SlotsOwn'
      <4> SUFFICES ASSUME NEW u \in Thread, opening'[u].at = "store"
                   PROVE  /\ opening'[u].i \in 1 .. FtMax /\ opening'[u].i <= ftn'
                          /\ ft'[opening'[u].i] = Blank
                          /\ \A v \in Thread \ {u} : opening'[v].at = "store" => opening'[v].i # opening'[u].i
                          /\ \A j \in 1 .. FtMax : ft'[j].h = opening'[u].h => j < opening'[u].i
        BY DEF SlotsOwn
      <4>1. u # t /\ opening'[u] = opening[u]
        BY <1>2, <2>1 DEF Closed
      <4>2. \A v \in Thread : opening'[v].at = "store" => v # t /\ opening'[v] = opening[v]
        BY <1>2, <2>1 DEF Closed
      <4> QED  BY <1>1, <1>2, <4>1, <4>2 DEF FtInv, SlotsOwn
    <3> QED  BY <1>1, <1>2, <3>2, <3>3 DEF FtInv, Unclaimed64
  <2>4. ~(ftn' <= FtMax)
    BY <1>1, <1>2, <1>3
  <2> QED  BY <2>2, <2>3, <2>4 DEF FtInv, FoundRight
<1>4. CASE ~(ftn >= FtMax)
  <2>1. /\ opening'[t].at = "store" /\ opening'[t].i = ftn + 1
        /\ opening'[t].h = opening[t].h /\ opening'[t].path = opening[t].path
    BY <1>1, <1>4 DEF FtInv, FtTyped
  <2>2. ftn + 1 \in 1 .. FtMax
    BY <1>2, <1>4
  <2>3. FtTyped'
    <3>1. opening'[t] \in [at : {"out", "claim", "store"}, h : Handle \cup {0},
                           path : Path \cup {NoFile}, i : 0 .. FtMax]
      <4>1. opening'[t] = [opening[t] EXCEPT !.at = "store", !.i = ftn + 1]
        BY <1>1, <1>4 DEF FtInv, FtTyped
      <4>2. /\ opening[t] \in [at : {"out", "claim", "store"}, h : Handle \cup {0},
                               path : Path \cup {NoFile}, i : 0 .. FtMax]
            /\ ftn + 1 \in 0 .. FtMax
        BY <1>2, <2>2 DEF FtInv, FtTyped
      <4> QED  BY <4>1, <4>2
    <3>2. opening' = [u \in Thread |-> opening'[u]]
      BY <1>1 DEF FtInv, FtTyped
    <3> QED  BY <1>1, <1>2, <3>1, <3>2 DEF FtInv, FtTyped
  <2>4. opening[t] # Closed /\ opening[t].h \in Handle /\ opening[t].h # 0
    BY <1>1, FileTableAssumption DEF Closed, FtInv, FtTyped, OpensOwn
  <2>5. OpensOwn'
    BY <1>1, <1>2, <2>1, <2>4 DEF FtInv, OpensOwn
  <2>6. ft[ftn + 1] = Blank
    BY <1>2, <2>2 DEF FtInv, Unclaimed64
  <2>7. SlotsOwn'
    <3>1. \A j \in 1 .. FtMax : ft[j].h = opening[t].h => j < ftn + 1
      BY <1>2, <2>4 DEF FtInv, Unclaimed64, Blank
    <3>2. \A u \in Thread \ {t} : opening[u].at = "store" => opening[u].i \in Nat /\ opening[u].i < ftn + 1
      BY <1>2 DEF FtInv, SlotsOwn
    <3> SUFFICES ASSUME NEW u \in Thread, opening'[u].at = "store"
                 PROVE  /\ opening'[u].i \in 1 .. FtMax /\ opening'[u].i <= ftn'
                        /\ ft'[opening'[u].i] = Blank
                        /\ \A v \in Thread \ {u} : opening'[v].at = "store" => opening'[v].i # opening'[u].i
                        /\ \A j \in 1 .. FtMax : ft'[j].h = opening'[u].h => j < opening'[u].i
      BY DEF SlotsOwn
    <3>3. CASE u = t
      BY <1>1, <1>2, <2>1, <2>2, <2>6, <3>1, <3>2, <3>3
    <3>4. CASE u # t
      BY <1>1, <1>2, <2>1, <3>2, <3>4 DEF FtInv, SlotsOwn
    <3> QED  BY <3>3, <3>4
  <2>8. Unclaimed64'
    BY <1>1, <1>2 DEF FtInv, Unclaimed64
  <2>9. Held' = Held
    BY <1>1, <1>2, <2>1 DEF Held
  <2>10. \A g \in Held : Slots(g)' = Slots(g)
    <3>1. \A g \in Held : g # 0
      BY FileTableAssumption DEF Held, FtInv, FtTyped
    <3> QED  BY <1>1, <1>2, <2>6, <3>1 DEF Slots, Blank
  <2>11. FoundRight'
    BY <1>1, <1>2, <1>4, <2>9, <2>10 DEF FtInv, FoundRight, FtFind
  <2> QED  BY <2>3, <2>5, <2>7, <2>8, <2>11 DEF FtInv
<1> QED
  BY <1>3, <1>4

LEMMA StoreStep ==
    ASSUME FtInv, NEW t \in Thread, StoreSlot(t) PROVE FtInv'
<1>0. PICK h, i, p : h = opening[t].h /\ i = opening[t].i /\ p = opening[t].path
  OBVIOUS
<1>1. /\ opening[t].at = "store" /\ UNCHANGED <<named, ftn>>
      /\ ft' = [ft EXCEPT ![i] = [h |-> h, path |-> p]]
      /\ opening' = [opening EXCEPT ![t] = Closed]
  BY <1>0 DEF StoreSlot
<1>2. /\ opening[t] # Closed /\ h \in DOMAIN named /\ h \in Handle /\ h # 0 /\ named[h] = p /\ p \in Path
      /\ \A u \in Thread \ {t} : opening[u].h # h
  BY <1>0, <1>1, FileTableAssumption DEF FtInv, FtTyped, OpensOwn, Closed
<1>3. /\ i \in 1 .. FtMax /\ i <= ftn /\ ft[i] = Blank
      /\ \A j \in 1 .. FtMax : ft[j].h = h => j < i
      /\ \A u \in Thread \ {t} : opening[u].at = "store" => opening[u].i # i
  BY <1>0, <1>1 DEF FtInv, SlotsOwn
<1>4. /\ opening'[t] = Closed /\ \A u \in Thread \ {t} : opening'[u] = opening[u]
  BY <1>1 DEF FtInv, FtTyped
<1>5. /\ ft'[i].h = h /\ ft'[i].path = p
      /\ \A j \in 1 .. FtMax \ {i} : ft'[j] = ft[j]
  BY <1>1, <1>3 DEF FtInv, FtTyped
<1>6. FtTyped'
  <2>1. Closed \in [at : {"out", "claim", "store"}, h : Handle \cup {0},
                     path : Path \cup {NoFile}, i : 0 .. FtMax]
    BY FileTableAssumption DEF Closed
  <2>2. opening' \in [Thread -> [at : {"out", "claim", "store"}, h : Handle \cup {0},
                                 path : Path \cup {NoFile}, i : 0 .. FtMax]]
    BY <1>1, <2>1 DEF FtInv, FtTyped
  <2>3. ft' \in [1 .. FtMax -> [h : Handle \cup {0}, path : Path \cup {NoFile}]]
    BY <1>1, <1>2, <1>3 DEF FtInv, FtTyped
  <2> QED  BY <1>1, <2>2, <2>3 DEF FtInv, FtTyped
<1>7. OpensOwn'
  <2>1. 0 \notin DOMAIN named
    BY FileTableAssumption DEF FtInv, FtTyped
  <2> QED  BY <1>1, <1>4, <2>1 DEF FtInv, OpensOwn, Closed
<1>8. SlotsOwn'
  <2> SUFFICES ASSUME NEW u \in Thread, opening'[u].at = "store"
               PROVE  /\ opening'[u].i \in 1 .. FtMax /\ opening'[u].i <= ftn'
                      /\ ft'[opening'[u].i] = Blank
                      /\ \A v \in Thread \ {u} : opening'[v].at = "store" => opening'[v].i # opening'[u].i
                      /\ \A j \in 1 .. FtMax : ft'[j].h = opening'[u].h => j < opening'[u].i
    BY DEF SlotsOwn
  <2>1. u # t /\ opening'[u] = opening[u] /\ opening[u].h # h /\ opening[u].i # i
    BY <1>2, <1>3, <1>4 DEF Closed
  <2>2. ft'[opening[u].i] = Blank /\ opening[u].i \in 1 .. FtMax /\ opening[u].i <= ftn'
    BY <1>1, <1>5, <2>1 DEF FtInv, SlotsOwn
  <2>3. \A v \in Thread \ {u} : opening'[v].at = "store" => opening'[v].i # opening[u].i
    BY <1>4, <2>1 DEF FtInv, SlotsOwn, Closed
  <2>4. \A j \in 1 .. FtMax : ft'[j].h = opening[u].h => j < opening[u].i
    BY <1>5, <2>1 DEF FtInv, SlotsOwn
  <2> QED  BY <2>1, <2>2, <2>3, <2>4
<1>9. Unclaimed64'
  BY <1>1, <1>3, <1>5, FileTableAssumption DEF FtInv, FtTyped, Unclaimed64
<1>10. Held' \subseteq Held \cup {h}
  BY <1>0, <1>1, <1>4 DEF Held
<1>11. FtFind(h)' = i /\ i \in Slots(h)' /\ ft'[i].path = named'[h]
  <2>1. Slots(h)' = {j \in 1 .. FtMax : j <= ftn /\ ft'[j].h = h}
    BY <1>1 DEF Slots
  <2>2. i \in Slots(h)' /\ \A j \in Slots(h)' : i >= j /\ j \in Int
    BY <1>3, <1>5, <2>1
  <2>3. ASSUME NEW j \in Slots(h)', \A k \in Slots(h)' : j >= k PROVE j = i
    <3>1. i >= j /\ j >= i
      BY <2>2, <2>3
    <3>2. i \in Int /\ j \in Int
      BY <2>2
    <3> QED  BY <3>1, <3>2
  <2>4. Max(Slots(h)') = i
    BY <2>2, <2>3 DEF Max
  <2> QED  BY <1>1, <1>2, <1>5, <2>2, <2>4 DEF FtFind
<1>12. \A g \in Held : g # h => Slots(g)' = Slots(g)
  <2>1. \A g \in Held : g # 0
    BY FileTableAssumption DEF Held, FtInv, FtTyped
  <2> QED  BY <1>1, <1>3, <1>5, <2>1 DEF Slots, Blank
<1>13. FoundRight'
  <2> SUFFICES ASSUME ftn' <= FtMax, NEW g \in Held'
               PROVE  FtFind(g)' \in Slots(g)' /\ ft'[FtFind(g)'].path = named'[g]
    BY DEF FoundRight
  <2>1. CASE g = h
    BY <1>11, <2>1
  <2>2. CASE g # h
    <3>1. g \in Held /\ FtFind(g)' = FtFind(g) /\ Slots(g)' = Slots(g)
      BY <1>10, <1>12, <2>2 DEF FtFind
    <3>2. FtFind(g) \in Slots(g) /\ ft[FtFind(g)].path = named[g]
      BY <1>1, <3>1 DEF FtInv, FoundRight
    <3>3. FtFind(g) \in 1 .. FtMax /\ FtFind(g) # i
      <4>1. g # 0
        BY <3>1, FileTableAssumption DEF Held, FtInv, FtTyped
      <4> QED  BY <1>3, <3>2, <4>1 DEF Slots, Blank
    <3>4. ft'[FtFind(g)] = ft[FtFind(g)]
      BY <1>5, <3>3
    <3> QED  BY <1>1, <3>1, <3>2, <3>4
  <2> QED  BY <2>1, <2>2
<1> QED
  BY <1>6, <1>7, <1>8, <1>9, <1>13 DEF FtInv

LEMMA CloseStep ==
    ASSUME FtInv, NEW h \in Handle, NativeClose(h) PROVE FtInv'
<1>1. /\ h \in Held /\ UNCHANGED <<ft, ftn, opening>>
      /\ DOMAIN named' = DOMAIN named \ {h}
      /\ \A g \in DOMAIN named' : named'[g] = named[g]
  BY DEF NativeClose
<1>2. \A t \in Thread : opening[t].h # h
  BY <1>1 DEF Held
<1>3. FtTyped' /\ SlotsOwn' /\ Unclaimed64'
  BY <1>1 DEF FtInv, FtTyped, SlotsOwn, Unclaimed64
<1>4. OpensOwn'
  BY <1>1, <1>2 DEF FtInv, OpensOwn
<1>5. Held' \subseteq Held /\ Held' \subseteq DOMAIN named'
  BY <1>1 DEF Held
<1>6. FoundRight'
  BY <1>1, <1>5 DEF FtInv, FoundRight, FtFind, Slots
<1> QED
  BY <1>3, <1>4, <1>6 DEF FtInv

LEMMA FtAlone ==
    ASSUME FtInv, UNCHANGED ftVars PROVE FtInv'
<1>1. UNCHANGED <<named, ft, ftn, opening>>
  BY DEF ftVars
<1>2. FtTyped' /\ OpensOwn' /\ SlotsOwn' /\ Unclaimed64'
  BY <1>1 DEF FtInv, FtTyped, OpensOwn, SlotsOwn, Unclaimed64
<1>3. Held' = Held
  BY <1>1 DEF Held
<1>4. FoundRight'
  BY <1>1, <1>3 DEF FtInv, FoundRight, FtFind, Slots
<1> QED
  BY <1>2, <1>4 DEF FtInv

LEMMA FtAlways == Spec => []FtInv
<1>1. Init => FtInv
  BY FtStart DEF Init
<1>2. FtInv /\ [Next]_vars => FtInv'
  BY Parts, FtAlone, OpenStep, ClaimStep, StoreStep, CloseStep DEF FtNext
<1> QED
  BY <1>1, <1>2, PTL DEF Spec

\* Whatever the number of threads, files and recycled values, and however opens,
\* closes and lookups come between the two writes of ft_record: what ft_find
\* answers for a handle the game holds is the file it was opened for.
THEOREM FilesNamedRight == Spec => []ReadsNamedRight
<1>1. FtInv => ReadsNamedRight
  <2> SUFFICES ASSUME FtInv, ftn <= FtMax, NEW h \in Held
               PROVE  FtFind(h) # 0 /\ ft[FtFind(h)].path = named[h]
    BY DEF ReadsNamedRight
  <2>1. FtFind(h) \in Slots(h) /\ ft[FtFind(h)].path = named[h]
    BY DEF FtInv, FoundRight
  <2>2. 0 \notin Slots(h)
    BY DEF Slots
  <2> QED  BY <2>1, <2>2
<1> QED
  BY <1>1, FtAlways, PTL
-----------------------------------------------------------------------------
(***************************************************************************)
(* The I/O board.  A primer that no init has interrupted (clean) relies on *)
(* what it wrote so far; one that an init has caught in the middle is the  *)
(* only thread that can put a table up without the identity.               *)
(***************************************************************************)
\* What a thread writes is a table, and its own when it publishes one.
Found ==
    \A p \in Primer :
        /\ priming[p].at = "publish" => priming[p].base = "ours"
        /\ priming[p].at = "ident"   => priming[p].base \in {"ours", "game"}
        /\ priming[p].clean => priming[p].at # "out"

\* The table that is up has the identity, or a caught thread is about to write it.
Caught(p) == priming[p].at # "out" /\ ~priming[p].clean
Marked == table \in ident \/ \E u \in Primer : /\ Caught(u)
                                               /\ priming[u].at = "ident" /\ priming[u].base = table

\* A clean thread's writes still stand.
WritesStand ==
    \A p \in Primer : priming[p].clean =>
        /\ priming[p].at # "word" => word = 2
        /\ priming[p].at \notin {"word", "nodes"} => nodes = 1

\* The table a clean thread found is still up, or the one that took its place is marked.
TableStands ==
    \A p \in Primer : priming[p].clean =>
        /\ priming[p].at = "publish" => table \in {"none", "ours"}
        /\ priming[p].at = "ident"   => table = priming[p].base \/ Marked
        /\ priming[p].at = "read"    => Marked

IoInv == IoTyped /\ Found /\ WritesStand /\ TableStands

LEMMA IoStart == IoInit => IoInv
<1> SUFFICES ASSUME IoInit PROVE IoInv
  OBVIOUS
<1>1. IoTyped
  <2>1. inits \in 0 .. MaxInits
    BY BoardAssumption DEF IoInit
  <2> QED  BY <2>1 DEF IoInit, IoTyped, Out
<1>2. \A p \in Primer : priming[p].at = "out" /\ priming[p].clean = FALSE
  BY DEF IoInit, Out
<1> QED
  BY <1>1, <1>2 DEF IoInv, Found, WritesStand, TableStands

LEMMA PrimeStarts ==
    ASSUME IoInv, NEW p \in Primer, Prime(p) PROVE IoInv'
<1>1. /\ priming' = [priming EXCEPT ![p] = [at |-> "word", base |-> "none", clean |-> TRUE]]
      /\ priming[p] = Out /\ UNCHANGED <<word, nodes, table, ident, ticking, inits>>
  BY DEF Prime
<1>2. /\ priming'[p] = [at |-> "word", base |-> "none", clean |-> TRUE]
      /\ \A q \in Primer \ {p} : priming'[q] = priming[q]
  BY <1>1 DEF IoInv, IoTyped
<1>3. IoTyped'
  BY <1>1 DEF IoInv, IoTyped
<1>4. Found' /\ WritesStand'
  BY <1>1, <1>2 DEF IoInv, Found, WritesStand
<1>5. Marked => Marked'
  BY <1>1, <1>2 DEF Marked, Caught, Out
<1> QED
  BY <1>1, <1>2, <1>3, <1>4, <1>5 DEF IoInv, TableStands

\* A thread's own progress: it keeps its record but for what the step names.
LEMMA PrimeSteps ==
    ASSUME IoInv, NEW p \in Primer, PrimeStep(p) \/ Read(p) PROVE IoInv'
<1>1. \A q \in Primer \ {p} : priming'[q] = priming[q]
  BY DEF PrimeStep, PrimeWord, PrimeNodes, FindTable, PublishTable, PrimeIdent, Read, Goes, IoInv, IoTyped
<1>2. CASE PrimeWord(p)
  <2>1. /\ priming[p].at = "word" /\ word' = 2 /\ UNCHANGED <<nodes, table, ident, ticking, inits>>
        /\ priming' = [priming EXCEPT ![p].at = "nodes"]
    BY <1>2 DEF PrimeWord, Goes
  <2>2. /\ priming'[p].at = "nodes" /\ priming'[p].clean = priming[p].clean
        /\ priming'[p] = [priming[p] EXCEPT !.at = "nodes"]
    BY <2>1 DEF IoInv, IoTyped
  <2>3. IoTyped'
    BY <2>1, <2>2 DEF IoInv, IoTyped
  <2>4. Found' /\ WritesStand'
    BY <1>1, <2>1, <2>2 DEF IoInv, Found, WritesStand
  <2>5. Marked => Marked'
    BY <1>1, <2>1 DEF Marked, Caught
  <2> QED  BY <1>1, <2>1, <2>2, <2>3, <2>4, <2>5 DEF IoInv, TableStands
<1>3. CASE PrimeNodes(p)
  <2>1. /\ priming[p].at = "nodes" /\ nodes' = 1 /\ UNCHANGED <<word, table, ident, ticking, inits>>
        /\ priming' = [priming EXCEPT ![p].at = "table"]
    BY <1>3 DEF PrimeNodes, Goes
  <2>2. /\ priming'[p].at = "table" /\ priming'[p].clean = priming[p].clean
        /\ priming'[p] = [priming[p] EXCEPT !.at = "table"]
    BY <2>1 DEF IoInv, IoTyped
  <2>3. IoTyped'
    BY <2>1, <2>2 DEF IoInv, IoTyped
  <2>4. Found' /\ WritesStand'
    BY <1>1, <2>1, <2>2 DEF IoInv, Found, WritesStand
  <2>5. Marked => Marked'
    BY <1>1, <2>1 DEF Marked, Caught
  <2> QED  BY <1>1, <2>1, <2>2, <2>3, <2>4, <2>5 DEF IoInv, TableStands
<1>4. CASE FindTable(p)
  <2>1. /\ priming[p].at = "table" /\ UNCHANGED <<word, nodes, table, ident, ticking, inits>>
        /\ priming' = [priming EXCEPT ![p].at = IF table = "none" THEN "publish" ELSE "ident",
                                      ![p].base = IF table = "none" THEN "ours" ELSE table]
    BY <1>4 DEF FindTable
  <2>2. /\ priming'[p] = [priming[p] EXCEPT !.at = IF table = "none" THEN "publish" ELSE "ident",
                                            !.base = IF table = "none" THEN "ours" ELSE table]
        /\ priming'[p].clean = priming[p].clean
        /\ table = "none"  => priming'[p].at = "publish" /\ priming'[p].base = "ours"
        /\ table # "none"  => priming'[p].at = "ident" /\ priming'[p].base = table
    BY <2>1 DEF IoInv, IoTyped
  <2>3. IoTyped'
    BY <2>1, <2>2 DEF IoInv, IoTyped
  <2>4. Found' /\ WritesStand'
    <3>1. table # "none" => table \in {"ours", "game"}
      BY DEF IoInv, IoTyped
    <3>2. Found'
      <4>1. /\ priming'[p].at = "publish" => priming'[p].base = "ours"
            /\ priming'[p].at = "ident"   => priming'[p].base \in {"ours", "game"}
            /\ priming'[p].at # "out"
        BY <2>2, <3>1
      <4> QED  BY <1>1, <4>1 DEF IoInv, Found
    <3>3. priming[p].clean => word = 2 /\ nodes = 1
      BY <2>1 DEF IoInv, WritesStand
    <3>4. WritesStand'
      BY <1>1, <2>1, <2>2, <3>3 DEF IoInv, WritesStand
    <3> QED  BY <3>2, <3>4
  <2>5. Marked => Marked'
    BY <1>1, <2>1 DEF Marked, Caught
  <2>6. TableStands'
    <3>1. /\ priming'[p].at = "publish" => table' \in {"none", "ours"}
          /\ priming'[p].at = "ident"   => table' = priming'[p].base
          /\ priming'[p].at # "read"
      BY <2>1, <2>2
    <3> QED  BY <1>1, <2>1, <2>5, <3>1 DEF IoInv, TableStands
  <2> QED  BY <2>3, <2>4, <2>6 DEF IoInv
<1>5. CASE PublishTable(p)
  <2>1. /\ priming[p].at = "publish" /\ table' = "ours" /\ UNCHANGED <<word, nodes, ident, ticking, inits>>
        /\ priming' = [priming EXCEPT ![p].at = "ident"]
    BY <1>5 DEF PublishTable, Goes
  <2>2. /\ priming'[p].at = "ident" /\ priming'[p].clean = priming[p].clean
        /\ priming'[p].base = "ours" /\ priming[p].base = "ours"
        /\ priming'[p] = [priming[p] EXCEPT !.at = "ident"]
    BY <2>1 DEF IoInv, IoTyped, Found
  <2>3. IoTyped'
    BY <2>1, <2>2 DEF IoInv, IoTyped
  <2>4. Found' /\ WritesStand'
    BY <1>1, <2>1, <2>2 DEF IoInv, Found, WritesStand
  <2>5. CASE priming[p].clean
    <3>1. table \in {"none", "ours"}
      BY <2>1, <2>5 DEF IoInv, TableStands
    <3>2. Marked => Marked'
      <4> SUFFICES ASSUME Marked PROVE Marked'
        OBVIOUS
      <4>1. table # "none"
        BY DEF Marked, Caught, IoInv, IoTyped, Found
      <4>2. table' = table
        BY <2>1, <3>1, <4>1
      <4> QED  BY <1>1, <2>1, <2>5, <4>2 DEF Marked, Caught
    <3>3. \A q \in Primer : priming[q].at = "ident" /\ table = priming[q].base => table' = priming[q].base
      BY <2>1, <3>1 DEF IoInv, Found
    <3> QED  BY <1>1, <2>1, <2>2, <2>3, <2>4, <3>2, <3>3 DEF IoInv, TableStands
  <2>6. CASE ~priming[p].clean
    <3>1. Marked'
      BY <2>1, <2>2, <2>6 DEF Marked, Caught
    <3> QED  BY <1>1, <2>1, <2>2, <2>3, <2>4, <2>6, <3>1 DEF IoInv, TableStands
  <2> QED  BY <2>5, <2>6
<1>6. CASE PrimeIdent(p)
  <2>1. /\ priming[p].at = "ident" /\ ident' = ident \cup {priming[p].base} /\ ticking' = TRUE
        /\ UNCHANGED <<word, nodes, table, inits>>
        /\ priming' = IF p = Ticker THEN [priming EXCEPT ![p] = Out] ELSE [priming EXCEPT ![p].at = "read"]
    BY <1>6 DEF PrimeIdent
  <2>2. \/ priming'[p] = Out
        \/ /\ priming'[p] = [priming[p] EXCEPT !.at = "read"]
           /\ priming'[p].at = "read" /\ priming'[p].clean = priming[p].clean
    BY <2>1 DEF IoInv, IoTyped
  <2>3. IoTyped'
    <3>1. priming[p].base \in {"ours", "game"}
      BY <2>1 DEF IoInv, Found
    <3> QED  BY <2>1, <3>1 DEF IoInv, IoTyped, Out
  <2>4. Found' /\ WritesStand'
    <3>1. Out.at = "out" /\ Out.clean = FALSE
      BY DEF Out
    <3> QED  BY <1>1, <2>1, <2>2, <3>1 DEF IoInv, Found, WritesStand
  <2>5. Marked \/ table = priming[p].base => Marked'
    BY <1>1, <2>1 DEF Marked, Caught
  <2>6. priming[p].clean => Marked'
    BY <2>1, <2>5 DEF IoInv, TableStands
  <2>7. Out.at = "out" /\ Out.clean = FALSE
    BY DEF Out
  <2> QED  BY <1>1, <2>1, <2>2, <2>3, <2>4, <2>5, <2>6, <2>7 DEF IoInv, TableStands
<1>7. CASE Read(p)
  <2>1. /\ priming[p].at = "read" /\ UNCHANGED <<word, nodes, table, ident, ticking, inits>>
        /\ priming' = [priming EXCEPT ![p] = Out]
    BY <1>7 DEF Read
  <2>2. priming'[p] = Out /\ Out.at = "out" /\ Out.clean = FALSE
    BY <2>1 DEF IoInv, IoTyped, Out
  <2>3. IoTyped'
    BY <2>1 DEF IoInv, IoTyped, Out
  <2>4. Found' /\ WritesStand'
    BY <1>1, <2>1, <2>2 DEF IoInv, Found, WritesStand
  <2>5. Marked => Marked'
    BY <1>1, <2>1 DEF Marked, Caught
  <2> QED  BY <1>1, <2>1, <2>2, <2>3, <2>4, <2>5 DEF IoInv, TableStands
<1> QED
  BY <1>2, <1>3, <1>4, <1>5, <1>6, <1>7 DEF PrimeStep

LEMMA InitAgain ==
    ASSUME IoInv, LibraryInit PROVE IoInv'
<1>1. /\ word' = 0 /\ nodes' = 0 /\ table' = "game" /\ ident' = ident \ {"game"} /\ ticking' = ticking
      /\ inits < MaxInits /\ inits' = inits + 1
      /\ priming' = [p \in Primer |-> [priming[p] EXCEPT !.clean = FALSE]]
  BY DEF LibraryInit
<1>2. \A p \in Primer : /\ priming'[p].clean = FALSE /\ priming'[p].at = priming[p].at
                        /\ priming'[p].base = priming[p].base
  BY <1>1 DEF IoInv, IoTyped
<1>3. IoTyped'
  <2>1. inits' \in 0 .. MaxInits
    BY <1>1, BoardAssumption DEF IoInv, IoTyped
  <2> QED  BY <1>1, <2>1 DEF IoInv, IoTyped
<1> QED
  BY <1>2, <1>3 DEF IoInv, Found, WritesStand, TableStands

LEMMA IoAlways == Spec => []IoInv
<1>1. Init => IoInv
  BY IoStart DEF Init
<1>2. ASSUME IoInv, UNCHANGED ioVars PROVE IoInv'
  BY <1>2 DEF ioVars, IoInv, IoTyped, Found, WritesStand, TableStands, Marked, Caught
<1>3. IoInv /\ [Next]_vars => IoInv'
  BY <1>2, Parts, PrimeStarts, PrimeSteps, InitAgain DEF IoNext
<1> QED
  BY <1>1, <1>3, PTL DEF Spec

\* However many threads prime the board at once, and however often the library's
\* init zeroes it: once no priming that an init interrupted is under way, an
\* accessor's own code finds a board that is up and carries the identity.
THEOREM BoardFound == Spec => []AccessorFindsBoard
<1>1. IoInv => AccessorFindsBoard
  <2> SUFFICES ASSUME IoInv, \A q \in Primer : priming[q].at # "out" => priming[q].clean,
                      NEW p \in Asker, priming[p].at = "read"
               PROVE  Up
    BY DEF AccessorFindsBoard
  <2>1. p \in Primer /\ priming[p].clean
    BY DEF Primer
  <2>2. Marked /\ word = 2 /\ nodes = 1
    BY <2>1 DEF IoInv, WritesStand, TableStands
  <2>3. \A u \in Primer : ~Caught(u)
    BY DEF Caught
  <2> QED  BY <2>2, <2>3 DEF Marked, Up
<1> QED
  BY <1>1, IoAlways, PTL
-----------------------------------------------------------------------------
(***************************************************************************)
(* The stall watchdog, and the three parts together.                       *)
(***************************************************************************)
\* The watchdog never counts more quiet ticks than passed without a frame, unless
\* a frame it has not noticed yet came in between.
Counted == (frames = seen => quiet <= still) /\ (said => still = Patience)

StallInv == StallTyped /\ Counted

LEMMA StallAlways == Spec => []StallInv
<1>1. Init => StallInv
  <2> SUFFICES ASSUME Init PROVE StallInv
    OBVIOUS
  <2>1. /\ watched = "none" /\ frames = 0 /\ seen = 0 /\ quiet = 0 /\ still = 0 /\ said = FALSE
        /\ Patience \in Nat /\ Patience >= 1 /\ MaxFrames \in Nat
    BY StallAssumption DEF Init, StallInit
  <2>2. frames \in 0 .. MaxFrames /\ seen \in 0 .. frames /\ quiet \in 0 .. Patience - 1 /\ still \in 0 .. Patience
    BY <2>1
  <2>3. quiet <= still
    BY <2>1
  <2>4. said \in BOOLEAN /\ ~said /\ watched \in {"none", "d3d9", "device"}
    BY <2>1
  <2> QED  BY <2>2, <2>3, <2>4 DEF StallInv, StallTyped, Counted
<1>2. ASSUME StallInv, UNCHANGED stallVars PROVE StallInv'
  BY <1>2 DEF stallVars, StallInv, StallTyped, Counted
<1>3. ASSUME StallInv, Direct3DCreate9 \/ CreateDevice PROVE StallInv'
  BY <1>3 DEF Direct3DCreate9, CreateDevice, StallInv, StallTyped, Counted
<1>4. ASSUME StallInv, Present PROVE StallInv'
  <2>1. /\ frames' = frames + 1 /\ still' = 0 /\ said' = FALSE /\ frames < MaxFrames
        /\ UNCHANGED <<watched, seen, quiet>>
    BY <1>4 DEF Present
  <2>2. /\ Patience \in Nat /\ MaxFrames \in Nat /\ frames \in 0 .. MaxFrames /\ seen \in 0 .. frames
    BY <1>4, StallAssumption DEF StallInv, StallTyped
  <2>3. frames' \in 0 .. MaxFrames /\ seen' \in 0 .. frames' /\ frames' # seen' /\ still' \in 0 .. Patience
    BY <2>1, <2>2
  <2> QED  BY <1>4, <2>1, <2>3 DEF StallInv, StallTyped, Counted
<1>5. ASSUME StallInv, Tick PROVE StallInv'
  <2>1. /\ Patience \in Nat /\ Patience >= 1 /\ quiet \in 0 .. Patience - 1 /\ still \in 0 .. Patience
        /\ frames \in Nat /\ seen \in 0 .. frames /\ (frames = seen => quiet <= still)
    BY <1>5, StallAssumption DEF StallInv, StallTyped, Counted
  <2>2. /\ UNCHANGED <<watched, frames>>
        /\ still' = IF still < Patience THEN still + 1 ELSE still
    BY <1>5 DEF Tick
  <2>3. CASE frames # seen
    <3>1. seen' = frames /\ quiet' = 0 /\ said' = FALSE
      BY <1>5, <2>3 DEF Tick
    <3>2. /\ still' \in 0 .. Patience /\ quiet' \in 0 .. Patience - 1 /\ seen' \in 0 .. frames'
          /\ quiet' <= still'
      BY <2>1, <2>2, <3>1
    <3> QED  BY <1>5, <2>2, <3>1, <3>2 DEF StallInv, StallTyped, Counted
  <2>4. CASE frames = seen
    <3>1. /\ said' = (quiet + 1 = Patience) /\ seen' = seen
          /\ quiet' = IF quiet + 1 = Patience THEN 0 ELSE quiet + 1
      BY <1>5, <2>4 DEF Tick
    <3>2. /\ still' \in 0 .. Patience /\ quiet' \in 0 .. Patience - 1 /\ quiet' <= still'
          /\ quiet + 1 = Patience => still' = Patience
      BY <2>1, <2>2, <2>4, <3>1
    <3>3. said' \in BOOLEAN /\ (said' => quiet + 1 = Patience)
      BY <3>1
    <3> QED  BY <1>5, <2>2, <3>1, <3>2, <3>3 DEF StallInv, StallTyped, Counted
  <2> QED  BY <2>3, <2>4
<1>6. StallInv /\ [Next]_vars => StallInv'
  BY <1>2, <1>3, <1>4, <1>5, Parts DEF StallNext
<1> QED
  BY <1>1, <1>6, PTL DEF Spec

\* The state of the three parts stays within its types and bounds, whatever the
\* threads, handles, slots and inits: no index leaves the file table, though
\* its count goes past it.
THEOREM HostTyped == Spec => []TypeOK
<1> DEFINE Given == option \in {"--trace-files", "--io-board"}
<1>1. Init => Given
  BY DEF Init
<1>2. Given /\ [Next]_vars => Given'
  BY Parts
<1> HIDE DEF Given
<1>3. Spec => []Given
  BY <1>1, <1>2, PTL DEF Spec
<1>4. Given /\ FtInv /\ IoInv /\ StallInv => TypeOK
  BY DEF Given, TypeOK, FtInv, IoInv, StallInv
<1> QED
  BY <1>3, <1>4, FtAlways, IoAlways, StallAlways, PTL

\* A stall is reported only after as many ticks without a frame as the watchdog
\* waits for, whatever that number and however frames and ticks interleave.
THEOREM StallsTrue == Spec => [](said => still = Patience)
<1>1. StallInv => (said => still = Patience)
  BY DEF StallInv, Counted
<1> QED
  BY <1>1, StallAlways, PTL
=============================================================================
