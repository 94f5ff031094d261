----------------------------- MODULE Induction ------------------------------
(***************************************************************************)
(* Induction over the naturals, and the recursive functions it justifies,  *)
(* with sets in place of predicates: {n \in Nat : ...} is a term, which    *)
(* the provers can put into a lemma where an operator cannot be.           *)
(***************************************************************************)
EXTENDS WellFoundedInduction, SequenceTheorems, TLAPS

\* Every set of naturals that is not empty has a least element.
LEMMA LeastNatural ==
    ASSUME NEW T \in SUBSET Nat, T # {}
    PROVE  \E x \in T : \A y \in T : x <= y
<1> DEFINE Below == {ss \in Nat \X Nat : ss[1] < ss[2]}
<1>1. Below = OpToRel(<, Nat)
  BY Zenon DEF OpToRel
<1>2. IsWellFoundedOn(Below, Nat)
  BY <1>1, NatLessThanWellFounded, Zenon
<1> HIDE DEF Below
<1>3. PICK x \in T : \A y \in T : ~ (<<y, x>> \in Below)
  BY <1>2, WFMin, Zenon
<1>4. \A y \in T : y < x => <<y, x>> \in Below
  BY SMT DEF Below
<1>5. \A y \in T : ~ (y < x)
  BY <1>3, <1>4, Zenon
<1>6. \A y \in T : x <= y
  BY <1>5, SMT
<1> QED  BY <1>6

\* What holds of 0 and of the successor of whatever it holds of holds of 0 .. N.
LEMMA RangeInduction ==
    ASSUME NEW N \in Nat, NEW T, 0 \in T,
           \A k \in 0 .. N - 1 : k \in T => k + 1 \in T
    PROVE  0 .. N \subseteq T
<1> SUFFICES ASSUME (0 .. N) \ T # {} PROVE FALSE
  OBVIOUS
<1>1. (0 .. N) \ T \in SUBSET Nat
  OBVIOUS
<1>2. PICK x \in (0 .. N) \ T : \A y \in (0 .. N) \ T : x <= y
  BY <1>1, LeastNatural, Zenon
<1>3. x # 0 /\ x - 1 \in 0 .. N - 1 /\ x - 1 \notin (0 .. N) \ T
  BY <1>2, SMT
<1> QED  BY <1>2, <1>3, SMT

\* f begins with b and takes step k from its value before.
Iterates(f, N, b, g) == f[0] = b /\ \A k \in 1 .. N : f[k] = g[k][f[k - 1]]

\* A function on 0 .. N may be defined by its first value and its steps.
LEMMA RecursionOnRange ==
    ASSUME NEW N \in Nat, NEW S, NEW b \in S, NEW g \in [1 .. N -> [S -> S]]
    PROVE  \E f \in [0 .. N -> S] : Iterates(f, N, b, g)
<1> DEFINE Defines(f, n) == f[0] = b /\ \A k \in 1 .. n : f[k] = g[k][f[k - 1]]
           T == {n \in 0 .. N : \E f \in [0 .. n -> S] : Defines(f, n)}
<1>1. 0 \in T
  <2>1. [k \in 0 .. 0 |-> b] \in [0 .. 0 -> S] /\ Defines([k \in 0 .. 0 |-> b], 0)
    OBVIOUS
  <2>2. \E f \in [0 .. 0 -> S] : Defines(f, 0)  BY <2>1
  <2> QED  BY <2>2, SMT
<1>2. ASSUME NEW n \in 0 .. N - 1, n \in T PROVE n + 1 \in T
  <2>1. PICK f \in [0 .. n -> S] : Defines(f, n)
    BY <1>2
  <2> DEFINE h == [k \in 0 .. n + 1 |-> IF k = n + 1 THEN g[n + 1][f[n]] ELSE f[k]]
  <2>2. f[n] \in S /\ g[n + 1] \in [S -> S]
    BY <2>1, SMT
  <2>3. h \in [0 .. n + 1 -> S]
    BY <2>1, <2>2, SMT
  <2>4. \A k \in 0 .. n : h[k] = f[k]
    BY SMT
  <2>5. h[n + 1] = g[n + 1][h[n]]
    BY <2>4, SMT
  <2> HIDE DEF h
  <2>6. Defines(h, n + 1)
    <3>1. h[0] = b  BY <2>1, <2>4, SMT
    <3>2. ASSUME NEW k \in 1 .. n + 1 PROVE h[k] = g[k][h[k - 1]]
      <4>1. CASE k = n + 1  BY <2>5, <4>1, SMT
      <4>2. CASE k # n + 1
        <5>1. k \in 1 .. n /\ k \in 0 .. n /\ k - 1 \in 0 .. n  BY <4>2, SMT
        <5>2. h[k] = f[k] /\ h[k - 1] = f[k - 1]  BY <2>4, <5>1, SMT
        <5> QED  BY <2>1, <5>1, <5>2, Zenon
      <4> QED  BY <4>1, <4>2
    <3> QED  BY <3>1, <3>2
  <2>7. n + 1 \in 0 .. N  BY SMT
  <2> QED  BY <2>3, <2>6, <2>7
<1>3. 0 .. N \subseteq T
  <2> HIDE DEF T
  <2> QED  BY <1>1, <1>2, RangeInduction
<1>4. PICK f \in [0 .. N -> S] : Defines(f, N)  BY <1>3, SMT
<1>5. Iterates(f, N, b, g)  BY <1>4 DEF Iterates
<1> QED  BY <1>5

\* A function that takes the step wherever it is of the type has the type.
LEMMA RecursionTyped ==
    ASSUME NEW N \in Nat, NEW S, NEW h, h[0] \in S,
           \A k \in 1 .. N : h[k - 1] \in S => h[k] \in S
    PROVE  \A k \in 0 .. N : h[k] \in S
<1> DEFINE T == {k \in 0 .. N : h[k] \in S}
<1>1. 0 \in T  OBVIOUS
<1>2. ASSUME NEW k \in 0 .. N - 1, k \in T PROVE k + 1 \in T
  <2>1. k + 1 \in 1 .. N /\ (k + 1) - 1 = k  BY SMT
  <2>2. h[k + 1] \in S  BY <1>2, <2>1
  <2> QED  BY <2>1, <2>2, SMT
<1>3. 0 .. N \subseteq T
  <2> HIDE DEF T
  <2> QED  BY <1>1, <1>2, RangeInduction
<1> QED  BY <1>3
-----------------------------------------------------------------------------
\* h is put together from the pieces e, and g is a prefix of f.
Joins(h, e, N) == \A k \in 1 .. N : h[k] = h[k - 1] \o e[k]

Begins(g, f) == Len(g) <= Len(f) /\ \A i \in 1 .. Len(g) : f[i] = g[i]

\* A sequence put together piece by piece keeps what it has.
LEMMA PiecesGrow ==
    ASSUME NEW N \in Nat, NEW S, NEW h \in [0 .. N -> Seq(S)], NEW e \in [1 .. N -> Seq(S)],
           Joins(h, e, N), NEW m \in 0 .. N
    PROVE  \A k \in m .. N : Begins(h[m], h[k])
<1> DEFINE Keeps(k) == /\ Len(h[m]) <= Len(h[k])
                       /\ \A i \in 1 .. Len(h[m]) : h[k][i] = h[m][i]
           T == {d \in 0 .. N - m : Keeps(m + d)}
<1>1. \A k \in 0 .. N : Len(h[k]) \in Nat  BY LenProperties
<1>2. 0 \in T  BY <1>1
<1>3. ASSUME NEW d \in 0 .. (N - m) - 1, d \in T PROVE d + 1 \in T
  <2> DEFINE k == m + d
  <2>1. k \in 0 .. N /\ k + 1 \in 1 .. N /\ (k + 1) - 1 = k  OBVIOUS
  <2>2. Keeps(k)  BY <1>3
  <2>3. h[k + 1] = h[k] \o e[k + 1] /\ h[k] \in Seq(S) /\ e[k + 1] \in Seq(S)
    BY <2>1 DEF Joins
  <2> HIDE DEF k
  <2> DEFINE a == h[k]
             b == e[k + 1]
  <2>4. /\ Len(h[k + 1]) = Len(h[k]) + Len(e[k + 1]) /\ Len(e[k + 1]) \in Nat
        /\ \A i \in 1 .. Len(h[k]) : h[k + 1][i] = h[k][i]
    <3>1. h[k + 1] = a \o b /\ a \in Seq(S) /\ b \in Seq(S)  BY <2>3
    <3> HIDE DEF a, b
    <3>2. /\ Len(a \o b) = Len(a) + Len(b)
          /\ \A i \in 1 .. Len(a) + Len(b) :
                (a \o b)[i] = IF i <= Len(a) THEN a[i] ELSE b[i - Len(a)]
      BY <3>1, ConcatProperties
    <3>3. Len(a) \in Nat /\ Len(b) \in Nat  BY <3>1, LenProperties
    <3>4. \A i \in 1 .. Len(a) : (a \o b)[i] = a[i]  BY <3>2, <3>3
    <3> QED  BY <3>1, <3>2, <3>3, <3>4 DEF a, b
  <2> HIDE DEF a, b
  <2>5. Keeps(k + 1)  BY <1>1, <2>1, <2>2, <2>4
  <2>6. k + 1 = m + (d + 1)  BY DEF k
  <2> QED  BY <2>5, <2>6
<1>4. 0 .. N - m \subseteq T
  <2>1. N - m \in Nat  OBVIOUS
  <2> HIDE DEF T
  <2> QED  BY <1>2, <1>3, <2>1, RangeInduction
<1>5. ASSUME NEW k \in m .. N PROVE Keeps(k)
  <2>1. k - m \in 0 .. N - m /\ m + (k - m) = k  OBVIOUS
  <2>2. k - m \in T  BY <1>4, <2>1
  <2> QED  BY <2>1, <2>2
<1> QED  BY <1>5 DEF Begins

\* The two halves of a concatenation.
LEMMA Halves ==
    ASSUME NEW S, NEW a \in Seq(S), NEW b \in Seq(S)
    PROVE  /\ SubSeq(a \o b, 1, Len(a)) = a
           /\ SubSeq(a \o b, Len(a) + 1, Len(a \o b)) = b
<1>1. /\ a \o b \in Seq(S) /\ Len(a \o b) = Len(a) + Len(b)
      /\ Len(a) \in Nat /\ Len(b) \in Nat
      /\ \A i \in 1 .. Len(a) : (a \o b)[i] = a[i]
      /\ \A i \in 1 .. Len(b) : (a \o b)[Len(a) + i] = b[i]
  BY ConcatProperties, LenProperties
<1>2. \A i \in 1 .. Len(a \o b) : (a \o b)[i] \in S  BY <1>1, ElementOfSeq
<1> DEFINE c == a \o b
<1>3. /\ SubSeq(c, 1, Len(a)) \in Seq(S) /\ Len(SubSeq(c, 1, Len(a))) = Len(a)
      /\ \A i \in 1 .. Len(a) : SubSeq(c, 1, Len(a))[i] = c[i]
  <2> HIDE DEF c
  <2>1. \A i \in 1 .. Len(a) : c[i] \in S  BY <1>1, <1>2 DEF c
  <2>2. 1 \in Int /\ Len(a) \in Int  BY <1>1
  <2> QED  BY <1>1, <2>1, <2>2, SubSeqProperties
<1>4. /\ SubSeq(c, Len(a) + 1, Len(c)) \in Seq(S)
      /\ Len(SubSeq(c, Len(a) + 1, Len(c))) = Len(b)
      /\ \A i \in 1 .. Len(b) : SubSeq(c, Len(a) + 1, Len(c))[i] = c[Len(a) + i]
  <2>1. \A i \in Len(a) + 1 .. Len(c) : c[i] \in S  BY <1>1, <1>2
  <2>2. Len(a) + 1 \in Int /\ Len(c) \in Int /\ Len(c) = Len(a) + Len(b)  BY <1>1
  <2> HIDE DEF c
  <2> QED  BY <1>1, <2>1, <2>2, SubSeqProperties
<1>5. SubSeq(c, 1, Len(a)) = a
  <2> HIDE DEF c
  <2> QED  BY <1>1, <1>3, SeqEqual DEF c
<1>6. SubSeq(c, Len(a) + 1, Len(c)) = b  BY <1>1, <1>4, SeqEqual
<1> QED  BY <1>5, <1>6

\* What is left of a sequence after its first n elements.
LEMMA SuffixFacts ==
    ASSUME NEW S, NEW s \in Seq(S), NEW n \in 0 .. Len(s)
    PROVE  /\ SubSeq(s, n + 1, Len(s)) \in Seq(S)
           /\ Len(SubSeq(s, n + 1, Len(s))) = Len(s) - n
           /\ \A i \in 1 .. Len(s) - n : SubSeq(s, n + 1, Len(s))[i] = s[n + i]
<1>1. Len(s) \in Nat /\ \A i \in n + 1 .. Len(s) : s[i] \in S
  BY LenProperties, ElementOfSeq
<1>2. n + 1 \in Int /\ Len(s) \in Int  BY <1>1
<1>3. /\ SubSeq(s, n + 1, Len(s)) \in Seq(S)
      /\ Len(SubSeq(s, n + 1, Len(s))) = IF n + 1 <= Len(s) THEN Len(s) - (n + 1) + 1 ELSE 0
      /\ \A i \in 1 .. Len(s) - (n + 1) + 1 : SubSeq(s, n + 1, Len(s))[i] = s[(n + 1) + i - 1]
  BY <1>1, <1>2, SubSeqProperties
<1> QED  BY <1>1, <1>3

\* The first n elements of a sequence.
LEMMA PrefixFacts ==
    ASSUME NEW S, NEW s \in Seq(S), NEW n \in 0 .. Len(s)
    PROVE  /\ SubSeq(s, 1, n) \in Seq(S) /\ Len(SubSeq(s, 1, n)) = n
           /\ \A i \in 1 .. n : SubSeq(s, 1, n)[i] = s[i]
<1>1. Len(s) \in Nat /\ \A i \in 1 .. n : s[i] \in S
  BY LenProperties, ElementOfSeq
<1>2. 1 \in Int /\ n \in Int  BY <1>1
<1>3. /\ SubSeq(s, 1, n) \in Seq(S)
      /\ Len(SubSeq(s, 1, n)) = IF 1 <= n THEN n - 1 + 1 ELSE 0
      /\ \A i \in 1 .. n - 1 + 1 : SubSeq(s, 1, n)[i] = s[1 + i - 1]
  BY <1>1, <1>2, SubSeqProperties
<1> QED  BY <1>1, <1>3

\* One element more of it.
LEMMA PrefixAppends ==
    ASSUME NEW S, NEW s \in Seq(S), NEW n \in 1 .. Len(s)
    PROVE  SubSeq(s, 1, n) = Append(SubSeq(s, 1, n - 1), s[n])
<1>1. Len(s) \in Nat  BY LenProperties
<1>2. 1 \in 1 .. Len(s) /\ n \in 1 .. Len(s) /\ n - 1 \in 0 .. Len(s)  BY <1>1
<1>3. SubSeq(s, 1, n) = SubSeq(s, 1, n - 1) \o <<s[n]>>
  BY <1>2, SubSeqRecursiveSecond
<1>4. SubSeq(s, 1, n - 1) \in Seq(S)  BY <1>2, PrefixFacts
<1>5. s[n] \in S  BY ElementOfSeq
<1>6. Append(SubSeq(s, 1, n - 1), s[n]) = SubSeq(s, 1, n - 1) \o <<s[n]>>
  BY <1>4, <1>5, AppendIsConcat
<1> QED  BY <1>3, <1>6

\* What is dropped from the front, and moved from one sequence to the other.
LEMMA DropConcat ==
    ASSUME NEW S, NEW a \in Seq(S), NEW b \in Seq(S), NEW n \in 0 .. Len(a)
    PROVE  SubSeq(a, n + 1, Len(a)) \o b = SubSeq(a \o b, n + 1, Len(a \o b))
<1> DEFINE c == a \o b
           l == SubSeq(a, n + 1, Len(a)) \o b
           r == SubSeq(c, n + 1, Len(c))
           x == SubSeq(a, n + 1, Len(a))
<1>1. Len(a) \in Nat /\ Len(b) \in Nat  BY LenProperties
<1>2. /\ c \in Seq(S) /\ Len(c) = Len(a) + Len(b)
      /\ \A i \in 1 .. Len(a) + Len(b) : c[i] = IF i <= Len(a) THEN a[i] ELSE b[i - Len(a)]
  BY ConcatProperties
<1>3. /\ x \in Seq(S) /\ Len(x) = Len(a) - n
      /\ \A i \in 1 .. Len(a) - n : x[i] = a[n + i]
  BY SuffixFacts
<1>4. n \in 0 .. Len(c)  BY <1>1, <1>2
<1> HIDE DEF c
<1>5. /\ r \in Seq(S) /\ Len(r) = Len(c) - n
      /\ \A i \in 1 .. Len(c) - n : r[i] = c[n + i]
  BY <1>2, <1>4, SuffixFacts
<1> HIDE DEF x, r
<1>6. /\ x \o b \in Seq(S) /\ Len(x \o b) = Len(x) + Len(b)
      /\ \A i \in 1 .. Len(x) + Len(b) :
            (x \o b)[i] = IF i <= Len(x) THEN x[i] ELSE b[i - Len(x)]
  BY <1>3, ConcatProperties
<1>7. Len(x \o b) = Len(r)  BY <1>1, <1>2, <1>3, <1>5, <1>6
<1>8. ASSUME NEW i \in 1 .. Len(x \o b) PROVE (x \o b)[i] = r[i]
  <2>1. n + i \in 1 .. Len(a) + Len(b) /\ i \in 1 .. Len(c) - n /\ i \in 1 .. Len(x) + Len(b)
    BY <1>1, <1>2, <1>3, <1>6
  <2>2. r[i] = c[n + i]  BY <1>5, <2>1
  <2>3. CASE i <= Len(x)
    <3>1. (x \o b)[i] = x[i]  BY <1>6, <2>1, <2>3
    <3>2. x[i] = a[n + i]  BY <1>1, <1>3, <2>3
    <3>3. c[n + i] = a[n + i]  BY <1>1, <1>2, <1>3, <2>1, <2>3
    <3> QED  BY <2>2, <3>1, <3>2, <3>3
  <2>4. CASE ~(i <= Len(x))
    <3>1. (x \o b)[i] = b[i - Len(x)]  BY <1>6, <2>1, <2>4
    <3>2. c[n + i] = b[(n + i) - Len(a)]  BY <1>1, <1>2, <1>3, <2>1, <2>4
    <3>3. (n + i) - Len(a) = i - Len(x)  BY <1>1, <1>3
    <3> QED  BY <2>2, <3>1, <3>2, <3>3
  <2> QED  BY <2>3, <2>4
<1>9. x \o b = r  BY <1>5, <1>6, <1>7, <1>8, SeqEqual
<1> QED  BY <1>9 DEF x, r, c

LEMMA MoveConcat ==
    ASSUME NEW S, NEW a \in Seq(S), NEW b \in Seq(S), NEW n \in 0 .. Len(b)
    PROVE  (a \o SubSeq(b, 1, n)) \o SubSeq(b, n + 1, Len(b)) = a \o b
<1> DEFINE x == SubSeq(b, 1, n)
           y == SubSeq(b, n + 1, Len(b))
<1>1. Len(b) \in Nat  BY LenProperties
<1>2. x \in Seq(S) /\ y \in Seq(S)  BY PrefixFacts, SuffixFacts
<1>3. x \o y = b
  <2>1. 1 \in 1 .. Len(b) + 1 /\ n \in 1 - 1 .. Len(b) /\ Len(b) \in n .. Len(b)  BY <1>1
  <2>2. x \o y = SubSeq(b, 1, Len(b))  BY <2>1, ConcatAdjacentSubSeq
  <2> QED  BY <2>2, SubSeqFull
<1> HIDE DEF x, y
<1>4. (a \o x) \o y = a \o (x \o y)  BY <1>2, ConcatAssociative
<1> QED  BY <1>3, <1>4 DEF x, y
=============================================================================
