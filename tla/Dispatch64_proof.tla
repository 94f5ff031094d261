-------------------------- MODULE Dispatch64_proof --------------------------
(***************************************************************************)
(* The 64-bit call machine for any threads, image, table sizes and depth.  *)
(*                                                                         *)
(* StackBalanced is about the innermost activation only.  What carries it  *)
(* over a return is that every activation stands where the one below       *)
(* goes on (Joined), and that a CPU with a bridge on it is left alone      *)
(* until the bridge is gone (Parked).                                      *)
(***************************************************************************)
EXTENDS Dispatch64, FiniteSetTheorems, SequenceTheorems, TLAPS

\* The words in use when control is in a: a body that ended in a jump has its
\* return address taken off by the one it jumped to.
Level(a) == IF a.kind = "bridge" \/ a.done THEN a.at - 1 ELSE a.at

Joined(a, b) ==
    IF b.kind = "bridge"
    THEN a.kind = "native" /\ b.cpu = a.cpu + 1
    ELSE /\ b.cpu = a.cpu /\ b.at = Level(a) + (IF b.kind = "lifted" THEN 1 ELSE 0)
         /\ b.kind # "lifted" => a.kind = "lifted"

FrameOK(a) ==
    /\ a.kind \in {"lifted", "bridge"} => a.at >= 1
    /\ a.kind = "bridge" => a.at = 1
    /\ a.pushed \/ a.done => a.kind = "lifted"
    /\ a.pushed => a.fn \in Lifted

\* g_cur_cpu above the activations F.
CurOf(F) ==
    IF F = <<>> THEN -1
    ELSE IF F[Len(F)].kind # "bridge" THEN F[Len(F)].cpu
    ELSE IF Len(F) = 1 THEN -1 ELSE F[Len(F) - 1].cpu

\* CurOf of what is below activation i.
Before(F, i) ==
    IF i = 1 THEN -1
    ELSE IF F[i - 1].kind # "bridge" THEN F[i - 1].cpu
    ELSE IF i = 2 THEN -1 ELSE F[i - 2].cpu

Good(F) ==
    /\ F \in Seq(Activation)
    /\ \A i \in 1 .. Len(F) :
          /\ FrameOK(F[i]) /\ Level(F[i]) <= i
          /\ F[i].kind = "lifted" => F[i].prev = Before(F, i)
    /\ Len(F) >= 1 => F[1].kind \in {"lifted", "bridge"}
    /\ \A i \in 2 .. Len(F) : Joined(F[i - 1], F[i])
    /\ \A i, j \in 1 .. Len(F) : i <= j =>
          /\ F[i].cpu <= F[j].cpu
          /\ F[i].cpu = F[j].cpu => Level(F[i]) <= Level(F[j])

\* Under a bridge the stack pointer stays what it was.
Parked(F, R) ==
    \A i \in 2 .. Len(F) : F[i].kind = "bridge" => R[F[i - 1].cpu] = Level(F[i - 1])

AtTop(F, R) ==
    F # <<>> => /\ F[Len(F)].kind # "bridge"
                /\ R[F[Len(F)].cpu] = Level(F[Len(F)])

\* The shadow stack of F.
Count(F, i) == Cardinality({j \in 1 .. i : F[j].pushed})
Shadow(F, D, C) ==
    /\ D = Count(F, Len(F))
    /\ \A i \in 1 .. Len(F) :
          F[i].pushed /\ Count(F, i) <= CsMax => C[Count(F, i)] = F[i].fn

Whole(F, R, D, C, k) ==
    /\ Good(F) /\ Parked(F, R) /\ AtTop(F, R)
    /\ Shadow(F, D, C) /\ k = CurOf(F)

ThreadOK(t) == Whole(frames[t], rsp[t], depth[t], cs[t], cur[t])

CountersInv == CountersOwned /\ \A t \in Thread : slot[t] <= tcn

IInv ==
    /\ TypeOK /\ CountersInv
    /\ \A t \in Thread : ThreadOK(t)
    /\ \A t \in Thread : state[t] \in {"idle", "ready", "over"} => frames[t] = <<>>
    /\ ~stopped => calls < MaxCalls
-----------------------------------------------------------------------------
(***************************************************************************)
(* Sequences of activations.                                               *)
(***************************************************************************)
LEMMA ActivationIs ==
    \A a \in Activation :
        /\ a.kind \in {"lifted", "native", "walk", "bridge"}
        /\ a.cpu \in Cpu /\ a.at \in Nat /\ a.pushed \in BOOLEAN /\ a.done \in BOOLEAN
        /\ a.prev \in Cpu \cup {-1}
        /\ Level(a) \in Int
  BY DEF Activation, Level

LEMMA CpuIs == \A c \in Cpu : c \in Nat
  BY DispatchAssumption DEF Cpu

LEMMA At ==
    ASSUME NEW F \in Seq(Activation), NEW i \in 1 .. Len(F)
    PROVE  F[i] \in Activation
  BY ElementOfSeq

LEMMA LenIs ==
    ASSUME NEW F \in Seq(Activation)
    PROVE  Len(F) \in Nat /\ (F = <<>> <=> Len(F) = 0)
  BY EmptySeq, LenProperties

LEMMA AppendIs ==
    ASSUME NEW F \in Seq(Activation), NEW b \in Activation
    PROVE  /\ Append(F, b) \in Seq(Activation) /\ Len(Append(F, b)) = Len(F) + 1
           /\ \A i \in 1 .. Len(F) : Append(F, b)[i] = F[i]
           /\ Append(F, b)[Len(F) + 1] = b
  BY AppendProperties

LEMMA FrontIs ==
    ASSUME NEW F \in Seq(Activation), F # <<>>
    PROVE  /\ Front(F) \in Seq(Activation) /\ Len(Front(F)) = Len(F) - 1
           /\ \A i \in 1 .. Len(F) - 1 : Front(F)[i] = F[i]
<1>1. Len(F) \in Nat \ {0}
  BY LenIs
<1>2. \A k \in 1 .. Len(F) - 1 : F[k] \in Activation
  BY At, <1>1
<1>3. /\ SubSeq(F, 1, Len(F) - 1) \in Seq(Activation)
      /\ Len(SubSeq(F, 1, Len(F) - 1)) =
           IF 1 <= Len(F) - 1 THEN Len(F) - 1 - 1 + 1 ELSE 0
      /\ \A k \in 1 .. Len(F) - 1 - 1 + 1 : SubSeq(F, 1, Len(F) - 1)[k] = F[1 + k - 1]
  BY <1>1, <1>2, SubSeqProperties
<1>4. \A n \in Nat \ {0} : (IF 1 <= n - 1 THEN n - 1 - 1 + 1 ELSE 0) = n - 1
  OBVIOUS
<1>5. Len(SubSeq(F, 1, Len(F) - 1)) = Len(F) - 1
  BY <1>1, <1>3, <1>4
<1>6. ASSUME NEW i \in 1 .. Len(F) - 1
      PROVE  SubSeq(F, 1, Len(F) - 1)[i] = F[i]
  <2>1. i \in 1 .. Len(F) - 1 - 1 + 1 /\ 1 + i - 1 = i
    BY <1>1
  <2> QED  BY <1>3, <2>1
<1> QED  BY <1>3, <1>5, <1>6 DEF Front

LEMMA BeforeNext ==
    ASSUME NEW G, NEW n \in Nat \ {0}
    PROVE  Before(G, n + 1) = IF G[n].kind # "bridge" THEN G[n].cpu
                              ELSE IF n = 1 THEN -1 ELSE G[n - 1].cpu
<1>1. n + 1 - 1 = n /\ n + 1 - 2 = n - 1 /\ (n + 1 = 2 <=> n = 1) /\ n + 1 # 1
  OBVIOUS
<1> DEFINE m == n + 1
<1>2. m - 1 = n /\ m - 2 = n - 1 /\ (m = 2 <=> n = 1) /\ m # 1
  BY <1>1
<1> HIDE DEF m
<1>3. Before(G, m) = IF G[n].kind # "bridge" THEN G[n].cpu
                     ELSE IF n = 1 THEN -1 ELSE G[n - 1].cpu
  BY <1>2, Zenon DEF Before
<1> QED  BY <1>3 DEF m

\* b may start on top of F.
Fits(F, b) ==
    /\ b \in Activation /\ FrameOK(b) /\ ~b.done
    /\ IF F = <<>> THEN b.kind \in {"lifted", "bridge"} /\ b.at = 1
                   ELSE Joined(F[Len(F)], b)
    /\ b.kind = "lifted" => b.prev = CurOf(F)

LEMMA PushGood ==
    ASSUME NEW F, Good(F), NEW b, Fits(F, b)
    PROVE  Good(Append(F, b)) /\ CurOf(Append(F, b)) =
             IF b.kind # "bridge" THEN b.cpu ELSE CurOf(F)
<1> DEFINE G == Append(F, b)  n == Len(F)
<1>0. F \in Seq(Activation) /\ b \in Activation
  BY DEF Good, Fits
<1>1. /\ G \in Seq(Activation) /\ Len(G) = n + 1 /\ G[n + 1] = b
      /\ \A i \in 1 .. n : G[i] = F[i]
  BY <1>0, AppendIs
<1>2. n \in Nat /\ (F = <<>> <=> n = 0) /\ G # <<>>
  BY <1>0, <1>1, LenIs
<1>3. \A i \in 1 .. n : F[i] \in Activation /\ Level(F[i]) \in Int /\ F[i].cpu \in Nat
  BY <1>0, At, ActivationIs, CpuIs
<1>4. b.at \in Nat /\ b.cpu \in Nat /\ Level(b) \in Int
  BY <1>0, ActivationIs, CpuIs
<1> HIDE DEF G, n
<1>5. ASSUME n # 0
      PROVE  /\ F[n].cpu <= b.cpu
             /\ F[n].cpu = b.cpu => Level(F[n]) <= Level(b)
             /\ Level(b) <= n + 1
  <2>1. Joined(F[n], b) /\ n \in 1 .. n
    BY <1>2, <1>5 DEF Fits, n
  <2>2. Level(F[n]) <= n
    BY <2>1 DEF Good, n
  <2>3. CASE b.kind = "bridge"
    BY <2>1, <2>3, <1>2, <1>3, <1>4 DEF Joined, Fits, FrameOK, Level
  <2>4. CASE b.kind # "bridge"
    <3>1. Level(b) = b.at
      BY <2>4 DEF Fits, Level
    <3>2. b.cpu = F[n].cpu /\ (b.at = Level(F[n]) + 1 \/ b.at = Level(F[n]))
      BY <2>1, <2>4, <1>3, <1>4 DEF Joined
    <3> QED  BY <3>1, <3>2, <2>1, <2>2, <1>2, <1>3, <1>4
  <2> QED  BY <2>3, <2>4
<1>6. Level(b) <= n + 1
  <2>1. CASE n = 0
    BY <2>1, <1>2 DEF Fits, Level
  <2> QED  BY <2>1, <1>5
<1>7. b.kind = "lifted" => b.prev = Before(G, n + 1)
  <2> SUFFICES ASSUME b.kind = "lifted" PROVE CurOf(F) = Before(G, n + 1)
    BY DEF Fits
  <2>1. CASE n = 0
    BY <2>1, <1>2 DEF CurOf, Before
  <2>2. CASE n # 0
    <3>1. n + 1 - 1 = n /\ n + 1 - 2 = n - 1 /\ (n + 1 = 2 <=> n = 1) /\ n + 1 # 1
      BY <1>2, <2>2
    <3>2. G[n] = F[n] /\ (n # 1 => G[n - 1] = F[n - 1])
      BY <1>1, <1>2, <2>2
    <3>3. CurOf(F) = IF F[n].kind # "bridge" THEN F[n].cpu ELSE IF n = 1 THEN -1 ELSE F[n - 1].cpu
      BY <1>2, <2>2 DEF CurOf, n
    <3>4. Before(G, n + 1) = IF G[n].kind # "bridge" THEN G[n].cpu
                             ELSE IF n = 1 THEN -1 ELSE G[n - 1].cpu
      BY <1>2, <2>2, BeforeNext
    <3>5. CASE n = 1
      BY <3>2, <3>3, <3>4, <3>5
    <3>6. CASE n # 1
      BY <3>2, <3>3, <3>4, <3>6
    <3> QED  BY <3>5, <3>6
  <2> QED  BY <2>1, <2>2
<1>8. ASSUME NEW i \in 1 .. n + 1
      PROVE  /\ FrameOK(G[i]) /\ Level(G[i]) <= i
             /\ G[i].kind = "lifted" => G[i].prev = Before(G, i)
  <2>1. CASE i \in 1 .. n
    <3>1. G[i] = F[i] /\ (i # 1 => G[i - 1] = F[i - 1]) /\ (i # 1 /\ i # 2 => G[i - 2] = F[i - 2])
      BY <2>1, <1>1, <1>2
    <3>2. Before(G, i) = Before(F, i)
      BY <3>1 DEF Before
    <3> QED  BY <3>1, <3>2, <2>1 DEF Good, n
  <2>2. CASE i = n + 1
    BY <2>2, <1>1, <1>6, <1>7 DEF Fits
  <2> QED  BY <2>1, <2>2, <1>2
<1>9. G[1].kind \in {"lifted", "bridge"}
  <2>1. CASE n = 0
    BY <2>1, <1>1, <1>2 DEF Fits
  <2>2. CASE n # 0
    BY <2>2, <1>1, <1>2 DEF Good, n
  <2> QED  BY <2>1, <2>2
<1>10. ASSUME NEW i \in 2 .. n + 1 PROVE Joined(G[i - 1], G[i])
  <2>1. CASE i \in 2 .. n
    <3>1. G[i] = F[i] /\ G[i - 1] = F[i - 1]
      BY <2>1, <1>1, <1>2
    <3> QED  BY <3>1, <2>1 DEF Good, n
  <2>2. CASE i = n + 1
    <3>1. G[i] = b /\ G[i - 1] = F[n] /\ F # <<>>
      BY <2>2, <1>1, <1>2
    <3> QED  BY <3>1 DEF Fits, n
  <2> QED  BY <2>1, <2>2, <1>2
<1>11. ASSUME NEW i \in 1 .. n + 1, NEW j \in 1 .. n + 1, i <= j
       PROVE  /\ G[i].cpu <= G[j].cpu
              /\ G[i].cpu = G[j].cpu => Level(G[i]) <= Level(G[j])
  <2>1. CASE j \in 1 .. n
    <3>1. i \in 1 .. n /\ G[i] = F[i] /\ G[j] = F[j]
      BY <2>1, <1>1, <1>2, <1>11
    <3> QED  BY <3>1, <2>1, <1>11 DEF Good, n
  <2>2. CASE j = n + 1 /\ i \in 1 .. n
    <3>1. n # 0 /\ n \in 1 .. n /\ i <= n
      BY <2>2, <1>2
    <3>2. F[i].cpu <= F[n].cpu /\ (F[i].cpu = F[n].cpu => Level(F[i]) <= Level(F[n]))
      BY <3>1, <2>2 DEF Good, n
    <3>3. G[i] = F[i] /\ G[j] = b
      BY <2>2, <1>1
    <3> QED  BY <3>1, <3>2, <3>3, <2>2, <1>3, <1>4, <1>5
  <2>3. CASE j = n + 1 /\ i = n + 1
    BY <2>3, <1>1, <1>4
  <2> QED  BY <2>1, <2>2, <2>3, <1>2
<1>12. Good(G)
  BY <1>1, <1>2, <1>8, <1>9, <1>10, <1>11 DEF Good
<1>13. CurOf(G) = IF b.kind # "bridge" THEN b.cpu ELSE CurOf(F)
  <2>1. CASE n = 0
    BY <2>1, <1>1, <1>2 DEF CurOf
  <2>2. CASE n # 0
    <3>1. n + 1 - 1 = n /\ n + 1 # 1 /\ n \in 1 .. n /\ G[n] = F[n] /\ F # <<>>
      BY <2>2, <1>1, <1>2
    <3>2. b.kind = "bridge" => F[n].kind = "native"
      BY <3>1 DEF Fits, Joined, n
    <3>3. F[n].kind # "bridge" => CurOf(F) = F[n].cpu
      BY <3>1 DEF CurOf, n
    <3> QED  BY <3>1, <3>2, <3>3, <1>1, <1>2 DEF CurOf
  <2> QED  BY <2>1, <2>2
<1> QED  BY <1>12, <1>13 DEF G

\* The innermost body ends in a jump.
Marked(F) == [F EXCEPT ![Len(F)].done = TRUE]

LEMMA MarkIs ==
    ASSUME NEW F \in Seq(Activation), F # <<>>
    PROVE  LET G == Marked(F)  n == Len(F) IN
           /\ G \in Seq(Activation) /\ Len(G) = n /\ n \in Nat \ {0}
           /\ \A i \in 1 .. n - 1 : G[i] = F[i]
           /\ G[n] = [F[n] EXCEPT !.done = TRUE]
<1> DEFINE G == Marked(F)  n == Len(F)
<1>0. F \in Seq(Activation)
  OBVIOUS
<1>1. n \in Nat \ {0} /\ F[n] \in Activation
  BY LenIs, At
<1>2. [F[n] EXCEPT !.done = TRUE] \in Activation
  BY <1>1 DEF Activation
<1>3. G = [F EXCEPT ![n] = [F[n] EXCEPT !.done = TRUE]]
  BY DEF Marked
<1>4. n \in 1 .. n
  BY <1>1
<1>5. G \in Seq(Activation) /\ Len(G) = n
      /\ \A i \in 1 .. n : G[i] = IF i = n THEN [F[n] EXCEPT !.done = TRUE] ELSE F[i]
  BY <1>2, <1>3, <1>4, <1>0, ExceptSeq
<1>6. \A i \in 1 .. n - 1 : i \in 1 .. n /\ i # n
  BY <1>1
<1>7. \A i \in 1 .. n - 1 : G[i] = F[i]
  BY <1>5, <1>6
<1>8. G[n] = [F[n] EXCEPT !.done = TRUE]
  BY <1>4, <1>5
<1> QED  BY <1>1, <1>5, <1>7, <1>8

LEMMA MarkGood ==
    ASSUME NEW F, Good(F), F # <<>>, F[Len(F)].kind = "lifted", ~F[Len(F)].done
    PROVE  LET G == Marked(F)  n == Len(F) IN
           /\ Good(G) /\ G # <<>> /\ CurOf(G) = F[n].cpu
           /\ G[n].cpu = F[n].cpu /\ G[n].kind = "lifted"
           /\ Level(G[n]) = F[n].at - 1 /\ F[n].at >= 1 /\ Level(F[n]) = F[n].at
<1> DEFINE G == Marked(F)  n == Len(F)
<1>0. F \in Seq(Activation)
  BY DEF Good
<1>1. /\ G \in Seq(Activation) /\ Len(G) = n /\ n \in Nat \ {0}
      /\ \A i \in 1 .. n - 1 : G[i] = F[i]
      /\ G[n] = [F[n] EXCEPT !.done = TRUE]
  BY <1>0, MarkIs
<1>2. \A i \in 1 .. n : F[i] \in Activation /\ Level(F[i]) \in Int /\ F[i].cpu \in Nat /\ F[i].at \in Nat
  BY <1>0, At, ActivationIs, CpuIs
<1>3. n \in 1 .. n /\ F[n] \in Activation
  BY <1>1, <1>2
<1>4. /\ G[n].kind = F[n].kind /\ G[n].cpu = F[n].cpu /\ G[n].at = F[n].at
      /\ G[n].pushed = F[n].pushed /\ G[n].fn = F[n].fn /\ G[n].prev = F[n].prev /\ G[n].done
  BY <1>1, <1>3 DEF Activation
<1>5. FrameOK(F[n]) /\ Level(F[n]) <= n /\ F[n].prev = Before(F, n)
  BY <1>3 DEF Good
<1>6. Level(G[n]) = F[n].at - 1 /\ Level(F[n]) = F[n].at /\ F[n].at >= 1 /\ F[n].kind = "lifted"
  BY <1>4, <1>5 DEF Level, FrameOK
<1>7. ASSUME NEW i \in 1 .. n - 1, F[i].cpu = F[n].cpu PROVE Level(F[i]) <= F[n].at - 1
  <2>1. n \in 2 .. n /\ n - 1 \in 1 .. n /\ i \in 1 .. n /\ i <= n - 1 /\ n - 1 <= n
    BY <1>1
  <2>2. F[n].cpu = F[n - 1].cpu /\ F[n].at = Level(F[n - 1]) + 1
    BY <2>1, <1>6 DEF Good, Joined
  <2>3. Level(F[i]) <= Level(F[n - 1])
    BY <2>1, <2>2, <1>7 DEF Good
  <2> QED  BY <2>1, <2>2, <2>3, <1>2
<1>8. CurOf(G) = F[n].cpu /\ G # <<>>
  BY <1>1, <1>4, <1>6, LenIs DEF CurOf
<1> HIDE DEF G
<1>9. ASSUME NEW i \in 1 .. n
      PROVE  /\ FrameOK(G[i]) /\ Level(G[i]) <= i
             /\ G[i].kind = "lifted" => G[i].prev = Before(G, i)
  <2>1. Before(G, i) = Before(F, i)
    <3>1. /\ i # 1 => G[i - 1] = F[i - 1]
          /\ i # 1 /\ i # 2 => G[i - 2] = F[i - 2]
      BY <1>1
    <3> QED  BY <3>1 DEF Before
  <2>2. CASE i \in 1 .. n - 1
    BY <2>1, <2>2, <1>1 DEF Good
  <2>3. CASE i = n
    <3>1. FrameOK(G[n])
      BY <1>4, <1>5, <1>6 DEF FrameOK
    <3> QED  BY <3>1, <2>1, <2>3, <1>2, <1>4, <1>5, <1>6
  <2> QED  BY <2>2, <2>3, <1>1
<1>10. ASSUME NEW i \in 2 .. n PROVE Joined(G[i - 1], G[i])
  <2>1. G[i - 1] = F[i - 1] /\ Joined(F[i - 1], F[i])
    BY <1>1 DEF Good
  <2>2. CASE i = n
    BY <2>1, <2>2, <1>4 DEF Joined
  <2>3. CASE i \in 1 .. n - 1
    BY <2>1, <2>3, <1>1
  <2> QED  BY <2>2, <2>3, <1>1
<1>11. ASSUME NEW i \in 1 .. n, NEW j \in 1 .. n, i <= j
       PROVE  /\ G[i].cpu <= G[j].cpu
              /\ G[i].cpu = G[j].cpu => Level(G[i]) <= Level(G[j])
  <2>1. F[i].cpu <= F[j].cpu /\ (F[i].cpu = F[j].cpu => Level(F[i]) <= Level(F[j]))
    BY <1>11 DEF Good
  <2>2. CASE j \in 1 .. n - 1
    <3>1. i \in 1 .. n - 1
      BY <2>2, <1>1, <1>11
    <3> QED  BY <2>1, <2>2, <3>1, <1>1
  <2>3. CASE j = n /\ i \in 1 .. n - 1
    <3>1. G[i] = F[i] /\ G[j].cpu = F[j].cpu /\ Level(G[j]) = F[j].at - 1
      BY <2>3, <1>1, <1>4, <1>6
    <3> QED  BY <2>1, <2>3, <3>1, <1>7
  <2>4. CASE j = n /\ i = n
    BY <2>4, <1>2, <1>4, <1>6
  <2> QED  BY <2>2, <2>3, <2>4, <1>1
<1>12. G[1].kind \in {"lifted", "bridge"}
  <2>1. CASE n = 1
    BY <2>1, <1>4, <1>6
  <2>2. CASE n # 1
    <3>1. G[1] = F[1] /\ n >= 1
      BY <2>2, <1>1
    <3> QED  BY <3>1 DEF Good
  <2> QED  BY <2>1, <2>2
<1>13. Good(G)
  BY <1>1, <1>9, <1>10, <1>11, <1>12 DEF Good
<1> QED  BY <1>4, <1>6, <1>8, <1>13 DEF G

LEMMA PopGood ==
    ASSUME NEW F, Good(F), F # <<>>
    PROVE  LET G == Front(F)  a == F[Len(F)] IN
           /\ Good(G)
           /\ a.kind = "lifted" => a.prev = CurOf(G)
           /\ a.kind \notin {"lifted", "bridge"} => G # <<>> /\ a.cpu = CurOf(G)
           /\ a.kind = "bridge" => CurOf(F) = CurOf(G)
<1> DEFINE G == Front(F)  n == Len(F)  a == F[n]
<1>0. F \in Seq(Activation)
  BY DEF Good
<1>1. /\ G \in Seq(Activation) /\ Len(G) = n - 1
      /\ \A i \in 1 .. n - 1 : G[i] = F[i]
  BY <1>0, FrontIs
<1>2. n \in Nat \ {0} /\ (G = <<>> <=> n = 1)
  BY <1>0, <1>1, LenIs
<1>3. \A i \in 1 .. n : F[i] \in Activation
  BY <1>0, At
<1> HIDE DEF G
<1>4. ASSUME NEW i \in 1 .. n - 1
      PROVE  /\ FrameOK(G[i]) /\ Level(G[i]) <= i
             /\ G[i].kind = "lifted" => G[i].prev = Before(G, i)
  <2>1. Before(G, i) = Before(F, i)
    <3>1. /\ i # 1 => G[i - 1] = F[i - 1]
          /\ i # 1 /\ i # 2 => G[i - 2] = F[i - 2]
      BY <1>1, <1>2
    <3> QED  BY <3>1 DEF Before
  <2>2. i \in 1 .. n /\ G[i] = F[i]
    BY <1>1, <1>2
  <2> QED  BY <2>1, <2>2 DEF Good
<1>5. \A i \in 2 .. n - 1 : Joined(G[i - 1], G[i])
  <2> SUFFICES ASSUME NEW i \in 2 .. n - 1 PROVE Joined(G[i - 1], G[i])
    OBVIOUS
  <2>1. i \in 2 .. n /\ G[i] = F[i] /\ G[i - 1] = F[i - 1]
    BY <1>1, <1>2
  <2> QED  BY <2>1 DEF Good
<1>6. ASSUME NEW i \in 1 .. n - 1, NEW j \in 1 .. n - 1, i <= j
      PROVE  /\ G[i].cpu <= G[j].cpu
             /\ G[i].cpu = G[j].cpu => Level(G[i]) <= Level(G[j])
  <2>1. i \in 1 .. n /\ j \in 1 .. n /\ G[i] = F[i] /\ G[j] = F[j]
    BY <1>1, <1>2
  <2> QED  BY <2>1, <1>6 DEF Good
<1>7. n - 1 >= 1 => G[1].kind \in {"lifted", "bridge"}
  <2> SUFFICES ASSUME n - 1 >= 1 PROVE G[1].kind \in {"lifted", "bridge"}
    OBVIOUS
  <2>1. G[1] = F[1] /\ n >= 1
    BY <1>1, <1>2
  <2> QED  BY <2>1 DEF Good
<1>8. Good(G)
  BY <1>1, <1>4, <1>5, <1>6, <1>7 DEF Good
<1>9. n # 1 => /\ n - 1 \in Nat \ {0} /\ n - 1 + 1 = n /\ G[n - 1] = F[n - 1] /\ n \in 2 .. n
               /\ (n - 1 # 1 => G[n - 1 - 1] = F[n - 1 - 1])
  BY <1>1, <1>2
<1>10. Before(F, n) = CurOf(G)
  <2>1. CASE n = 1
    BY <2>1, <1>2 DEF Before, CurOf
  <2>2. CASE n # 1
    <3> DEFINE m == n - 1
    <3>1. Before(F, m + 1) = IF F[m].kind # "bridge" THEN F[m].cpu
                             ELSE IF m = 1 THEN -1 ELSE F[m - 1].cpu
      BY <2>2, <1>9, BeforeNext
    <3>2. CurOf(G) = IF G[m].kind # "bridge" THEN G[m].cpu
                     ELSE IF m = 1 THEN -1 ELSE G[m - 1].cpu
      BY <2>2, <1>1, <1>2 DEF CurOf
    <3>3. CASE m = 1
      BY <2>2, <3>1, <3>2, <3>3, <1>9
    <3>4. CASE m # 1
      BY <2>2, <3>1, <3>2, <3>4, <1>9
    <3> QED  BY <3>3, <3>4
  <2> QED  BY <2>1, <2>2
<1>11. a.kind = "lifted" => a.prev = CurOf(G)
  <2>1. n \in 1 .. n
    BY <1>2
  <2> QED  BY <2>1, <1>10 DEF Good
<1>12. ASSUME n # 1
       PROVE  /\ Joined(F[n - 1], F[n])
              /\ F[n - 1].kind # "bridge" => CurOf(G) = F[n - 1].cpu
  <2>1. Joined(F[n - 1], F[n])
    BY <1>9, <1>12 DEF Good
  <2>2. CurOf(G) = IF G[n - 1].kind # "bridge" THEN G[n - 1].cpu
                   ELSE IF n - 1 = 1 THEN -1 ELSE G[n - 1 - 1].cpu
    BY <1>12, <1>1, <1>2 DEF CurOf
  <2> QED  BY <2>1, <2>2, <1>9, <1>12
<1>13. a.kind \notin {"lifted", "bridge"} => G # <<>> /\ a.cpu = CurOf(G)
  <2> SUFFICES ASSUME a.kind \notin {"lifted", "bridge"} PROVE G # <<>> /\ a.cpu = CurOf(G)
    OBVIOUS
  <2>1. n # 1
    BY <1>2 DEF Good
  <2>2. a.cpu = F[n - 1].cpu /\ F[n - 1].kind = "lifted"
    BY <2>1, <1>12 DEF Joined
  <2> QED  BY <2>1, <2>2, <1>2, <1>12
<1>14. a.kind = "bridge" => CurOf(F) = CurOf(G)
  <2> SUFFICES ASSUME a.kind = "bridge" PROVE CurOf(F) = CurOf(G)
    OBVIOUS
  <2>1. CurOf(F) = IF n = 1 THEN -1 ELSE F[n - 1].cpu
    BY <1>0, <1>2, LenIs DEF CurOf
  <2>2. CASE n = 1
    BY <2>1, <2>2, <1>2 DEF CurOf
  <2>3. CASE n # 1
    <3>1. F[n - 1].kind = "native"
      BY <2>3, <1>12 DEF Joined
    <3> QED  BY <2>1, <2>3, <3>1, <1>12
  <2> QED  BY <2>2, <2>3
<1> QED  BY <1>8, <1>11, <1>13, <1>14 DEF G
-----------------------------------------------------------------------------
(***************************************************************************)
(* Stack pointers.                                                         *)
(***************************************************************************)
LEMMA ParkPush ==
    ASSUME NEW F, Good(F), NEW b, Fits(F, b), NEW R, Parked(F, R),
           b.kind = "bridge" /\ F # <<>> => R[F[Len(F)].cpu] = Level(F[Len(F)])
    PROVE  Parked(Append(F, b), R)
<1> DEFINE G == Append(F, b)  n == Len(F)
<1>1. /\ Len(G) = n + 1 /\ G[n + 1] = b /\ \A i \in 1 .. n : G[i] = F[i]
      /\ n \in Nat /\ (F = <<>> <=> n = 0)
  BY AppendIs, LenIs DEF Good, Fits
<1> HIDE DEF G
<1>2. ASSUME NEW i \in 2 .. n + 1, G[i].kind = "bridge"
      PROVE  R[G[i - 1].cpu] = Level(G[i - 1])
  <2>1. CASE i \in 2 .. n
    <3>1. G[i] = F[i] /\ G[i - 1] = F[i - 1]
      BY <2>1, <1>1
    <3> QED  BY <3>1, <2>1, <1>2 DEF Parked
  <2>2. CASE i = n + 1
    <3>1. G[i] = b /\ G[i - 1] = F[n] /\ F # <<>>
      BY <2>2, <1>1
    <3> QED  BY <3>1, <1>2
  <2> QED  BY <2>1, <2>2, <1>1
<1>3. Parked(G, R)
  BY <1>1, <1>2 DEF Parked
<1> QED  BY <1>3 DEF G

LEMMA ParkMark ==
    ASSUME NEW F, Good(F), F # <<>>, F[Len(F)].kind = "lifted", NEW R, Parked(F, R)
    PROVE  Parked(Marked(F), R)
<1> DEFINE G == Marked(F)  n == Len(F)
<1>1. /\ Len(G) = n /\ n \in Nat \ {0} /\ F[n] \in Activation
      /\ \A i \in 1 .. n - 1 : G[i] = F[i]
      /\ G[n] = [F[n] EXCEPT !.done = TRUE]
  BY MarkIs, At, LenIs DEF Good
<1>2. G[n].kind = "lifted"
  BY <1>1 DEF Activation
<1> HIDE DEF G
<1>3. ASSUME NEW i \in 2 .. n, G[i].kind = "bridge"
      PROVE  R[G[i - 1].cpu] = Level(G[i - 1])
  <2>0. i # n
    BY <1>2, <1>3
  <2>1. i \in 1 .. n - 1 /\ i - 1 \in 1 .. n - 1
    BY <2>0, <1>1
  <2>2. G[i] = F[i] /\ G[i - 1] = F[i - 1]
    BY <2>1, <1>1
  <2> QED  BY <2>2, <1>3 DEF Parked
<1>4. Parked(G, R)
  BY <1>1, <1>3 DEF Parked
<1> QED  BY <1>4 DEF G

LEMMA ParkPop ==
    ASSUME NEW F, Good(F), F # <<>>, NEW R, Parked(F, R)
    PROVE  Parked(Front(F), R)
<1> DEFINE G == Front(F)  n == Len(F)
<1>1. /\ Len(G) = n - 1 /\ n \in Nat \ {0}
      /\ \A i \in 1 .. n - 1 : G[i] = F[i]
  BY FrontIs, LenIs DEF Good
<1> HIDE DEF G
<1>2. ASSUME NEW i \in 2 .. n - 1, G[i].kind = "bridge"
      PROVE  R[G[i - 1].cpu] = Level(G[i - 1])
  <2>1. G[i] = F[i] /\ G[i - 1] = F[i - 1] /\ i \in 2 .. n
    BY <1>1
  <2> QED  BY <2>1, <1>2 DEF Parked
<1>3. Parked(G, R)
  BY <1>1, <1>2 DEF Parked
<1> QED  BY <1>3 DEF G

\* What the innermost body does to its own stack pointer.
LEMMA ParkSet ==
    ASSUME NEW F, Good(F), F # <<>>, NEW R \in [Cpu -> Nat], NEW v, Parked(F, R)
    PROVE  Parked(F, [R EXCEPT ![F[Len(F)].cpu] = v])
<1> DEFINE n == Len(F)  Q == [R EXCEPT ![F[n].cpu] = v]
<1>1. n \in Nat \ {0} /\ \A i \in 1 .. n : F[i].cpu \in Cpu /\ F[i].cpu \in Nat
  BY LenIs, At, ActivationIs, CpuIs DEF Good
<1>2. ASSUME NEW i \in 2 .. n, F[i].kind = "bridge"
      PROVE  Q[F[i - 1].cpu] = Level(F[i - 1])
  <2>1. i - 1 \in 1 .. n /\ i \in 1 .. n /\ n \in 1 .. n /\ i <= n
    BY <1>1
  <2>2. F[i].cpu = F[i - 1].cpu + 1 /\ F[i].cpu <= F[n].cpu
    BY <2>1, <1>2 DEF Good, Joined
  <2>3. F[i - 1].cpu # F[n].cpu
    BY <2>1, <2>2, <1>1
  <2>4. Q[F[i - 1].cpu] = R[F[i - 1].cpu]
    BY <2>1, <2>3, <1>1
  <2> QED  BY <2>4, <1>2 DEF Parked
<1> QED  BY <1>2 DEF Parked

\* A body that returns leaves the stack pointer where the one below goes on, on
\* its own CPU or on the one a bridge below it interrupted.
LEMMA PopLands ==
    ASSUME NEW F, Good(F), F # <<>>, F[Len(F)].kind # "bridge",
           NEW R, Parked(Front(F), R),
           R[F[Len(F)].cpu] = F[Len(F)].at - (IF F[Len(F)].kind = "lifted" THEN 1 ELSE 0)
    PROVE  LET G == Front(F) IN
           IF G # <<>> /\ G[Len(G)].kind = "bridge" THEN AtTop(Front(G), R) ELSE AtTop(G, R)
<1> DEFINE G == Front(F)  n == Len(F)  m == Len(G)
<1>0. F \in Seq(Activation) /\ n \in Nat \ {0}
  BY LenIs DEF Good
<1>a. /\ G \in Seq(Activation) /\ m = n - 1
      /\ \A i \in 1 .. n - 1 : G[i] = F[i]
  BY <1>0, FrontIs
<1>1. /\ G \in Seq(Activation) /\ m = n - 1 /\ n \in Nat \ {0}
      /\ \A i \in 1 .. n - 1 : G[i] = F[i]
      /\ (G = <<>> <=> n = 1)
  BY <1>0, <1>a, LenIs
<1>2. Good(G)
  BY PopGood
<1>3. \A i \in 1 .. n : Level(F[i]) \in Int /\ F[i].at \in Nat
  BY At, ActivationIs DEF Good
<1>4. CASE G # <<>> /\ G[m].kind # "bridge"
  <2>1. n \in 2 .. n /\ G[m] = F[n - 1] /\ n - 1 \in 1 .. n
    BY <1>1, <1>4
  <2>2. /\ F[n].cpu = F[n - 1].cpu
        /\ F[n].at = Level(F[n - 1]) + (IF F[n].kind = "lifted" THEN 1 ELSE 0)
    BY <2>1 DEF Good, Joined
  <2>3. R[F[n].cpu] = Level(F[n - 1])
    BY <2>1, <2>2, <1>3
  <2> QED  BY <2>1, <2>2, <2>3, <1>4 DEF AtTop
<1>5. CASE G # <<>> /\ G[m].kind = "bridge"
  <2> DEFINE H == Front(G)
  <2>0. /\ Len(H) = m - 1 /\ H \in Seq(Activation)
        /\ \A i \in 1 .. m - 1 : H[i] = G[i]
    BY <1>1, <1>5, FrontIs
  <2>1. /\ Len(H) = m - 1 /\ \A i \in 1 .. m - 1 : H[i] = G[i]
        /\ m \in Nat \ {0} /\ (H = <<>> <=> m = 1)
    BY <2>0, <1>1, <1>5, LenIs
  <2>2. CASE m = 1
    BY <2>1, <2>2, <1>5 DEF AtTop
  <2>3. CASE m # 1
    <3>1. m \in 2 .. m /\ H[Len(H)] = G[m - 1]
      BY <2>1, <2>3
    <3>2. R[G[m - 1].cpu] = Level(G[m - 1])
      BY <3>1, <1>5 DEF Parked
    <3>3. G[m - 1].kind = "native"
      BY <3>1, <1>2, <1>5 DEF Good, Joined
    <3> QED  BY <3>1, <3>2, <3>3, <1>5 DEF AtTop
  <2> QED  BY <2>2, <2>3
<1>6. CASE G = <<>>
  BY <1>6 DEF AtTop
<1> QED  BY <1>4, <1>5, <1>6
-----------------------------------------------------------------------------
(***************************************************************************)
(* The shadow stack.                                                       *)
(***************************************************************************)
LEMMA CountFinite ==
    \A F : \A i \in Nat : LET S == {j \in 1 .. i : F[j].pushed} IN
        IsFiniteSet(S) /\ Cardinality(S) \in Nat
<1> SUFFICES ASSUME NEW F, NEW i \in Nat
             PROVE  LET S == {j \in 1 .. i : F[j].pushed} IN
                    IsFiniteSet(S) /\ Cardinality(S) \in Nat
  OBVIOUS
<1>1. IsFiniteSet(1 .. i)
  BY FS_Interval
<1>2. IsFiniteSet({j \in 1 .. i : F[j].pushed})
  BY <1>1, FS_Subset
<1> QED  BY <1>2, FS_CardinalityType

LEMMA CountIs == \A F : \A i \in Nat : Count(F, i) \in Nat
  BY CountFinite DEF Count

LEMMA CountNone == \A F : Count(F, 0) = 0
<1> SUFFICES ASSUME NEW F PROVE Count(F, 0) = 0
  OBVIOUS
<1>1. {j \in 1 .. 0 : F[j].pushed} = {}
  OBVIOUS
<1> QED  BY <1>1, FS_EmptySet DEF Count

LEMMA CountStep ==
    ASSUME NEW F, NEW i \in Nat, F[i + 1].pushed \in BOOLEAN
    PROVE  Count(F, i + 1) = Count(F, i) + (IF F[i + 1].pushed THEN 1 ELSE 0)
<1> DEFINE S == {j \in 1 .. i : F[j].pushed}
           T == {j \in 1 .. i + 1 : F[j].pushed}
<1>1. IsFiniteSet(S) /\ Cardinality(S) \in Nat
  BY CountFinite
<1>2. CASE F[i + 1].pushed
  <2>1. T = S \cup {i + 1} /\ i + 1 \notin S
    BY <1>2
  <2>2. Cardinality(T) = Cardinality(S) + 1
    BY <2>1, <1>1, FS_AddElement
  <2> QED  BY <2>2, <1>2 DEF Count
<1>3. CASE ~F[i + 1].pushed
  <2>1. \A j \in 1 .. i + 1 : j = i + 1 \/ j \in 1 .. i
    OBVIOUS
  <2>2. \A j \in 1 .. i : j \in 1 .. i + 1
    OBVIOUS
  <2>3. T = S
    BY <2>1, <2>2, <1>3
  <2>4. Count(F, i + 1) = Count(F, i)
    BY <2>3 DEF Count
  <2>5. Count(F, i) \in Nat
    BY CountIs
  <2> HIDE DEF S, T
  <2> QED  BY <2>4, <2>5, <1>3
<1> QED  BY <1>2, <1>3

LEMMA CountSame ==
    ASSUME NEW F, NEW G, NEW i \in Nat, \A j \in 1 .. i : F[j].pushed = G[j].pushed
    PROVE  Count(F, i) = Count(G, i)
<1>1. {j \in 1 .. i : F[j].pushed} = {j \in 1 .. i : G[j].pushed}
  OBVIOUS
<1> QED  BY <1>1 DEF Count

LEMMA CountGrows ==
    ASSUME NEW F, NEW i \in Nat, NEW k \in Nat, i <= k
    PROVE  Count(F, i) <= Count(F, k)
<1> DEFINE S == {j \in 1 .. i : F[j].pushed}
           T == {j \in 1 .. k : F[j].pushed}
<1>1. S \subseteq T
  OBVIOUS
<1>2. IsFiniteSet(T)
  BY CountFinite
<1>3. Cardinality(S) <= Cardinality(T)
  BY <1>1, <1>2, FS_Subset
<1> QED  BY <1>3 DEF Count

LEMMA CountWithin ==
    ASSUME NEW F, NEW n \in Nat, NEW i \in 1 .. n, F[i].pushed
    PROVE  Count(F, i) \in 1 .. Count(F, n)
<1> DEFINE S == {j \in 1 .. i : F[j].pushed}
<1>1. IsFiniteSet(S) /\ Cardinality(S) \in Nat
  BY CountFinite
<1>2. i \in S
  OBVIOUS
<1>3. Cardinality(S) # 0
  BY <1>1, <1>2, FS_EmptySet
<1>4. Count(F, i) = Cardinality(S)
  BY DEF Count
<1>5. Count(F, i) <= Count(F, n) /\ Count(F, n) \in Nat
  BY CountGrows, CountIs
<1> HIDE DEF S
<1> QED  BY <1>1, <1>3, <1>4, <1>5

LEMMA ShadowPush ==
    ASSUME NEW F, Good(F), Len(F) < MaxFrames, NEW b \in Activation,
           NEW D, NEW C \in [1 .. CsMax -> Lifted \cup {"-"}], Shadow(F, D, C)
    PROVE  Shadow(Append(F, b), IF b.pushed THEN D + 1 ELSE D,
                  IF b.pushed /\ D < CsMax THEN [C EXCEPT ![D + 1] = b.fn] ELSE C)
<1> DEFINE G == Append(F, b)  n == Len(F)
           E == IF b.pushed THEN D + 1 ELSE D
           B == IF b.pushed /\ D < CsMax THEN [C EXCEPT ![D + 1] = b.fn] ELSE C
<1>1. /\ Len(G) = n + 1 /\ G[n + 1] = b /\ \A i \in 1 .. n : G[i] = F[i]
      /\ n \in Nat /\ b.pushed \in BOOLEAN
  BY AppendIs, LenIs, ActivationIs DEF Good
<1> HIDE DEF G
<1>2. \A i \in 0 .. n : Count(G, i) = Count(F, i)
  <2> SUFFICES ASSUME NEW i \in 0 .. n PROVE Count(G, i) = Count(F, i)
    OBVIOUS
  <2>1. i \in Nat /\ \A j \in 1 .. i : G[j].pushed = F[j].pushed
    BY <1>1
  <2> QED  BY <2>1, CountSame
<1>3. D = Count(F, n) /\ D \in Nat /\ Count(G, n) = D
  BY <1>1, <1>2, CountIs DEF Shadow
<1>4. Count(G, n + 1) = E
  <2>1. Count(G, n + 1) = Count(G, n) + (IF G[n + 1].pushed THEN 1 ELSE 0)
    BY <1>1, CountStep
  <2> QED  BY <2>1, <1>1, <1>3
<1>5. ASSUME NEW i \in 1 .. n + 1, G[i].pushed, Count(G, i) <= CsMax
      PROVE  B[Count(G, i)] = G[i].fn
  <2>1. CASE i = n + 1
    <3>1. b.pushed /\ G[i] = b /\ Count(G, i) = D + 1
      BY <2>1, <1>1, <1>4, <1>5
    <3>2. D < CsMax /\ D + 1 \in 1 .. CsMax
      BY <3>1, <1>3, <1>5, DispatchAssumption
    <3> QED  BY <3>1, <3>2
  <2>2. CASE i \in 1 .. n
    <3>1. G[i] = F[i] /\ Count(G, i) = Count(F, i) /\ i \in Nat /\ i <= n
      BY <2>2, <1>1, <1>2
    <3>2. Count(F, i) <= D /\ Count(F, i) \in Nat
      BY <3>1, <1>1, <1>3, CountGrows, CountIs
    <3>3. C[Count(F, i)] = F[i].fn
      BY <3>1, <2>2, <1>5 DEF Shadow
    <3>4. B[Count(F, i)] = C[Count(F, i)]
      BY <3>2, <1>3
    <3> QED  BY <3>1, <3>3, <3>4
  <2> QED  BY <2>1, <2>2, <1>1
<1> HIDE DEF E, B
<1>6. Shadow(G, E, B)
  BY <1>1, <1>4, <1>5 DEF Shadow
<1> QED  BY <1>6 DEF G, E, B

LEMMA ShadowMark ==
    ASSUME NEW F, Good(F), F # <<>>, NEW D, NEW C, Shadow(F, D, C)
    PROVE  Shadow(Marked(F), D, C)
<1> DEFINE G == Marked(F)  n == Len(F)
<1>1. /\ Len(G) = n /\ n \in Nat \ {0} /\ F[n] \in Activation
      /\ \A i \in 1 .. n - 1 : G[i] = F[i]
      /\ G[n] = [F[n] EXCEPT !.done = TRUE]
  BY MarkIs, At, LenIs DEF Good
<1>2. \A i \in 1 .. n : G[i].pushed = F[i].pushed /\ G[i].fn = F[i].fn
  <2>1. G[n].pushed = F[n].pushed /\ G[n].fn = F[n].fn
    BY <1>1 DEF Activation
  <2>2. \A i \in 1 .. n : i = n \/ i \in 1 .. n - 1
    BY <1>1
  <2> QED  BY <2>1, <2>2, <1>1
<1> HIDE DEF G
<1>3. \A i \in 1 .. n : Count(G, i) = Count(F, i)
  <2> SUFFICES ASSUME NEW i \in 1 .. n PROVE Count(G, i) = Count(F, i)
    OBVIOUS
  <2>1. i \in Nat /\ \A j \in 1 .. i : G[j].pushed = F[j].pushed
    BY <1>1, <1>2
  <2> QED  BY <2>1, CountSame
<1>4. n \in 1 .. n
  BY <1>1
<1>5. Shadow(G, D, C)
  BY <1>1, <1>2, <1>3, <1>4 DEF Shadow
<1> QED  BY <1>5 DEF G

LEMMA ShadowPop ==
    ASSUME NEW F, Good(F), F # <<>>, NEW D, NEW C, Shadow(F, D, C)
    PROVE  Shadow(Front(F), IF F[Len(F)].pushed THEN D - 1 ELSE D, C)
<1> DEFINE G == Front(F)  n == Len(F)
<1>1. /\ Len(G) = n - 1 /\ n \in Nat \ {0} /\ n - 1 \in Nat
      /\ \A i \in 1 .. n - 1 : G[i] = F[i]
  BY FrontIs, LenIs DEF Good
<1> HIDE DEF G
<1>2. \A i \in 0 .. n - 1 : Count(G, i) = Count(F, i)
  <2> SUFFICES ASSUME NEW i \in 0 .. n - 1 PROVE Count(G, i) = Count(F, i)
    OBVIOUS
  <2>1. i \in Nat /\ \A j \in 1 .. i : G[j].pushed = F[j].pushed
    BY <1>1
  <2> QED  BY <2>1, CountSame
<1>3. Count(G, n - 1) = IF F[n].pushed THEN D - 1 ELSE D
  <2>1. F[n].pushed \in BOOLEAN /\ n - 1 + 1 = n
    BY <1>1, At, ActivationIs DEF Good
  <2>2. Count(F, n - 1 + 1) = Count(F, n - 1) + (IF F[n - 1 + 1].pushed THEN 1 ELSE 0)
    BY <2>1, <1>1, CountStep
  <2>3. D = Count(F, n - 1) + (IF F[n].pushed THEN 1 ELSE 0) /\ Count(F, n - 1) \in Nat
    BY <2>1, <2>2, <1>1, CountIs DEF Shadow
  <2>4. Count(G, n - 1) = Count(F, n - 1)
    BY <1>1, <1>2
  <2> QED  BY <2>1, <2>3, <2>4
<1>4. ASSUME NEW i \in 1 .. n - 1, G[i].pushed, Count(G, i) <= CsMax
      PROVE  C[Count(G, i)] = G[i].fn
  <2>1. i \in 1 .. n /\ G[i] = F[i] /\ Count(G, i) = Count(F, i)
    BY <1>1, <1>2
  <2> QED  BY <2>1, <1>4 DEF Shadow
<1>5. Shadow(G, IF F[n].pushed THEN D - 1 ELSE D, C)
  BY <1>1, <1>3, <1>4 DEF Shadow
<1> QED  BY <1>5 DEF G
-----------------------------------------------------------------------------
(***************************************************************************)
(* One thread's step.                                                      *)
(***************************************************************************)
\* Everything but the stack pointer at the top.
Below(F, R, D, C) ==
    Good(F) /\ Parked(F, R) /\ Shadow(F, D, C)

Regs == [Cpu -> Nat]
Names == [1 .. CsMax -> Lifted \cup {"-"}]
Stk == [1 .. MaxFrames + 1 -> 0 .. MaxFrames]

LEMMA BodyStarts ==
    ASSUME NEW F, NEW R \in Regs, NEW D, NEW C \in Names, Below(F, R, D, C),
           Len(F) < MaxFrames, NEW b, Fits(F, b), b.kind = "lifted"
    PROVE  Whole(Append(F, b), [R EXCEPT ![b.cpu] = b.at],
                 IF b.pushed THEN D + 1 ELSE D,
                 IF b.pushed /\ D < CsMax THEN [C EXCEPT ![D + 1] = b.fn] ELSE C,
                 b.cpu)
<1> DEFINE G == Append(F, b)  n == Len(F)  Q == [R EXCEPT ![b.cpu] = b.at]
<1>0. b \in Activation /\ F \in Seq(Activation)
  BY DEF Fits, Below, Good
<1>1. /\ G \in Seq(Activation) /\ Len(G) = n + 1 /\ G[n + 1] = b /\ n \in Nat
      /\ G # <<>>
  <2>1. G \in Seq(Activation) /\ Len(G) = n + 1 /\ G[n + 1] = b /\ n \in Nat
    BY <1>0, AppendIs, LenIs
  <2> QED  BY <2>1, LenIs
<1>2. Good(G) /\ CurOf(G) = b.cpu
  BY PushGood DEF Below
<1>3. Parked(G, R)
  BY ParkPush DEF Below
<1>4. Parked(G, Q)
  <2>1. Parked(G, [R EXCEPT ![G[Len(G)].cpu] = b.at])
    BY <1>1, <1>2, <1>3, ParkSet DEF Regs
  <2> QED  BY <2>1, <1>1
<1>5. AtTop(G, Q)
  <2>1. Q[b.cpu] = b.at /\ Level(b) = b.at
    BY <1>0, ActivationIs DEF Regs, Fits, Level
  <2> QED  BY <2>1, <1>1 DEF AtTop
<1>6. Shadow(G, IF b.pushed THEN D + 1 ELSE D,
                IF b.pushed /\ D < CsMax THEN [C EXCEPT ![D + 1] = b.fn] ELSE C)
  BY <1>0, ShadowPush DEF Below, Names
<1> HIDE DEF G, Q
<1> QED  BY <1>2, <1>4, <1>5, <1>6 DEF Whole, G, Q, n

LEMMA JumpMarks ==
    ASSUME NEW F, NEW R, NEW D, NEW C, Below(F, R, D, C),
           F # <<>>, F[Len(F)].kind = "lifted", ~F[Len(F)].done
    PROVE  Below(Marked(F), R, D, C)
  BY MarkGood, ParkMark, ShadowMark DEF Below

\* An import or a bridge starts: neither is on the shadow stack.
LEMMA OtherStarts ==
    ASSUME NEW F, NEW R, NEW D, NEW C \in Names, Below(F, R, D, C),
           Len(F) < MaxFrames, NEW b, Fits(F, b), b.kind # "lifted",
           b.kind = "bridge" => AtTop(F, R)
    PROVE  Below(Append(F, b), R, D, C)
<1>1. b \in Activation /\ ~b.pushed
  BY DEF Fits, FrameOK
<1>2. Good(Append(F, b)) /\ Parked(Append(F, b), R)
  BY PushGood, ParkPush DEF Below, AtTop
<1>3. Shadow(Append(F, b), D, C)
  <2>1. Shadow(Append(F, b), IF b.pushed THEN D + 1 ELSE D,
               IF b.pushed /\ D < CsMax THEN [C EXCEPT ![D + 1] = b.fn] ELSE C)
    BY <1>1, ShadowPush DEF Below, Names
  <2> QED  BY <1>1, <2>1
<1> QED  BY <1>2, <1>3 DEF Below

LEMMA ActivationEnds ==
    ASSUME NEW F, NEW R, NEW D, NEW C, Below(F, R, D, C), F # <<>>
    PROVE  Below(Front(F), R, IF F[Len(F)].pushed THEN D - 1 ELSE D, C)
  BY PopGood, ParkPop, ShadowPop DEF Below
-----------------------------------------------------------------------------
(***************************************************************************)
(* The other threads, the counters, the limit.                             *)
(***************************************************************************)
Elsewhere(t) ==
    \A u \in Thread \ {t} :
        /\ frames'[u] = frames[u] /\ rsp'[u] = rsp[u] /\ depth'[u] = depth[u]
        /\ cs'[u] = cs[u] /\ cur'[u] = cur[u]

LEMMA OthersKeep ==
    ASSUME NEW t \in Thread, \A u \in Thread : ThreadOK(u), Elsewhere(t), ThreadOK(t)'
    PROVE  \A u \in Thread : ThreadOK(u)'
<1> SUFFICES ASSUME NEW u \in Thread \ {t} PROVE ThreadOK(u)'
  OBVIOUS
<1>1. ThreadOK(u)
  OBVIOUS
<1> QED  BY <1>1 DEF ThreadOK, Elsewhere

LEMMA CountersKeep ==
    ASSUME TypeOK, CountersInv, NEW t \in Thread, TcBump(t) \/ UNCHANGED <<slot, tcn>>
    PROVE  CountersInv' /\ slot' \in [Thread -> 0 .. TcMax] /\ tcn' \in Nat
<1>1. CASE UNCHANGED <<slot, tcn>>
  BY <1>1 DEF TypeOK, CountersInv, CountersOwned
<1>2. CASE TcBump(t) /\ slot[t] = 0
  <2>1. /\ tcn' = tcn + 1 /\ tcn \in Nat /\ slot \in [Thread -> 0 .. TcMax]
        /\ slot' = [slot EXCEPT ![t] = IF tcn >= TcMax THEN TcMax ELSE tcn + 1]
        /\ TcMax \in Nat \ {0}
    BY <1>2, DispatchAssumption DEF TcBump, TypeOK
  <2>2. \A u \in Thread : slot[u] \in Nat /\ slot[u] <= tcn /\ slot[u] <= TcMax
    BY <2>1 DEF CountersInv
  <2>3. slot' \in [Thread -> 0 .. TcMax] /\ tcn' \in Nat
    BY <2>1
  <2>4. \A u \in Thread : slot'[u] <= tcn'
    BY <2>1, <2>2
  <2>5. ASSUME NEW u \in Thread, NEW v \in Thread, u # v, slot'[u] = slot'[v], slot'[u] # 0
        PROVE  slot'[u] = TcMax /\ tcn' > TcMax
    <3>1. CASE u # t /\ v # t
      <4>1. slot[u] = slot[v] /\ slot[u] # 0 /\ slot'[u] = slot[u]
        BY <2>1, <2>5, <3>1
      <4>2. slot[u] = TcMax /\ tcn > TcMax
        BY <4>1, <2>5 DEF CountersInv, CountersOwned
      <4> QED  BY <4>1, <4>2, <2>1
    <3>2. CASE u = t \/ v = t
      BY <3>2, <2>1, <2>2, <2>5
    <3> QED  BY <3>1, <3>2
  <2> QED  BY <2>3, <2>4, <2>5 DEF CountersInv, CountersOwned
<1>3. CASE TcBump(t) /\ slot[t] # 0
  BY <1>3 DEF TcBump, TypeOK, CountersInv, CountersOwned
<1> QED  BY <1>1, <1>2, <1>3

LEMMA StopKeeps ==
    ASSUME IInv, Stop, calls' \in 0 .. MaxCalls
    PROVE  IInv'
<1>1. UNCHANGED <<frames, depth, cs, cur, rsp, words, slot, tcn, state>> /\ stopped' = TRUE
  BY DEF Stop
<1>2. TypeOK'
  BY <1>1 DEF IInv, TypeOK
<1>3. CountersInv'
  BY <1>1 DEF IInv, CountersInv, CountersOwned
<1>4. \A t \in Thread : ThreadOK(t)'
  BY <1>1 DEF IInv, ThreadOK
<1> QED  BY <1>1, <1>2, <1>3, <1>4 DEF IInv

LEMMA Counted ==
    ASSUME IInv, ~stopped, CheckLimit
    PROVE  /\ calls' \in 0 .. MaxCalls
           /\ ~LimitReached => calls' < MaxCalls
  BY DispatchAssumption DEF IInv, TypeOK, CheckLimit, LimitReached

States == {"idle", "ready", "running", "over", "foreign"}
Resting == {"idle", "ready", "over"}

LEMMA TypesAre ==
    ASSUME IInv, NEW t \in Thread
    PROVE  /\ frames \in [Thread -> Seq(Activation)] /\ frames[t] \in Seq(Activation)
           /\ depth \in [Thread -> Nat] /\ cs \in [Thread -> Names] /\ cs[t] \in Names
           /\ cur \in [Thread -> Cpu \cup {-1}] /\ cur[t] \in Cpu \cup {-1}
           /\ rsp \in [Thread -> Regs] /\ rsp[t] \in Regs
           /\ words \in [Thread -> [{"guest", "bridge"} -> Stk]]
           /\ state \in [Thread -> States]
           /\ Len(frames[t]) <= MaxFrames /\ ThreadOK(t) /\ cur[t] = CurOf(frames[t])
           /\ Below(frames[t], rsp[t], depth[t], cs[t])
           /\ AtTop(frames[t], rsp[t])
<1>1. ThreadOK(t) /\ TypeOK
  BY DEF IInv
<1>2. cur[t] = CurOf(frames[t]) /\ AtTop(frames[t], rsp[t])
      /\ Below(frames[t], rsp[t], depth[t], cs[t])
  BY <1>1 DEF ThreadOK, Whole, Below
<1> QED  BY <1>1, <1>2 DEF TypeOK, Regs, Names, Stk, States

\* A step of one thread keeps the invariant when that thread is left whole.
LEMMA ThreadStep ==
    ASSUME IInv, NEW t \in Thread, ~stopped, UNCHANGED stopped,
           calls' \in 0 .. MaxCalls, calls' < MaxCalls,
           TcBump(t) \/ UNCHANGED <<slot, tcn>>,
           Elsewhere(t), ThreadOK(t)', Len(frames'[t]) <= MaxFrames,
           frames' \in [Thread -> Seq(Activation)],
           depth' \in [Thread -> Nat], cs' \in [Thread -> Names],
           cur' \in [Thread -> Cpu \cup {-1}], rsp' \in [Thread -> Regs],
           words' \in [Thread -> [{"guest", "bridge"} -> Stk]],
           state' \in [Thread -> States],
           state'[t] \in Resting => frames'[t] = <<>>,
           \A u \in Thread \ {t} : state'[u] \in Resting => state[u] \in Resting
    PROVE  IInv'
<1>1. CountersInv' /\ slot' \in [Thread -> 0 .. TcMax] /\ tcn' \in Nat
  BY CountersKeep DEF IInv
<1>2. \A u \in Thread : Len(frames'[u]) <= MaxFrames
  BY DEF Elsewhere, IInv, TypeOK
<1>3. stopped' \in BOOLEAN
  BY DEF IInv, TypeOK
<1>4. TypeOK'
  BY <1>1, <1>2, <1>3 DEF TypeOK, Regs, Names, Stk, States
<1>5. \A u \in Thread : ThreadOK(u)'
  BY OthersKeep DEF IInv
<1>6. \A u \in Thread : state'[u] \in {"idle", "ready", "over"} => frames'[u] = <<>>
  BY DEF Elsewhere, IInv, Resting
<1> QED  BY <1>1, <1>4, <1>5, <1>6 DEF IInv

LEMMA EnterKeeps ==
    ASSUME IInv, NEW t \in Thread, NEW f \in Lifted, NEW c \in Cpu, NEW w \in Nat, NEW fs,
           Below(fs, rsp[t], depth[t], cs[t]), Len(fs) < MaxFrames,
           Fits(fs, [kind |-> "lifted", fn |-> f, cpu |-> c, at |-> w, pushed |-> f \notin Logged,
                     done |-> FALSE, prev |-> cur[t]]),
           Enter(t, f, c, w, fs), TcBump(t), CheckLimit, ~LimitReached,
           ~stopped, UNCHANGED stopped,
           state' \in [Thread -> States], state'[t] \notin Resting,
           \A u \in Thread \ {t} : state'[u] \in Resting => state[u] \in Resting
    PROVE  IInv'
<1> DEFINE me == [kind |-> "lifted", fn |-> f, cpu |-> c, at |-> w, pushed |-> f \notin Logged,
                  done |-> FALSE, prev |-> cur[t]]
           F == Append(fs, me)
           D == IF me.pushed THEN depth[t] + 1 ELSE depth[t]
           C == IF me.pushed /\ depth[t] < CsMax
                THEN [cs[t] EXCEPT ![depth[t] + 1] = me.fn] ELSE cs[t]
           R == [rsp[t] EXCEPT ![me.cpu] = me.at]
<1>1. /\ frames \in [Thread -> Seq(Activation)]
      /\ depth \in [Thread -> Nat] /\ cs \in [Thread -> Names] /\ cs[t] \in Names
      /\ cur \in [Thread -> Cpu \cup {-1}]
      /\ rsp \in [Thread -> Regs] /\ rsp[t] \in Regs
      /\ words \in [Thread -> [{"guest", "bridge"} -> Stk]]
  BY TypesAre
<1>2. /\ me.kind = "lifted" /\ me.fn = f /\ me.cpu = c /\ me.at = w
      /\ me.pushed = (f \notin Logged) /\ me \in Activation /\ Fits(fs, me)
  BY DEF Fits
<1>3. fs \in Seq(Activation) /\ Len(fs) \in Nat /\ MaxFrames \in Nat
  BY LenIs, DispatchAssumption DEF Below, Good
<1>4. Whole(F, R, D, C, me.cpu)
  <2> HIDE DEF me
  <2> QED  BY <1>1, <1>2, BodyStarts
<1>5. F \in Seq(Activation) /\ Len(F) <= MaxFrames
  <2> HIDE DEF me
  <2>1. F \in Seq(Activation) /\ Len(F) = Len(fs) + 1
    BY <1>2, <1>3, AppendIs
  <2> QED  BY <2>1, <1>3
<1>6. /\ frames' = [frames EXCEPT ![t] = F] /\ cur' = [cur EXCEPT ![t] = c]
      /\ depth' = [depth EXCEPT ![t] = IF me.pushed THEN @ + 1 ELSE @]
      /\ cs' = IF me.pushed /\ depth[t] < CsMax
               THEN [cs EXCEPT ![t][depth[t] + 1] = f] ELSE cs
      /\ rsp' = [rsp EXCEPT ![t][c] = w]
      /\ words' = [words EXCEPT ![t][Stack(c)][w] = Len(fs) + 1]
  BY DEF Enter
<1> HIDE DEF me
<1>7. frames'[t] = F /\ rsp'[t] = R /\ depth'[t] = D /\ cs'[t] = C /\ cur'[t] = me.cpu
  BY <1>1, <1>2, <1>6 DEF Regs, Names
<1> HIDE DEF F, D, C, R
<1>9. ThreadOK(t)'
  BY <1>4, <1>7 DEF ThreadOK
<1>10. Elsewhere(t)
  BY <1>1, <1>6 DEF Elsewhere
<1>11. frames' \in [Thread -> Seq(Activation)] /\ cur' \in [Thread -> Cpu \cup {-1}]
  BY <1>1, <1>5, <1>6
<1>12. depth' \in [Thread -> Nat]
  BY <1>1, <1>6
<1>13. cs' \in [Thread -> Names]
  <2>1. [cs[t] EXCEPT ![depth[t] + 1] = f] \in Names
    BY <1>1 DEF Names
  <2> QED  BY <2>1, <1>1, <1>6
<1>14. rsp' \in [Thread -> Regs]
  <2>1. [rsp[t] EXCEPT ![c] = w] \in Regs
    BY <1>1 DEF Regs
  <2> QED  BY <2>1, <1>1, <1>6
<1>15. words' \in [Thread -> [{"guest", "bridge"} -> Stk]]
  <2>1. Stack(c) \in {"guest", "bridge"} /\ words[t][Stack(c)] \in Stk
    BY <1>1 DEF Stack
  <2>a. \A X \in Stk, v \in 0 .. MaxFrames : [X EXCEPT ![w] = v] \in Stk
    BY DEF Stk
  <2>b. Len(fs) + 1 \in 0 .. MaxFrames
    BY <1>3
  <2>2. [words[t][Stack(c)] EXCEPT ![w] = Len(fs) + 1] \in Stk
    BY <2>1, <2>a, <2>b
  <2>3. [words[t] EXCEPT ![Stack(c)] = [words[t][Stack(c)] EXCEPT ![w] = Len(fs) + 1]]
          \in [{"guest", "bridge"} -> Stk]
    BY <2>1, <2>2, <1>1
  <2> QED  BY <2>3, <1>1, <1>6
<1>16. calls' \in 0 .. MaxCalls /\ calls' < MaxCalls
  BY Counted
<1> QED  BY <1>5, <1>7, <1>9, <1>10, <1>11, <1>12, <1>13, <1>14, <1>15, <1>16, ThreadStep

\* A call on the CPU and on top of whatever runs now.
LEMMA CallOnTop ==
    ASSUME IInv, NEW t \in Thread, NEW f \in Lifted, frames[t] # <<>>,
           Top(t).kind \in {"lifted", "walk"}, Len(frames[t]) < MaxFrames,
           Enter(t, f, Top(t).cpu, rsp[t][Top(t).cpu] + 1, frames[t]), TcBump(t),
           CheckLimit, ~LimitReached, ~stopped, UNCHANGED <<state, stopped>>
    PROVE  IInv'
<1> DEFINE F == frames[t]  n == Len(F)  c == F[n].cpu  w == rsp[t][c] + 1
           me == [kind |-> "lifted", fn |-> f, cpu |-> c, at |-> w, pushed |-> f \notin Logged,
                  done |-> FALSE, prev |-> cur[t]]
<1>1. /\ F \in Seq(Activation) /\ n \in Nat \ {0} /\ F[n] \in Activation
      /\ Below(F, rsp[t], depth[t], cs[t]) /\ AtTop(F, rsp[t])
      /\ cur[t] = CurOf(F) /\ cur[t] \in Cpu \cup {-1} /\ rsp[t] \in Regs
  BY TypesAre, LenIs, At
<1>2. Top(t) = F[n]
  BY DEF Top, Last
<1>3. c \in Cpu /\ rsp[t][c] = Level(F[n]) /\ rsp[t][c] \in Nat /\ w \in Nat /\ w >= 1
  BY <1>1, <1>2, ActivationIs DEF AtTop, Regs
<1>4. Fits(F, me)
  <2>1. me \in Activation
    BY <1>1, <1>3 DEF Activation
  <2>2. FrameOK(me)
    BY <1>3 DEF FrameOK
  <2>3. Joined(F[n], me)
    BY <1>3 DEF Joined
  <2> QED  BY <2>1, <2>2, <2>3, <1>1 DEF Fits
<1>5. state[t] \notin Resting /\ state \in [Thread -> States]
  BY TypesAre DEF IInv, Resting
<1> QED  BY <1>1, <1>2, <1>3, <1>4, <1>5, EnterKeeps

LEMMA CallLiftedKeeps ==
    ASSUME IInv, NEW t \in Thread, NEW f \in Lifted, CallLifted(t, f)
    PROVE  IInv'
<1>1. CASE LimitReached
  BY <1>1, Counted, StopKeeps DEF CallLifted, Running, On
<1>2. CASE ~LimitReached
  BY <1>2, CallOnTop DEF CallLifted, Running, On, Room
<1> QED  BY <1>1, <1>2

LEMMA WalkCallsKeeps ==
    ASSUME IInv, NEW t \in Thread, NEW f \in Lifted, WalkCalls(t, f)
    PROVE  IInv'
<1>1. CASE LimitReached
  BY <1>1, Counted, StopKeeps DEF WalkCalls, On
<1>2. CASE ~LimitReached
  BY <1>2, CallOnTop DEF WalkCalls, On, Room
<1> QED  BY <1>1, <1>2

LEMMA GapKeeps ==
    ASSUME IInv, NEW t \in Thread, CallGap(t) \/ CallbackGap(t)
    PROVE  IInv'
<1>1. CASE CallGap(t)
  BY <1>1, Counted, StopKeeps DEF CallGap, Running, On
<1>2. CASE CallbackGap(t)
  <2>1. calls' \in 0 .. MaxCalls
    BY <1>2 DEF CallbackGap, IInv, TypeOK
  <2> QED  BY <2>1, <1>2, StopKeeps DEF CallbackGap
<1> QED  BY <1>1, <1>2

LEMMA NoneIs ==
    \A R, C : Below(<<>>, R, 0, C) /\ CurOf(<<>>) = -1
<1> SUFFICES ASSUME NEW R, NEW C PROVE Below(<<>>, R, 0, C) /\ CurOf(<<>>) = -1
  OBVIOUS
<1>1. <<>> \in Seq(Activation) /\ Len(<<>>) = 0
  BY EmptySeq
<1>2. Good(<<>>) /\ Parked(<<>>, R)
  BY <1>1 DEF Good, Parked
<1>3. Shadow(<<>>, 0, C)
  BY <1>1, CountNone DEF Shadow
<1> QED  BY <1>2, <1>3 DEF Below, CurOf

LEMMA StartThreadKeeps ==
    ASSUME IInv, NEW t \in Thread, NEW f \in Lifted, StartThread(t, f)
    PROVE  IInv'
<1>1. CASE LimitReached
  BY <1>1, Counted, StopKeeps DEF StartThread
<1>2. CASE ~LimitReached
  <2> DEFINE me == [kind |-> "lifted", fn |-> f, cpu |-> 0, at |-> 1, pushed |-> f \notin Logged,
                    done |-> FALSE, prev |-> cur[t]]
  <2>1. /\ ~stopped /\ state[t] = "ready" /\ CheckLimit /\ TcBump(t) /\ UNCHANGED stopped
        /\ state' = [state EXCEPT ![t] = "running"] /\ Enter(t, f, 0, 1, <<>>)
    BY <1>2 DEF StartThread
  <2>2. frames[t] = <<>>
    BY <2>1 DEF IInv
  <2>3. /\ Below(<<>>, rsp[t], depth[t], cs[t])
        /\ cur[t] = CurOf(<<>>) /\ cur[t] \in Cpu \cup {-1} /\ state \in [Thread -> States]
    BY <2>2, TypesAre
  <2>4. 0 \in Cpu /\ Len(<<>>) = 0 /\ 0 < MaxFrames
    BY DispatchAssumption, EmptySeq DEF Cpu
  <2>5. Fits(<<>>, me)
    <3>1. me \in Activation
      BY <2>3, <2>4 DEF Activation
    <3> QED  BY <3>1, <2>3 DEF Fits, FrameOK
  <2>6. /\ state' \in [Thread -> States] /\ state'[t] \notin Resting
        /\ \A u \in Thread \ {t} : state'[u] \in Resting => state[u] \in Resting
    BY <2>1, <2>3 DEF States, Resting
  <2> QED  BY <2>1, <2>3, <2>4, <2>5, <2>6, <1>2, EnterKeeps
<1> QED  BY <1>1, <1>2

LEMMA CallbackKeeps ==
    ASSUME IInv, NEW t \in Thread, NEW f \in Lifted, Callback(t, f)
    PROVE  IInv'
<1>1. CASE LimitReached
  BY <1>1, Counted, StopKeeps DEF Callback, HostCode, On
<1>2. CASE ~LimitReached
  <2> DEFINE F == frames[t]  n == Len(F)  c == Bridges(t) + 1
             b == [kind |-> "bridge", fn |-> "-", cpu |-> c, at |-> 1,
                   pushed |-> FALSE, done |-> FALSE, prev |-> cur[t]]
             fs == Append(F, b)
             me == [kind |-> "lifted", fn |-> f, cpu |-> c, at |-> 1, pushed |-> f \notin Logged,
                    done |-> FALSE, prev |-> cur[t]]
  <2>1. /\ HostCode(t) /\ n + 1 < MaxFrames /\ c \in Cpu /\ CheckLimit /\ TcBump(t)
        /\ Enter(t, f, c, 1, fs) /\ UNCHANGED stopped /\ ~stopped
        /\ state' = IF F = <<>> THEN [state EXCEPT ![t] = "foreign"] ELSE state
    BY <1>2 DEF Callback, HostCode, On
  <2>2. /\ F \in Seq(Activation) /\ n \in Nat /\ (F = <<>> <=> n = 0)
        /\ Below(F, rsp[t], depth[t], cs[t]) /\ AtTop(F, rsp[t])
        /\ cur[t] = CurOf(F) /\ cur[t] \in Cpu \cup {-1} /\ cs[t] \in Names
        /\ state \in [Thread -> States]
    BY TypesAre, LenIs
  <2>3. b \in Activation /\ me \in Activation
    BY <2>1, <2>2 DEF Activation
  <2>4. F # <<>> => F[n].kind = "native" /\ c = F[n].cpu + 1
    BY <2>1 DEF HostCode, On, Top, Last, Bridges
  <2>5. Fits(F, b)
    BY <2>3, <2>4 DEF Fits, FrameOK, Joined
  <2>6. Below(fs, rsp[t], depth[t], cs[t])
    <3>1. n < MaxFrames
      BY <2>1, <2>2, DispatchAssumption
    <3> QED  BY <3>1, <2>2, <2>5, OtherStarts
  <2>7. CurOf(fs) = CurOf(F)
    BY <2>2, <2>5, PushGood DEF Below
  <2>8. Len(fs) = n + 1 /\ fs[Len(fs)] = b /\ fs # <<>>
    <3>1. fs \in Seq(Activation) /\ Len(fs) = n + 1 /\ fs[n + 1] = b
      BY <2>2, <2>3, AppendIs
    <3>2. n + 1 # 0 /\ n \in Nat
      BY <2>2
    <3> HIDE DEF fs, b, n
    <3>3. fs # <<>>
      BY <3>1, <3>2, LenIs
    <3> QED  BY <3>1, <3>3
  <2>9. Fits(fs, me)
    <3>1. Joined(b, me)
      BY DEF Joined, Level
    <3>2. FrameOK(me)
      BY DEF FrameOK
    <3>3. me.prev = CurOf(fs) /\ ~me.done
      BY <2>2, <2>7
    <3> HIDE DEF me, b, fs
    <3> QED  BY <3>1, <3>2, <3>3, <2>3, <2>8 DEF Fits
  <2>10. /\ state' \in [Thread -> States]
         /\ \A u \in Thread \ {t} : state'[u] \in Resting => state[u] \in Resting
    BY <2>1, <2>2 DEF States
  <2>11. state'[t] \notin Resting
    BY <2>1, <2>2 DEF IInv, Resting
  <2> HIDE DEF fs
  <2> QED  BY <2>1, <2>6, <2>8, <2>9, <2>10, <2>11, <1>2, EnterKeeps
<1> QED  BY <1>1, <1>2

LEMMA CreateThreadKeeps ==
    ASSUME IInv, NEW t \in Thread, NEW u \in Thread, CallCreateThread(t, u)
    PROVE  IInv'
<1>1. CASE LimitReached
  BY <1>1, Counted, StopKeeps DEF CallCreateThread, Running, On
<1>2. CASE ~LimitReached
  <2>1. /\ ~stopped /\ state[u] = "idle" /\ CheckLimit /\ TcBump(t)
        /\ state' = [state EXCEPT ![u] = "ready"]
        /\ UNCHANGED <<frames, depth, cs, cur, rsp, words, stopped>>
    BY <1>2 DEF CallCreateThread, Running, On
  <2>2. /\ Elsewhere(u) /\ ThreadOK(u) /\ frames[u] = <<>> /\ Len(frames[u]) <= MaxFrames
        /\ frames \in [Thread -> Seq(Activation)] /\ depth \in [Thread -> Nat]
        /\ cs \in [Thread -> Names] /\ cur \in [Thread -> Cpu \cup {-1}]
        /\ rsp \in [Thread -> Regs] /\ words \in [Thread -> [{"guest", "bridge"} -> Stk]]
        /\ state \in [Thread -> States]
    BY <2>1, TypesAre DEF Elsewhere, IInv
  <2>3. TypeOK' /\ CountersInv'
    <3>1. calls' \in 0 .. MaxCalls
      BY <2>1, Counted
    <3>2. CountersInv' /\ slot' \in [Thread -> 0 .. TcMax] /\ tcn' \in Nat
      BY <2>1, CountersKeep DEF IInv
    <3>3. state' \in [Thread -> States]
      BY <2>1, <2>2 DEF States
    <3> QED  BY <2>1, <3>1, <3>2, <3>3 DEF IInv, TypeOK, States
  <2>4. \A v \in Thread : ThreadOK(v)'
    BY <2>1 DEF IInv, ThreadOK
  <2>5. \A v \in Thread : state'[v] \in {"idle", "ready", "over"} => frames'[v] = <<>>
    BY <2>1, <2>2 DEF IInv
  <2>6. calls' < MaxCalls
    BY <1>2, <2>1, Counted
  <2> QED  BY <2>3, <2>4, <2>5, <2>6 DEF IInv
<1> QED  BY <1>1, <1>2

LEMMA NoStackKeeps ==
    ASSUME IInv, NEW t \in Thread, NoStack(t)
    PROVE  IInv'
<1>1. /\ state[t] = "ready" /\ state' = [state EXCEPT ![t] = "over"]
      /\ UNCHANGED <<frames, depth, cs, cur, rsp, words, slot, tcn, calls, stopped>>
  BY DEF NoStack
<1>2. TypeOK'
  BY <1>1 DEF IInv, TypeOK
<1>3. CountersInv'
  BY <1>1 DEF IInv, CountersInv, CountersOwned
<1>4. \A v \in Thread : ThreadOK(v)'
  BY <1>1 DEF IInv, ThreadOK
<1>5. \A v \in Thread : state'[v] \in {"idle", "ready", "over"} => frames'[v] = <<>>
  BY <1>1 DEF IInv, TypeOK
<1> QED  BY <1>1, <1>2, <1>3, <1>4, <1>5 DEF IInv

LEMMA TailLiftedKeeps ==
    ASSUME IInv, NEW t \in Thread, NEW f \in Lifted, TailLifted(t, f)
    PROVE  IInv'
<1>1. CASE LimitReached
  BY <1>1, Counted, StopKeeps DEF TailLifted, Running, On
<1>2. CASE ~LimitReached
  <2> DEFINE F == frames[t]  n == Len(F)  a == F[n]  c == a.cpu
             fs == Marked(F)  m == Len(fs)
             me == [a EXCEPT !.fn = f, !.pushed = FALSE, !.prev = cur[t]]
  <2>1. /\ ~stopped /\ CheckLimit /\ F # <<>> /\ n < MaxFrames /\ a.kind = "lifted" /\ ~a.done
        /\ frames' = [frames EXCEPT ![t] = Append(fs, me)]
        /\ words' = [words EXCEPT ![t][Stack(c)][rsp[t][c]] = m + 1]
        /\ UNCHANGED <<depth, cs, cur, rsp, slot, tcn, state, stopped>>
    BY <1>2 DEF TailLifted, Running, On, Room, Top, Last, Marked
  <2>2. /\ frames \in [Thread -> Seq(Activation)] /\ F \in Seq(Activation)
        /\ n \in Nat \ {0} /\ a \in Activation
        /\ Below(F, rsp[t], depth[t], cs[t]) /\ AtTop(F, rsp[t])
        /\ cur[t] = CurOf(F) /\ cur[t] \in Cpu \cup {-1} /\ rsp[t] \in Regs
        /\ cs[t] \in Names
        /\ words \in [Thread -> [{"guest", "bridge"} -> Stk]]
        /\ depth \in [Thread -> Nat] /\ cs \in [Thread -> Names]
        /\ cur \in [Thread -> Cpu \cup {-1}] /\ rsp \in [Thread -> Regs]
        /\ state \in [Thread -> States]
    BY <2>1, TypesAre, LenIs, At
  <2>3. /\ Below(fs, rsp[t], depth[t], cs[t])
        /\ Good(fs) /\ fs # <<>> /\ CurOf(fs) = a.cpu /\ fs[n].cpu = a.cpu
        /\ fs[n].kind = "lifted" /\ Level(fs[n]) = a.at - 1 /\ a.at >= 1 /\ Level(a) = a.at
    BY <2>1, <2>2, JumpMarks, MarkGood DEF Below
  <2>4. m = n /\ fs \in Seq(Activation)
    BY <2>1, <2>2, MarkIs
  <2>5. /\ me.kind = "lifted" /\ me.cpu = c /\ me.at = a.at /\ me.fn = f /\ ~me.pushed
        /\ ~me.done /\ me.prev = cur[t] /\ me \in Activation /\ c \in Cpu /\ a.at \in Nat
    BY <2>1, <2>2 DEF Activation
  <2>6. CurOf(F) = a.cpu
    BY <2>1 DEF CurOf
  <2> HIDE DEF me, fs
  <2>7. Fits(fs, me)
    <3>1. FrameOK(me)
      BY <2>3, <2>5 DEF FrameOK
    <3>2. Joined(fs[n], me)
      BY <2>3, <2>5 DEF Joined
    <3>3. me.prev = CurOf(fs)
      BY <2>2, <2>3, <2>5, <2>6
    <3> QED  BY <3>1, <3>2, <3>3, <2>3, <2>4, <2>5 DEF Fits
  <2>8. Whole(Append(fs, me), [rsp[t] EXCEPT ![me.cpu] = me.at],
              IF me.pushed THEN depth[t] + 1 ELSE depth[t],
              IF me.pushed /\ depth[t] < CsMax THEN [cs[t] EXCEPT ![depth[t] + 1] = me.fn] ELSE cs[t],
              me.cpu)
    BY <2>1, <2>2, <2>3, <2>4, <2>5, <2>7, BodyStarts
  <2>9. rsp[t][c] = a.at /\ [rsp[t] EXCEPT ![me.cpu] = me.at] = rsp[t]
    BY <2>1, <2>2, <2>3, <2>5 DEF AtTop, Regs
  <2>10. Whole(Append(fs, me), rsp[t], depth[t], cs[t], cur[t])
    BY <2>2, <2>5, <2>6, <2>8, <2>9
  <2>12. Append(fs, me) \in Seq(Activation) /\ Len(Append(fs, me)) <= MaxFrames
    <3>1. Append(fs, me) \in Seq(Activation) /\ Len(Append(fs, me)) = n + 1
      BY <2>4, <2>5, AppendIs
    <3> QED  BY <3>1, <2>1, <2>2, DispatchAssumption
  <2>13. ThreadOK(t)' /\ Elsewhere(t)
    <3>1. frames'[t] = Append(fs, me)
      BY <2>1, <2>2
    <3>2. ThreadOK(t)'
      BY <3>1, <2>1, <2>10 DEF ThreadOK
    <3>3. Elsewhere(t)
      BY <2>1, <2>2 DEF Elsewhere
    <3> QED  BY <3>2, <3>3
  <2>14. words' \in [Thread -> [{"guest", "bridge"} -> Stk]]
    <3>1. Stack(c) \in {"guest", "bridge"} /\ words[t][Stack(c)] \in Stk
      BY <2>2 DEF Stack
    <3>2. \A X \in Stk, v \in 0 .. MaxFrames, w \in Nat : [X EXCEPT ![w] = v] \in Stk
      BY DEF Stk
    <3>3. m + 1 \in 0 .. MaxFrames /\ rsp[t][c] \in Nat
      BY <2>1, <2>2, <2>4, <2>5, DispatchAssumption DEF Regs
    <3>4. [words[t][Stack(c)] EXCEPT ![rsp[t][c]] = m + 1] \in Stk
      BY <3>1, <3>2, <3>3
    <3>5. [words[t] EXCEPT ![Stack(c)] = [words[t][Stack(c)] EXCEPT ![rsp[t][c]] = m + 1]]
            \in [{"guest", "bridge"} -> Stk]
      BY <3>1, <3>4, <2>2
    <3> QED  BY <3>5, <2>1, <2>2
  <2>15. state'[t] \notin Resting
    BY <2>1 DEF IInv, Resting
  <2>16. calls' \in 0 .. MaxCalls /\ calls' < MaxCalls
    BY <1>2, <2>1, Counted
  <2>17. frames' \in [Thread -> Seq(Activation)] /\ Len(frames'[t]) <= MaxFrames
    BY <2>1, <2>2, <2>12
  <2> QED  BY <2>1, <2>2, <2>13, <2>14, <2>15, <2>16, <2>17, ThreadStep
<1> QED  BY <1>1, <1>2

\* An import: the stack pointer ends where the caller goes on, whether the
\* caller called or jumped, and the answer comes here and now or later.
LEMMA ImportStarts ==
    ASSUME NEW F, NEW R \in Regs, NEW D, NEW C \in Names, Below(F, R, D, C),
           F # <<>>, F[Len(F)].kind = "lifted", AtTop(F, R), Len(F) < MaxFrames,
           NEW b \in Activation, b.kind \in {"native", "walk"}, b.cpu = F[Len(F)].cpu,
           b.at = Level(F[Len(F)]), ~b.pushed, ~b.done
    PROVE  Whole(F, R, D, C, b.cpu) /\ Whole(Append(F, b), R, D, C, b.cpu)
<1> DEFINE n == Len(F)  G == Append(F, b)
<1>1. CurOf(F) = b.cpu
  BY DEF CurOf
<1>2. Fits(F, b)
  <2>1. Level(F[n]) = b.at /\ b.at \in Nat /\ b.kind # "lifted" /\ b.kind # "bridge"
    BY ActivationIs
  <2>2. Joined(F[n], b)
    BY <2>1 DEF Joined
  <2> QED  BY <2>1, <2>2 DEF Fits, FrameOK
<1>3. Below(G, R, D, C)
  BY <1>2, OtherStarts
<1>4. CurOf(G) = b.cpu
  BY <1>2, PushGood DEF Below
<1>5. G # <<>> /\ G[Len(G)] = b
  <2>1. G \in Seq(Activation) /\ Len(G) = n + 1 /\ G[n + 1] = b /\ n \in Nat
    BY AppendIs, LenIs DEF Below, Good
  <2> QED  BY <2>1, LenIs
<1>6. AtTop(G, R)
  BY <1>5 DEF AtTop, Level
<1> HIDE DEF G
<1> QED  BY <1>1, <1>3, <1>4, <1>6 DEF Whole, Below, G

LEMMA CallNativeKeeps ==
    ASSUME IInv, NEW t \in Thread, NEW f \in Native, NEW tail \in BOOLEAN, CallNative(t, f, tail)
    PROVE  IInv'
<1>1. CASE LimitReached
  BY <1>1, Counted, StopKeeps DEF CallNative, Running, On
<1>2. CASE ~LimitReached
  <2> DEFINE F == frames[t]  n == Len(F)  a == F[n]  c == a.cpu
             fs == IF tail THEN Marked(F) ELSE F
             v == (IF tail THEN rsp[t][c] ELSE rsp[t][c] + 1) - 1
             R == [rsp[t] EXCEPT ![c] = v]
             b == NativeFrame(t, f, c, tail)
             G == IF f \in Answered THEN fs ELSE Append(fs, b)
  <2>1. /\ ~stopped /\ CheckLimit /\ F # <<>> /\ n < MaxFrames /\ a.kind = "lifted" /\ ~a.done
        /\ IF tail THEN UNCHANGED <<slot, tcn>> ELSE TcBump(t)
        /\ rsp' = [rsp EXCEPT ![t][c] = (IF tail THEN @ ELSE @ + 1) - 1]
        /\ frames' = [frames EXCEPT ![t] = G]
        /\ UNCHANGED <<depth, cs, cur, words, state, stopped>>
    BY <1>2 DEF CallNative, Running, On, Room, Top, Last, Marked
  <2>2. /\ frames \in [Thread -> Seq(Activation)] /\ F \in Seq(Activation)
        /\ n \in Nat \ {0} /\ a \in Activation
        /\ Below(F, rsp[t], depth[t], cs[t]) /\ AtTop(F, rsp[t])
        /\ cur[t] = CurOf(F) /\ cur[t] \in Cpu \cup {-1} /\ rsp[t] \in Regs
        /\ cs[t] \in Names
        /\ words \in [Thread -> [{"guest", "bridge"} -> Stk]]
        /\ depth \in [Thread -> Nat] /\ cs \in [Thread -> Names]
        /\ cur \in [Thread -> Cpu \cup {-1}] /\ rsp \in [Thread -> Regs]
        /\ state \in [Thread -> States]
    BY <2>1, TypesAre, LenIs, At
  <2>3. /\ c \in Cpu /\ rsp[t][c] \in Nat /\ rsp[t][c] = Level(a) /\ Level(a) = a.at /\ a.at >= 1
        /\ CurOf(F) = c
    <3>1. FrameOK(a)
      BY <2>2 DEF Below, Good
    <3> QED  BY <3>1, <2>1, <2>2 DEF AtTop, Regs, Activation, Level, FrameOK, CurOf
  <2>4. Len(fs) = n /\ fs \in Seq(Activation) /\ fs # <<>>
    BY <2>1, <2>2, MarkIs, LenIs
  <2>5. v \in Nat /\ (~tail => v = rsp[t][c]) /\ R \in Regs /\ R[c] = v
        /\ v = rsp[t][c] - (IF tail THEN 1 ELSE 0)
    <3>1. v \in Nat /\ (~tail => v = rsp[t][c]) /\ v = rsp[t][c] - (IF tail THEN 1 ELSE 0)
      BY <2>3
    <3> HIDE DEF v
    <3> QED  BY <3>1, <2>2, <2>3 DEF Regs
  <2>6. /\ Below(fs, R, depth[t], cs[t])
        /\ fs[n].kind = "lifted" /\ fs[n].cpu = c /\ Level(fs[n]) = v
    <3>1. CASE tail
      <4>1. /\ Below(fs, rsp[t], depth[t], cs[t])
            /\ fs[n].kind = "lifted" /\ fs[n].cpu = c /\ Level(fs[n]) = a.at - 1
        BY <3>1, <2>1, <2>2, JumpMarks, MarkGood DEF Below
      <4> HIDE DEF fs, v
      <4>2. Parked(fs, [rsp[t] EXCEPT ![fs[Len(fs)].cpu] = v])
        BY <4>1, <2>2, <2>4, ParkSet DEF Below, Regs
      <4>3. Level(fs[n]) = v
        BY <4>1, <3>1, <2>3, <2>5
      <4> QED  BY <4>1, <4>2, <4>3, <2>4 DEF Below
    <3>2. CASE ~tail
      <4>1. R = rsp[t]
        <5> HIDE DEF v
        <5> QED  BY <3>2, <2>2, <2>3, <2>5 DEF Regs
      <4> QED  BY <4>1, <3>2, <2>1, <2>2, <2>3, <2>5
    <3> QED  BY <3>1, <3>2
  <2>7. /\ b \in Activation /\ b.kind \in {"native", "walk"} /\ b.cpu = c /\ b.at = v
        /\ ~b.pushed /\ ~b.done
    <3>1. b.at = v /\ b.cpu = c /\ b.fn = f /\ ~b.pushed /\ ~b.done
          /\ b.kind \in {"native", "walk"}
      BY <2>5 DEF NativeFrame
    <3>2. v \in Nat /\ c \in Cpu /\ cur[t] \in Cpu \cup {-1}
      BY <2>2, <2>3, <2>5
    <3> QED  BY <3>1, <3>2, <2>5 DEF NativeFrame, Activation
  <2> HIDE DEF fs, v, b, R
  <2>8. AtTop(fs, R)
    BY <2>4, <2>5, <2>6 DEF AtTop
  <2>9. /\ Whole(fs, R, depth[t], cs[t], c)
        /\ Whole(Append(fs, b), R, depth[t], cs[t], c)
    BY <2>1, <2>2, <2>4, <2>5, <2>6, <2>7, <2>8, ImportStarts
  <2>10. G \in Seq(Activation) /\ Len(G) <= MaxFrames
    <3>1. Append(fs, b) \in Seq(Activation) /\ Len(Append(fs, b)) = n + 1
      BY <2>4, <2>7, AppendIs
    <3> QED  BY <3>1, <2>1, <2>2, <2>4, DispatchAssumption
  <2>11. frames'[t] = G /\ rsp'[t] = R
    <3>1. frames'[t] = G
      BY <2>1, <2>2
    <3>2. rsp'[t] = R
      BY <2>1, <2>2, <2>3 DEF Regs, R, v
    <3> QED  BY <3>1, <3>2
  <2>12. ThreadOK(t)'
    <3>1. Whole(G, R, depth[t], cs[t], cur[t])
      BY <2>2, <2>3, <2>9
    <3> HIDE DEF G
    <3> QED  BY <3>1, <2>1, <2>11 DEF ThreadOK
  <2>13. Elsewhere(t)
    BY <2>1, <2>2 DEF Elsewhere
  <2>14. frames' \in [Thread -> Seq(Activation)] /\ Len(frames'[t]) <= MaxFrames
    BY <2>1, <2>2, <2>10
  <2>15. rsp' \in [Thread -> Regs]
    <3>1. rsp' = [rsp EXCEPT ![t] = R]
      BY <2>1, <2>2, <2>3 DEF R, v, Regs
    <3> QED  BY <3>1, <2>2, <2>5
  <2>16. state'[t] \notin Resting
    BY <2>1 DEF IInv, Resting
  <2>17. calls' \in 0 .. MaxCalls /\ calls' < MaxCalls
    BY <1>2, <2>1, Counted
  <2>18. TcBump(t) \/ UNCHANGED <<slot, tcn>>
    BY <2>1
  <2> QED  BY <2>1, <2>2, <2>12, <2>13, <2>14, <2>15, <2>16, <2>17, <2>18, ThreadStep
<1> QED  BY <1>1, <1>2

\* A step that takes activations off and writes no memory.
Returned(t, G, R, D, k) ==
    /\ frames' = [frames EXCEPT ![t] = G] /\ rsp' = [rsp EXCEPT ![t] = R]
    /\ depth' = [depth EXCEPT ![t] = D] /\ cur' = [cur EXCEPT ![t] = k]
    /\ UNCHANGED <<cs, words, slot, tcn, calls, stopped>>
    /\ \/ state' = state /\ state[t] \notin Resting
       \/ state' = [state EXCEPT ![t] = "over"] /\ G = <<>>

LEMMA ReturnKeeps ==
    ASSUME IInv, NEW t \in Thread, ~stopped,
           NEW G \in Seq(Activation), NEW R \in Regs, NEW D \in Nat, NEW k \in Cpu \cup {-1},
           Len(G) <= Len(frames[t]), Whole(G, R, D, cs[t], k),
           Returned(t, G, R, D, k)
    PROVE  IInv'
<1>1. /\ frames \in [Thread -> Seq(Activation)] /\ Len(frames[t]) <= MaxFrames
      /\ words \in [Thread -> [{"guest", "bridge"} -> Stk]]
      /\ depth \in [Thread -> Nat] /\ cs \in [Thread -> Names]
      /\ cur \in [Thread -> Cpu \cup {-1}] /\ rsp \in [Thread -> Regs]
      /\ state \in [Thread -> States] /\ frames[t] \in Seq(Activation)
  BY TypesAre
<1>0. /\ frames' = [frames EXCEPT ![t] = G] /\ rsp' = [rsp EXCEPT ![t] = R]
      /\ depth' = [depth EXCEPT ![t] = D] /\ cur' = [cur EXCEPT ![t] = k]
      /\ UNCHANGED <<cs, words, slot, tcn, calls, stopped>>
      /\ \/ state' = state /\ state[t] \notin Resting
         \/ state' = [state EXCEPT ![t] = "over"] /\ G = <<>>
  BY DEF Returned
<1>2. frames'[t] = G /\ rsp'[t] = R /\ depth'[t] = D /\ cur'[t] = k
  BY <1>0, <1>1
<1>3. ThreadOK(t)' /\ Elsewhere(t)
  BY <1>0, <1>1, <1>2 DEF ThreadOK, Elsewhere
<1>4. Len(G) <= MaxFrames
  <2>1. Len(G) \in Nat /\ Len(frames[t]) \in Nat
    BY <1>1, LenIs
  <2> QED  BY <2>1, <1>1, DispatchAssumption
<1>5. /\ frames' \in [Thread -> Seq(Activation)] /\ depth' \in [Thread -> Nat]
      /\ cur' \in [Thread -> Cpu \cup {-1}] /\ rsp' \in [Thread -> Regs]
  BY <1>0, <1>1
<1>6. /\ state' \in [Thread -> States]
      /\ state'[t] \in Resting => frames'[t] = <<>>
      /\ \A u \in Thread \ {t} : state'[u] \in Resting => state[u] \in Resting
  BY <1>0, <1>1, <1>2 DEF States
<1>7. calls' \in 0 .. MaxCalls /\ calls' < MaxCalls
  BY <1>0 DEF IInv, TypeOK
<1> QED  BY <1>0, <1>1, <1>2, <1>3, <1>4, <1>5, <1>6, <1>7, ThreadStep

LEMMA ImportReturns ==
    ASSUME IInv, NEW t \in Thread, ReturnNative(t) \/ WalkEnds(t)
    PROVE  IInv'
<1> DEFINE F == frames[t]  n == Len(F)  a == F[n]  G == Front(F)
<1>1. /\ ~stopped /\ F # <<>> /\ a.kind \in {"native", "walk"}
      /\ frames' = [frames EXCEPT ![t] = G]
      /\ UNCHANGED <<depth, cs, cur, rsp, words, slot, tcn, state, calls, stopped>>
  BY DEF ReturnNative, WalkEnds, On, Top, Last
<1>2. /\ F \in Seq(Activation) /\ n \in Nat \ {0} /\ a \in Activation
      /\ Below(F, rsp[t], depth[t], cs[t]) /\ AtTop(F, rsp[t])
      /\ cur[t] = CurOf(F) /\ cur[t] \in Cpu \cup {-1} /\ rsp[t] \in Regs
      /\ depth \in [Thread -> Nat] /\ depth[t] \in Nat
      /\ cur \in [Thread -> Cpu \cup {-1}] /\ rsp \in [Thread -> Regs]
  BY <1>1, TypesAre, LenIs, At
<1>3. ~a.pushed /\ ~a.done /\ rsp[t][a.cpu] = a.at /\ a.at \in Nat
  <2>1. FrameOK(a)
    BY <1>2 DEF Below, Good
  <2> QED  BY <2>1, <1>1, <1>2 DEF FrameOK, AtTop, Level, Activation
<1>4. Below(G, rsp[t], depth[t], cs[t])
  BY <1>1, <1>2, <1>3, ActivationEnds
<1>5. Good(F) /\ G # <<>> /\ CurOf(F) = CurOf(G)
  <2>1. Good(F)
    BY <1>2 DEF Below
  <2>2. G # <<>> /\ a.cpu = CurOf(G)
    BY <2>1, <1>1, PopGood
  <2>3. CurOf(F) = a.cpu
    BY <1>1 DEF CurOf
  <2> QED  BY <2>1, <2>2, <2>3
<1>6. /\ G \in Seq(Activation) /\ Len(G) = n - 1 /\ Len(G) <= n
      /\ \A i \in 1 .. n - 1 : G[i] = F[i]
  <2>1. n - 1 <= n
    BY <1>2
  <2>2. /\ G \in Seq(Activation) /\ Len(G) = n - 1
        /\ \A i \in 1 .. n - 1 : G[i] = F[i]
    BY <1>1, <1>2, FrontIs, Zenon
  <2> QED  BY <2>1, <2>2
<1>7. G[Len(G)].kind = "lifted"
  <2>1. n \in 2 .. n /\ n - 1 \in 1 .. n - 1
    BY <1>2, <1>5, <1>6, LenIs
  <2>2. Joined(F[n - 1], F[n])
    BY <2>1, <1>5 DEF Good
  <2> QED  BY <2>1, <2>2, <1>1, <1>6 DEF Joined
<1>8. AtTop(G, rsp[t])
  <2>1. rsp[t][a.cpu] = a.at - 0
    BY <1>3
  <2>2. IF G # <<>> /\ G[Len(G)].kind = "bridge" THEN AtTop(Front(G), rsp[t]) ELSE AtTop(G, rsp[t])
    BY <2>1, <1>1, <1>4, <1>5, PopLands DEF Below
  <2> QED  BY <2>2, <1>7
<1> HIDE DEF G
<1>9. Whole(G, rsp[t], depth[t], cs[t], cur[t])
  BY <1>2, <1>4, <1>5, <1>8 DEF Whole, Below
<1>10. /\ rsp' = [rsp EXCEPT ![t] = rsp[t]] /\ depth' = [depth EXCEPT ![t] = depth[t]]
       /\ cur' = [cur EXCEPT ![t] = cur[t]]
  BY <1>1, <1>2
<1>11. state[t] \notin Resting
  BY <1>1 DEF IInv, Resting
<1>12. Returned(t, G, rsp[t], depth[t], cur[t])
  BY <1>1, <1>10, <1>11 DEF Returned
<1> QED  BY <1>1, <1>2, <1>6, <1>9, <1>12, ReturnKeeps

LEMMA ReturnLiftedKeeps ==
    ASSUME IInv, NEW t \in Thread, ReturnLifted(t)
    PROVE  IInv'
<1> DEFINE F == frames[t]  n == Len(F)  a == F[n]  up == Front(F)  m == Len(up)
           R == [rsp[t] EXCEPT ![a.cpu] = IF a.done THEN @ ELSE @ - 1]
           D == IF a.pushed THEN depth[t] - 1 ELSE depth[t]
           bridged == up # <<>> /\ up[m].kind = "bridge"
           G == IF bridged THEN Front(up) ELSE up
<1>1. /\ ~stopped /\ F # <<>> /\ a.kind = "lifted"
      /\ rsp' = [rsp EXCEPT ![t][a.cpu] = IF a.done THEN @ ELSE @ - 1]
      /\ depth' = [depth EXCEPT ![t] = IF a.pushed THEN @ - 1 ELSE @]
      /\ cur' = [cur EXCEPT ![t] = a.prev]
      /\ frames' = [frames EXCEPT ![t] = G]
      /\ state' = IF up = <<>> THEN [state EXCEPT ![t] = "over"] ELSE state
      /\ UNCHANGED <<cs, words, slot, tcn, calls, stopped>>
  BY DEF ReturnLifted, On, Top, Last
<1>2. /\ F \in Seq(Activation) /\ n \in Nat \ {0} /\ a \in Activation
      /\ Below(F, rsp[t], depth[t], cs[t]) /\ AtTop(F, rsp[t])
      /\ rsp[t] \in Regs /\ depth \in [Thread -> Nat] /\ rsp \in [Thread -> Regs]
  BY <1>1, TypesAre, LenIs, At
<1>3. /\ a.cpu \in Cpu /\ a.at \in Nat /\ a.at >= 1 /\ a.done \in BOOLEAN
      /\ rsp[t][a.cpu] = IF a.done THEN a.at - 1 ELSE a.at
      /\ a.prev \in Cpu \cup {-1}
  <2>1. FrameOK(a)
    BY <1>2 DEF Below, Good
  <2> QED  BY <2>1, <1>1, <1>2 DEF FrameOK, AtTop, Level, Activation
<1>4. R = [rsp[t] EXCEPT ![a.cpu] = a.at - 1] /\ R[a.cpu] = a.at - 1 /\ R \in Regs
  <2>1. (IF a.done THEN rsp[t][a.cpu] ELSE rsp[t][a.cpu] - 1) = a.at - 1 /\ a.at - 1 \in Nat
    BY <1>3
  <2>2. R = [rsp[t] EXCEPT ![a.cpu] = a.at - 1]
    BY <2>1
  <2> QED  BY <2>1, <2>2, <1>2, <1>3 DEF Regs
<1>5. rsp' = [rsp EXCEPT ![t] = R] /\ depth' = [depth EXCEPT ![t] = D]
  BY <1>1, <1>2
<1> HIDE DEF R
<1>6. Below(F, R, depth[t], cs[t])
  <2>1. Parked(F, [rsp[t] EXCEPT ![F[Len(F)].cpu] = a.at - 1])
    BY <1>1, <1>2, ParkSet DEF Below, Regs
  <2> QED  BY <2>1, <1>2, <1>4 DEF Below
<1>7. Below(up, R, D, cs[t])
  BY <1>1, <1>6, ActivationEnds
<1>8. Good(up) /\ a.prev = CurOf(up) /\ up \in Seq(Activation) /\ m = n - 1 /\ m \in Nat
  BY <1>1, <1>2, <1>6, PopGood, FrontIs, LenIs DEF Below
<1>9. IF bridged THEN AtTop(Front(up), R) ELSE AtTop(up, R)
  BY <1>1, <1>4, <1>6, <1>7, PopLands DEF Below
<1>10. ASSUME bridged
       PROVE  /\ Below(Front(up), R, D, cs[t])
              /\ CurOf(up) = CurOf(Front(up))
              /\ Front(up) \in Seq(Activation) /\ Len(Front(up)) = m - 1
  <2>1. ~up[m].pushed
    <3>1. m \in 1 .. m
      BY <1>8, <1>10, LenIs
    <3> QED  BY <3>1, <1>8, <1>10 DEF Good, FrameOK
  <2>2. Below(Front(up), R, IF up[m].pushed THEN D - 1 ELSE D, cs[t])
    BY <1>7, <1>10, ActivationEnds
  <2> QED  BY <2>1, <2>2, <1>8, <1>10, PopGood, FrontIs
<1>11. /\ Below(G, R, D, cs[t]) /\ AtTop(G, R) /\ a.prev = CurOf(G)
       /\ G \in Seq(Activation) /\ Len(G) <= n
  <2>1. CASE bridged
    BY <2>1, <1>2, <1>8, <1>9, <1>10
  <2>2. CASE ~bridged
    BY <2>2, <1>2, <1>7, <1>8, <1>9
  <2> QED  BY <2>1, <2>2
<1>12. \/ state' = state /\ state[t] \notin Resting
       \/ state' = [state EXCEPT ![t] = "over"] /\ G = <<>>
  BY <1>1 DEF IInv, Resting
<1>13. D \in Nat
  BY <1>7, <1>8, CountIs DEF Below, Shadow
<1> HIDE DEF G, D
<1>14. Whole(G, R, D, cs[t], a.prev)
  BY <1>11 DEF Whole, Below
<1>15. Returned(t, G, R, D, a.prev)
  BY <1>1, <1>5, <1>12 DEF Returned
<1> QED  BY <1>1, <1>3, <1>4, <1>11, <1>13, <1>14, <1>15, ReturnKeeps
-----------------------------------------------------------------------------
(***************************************************************************)
(* The invariant, and what follows.                                        *)
(***************************************************************************)
LEMMA InitInv == Init => IInv
<1> SUFFICES ASSUME Init PROVE IInv
  OBVIOUS
<1>1. <<>> \in Seq(Activation) /\ Len(<<>>) = 0 /\ MaxFrames \in Nat \ {0} /\ 0 \in Cpu
      /\ MaxCalls \in Nat \ {0} /\ TcMax \in Nat \ {0}
  BY DispatchAssumption, EmptySeq DEF Cpu
<1>2. TypeOK
  <2>1. frames \in [Thread -> Seq(Activation)] /\ \A t \in Thread : Len(frames[t]) <= MaxFrames
    BY <1>1 DEF Init
  <2>2. cs \in [Thread -> [1 .. CsMax -> Lifted \cup {"-"}]]
    BY DEF Init
  <2>3. words \in [Thread -> [{"guest", "bridge"} -> [1 .. MaxFrames + 1 -> 0 .. MaxFrames]]]
    BY <1>1 DEF Init
  <2>4. /\ depth \in [Thread -> Nat] /\ cur \in [Thread -> Cpu \cup {-1}]
        /\ rsp \in [Thread -> [Cpu -> Nat]] /\ slot \in [Thread -> 0 .. TcMax] /\ tcn \in Nat
    BY <1>1 DEF Init
  <2>5. state \in [Thread -> {"idle", "ready", "running", "over", "foreign"}]
    BY DEF Init
  <2>6. calls \in 0 .. MaxCalls
    BY <1>1 DEF Init
  <2>7. stopped \in BOOLEAN
    BY DEF Init
  <2> QED  BY <2>1, <2>2, <2>3, <2>4, <2>5, <2>6, <2>7 DEF TypeOK
<1>3. CountersInv
  BY <1>1 DEF Init, CountersInv, CountersOwned
<1>4. ASSUME NEW t \in Thread PROVE ThreadOK(t)
  <2>1. frames[t] = <<>> /\ depth[t] = 0 /\ cur[t] = -1
    BY DEF Init
  <2>2. AtTop(<<>>, rsp[t])
    BY DEF AtTop
  <2> QED  BY <2>1, <2>2, NoneIs DEF ThreadOK, Whole, Below
<1> QED  BY <1>1, <1>2, <1>3, <1>4 DEF IInv, Init

LEMMA StepInv == IInv /\ [Next]_vars => IInv'
<1> SUFFICES ASSUME IInv, [Next]_vars PROVE IInv'
  OBVIOUS
<1>1. CASE UNCHANGED vars
  <2>1. TypeOK'
    BY <1>1 DEF IInv, TypeOK, vars
  <2>2. CountersInv'
    BY <1>1 DEF IInv, CountersInv, CountersOwned, vars
  <2>3. \A t \in Thread : ThreadOK(t)'
    BY <1>1 DEF IInv, ThreadOK, vars
  <2> QED  BY <2>1, <2>2, <2>3, <1>1 DEF IInv, vars
<1>2. ASSUME NEW t \in Thread, NEW f \in Lifted,
             CallLifted(t, f) \/ TailLifted(t, f) \/ StartThread(t, f) \/ WalkCalls(t, f) \/ Callback(t, f)
      PROVE  IInv'
  BY <1>2, CallLiftedKeeps, TailLiftedKeeps, StartThreadKeeps, WalkCallsKeeps, CallbackKeeps
<1>3. ASSUME NEW t \in Thread, NEW f \in Native, NEW tail \in BOOLEAN, CallNative(t, f, tail)
      PROVE  IInv'
  BY <1>3, CallNativeKeeps
<1>4. ASSUME NEW t \in Thread, NEW u \in Thread, CallCreateThread(t, u)
      PROVE  IInv'
  BY <1>4, CreateThreadKeeps
<1>5. ASSUME NEW t \in Thread,
             \/ CallGap(t) \/ CallbackGap(t) \/ NoStack(t)
             \/ ReturnLifted(t) \/ ReturnNative(t) \/ WalkEnds(t)
      PROVE  IInv'
  BY <1>5, GapKeeps, NoStackKeeps, ReturnLiftedKeeps, ImportReturns
<1>6. CASE Finished
  BY <1>1, <1>6 DEF Finished
<1> QED  BY <1>1, <1>2, <1>3, <1>4, <1>5, <1>6 DEF Next

LEMMA Invariant == Spec => []IInv
  BY InitInv, StepInv, PTL DEF Spec

\* Every part of the call machine keeps its type and its bound, whatever the
\* nesting of calls, imports, walks and callbacks (dispatch64.c's per-thread
\* state).
THEOREM CallsTyped == Spec => []TypeOK
<1>1. IInv => TypeOK
  BY DEF IInv
<1> QED  BY <1>1, Invariant, PTL

\* A counter belongs to one thread until the table is full, and then only the
\* last is shared (tc_bump).
THEOREM CountersHaveOwners == Spec => []CountersOwned
<1>1. IInv => CountersOwned
  BY DEF IInv, CountersInv
<1> QED  BY <1>1, Invariant, PTL

\* A body goes on with the stack pointer it was entered with, after any depth of
\* calls, jumps, imports and callbacks (dispatch, es3_native_call,
\* es3_call_guest, es3_bridge_callback).
THEOREM StackComesBack == Spec => []StackBalanced
<1>1. IInv => StackBalanced
  <2> SUFFICES ASSUME IInv, NEW t \in Thread, Running(t)
               PROVE  rsp[t][Top(t).cpu] = Top(t).at
    BY DEF StackBalanced
  <2>1. AtTop(frames[t], rsp[t])
    BY TypesAre
  <2> QED  BY <2>1 DEF AtTop, Level, Running, On, Top, Last
<1> QED  BY <1>1, Invariant, PTL

\* Counting the lines of a print from either end, D the depth and c the size of
\* the array.
LEMMA LinesAre ==
    ASSUME NEW D \in Nat, NEW p \in 1 .. D, NEW c \in Nat \ {0}
    PROVE  /\ D + 1 - (D + 1 - p) = p
           /\ Least(D, c) + 1 - (Least(D, c) + 1 - p) = p
           /\ Least(D, c) + 1 - p >= 1 => p <= c
  BY DEF Least

\* What the crash dump and the watchdog print of the shadow stack, line by line,
\* and of the guest's registers, is what is running, for any depth and any sizes
\* of the array and of the prints; a line past the array is told apart
\* (es3_dump_callstack, stall_watchdog, cs_stack, g_cur_cpu).
THEOREM ReportIsTrue == Spec => []CrashReportTrue
<1>1. IInv => CrashReportTrue
  <2> SUFFICES ASSUME IInv, NEW t \in Thread
               PROVE  /\ depth[t] = Pushed(t, Len(frames[t]))
                      /\ \A i \in DOMAIN frames[t] : frames[t][i].pushed =>
                            LET p    == Pushed(t, i)
                                line == depth[t] + 1 - p
                                row  == Least(depth[t], CsMax) + 1 - p
                            IN  /\ line \in DOMAIN DumpCallstack(t) =>
                                      DumpCallstack(t)[line] =
                                          IF p <= CsMax THEN frames[t][i].fn ELSE Behind
                                /\ row \in DOMAIN StallStack(t) =>
                                      StallStack(t)[row] = frames[t][i].fn
                      /\ cur[t] = IF frames[t] = <<>> THEN -1 ELSE Top(t).cpu
    BY DEF CrashReportTrue
  <2> DEFINE F == frames[t]
  <2>1. /\ Shadow(F, depth[t], cs[t]) /\ F \in Seq(Activation)
        /\ AtTop(F, rsp[t]) /\ cur[t] = CurOf(F) /\ depth[t] \in Nat
    BY TypesAre DEF Below
  <2>2. \A i : Pushed(t, i) = Count(F, i)
    BY DEF Pushed, Count
  <2>3. DOMAIN F = 1 .. Len(F) /\ Len(F) \in Nat
    BY <2>1, LenProperties
  <2>4. cur[t] = IF F = <<>> THEN -1 ELSE Top(t).cpu
    BY <2>1 DEF CurOf, AtTop, Top, Last
  <2>5. depth[t] = Pushed(t, Len(F))
    BY <2>1, <2>2 DEF Shadow
  <2>6. ASSUME NEW i \in DOMAIN F, F[i].pushed
        PROVE  LET p    == Pushed(t, i)
                   line == depth[t] + 1 - p
                   row  == Least(depth[t], CsMax) + 1 - p
               IN  /\ line \in DOMAIN DumpCallstack(t) =>
                         DumpCallstack(t)[line] = IF p <= CsMax THEN F[i].fn ELSE Behind
                   /\ row \in DOMAIN StallStack(t) => StallStack(t)[row] = F[i].fn
    <3> DEFINE p == Pushed(t, i)  d == depth[t]  q == Least(d, CsMax)
    <3>1. p \in 1 .. d /\ (p <= CsMax => cs[t][p] = F[i].fn)
      BY <2>1, <2>2, <2>3, <2>6, CountWithin DEF Shadow
    <3> HIDE DEF p, d, q
    <3>2. /\ d \in Nat /\ d + 1 - (d + 1 - p) = p /\ q + 1 - (q + 1 - p) = p
          /\ q + 1 - p >= 1 => p <= CsMax
      BY <2>1, <3>1, LinesAre, DispatchAssumption DEF d, q
    <3>3. ASSUME d + 1 - p \in DOMAIN DumpCallstack(t)
          PROVE  DumpCallstack(t)[d + 1 - p] = IF p <= CsMax THEN F[i].fn ELSE Behind
      BY <3>1, <3>2, <3>3 DEF DumpCallstack, d
    <3>4. ASSUME q + 1 - p \in DOMAIN StallStack(t)
          PROVE  StallStack(t)[q + 1 - p] = F[i].fn
      <4>1. q + 1 - p >= 1
        BY <3>4 DEF StallStack, q, d
      <4> QED  BY <3>1, <3>2, <3>4, <4>1 DEF StallStack, q, d
    <3> QED  BY <3>3, <3>4 DEF p, d, q
  <2> QED  BY <2>4, <2>5, <2>6
<1> QED  BY <1>1, Invariant, PTL
=============================================================================
