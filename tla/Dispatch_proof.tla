--------------------------- MODULE Dispatch_proof ---------------------------
(***************************************************************************)
(* The call machine for any image, import table, bindings and depth.       *)
(*                                                                         *)
(* Balanced is about the innermost call only; what carries it over a       *)
(* return is that every call on the stack, when it pops what its function  *)
(* pops, lands where its caller resumes (Stacked below).                   *)
(***************************************************************************)
EXTENDS Dispatch, TLAPS, FiniteSetTheorems, SequenceTheorems

\* Where the stack pointer is once a call has popped its return address and
\* arguments; for a crossing, on the real caller's stack.
Back(c) == c.entry + 1 + Pops[c.of]

\* esp while cs are the calls in progress.
Level(cs) == IF Len(cs) = 0 THEN 0 ELSE ResumesAt(cs[Len(cs)])

\* A frame is of a function of its kind, and asked if it is bound.
FrameOK(c, bs) ==
    /\ c.is \in {"body", "invoke"} => c.of \in Guest
    /\ c.is = "import" => c.of \in Import
    /\ c.is = "body" /\ (\E j \in DOMAIN bs : bs[j] = c.of) => c.asked

Stacked(cs, bs) ==
    /\ cs \in Seq(Frame) /\ Len(cs) <= MaxDepth
    /\ \A k \in 1 .. Len(cs) :
          /\ FrameOK(cs[k], bs)
          /\ Back(cs[k]) = IF k = 1 THEN 0 ELSE ResumesAt(cs[k - 1])

States == {"setup", "runs", "ended", "unlifted", "unimplemented", "unpurged",
           "left", "thunks spent", "ran guest bytes", "faulted"}

\* The span never loses a binding.
Spanned == \A j \in DOMAIN bound : lo <= bound[j] /\ bound[j] <= hi

IInv ==
    /\ bound \in Seq(Guest) /\ Len(bound) <= Bindings
    /\ lo \in 0 .. Highest /\ hi \in 0 .. Highest /\ Spanned
    /\ thunks \subseteq Guest /\ planted \subseteq thunks
    /\ cached \subseteq thunks \cap Lifted /\ Cardinality(cached) <= CacheSize
    /\ Stacked(calls, bound) /\ esp = Level(calls)
    /\ state \in States /\ (state = "setup" => calls = <<>>)

\* What a call or a return leaves behind.
Landed == /\ Stacked(calls', bound) /\ esp' = Level(calls')
          /\ state' \in States \ {"setup"}

-----------------------------------------------------------------------------
(***************************************************************************)
(* Sequences of calls.                                                     *)
(***************************************************************************)
LEMMA CallIsFrame ==
    ASSUME NEW is \in {"body", "import", "real", "invoke"}, NEW f \in Function,
           NEW e \in Int, NEW a \in BOOLEAN
    PROVE  /\ Call(is, f, e, a) \in Frame
           /\ Call(is, f, e, a).is = is /\ Call(is, f, e, a).of = f
           /\ Call(is, f, e, a).entry = e /\ Call(is, f, e, a).asked = a
  BY DEF Call, Frame

LEMMA GuestIsInt == \A f \in Guest : f \in Int
  BY DispatchAssumption

LEMMA PopsIsNat == \A f \in Function : Pops[f] \in Nat
  BY DispatchAssumption

LEMMA LevelIsInt ==
    ASSUME NEW bs, NEW cs, Stacked(cs, bs) PROVE Level(cs) \in Int
<1>1. CASE Len(cs) = 0
  BY <1>1 DEF Level
<1>2. CASE Len(cs) # 0
  <2>1. Len(cs) \in Nat /\ Len(cs) \in 1 .. Len(cs) /\ cs[Len(cs)] \in Frame
    BY <1>2, ElementOfSeq, LenProperties DEF Stacked
  <2>2. cs[Len(cs)].entry \in Int /\ Pops[cs[Len(cs)].of] \in Nat
    BY <2>1, PopsIsNat DEF Frame
  <2> QED
    BY <2>2, <1>2 DEF Level, ResumesAt
<1> QED
  BY <1>1, <1>2

\* A call whose function returns to where its caller resumes may be pushed.
LEMMA PushStacked ==
    ASSUME NEW bs, NEW cs, Stacked(cs, bs), Len(cs) < MaxDepth,
           NEW c \in Frame, FrameOK(c, bs), Back(c) = Level(cs)
    PROVE  Stacked(Append(cs, c), bs) /\ Level(Append(cs, c)) = ResumesAt(c)
           /\ Len(Append(cs, c)) = Len(cs) + 1
<1> DEFINE ds == Append(cs, c)
<1>1. /\ ds \in Seq(Frame) /\ Len(ds) = Len(cs) + 1
      /\ \A k \in 1 .. Len(cs) : ds[k] = cs[k]
      /\ ds[Len(cs) + 1] = c
  BY AppendProperties DEF Stacked
<1>2. Len(cs) \in Nat /\ MaxDepth \in Nat
  BY LenProperties, DispatchAssumption DEF Stacked
<1>3. ASSUME NEW k \in 1 .. Len(ds)
      PROVE  FrameOK(ds[k], bs) /\ Back(ds[k]) = IF k = 1 THEN 0 ELSE ResumesAt(ds[k - 1])
  <2>1. CASE k \in 1 .. Len(cs)
    <3>1. ds[k] = cs[k] /\ (k # 1 => ds[k - 1] = cs[k - 1])
      BY <2>1, <1>1, <1>2
    <3> QED
      BY <3>1, <2>1 DEF Stacked
  <2>2. CASE k = Len(cs) + 1
    <3>1. ds[k] = c /\ (k # 1 => ds[k - 1] = cs[Len(cs)]) /\ (k = 1 <=> Len(cs) = 0)
      BY <2>2, <1>1, <1>2
    <3> QED
      BY <3>1 DEF Level
  <2> QED
    BY <2>1, <2>2, <1>1, <1>2
<1>4. Level(ds) = ResumesAt(c)
  BY <1>1, <1>2 DEF Level
<1> HIDE DEF ds
<1>5. Stacked(ds, bs)
  BY <1>1, <1>2, <1>3 DEF Stacked
<1> QED
  BY <1>1, <1>4, <1>5 DEF ds

\* The length SubSeq gives a prefix one shorter.
LEMMA LengthBefore ==
    \A n \in Nat \ {0} : (IF 1 <= n - 1 THEN n - 1 - 1 + 1 ELSE 0) = n - 1
  OBVIOUS

\* And the innermost one may be taken off: it returns to its caller's level.
LEMMA PopStacked ==
    ASSUME NEW bs, NEW cs, Stacked(cs, bs), cs # <<>>
    PROVE  LET ds == SubSeq(cs, 1, Len(cs) - 1)  c == cs[Len(cs)]
           IN  /\ Stacked(ds, bs) /\ Len(ds) = Len(cs) - 1 /\ Len(ds) < MaxDepth
               /\ c \in Frame /\ FrameOK(c, bs) /\ Back(c) = Level(ds)
<1> DEFINE ds == SubSeq(cs, 1, Len(cs) - 1)
<1>1. Len(cs) \in Nat \ {0} /\ MaxDepth \in Nat /\ Len(cs) <= MaxDepth
  BY EmptySeq, DispatchAssumption DEF Stacked
<1>2. \A k \in 1 .. Len(cs) : cs[k] \in Frame
  BY ElementOfSeq DEF Stacked
<1>3. /\ ds \in Seq(Frame) /\ Len(ds) = Len(cs) - 1
      /\ \A k \in 1 .. Len(cs) - 1 : ds[k] = cs[k]
  <2>1. \A k \in 1 .. Len(cs) - 1 : cs[k] \in Frame
    BY <1>1, <1>2
  <2>2. /\ SubSeq(cs, 1, Len(cs) - 1) \in Seq(Frame)
        /\ Len(SubSeq(cs, 1, Len(cs) - 1)) =
             IF 1 <= Len(cs) - 1 THEN Len(cs) - 1 - 1 + 1 ELSE 0
        /\ \A k \in 1 .. Len(cs) - 1 - 1 + 1 : SubSeq(cs, 1, Len(cs) - 1)[k] = cs[1 + k - 1]
    BY <2>1, <1>1, SubSeqProperties
  <2>3. Len(ds) = Len(cs) - 1
    BY <2>2, <1>1, LengthBefore
  <2>4. ASSUME NEW k \in 1 .. Len(cs) - 1 PROVE ds[k] = cs[k]
    <3>1. k \in 1 .. Len(cs) - 1 - 1 + 1 /\ 1 + k - 1 = k
      BY <1>1
    <3> QED
      BY <3>1, <2>2
  <2> QED
    BY <2>2, <2>3, <2>4
<1> HIDE DEF ds
<1>4. Stacked(ds, bs)
  <2>1. ASSUME NEW k \in 1 .. Len(ds)
        PROVE  FrameOK(ds[k], bs) /\ Back(ds[k]) = IF k = 1 THEN 0 ELSE ResumesAt(ds[k - 1])
    <3>1. k \in 1 .. Len(cs) /\ ds[k] = cs[k] /\ (k # 1 => ds[k - 1] = cs[k - 1])
      BY <1>1, <1>3
    <3> QED
      BY <3>1 DEF Stacked
  <2> QED
    BY <2>1, <1>1, <1>3 DEF Stacked
<1>5. Back(cs[Len(cs)]) = Level(ds)
  <2>1. Len(cs) # 1 => ds[Len(ds)] = cs[Len(cs) - 1]
    BY <1>1, <1>3
  <2>2. Len(cs) \in 1 .. Len(cs)
    BY <1>1
  <2>3. Back(cs[Len(cs)]) = IF Len(cs) = 1 THEN 0 ELSE ResumesAt(cs[Len(cs) - 1])
    BY <2>2 DEF Stacked
  <2> QED
    BY <2>1, <2>3, <1>1, <1>3 DEF Level
<1>6. FrameOK(cs[Len(cs)], bs)
  <2>1. Len(cs) \in 1 .. Len(cs)
    BY <1>1
  <2> QED
    BY <2>1 DEF Stacked
<1> QED
  BY <1>1, <1>2, <1>3, <1>4, <1>5, <1>6 DEF ds
-----------------------------------------------------------------------------
(***************************************************************************)
(* The steps every call and return are made of.                            *)
(***************************************************************************)
LEMMA EnterLands ==
    ASSUME NEW cs, Stacked(cs, bound), Len(cs) < MaxDepth,
           NEW c \in Frame, FrameOK(c, bound), c.is # "invoke", Back(c) = Level(cs),
           Enter(cs, c)
    PROVE  Landed
<1>1. Stacked(Append(cs, c), bound) /\ Level(Append(cs, c)) = ResumesAt(c)
  BY PushStacked
<1> QED
  BY <1>1 DEF Enter, Landed, ResumesAt, States

LEMMA ResumeLands ==
    ASSUME NEW cs, Stacked(cs, bound), Resume(cs, Level(cs))
    PROVE  Landed
  BY DEF Resume, Landed, States

LEMMA StopLands ==
    ASSUME Stacked(calls, bound), esp = Level(calls),
           NEW why \in States \ {"setup"}, Stop(why)
    PROVE  Landed
  BY DEF Stop, Landed

\* A guest function called at e, from calls that resume at what it pops to.
LEMMA RunGuestLands ==
    ASSUME IInv, NEW cs, Stacked(cs, bound), Len(cs) < MaxDepth,
           NEW f \in Guest, NEW e \in Int, e + 1 + Pops[f] = Level(cs),
           RunGuest(cs, f, e)
    PROVE  Landed
<1>1. CASE Answers(f) /\ Resume(cs, e + 1 + Pops[f])
  BY <1>1, ResumeLands
<1>2. CASE f \in Lifted /\ Enter(cs, Call("body", f, e, Answers(f)))
  <2> DEFINE c == Call("body", f, e, Answers(f))
  <2>1. Answers(f) \in BOOLEAN /\ f \in Function
    BY DEF Answers, Function
  <2>2. c \in Frame /\ c.is = "body" /\ c.of = f /\ c.entry = e /\ c.asked = Answers(f)
    BY <2>1, CallIsFrame
  <2>3. (\E j \in DOMAIN bound : bound[j] = f) => Answers(f)
    BY DEF IInv, Spanned, Answers
  <2> HIDE DEF c
  <2>4. FrameOK(c, bound) /\ Back(c) = Level(cs)
    BY <2>2, <2>3 DEF FrameOK, Back
  <2> QED
    BY <1>2, <2>2, <2>4, EnterLands DEF c
<1>3. CASE f \notin Lifted /\ Stop("unlifted")
  BY <1>3, StopLands DEF IInv, States
<1> QED
  BY <1>1, <1>2, <1>3 DEF RunGuest

\* A handler that left esp where the import pops to, or did not touch it.
LEMMA HleReturnLands ==
    ASSUME IInv, NEW cs, Stacked(cs, bound), NEW i \in Import, NEW e \in Int,
           NEW left \in {e, e + 1 + Pops[i]}, e + 1 + Pops[i] = Level(cs),
           HleReturn(cs, i, e, left)
    PROVE  Landed
<1>1. CASE Purge[i] >= 0 /\ Resume(cs, e + 1 + Purge[i])
  <2>1. Purge[i] = Pops[i]
    BY <1>1, DispatchAssumption
  <2> QED
    BY <1>1, <2>1, ResumeLands
<1>2. CASE Purge[i] < 0 /\ left # e /\ Resume(cs, left)
  BY <1>2, ResumeLands
<1>3. CASE Purge[i] < 0 /\ left = e /\ Stop("unpurged")
  BY <1>3, StopLands DEF IInv, States
<1> QED
  BY <1>1, <1>2, <1>3 DEF HleReturn

LEMMA HleCallLands ==
    ASSUME IInv, NEW cs, Stacked(cs, bound), Len(cs) < MaxDepth,
           NEW i \in Import, NEW e \in Int, e + 1 + Pops[i] = Level(cs),
           HleCall(cs, i, e)
    PROVE  Landed /\ thunks' \subseteq Guest /\ thunks \subseteq thunks'
<1>1. thunks \subseteq Guest /\ Stacked(calls, bound) /\ esp = Level(calls)
  BY DEF IInv
<1>2. Enter(cs, Call("import", i, e, FALSE)) => Landed
  <2> DEFINE c == Call("import", i, e, FALSE)
  <2>1. i \in Function
    BY DEF Function
  <2>2. c \in Frame /\ c.is = "import" /\ c.of = i /\ c.entry = e
    BY <2>1 DEF Call, Frame
  <2> HIDE DEF c
  <2>3. FrameOK(c, bound) /\ Back(c) = Level(cs)
    BY <2>2 DEF FrameOK, Back
  <2>4. Enter(cs, c) => Landed
    BY <2>2, <2>3, EnterLands
  <2> QED
    BY <2>4 DEF c
<1>3. CASE (Stop("unimplemented") \/ Stop("left")) /\ UNCHANGED thunks
  BY <1>1, <1>3, StopLands DEF States
<1>4. CASE Handler[i] = "written" /\ HleReturn(cs, i, e, e) /\ UNCHANGED thunks
  BY <1>1, <1>4, HleReturnLands
<1>5. CASE Handler[i] = "unwinds" /\ HleReturn(cs, i, e, e + 1 + Pops[i]) /\ UNCHANGED thunks
  BY <1>1, <1>5, HleReturnLands
<1>6. CASE Enter(cs, Call("import", i, e, FALSE)) /\ UNCHANGED thunks
  BY <1>1, <1>2, <1>6
<1>7. CASE WrapArgument(cs, i, e)
  <2>1. CASE Enter(cs, Call("import", i, e, FALSE))
             /\ \E f \in Guest : thunks' \in {thunks, thunks \cup {f}}
    BY <1>1, <1>2, <2>1
  <2>2. CASE Stop("thunks spent") /\ UNCHANGED thunks
    BY <1>1, <2>2, StopLands DEF States
  <2> QED
    BY <1>7, <2>1, <2>2 DEF WrapArgument
<1> QED
  BY <1>3, <1>4, <1>5, <1>6, <1>7 DEF HleCall

LEMMA DispatchingLands ==
    ASSUME IInv, NEW cs, Stacked(cs, bound), Len(cs) < MaxDepth,
           NEW a \in Address, NEW e \in Int, e + 1 + Pops[a[2]] = Level(cs),
           Dispatching(cs, a, e)
    PROVE  Landed /\ thunks' \subseteq Guest /\ thunks \subseteq thunks'
<1>0. thunks \subseteq Guest
  BY DEF IInv
<1>1. CASE a[1] = "import" /\ HleCall(cs, a[2], e)
  <2>1. a[2] \in Import
    BY <1>1 DEF Address
  <2> QED
    BY <1>1, <2>1, HleCallLands
<1>2. CASE a[1] \in {"thunk", "guest"} /\ RunGuest(cs, a[2], e) /\ UNCHANGED thunks
  <2>1. a[2] \in Guest
    BY <1>0, <1>2 DEF Address
  <2> QED
    BY <1>0, <1>2, <2>1, RunGuestLands
<1>3. CASE a[1] = "host" /\ Enter(cs, Call("real", a[2], e, FALSE)) /\ UNCHANGED thunks
  <2> DEFINE c == Call("real", a[2], e, FALSE)
  <2>1. a[2] \in Function
    BY <1>3 DEF Address, Function
  <2>2. c \in Frame /\ c.is = "real" /\ c.of = a[2] /\ c.entry = e
    BY <2>1 DEF Call, Frame
  <2> HIDE DEF c
  <2>3. FrameOK(c, bound) /\ Back(c) = Level(cs)
    BY <2>2 DEF FrameOK, Back
  <2>4. Enter(cs, c) => Landed
    BY <2>2, <2>3, EnterLands
  <2> QED
    BY <1>0, <1>3, <2>4 DEF c
<1> QED
  BY <1>1, <1>2, <1>3 DEF Dispatching

\* Real code calls into the guest: the crossing is pushed, and the function
\* behind it runs on the arena.
LEMMA CrossLands ==
    ASSUME IInv, Len(calls) + 1 < MaxDepth, NEW f \in Guest, Cross(f)
    PROVE  Landed
<1> DEFINE c  == Call("invoke", f, Pushed(f, esp), FALSE)
           cs == Append(calls, c)
<1>1. f \in Function /\ Pops[f] \in Nat /\ esp \in Int /\ esp = Level(calls)
  BY PopsIsNat, LevelIsInt DEF IInv, Function
<1>2. Pushed(f, esp) \in Int /\ Pushed(f, esp) + 1 + Pops[f] = Level(calls)
  BY <1>1 DEF Pushed
<1>3. c \in Frame /\ c.is = "invoke" /\ c.of = f /\ c.entry = Pushed(f, esp)
  BY <1>1, <1>2 DEF Call, Frame
<1> HIDE DEF c
<1>4. FrameOK(c, bound) /\ Back(c) = Level(calls) /\ ResumesAt(c) = 1 + Pops[f]
  BY <1>2, <1>3 DEF FrameOK, Back, ResumesAt
<1>5. Len(calls) \in Nat /\ MaxDepth \in Nat
  BY LenProperties, DispatchAssumption DEF IInv, Stacked
<1>6. Stacked(cs, bound) /\ Level(cs) = 1 + Pops[f] /\ Len(cs) < MaxDepth
  BY <1>3, <1>4, <1>5, PushStacked DEF IInv
<1>7. RunGuest(cs, f, 0)
  BY DEF Cross, c
<1> HIDE DEF cs
<1> QED
  BY <1>1, <1>6, <1>7, RunGuestLands

\* What a step that calls or returns owes the invariant.
LEMMA LandedKeepsIInv ==
    ASSUME IInv, Landed, UNCHANGED setupVars,
           thunks' \subseteq Guest, thunks \subseteq thunks',
           cached' \subseteq thunks' \cap Lifted, Cardinality(cached') <= CacheSize
    PROVE  IInv'
  BY DEF IInv, Landed, setupVars, Spanned, Stacked, Level, FrameOK, Back, ResumesAt, States

LEMMA LandedAloneKeepsIInv ==
    ASSUME IInv, Landed, UNCHANGED <<setupVars, thunks, cached>>
    PROVE  IInv'
<1>1. thunks' \subseteq Guest /\ cached' \subseteq thunks' \cap Lifted
      /\ Cardinality(cached') <= CacheSize /\ UNCHANGED setupVars
  BY DEF IInv
<1> QED
  BY <1>1, LandedKeepsIInv

-----------------------------------------------------------------------------
(***************************************************************************)
(* The innermost call, by what it is.                                      *)
(***************************************************************************)
LEMMA TopOf ==
    ASSUME IInv, calls # <<>>
    PROVE  /\ Stacked(Callers, bound) /\ Len(Callers) < MaxDepth
           /\ Top \in Frame /\ FrameOK(Top, bound)
           /\ Back(Top) = Level(Callers) /\ esp = ResumesAt(Top)
           /\ Top.of \in Function /\ Pops[Top.of] \in Nat /\ Top.entry \in Int
<1>1. Stacked(calls, bound) /\ esp = Level(calls)
  BY DEF IInv
<1>2. Len(calls) # 0
  BY <1>1, EmptySeq DEF Stacked
<1>3. Top \in Frame /\ FrameOK(Top, bound) /\ Stacked(Callers, bound)
      /\ Len(Callers) < MaxDepth /\ Back(Top) = Level(Callers)
  BY <1>1, PopStacked DEF Top, Callers
<1>4. esp = ResumesAt(Top)
  BY <1>1, <1>2 DEF Level, Top
<1>5. Top.of \in Function /\ Top.entry \in Int
  BY <1>3 DEF Frame
<1> QED
  BY <1>3, <1>4, <1>5, PopsIsNat

LEMMA BodyAt ==
    ASSUME IInv, Runs({"body"})
    PROVE  esp = Top.entry /\ esp \in Int /\ Top.of \in Guest
           /\ esp + 1 + Pops[Top.of] = Level(Callers)
<1>1. calls # <<>> /\ Top.is = "body"
  BY DEF Runs
<1> QED
  BY <1>1, TopOf DEF ResumesAt, Back, FrameOK

LEMMA ImportAt ==
    ASSUME IInv, Runs({"import"})
    PROVE  esp = Top.entry /\ esp \in Int /\ Top.of \in Import
           /\ esp + 1 + Pops[Top.of] = Level(Callers)
<1>1. calls # <<>> /\ Top.is = "import"
  BY DEF Runs
<1> QED
  BY <1>1, TopOf DEF ResumesAt, Back, FrameOK

-----------------------------------------------------------------------------
(***************************************************************************)
(* Every step keeps the invariant.                                         *)
(***************************************************************************)
LEMMA InitIInv == Init => IInv
<1> SUFFICES ASSUME Init PROVE IInv
  OBVIOUS
<1>1. /\ bound \in Seq(Guest) /\ Len(bound) = 0 /\ calls \in Seq(Frame) /\ Len(calls) = 0
  BY EmptySeq DEF Init
<1>2. DOMAIN bound = {}
  BY <1>1, LenProperties
<1>3. Cardinality(cached) = 0
  BY FS_EmptySet DEF Init
<1>4. Stacked(calls, bound) /\ esp = Level(calls)
  BY <1>1, DispatchAssumption DEF Stacked, Level, Init
<1> QED
  BY <1>1, <1>2, <1>3, <1>4, DispatchAssumption DEF Init, IInv, Spanned, States

LEMMA BindKeeps == ASSUME IInv, NEW f \in Guest, Bind(f) PROVE IInv'
<1>1. calls = <<>> /\ Len(calls) = 0
  BY EmptySeq DEF Bind, IInv
<1>2. /\ bound' \in Seq(Guest) /\ Len(bound') = Len(bound) + 1 /\ Len(bound) \in Nat
      /\ \A j \in 1 .. Len(bound) : bound'[j] = bound[j]
      /\ bound'[Len(bound) + 1] = f
  BY AppendProperties, LenProperties DEF IInv, Bind
<1>3. f \in 1 .. Highest /\ f \in Int /\ Highest \in Nat /\ lo \in Int /\ hi \in Int
  BY DispatchAssumption DEF IInv
<1>4. lo' \in 0 .. Highest /\ hi' \in 0 .. Highest
      /\ lo' <= lo /\ lo' <= f /\ hi <= hi' /\ f <= hi'
  BY <1>3 DEF Bind, IInv
<1>5. Spanned'
  <2> SUFFICES ASSUME NEW j \in DOMAIN bound' PROVE lo' <= bound'[j] /\ bound'[j] <= hi'
    BY DEF Spanned
  <2>1. j \in 1 .. Len(bound) + 1 /\ DOMAIN bound = 1 .. Len(bound)
    BY <1>2, LenProperties DEF IInv
  <2>2. CASE j = Len(bound) + 1
    BY <2>2, <1>2, <1>4
  <2>3. CASE j \in 1 .. Len(bound)
    <3>1. bound[j] \in Guest
      BY <2>3, ElementOfSeq DEF IInv
    <3>2. bound[j] \in Int
      BY <3>1, GuestIsInt
    <3>3. lo <= bound[j] /\ bound[j] <= hi
      BY <2>1, <2>3 DEF IInv, Spanned
    <3>4. bound'[j] = bound[j]
      BY <2>3, <1>2
    <3> QED
      BY <3>2, <3>3, <3>4, <1>3, <1>4
  <2> QED
    BY <2>1, <2>2, <2>3, <1>2
<1>6. Stacked(calls, bound') /\ esp = Level(calls)
  BY <1>1 DEF IInv, Stacked
<1>7. UNCHANGED <<planted, thunks, cached, calls, esp, state>>
  BY DEF Bind, callVars
<1>8. Len(bound') <= Bindings
  BY <1>2, DispatchAssumption DEF Bind
<1>9. Stacked(calls, bound)' /\ (esp = Level(calls))'
  BY <1>6, <1>7 DEF Stacked, Level, FrameOK, Back, ResumesAt
<1> QED
  BY <1>2, <1>4, <1>5, <1>7, <1>8, <1>9 DEF IInv, States

LEMMA PlantKeeps == ASSUME IInv, NEW f \in Guest, Plant(f) PROVE IInv'
<1>1. UNCHANGED <<bound, lo, hi, cached, calls, esp>> /\ calls = <<>>
  BY DEF Plant, callVars, Stop, IInv
<1>2. thunks' \subseteq Guest /\ planted' \subseteq thunks' /\ thunks \subseteq thunks'
  BY DEF Plant, IInv
<1>3. state' \in States
  BY DEF Plant, callVars, Stop, IInv, States
<1> QED
  BY <1>1, <1>2, <1>3 DEF IInv, Spanned, Stacked, Level, FrameOK, Back, ResumesAt

LEMMA StartKeeps == ASSUME IInv, Start PROVE IInv'
<1>1. calls = <<>> /\ Len(calls) = 0 /\ Stacked(calls, bound) /\ esp = 0
  BY EmptySeq DEF Start, IInv, Level
<1>2. Entry \in Guest /\ Entry \in Function /\ Pops[Entry] = 0
  BY DispatchAssumption DEF Function
<1>3. Pushed(Entry, esp) \in Int /\ Pushed(Entry, esp) + 1 + Pops[Entry] = Level(calls)
  BY <1>1, <1>2 DEF Pushed, Level
<1>4. CASE Len(calls) < MaxDepth
  <2>1. Landed
    BY <1>1, <1>2, <1>3, <1>4, RunGuestLands DEF Start
  <2> QED
    BY <2>1, LandedAloneKeepsIInv DEF Start
<1> QED
  BY <1>1, <1>4, DispatchAssumption

LEMMA DirectCallKeeps == ASSUME IInv, NEW f \in Guest, DirectCall(f) PROVE IInv'
<1>1. esp \in Int /\ Pops[f] \in Nat /\ esp = Level(calls) /\ Stacked(calls, bound)
  BY BodyAt, PopsIsNat DEF DirectCall, IInv, Function
<1>2. Pushed(f, esp) \in Int /\ Pushed(f, esp) + 1 + Pops[f] = Level(calls)
  BY <1>1 DEF Pushed
<1>3. Landed
  BY <1>1, <1>2, RunGuestLands DEF DirectCall, Shallow
<1> QED
  BY <1>3, LandedAloneKeepsIInv DEF DirectCall

LEMMA AddressIsOfFunction ==
    ASSUME IInv, NEW a \in Address PROVE Pops[a[2]] \in Nat
<1>1. a[2] \in Function
  BY DEF Address, Function, IInv
<1> QED
  BY <1>1, PopsIsNat

LEMMA IndirectCallKeeps == ASSUME IInv, NEW a \in Address, IndirectCall(a) PROVE IInv'
<1>1. esp \in Int /\ Pops[a[2]] \in Nat /\ esp = Level(calls) /\ Stacked(calls, bound)
  BY BodyAt, AddressIsOfFunction DEF IndirectCall, IInv
<1>2. Pushed(a[2], esp) \in Int /\ Pushed(a[2], esp) + 1 + Pops[a[2]] = Level(calls)
  BY <1>1 DEF Pushed
<1>3. Landed /\ thunks' \subseteq Guest /\ thunks \subseteq thunks'
  BY <1>1, <1>2, DispatchingLands DEF IndirectCall, Shallow
<1>4. UNCHANGED setupVars /\ cached' \subseteq thunks' \cap Lifted /\ Cardinality(cached') <= CacheSize
  BY <1>3 DEF IndirectCall, IInv
<1> QED
  BY <1>3, <1>4, LandedKeepsIInv

LEMMA TailCallKeeps == ASSUME IInv, NEW a \in Address, TailCall(a) PROVE IInv'
<1>1. calls # <<>>
  BY DEF TailCall, Runs
<1>2. esp \in Int /\ esp + 1 + Pops[a[2]] = Level(Callers)
  BY BodyAt DEF TailCall
<1>3. Landed /\ thunks' \subseteq Guest /\ thunks \subseteq thunks'
  BY <1>1, <1>2, TopOf, DispatchingLands DEF TailCall
<1>4. UNCHANGED setupVars /\ cached' \subseteq thunks' \cap Lifted /\ Cardinality(cached') <= CacheSize
  BY <1>3 DEF TailCall, IInv
<1> QED
  BY <1>3, <1>4, LandedKeepsIInv

LEMMA BodyReturnKeeps == ASSUME IInv, BodyReturn PROVE IInv'
<1>1. calls # <<>> /\ Resume(Callers, Level(Callers))
  BY BodyAt DEF BodyReturn, Runs
<1>2. Landed
  BY <1>1, TopOf, ResumeLands
<1> QED
  BY <1>2, LandedAloneKeepsIInv DEF BodyReturn

\* Advancing _initterm changes neither what its frame returns to nor where
\* it resumes.
LEMMA InitNextKeeps == ASSUME IInv, InitNext PROVE IInv'
<1> DEFINE c  == [Top EXCEPT !.next = @ + 1]
           cs == Append(Callers, c)
           f  == InitTable[Top.next]
<1>1. calls # <<>> /\ Runs({"import"}) /\ Top.is = "import"
  BY DEF InitNext, Runs
<1>2. c \in Frame /\ c.is = Top.is /\ c.of = Top.of /\ c.entry = Top.entry
  BY <1>1, TopOf DEF Frame
<1>3. Top.next \in Nat \ {0}
  BY <1>1, TopOf DEF Frame
<1> HIDE DEF c
<1>4. FrameOK(c, bound) /\ Back(c) = Level(Callers) /\ ResumesAt(c) = esp
  BY <1>1, <1>2, TopOf DEF FrameOK, Back, ResumesAt
<1>5. Stacked(cs, bound) /\ Level(cs) = esp /\ Len(cs) = Len(Callers) + 1
  BY <1>1, <1>2, <1>4, TopOf, PushStacked
<1>6. Len(cs) < MaxDepth
  <2>1. Len(Callers) = Len(calls) - 1
    BY <1>1, PopStacked DEF IInv, Callers
  <2>2. Len(calls) \in Nat /\ Len(calls) < MaxDepth
    BY LenProperties DEF IInv, Stacked, InitNext, Shallow
  <2> QED
    BY <1>5, <2>1, <2>2
<1>7. f \in Guest /\ f \in Function /\ Pops[f] = 0
  <2>1. Top.next \in 1 .. Len(InitTable)
    BY <1>3, LenProperties, DispatchAssumption DEF InitNext
  <2>2. f \in Guest
    BY <2>1, ElementOfSeq, DispatchAssumption
  <2> QED
    BY <2>1, <2>2, DispatchAssumption DEF Function
<1>8. esp \in Int /\ esp - 1 \in Int /\ esp - 1 + 1 + Pops[f] = Level(cs)
  BY <1>1, <1>5, <1>7, ImportAt
<1>9. RunGuest(cs, f, esp - 1)
  BY DEF InitNext, c
<1> HIDE DEF cs, f
<1>10. Landed
  BY <1>5, <1>6, <1>7, <1>8, <1>9, RunGuestLands
<1> QED
  BY <1>10, LandedAloneKeepsIInv DEF InitNext

LEMMA InitEndKeeps == ASSUME IInv, InitEnd PROVE IInv'
<1>1. calls # <<>> /\ Runs({"import"})
  BY DEF InitEnd, Runs
<1>2. HleReturn(Callers, Top.of, Top.entry, Top.entry)
  BY <1>1, ImportAt DEF InitEnd
<1>3. Landed
  BY <1>1, <1>2, ImportAt, TopOf, HleReturnLands
<1> QED
  BY <1>3, LandedAloneKeepsIInv DEF InitEnd

LEMMA RealCallsThunkKeeps == ASSUME IInv, NEW f \in Guest, RealCallsThunk(f) PROVE IInv'
<1>1. Landed
  BY CrossLands DEF RealCallsThunk
<1> QED
  BY <1>1, LandedAloneKeepsIInv DEF RealCallsThunk

\* The cache grows only where it has room.
LEMMA RealCallsGuestKeeps == ASSUME IInv, NEW f \in Guest, RealCallsGuest(f) PROVE IInv'
<1>1. UNCHANGED setupVars /\ Stacked(calls, bound) /\ esp = Level(calls)
  BY DEF RealCallsGuest, IInv
<1>2. Cross(f) => Landed
  BY CrossLands DEF RealCallsGuest
<1>3. \A why \in States \ {"setup"} : Stop(why) => Landed
  BY <1>1, StopLands
<1>4. CASE (Cross(f) \/ Stop("ran guest bytes") \/ Stop("thunks spent") \/ Stop("faulted"))
           /\ UNCHANGED <<thunks, cached>>
  <2>1. Landed
    BY <1>2, <1>3, <1>4 DEF States
  <2> QED
    BY <1>1, <1>4, <2>1, LandedAloneKeepsIInv
<1>5. CASE /\ f \in Lifted /\ Cacheable(f) /\ Cross(f)
           /\ thunks' = thunks \cup {f} /\ cached' = cached \cup {f}
  <2>1. cached \subseteq Guest /\ IsFiniteSet(cached)
    BY FS_Subset, DispatchAssumption DEF IInv
  <2>2. Cardinality(cached') <= CacheSize
    <3>1. CASE f \in cached
      <4>1. cached' = cached
        BY <1>5, <3>1
      <4> QED
        BY <4>1 DEF IInv
    <3>2. CASE f \notin cached
      <4>1. Cardinality(cached') = Cardinality(cached) + 1 /\ Cardinality(cached) \in Nat
        BY <1>5, <2>1, <3>2, FS_AddElement, FS_CardinalityType
      <4>2. Cardinality(cached) < CacheSize /\ CacheSize \in Nat
        BY <1>5, <3>2, DispatchAssumption DEF Cacheable
      <4> QED
        BY <4>1, <4>2
    <3> QED
      BY <3>1, <3>2
  <2>3. thunks' \subseteq Guest /\ thunks \subseteq thunks' /\ cached' \subseteq thunks' \cap Lifted
    BY <1>5 DEF IInv
  <2> QED
    BY <1>1, <1>2, <1>5, <2>2, <2>3, LandedKeepsIInv
<1> QED
  BY <1>4, <1>5 DEF RealCallsGuest

\* The arena's level is one slot and what the function popped, so `cleaned'
\* is exactly its arguments.
LEMMA InvokeReturnKeeps == ASSUME IInv, InvokeReturn PROVE IInv'
<1>1. calls # <<>> /\ Top.is = "invoke"
  BY DEF InvokeReturn, Runs
<1>2. esp = 1 + Pops[Top.of] /\ Pops[Top.of] \in Nat /\ Top.entry \in Int
      /\ Top.entry + 1 + Pops[Top.of] = Level(Callers)
  BY <1>1, TopOf DEF ResumesAt, Back
<1>3. (IF esp >= 1 THEN esp - 1 ELSE 0) = Pops[Top.of]
  BY <1>2
<1>4. Resume(Callers, Level(Callers))
  BY <1>2, <1>3 DEF InvokeReturn
<1>5. Landed
  BY <1>1, <1>4, TopOf, ResumeLands
<1> QED
  BY <1>5, LandedAloneKeepsIInv DEF InvokeReturn

LEMMA RealReturnKeeps == ASSUME IInv, RealReturn PROVE IInv'
<1>1. calls # <<>> /\ Stacked(Callers, bound) /\ Len(Callers) < MaxDepth
  BY TopOf DEF RealReturn, RealRuns, Runs
<1>2. CASE Top.is = "real" /\ Resume(Callers, esp + 1 + Pops[Top.of])
  <2>1. esp + 1 + Pops[Top.of] = Level(Callers)
    BY <1>1, <1>2, TopOf DEF ResumesAt, Back
  <2>2. Landed
    BY <1>1, <1>2, <2>1, ResumeLands
  <2> QED
    BY <2>2, LandedAloneKeepsIInv DEF RealReturn
<1>3. CASE Top.is = "import" /\ HleReturn(Callers, Top.of, Top.entry, esp + 1 + Pops[Top.of])
  <2>1. Runs({"import"})
    BY <1>3 DEF RealReturn, RealRuns, Runs
  <2>2. HleReturn(Callers, Top.of, Top.entry, Top.entry + 1 + Pops[Top.of])
    BY <1>3, <2>1, ImportAt
  <2>3. Landed
    BY <1>1, <2>1, <2>2, ImportAt, HleReturnLands
  <2> QED
    BY <2>3, LandedAloneKeepsIInv DEF RealReturn
<1> QED
  BY <1>2, <1>3 DEF RealReturn

LEMMA EndKeeps == ASSUME IInv, End PROVE IInv'
<1>1. UNCHANGED <<bound, lo, hi, planted, thunks, cached, calls, esp>>
      /\ calls = <<>> /\ state' \in States
  BY DEF End, setupVars, States
<1> QED
  BY <1>1 DEF IInv, Spanned, Stacked, Level, FrameOK, Back, ResumesAt

LEMMA NextIInv == IInv /\ [Next]_vars => IInv'
<1> SUFFICES ASSUME IInv, [Next]_vars PROVE IInv'
  OBVIOUS
<1>1. CASE Start  BY <1>1, StartKeeps
<1>2. CASE BodyReturn  BY <1>2, BodyReturnKeeps
<1>3. CASE InitNext  BY <1>3, InitNextKeeps
<1>4. CASE InitEnd  BY <1>4, InitEndKeeps
<1>5. CASE InvokeReturn  BY <1>5, InvokeReturnKeeps
<1>6. CASE RealReturn  BY <1>6, RealReturnKeeps
<1>7. CASE End  BY <1>7, EndKeeps
<1>8. ASSUME NEW f \in Guest,
             Bind(f) \/ Plant(f) \/ DirectCall(f) \/ RealCallsThunk(f) \/ RealCallsGuest(f)
      PROVE  IInv'
  BY <1>8, BindKeeps, PlantKeeps, DirectCallKeeps, RealCallsThunkKeeps, RealCallsGuestKeeps
<1>9. ASSUME NEW a \in Address, IndirectCall(a) \/ TailCall(a) PROVE IInv'
  BY <1>9, IndirectCallKeeps, TailCallKeeps
<1>10. CASE UNCHANGED vars
  BY <1>10 DEF vars, setupVars, callVars, IInv, Spanned, Stacked, Level, FrameOK, Back, ResumesAt
<1> QED
  BY <1>1, <1>2, <1>3, <1>4, <1>5, <1>6, <1>7, <1>8, <1>9, <1>10 DEF Next

LEMMA AlwaysIInv == Spec => []IInv
  BY InitIInv, NextIInv, PTL DEF Spec

-----------------------------------------------------------------------------
(***************************************************************************)
(* The properties.                                                         *)
(***************************************************************************)
\* Neither the bindings nor the thunk cache outgrow their tables, and every
\* call in progress is of a function there is (dispatch.c, crash.c).
THEOREM CallsTyped == Spec => []TypeOK
<1>1. IInv => TypeOK
  <2> SUFFICES ASSUME IInv PROVE TypeOK
    OBVIOUS
  <2>1. esp \in Int
    BY LevelIsInt DEF IInv
  <2> QED
    BY <2>1 DEF IInv, TypeOK, Stacked, States
<1> QED
  BY <1>1, AlwaysIInv, PTL

\* es3_bind_guest's promise: whichever way a bound function is reached, its
\* own body runs only when the handler declined (dispatch.c:312-328).
THEOREM BindingsAsked == Spec => []BoundAnswered
<1>1. IInv => BoundAnswered
  BY LenProperties DEF IInv, BoundAnswered, Stacked, FrameOK
<1> QED
  BY <1>1, AlwaysIInv, PTL

\* The guest stack survives every call: hle_call's frame, ret N, tail calls
\* and the crossings agree on what was popped (hle.c:124-134).
THEOREM StackBalanced == Spec => []Balanced
<1>1. IInv => Balanced
  <2> SUFFICES ASSUME IInv PROVE Balanced
    OBVIOUS
  <2>1. calls \in Seq(Frame) /\ (calls = <<>> <=> Len(calls) = 0)
    BY EmptySeq DEF IInv, Stacked
  <2> QED
    BY <2>1 DEF IInv, Balanced, Level, Top
<1> QED
  BY <1>1, AlwaysIInv, PTL
=============================================================================
