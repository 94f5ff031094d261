------------------------------ MODULE Dispatch ------------------------------
(***************************************************************************)
(* One guest thread's calls: which code a call reaches, and where it       *)
(* leaves the guest stack.  A call site names an address; dispatch() takes *)
(* it for an import's sentinel, a thunk, a guest function or real code,    *)
(* and DCALL() is the shorter way the driver makes of a direct call.  Real *)
(* code calls back: through a thunk, through a jump planted in the guest   *)
(* image, or straight into that image, which faults.                       *)
(*                                                                         *)
(* esp counts words and falls with every push.  What a body pushes for     *)
(* itself lies below what it calls and is gone when it returns, so it is   *)
(* left out: between its calls esp is what it was at entry.  A callee pops *)
(* its return address and Pops words of arguments.  hybrid's arena is a    *)
(* stack of its own at every crossing, numbered from zero.  The other      *)
(* threads only make `thunks' and `cached' grow, as RealCallsGuest does.   *)
(***************************************************************************)
EXTENDS Integers, Sequences, FiniteSets

CONSTANTS
    Guest,       \* addresses of functions in the guest image
    Lifted,      \* those with a lifted body
    Import,      \* entries of the import table
    Native,      \* real functions the game holds by address
    Highest,     \* 0xFFFFFFFF
    Pops,        \* the argument words a function pops
    Purge,       \* g_purge, in words: -1 where it could not be derived
    Handler,     \* what g_hle_handlers holds for an import
    InitTable,   \* what _initterm is given, without its null entries
    Page,        \* the page a guest function is on
    Bindings,    \* GUEST_HLE_MAX
    CacheSize,   \* THUNK_CACHE
    Entry,       \* where the host starts the game
    MaxDepth     \* the bound on calls within calls

Function == Guest \cup Import \cup Native
Initialisers == {"initterm", "initterm_e"}
Kinds == {"native", "wraps", "written", "unwinds", "leaves", "none"} \cup Initialisers

ASSUME DispatchAssumption ==
    /\ Highest \in Nat \ {0} /\ Guest \subseteq 1 .. Highest /\ Lifted \subseteq Guest
    /\ Import \cap Guest = {} /\ Native \cap (Guest \cup Import) = {}
    /\ IsFiniteSet(Guest)
    /\ Pops \in [Function -> Nat]
    /\ Purge \in [Import -> Nat \cup {-1}]
    /\ \A i \in Import : Purge[i] \in {Pops[i], -1}
    /\ Handler \in [Import -> Kinds]
    /\ InitTable \in Seq(Guest) /\ \A k \in 1 .. Len(InitTable) : Pops[InitTable[k]] = 0
    /\ \A i \in Import : Handler[i] \in Initialisers => Pops[i] = 0
    /\ Bindings \in Nat /\ CacheSize \in Nat
    /\ Entry \in Guest /\ Pops[Entry] = 0 /\ MaxDepth \in Nat \ {0}

VARIABLES
    bound,       \* g_guest_hle
    lo, hi,      \* es3_guest_hle_lo, es3_guest_hle_hi
    thunks,      \* the guest functions hybrid has a thunk for
    cached,      \* those in g_thunks
    planted,     \* those with a jump to their thunk written over them
    calls,       \* the calls this thread is in, the innermost last
    esp,         \* the guest stack pointer
    state        \* "setup", "runs", "ended", or why the thread stopped

setupVars == <<bound, lo, hi, planted>>
callVars  == <<calls, esp, state>>
vars      == <<setupVars, thunks, cached, callVars>>

(***************************************************************************)
(* A call in progress: what runs, of which function, esp at its entry (for *)
(* a crossing, the real caller's esp), whether a binding was asked first,  *)
(* and how far _initterm has come.                                         *)
(***************************************************************************)
Frame == [is : {"body", "import", "real", "invoke"}, of : Function,
          entry : Int, asked : BOOLEAN, next : Nat \ {0}]

Call(is, f, e, asked) == [is |-> is, of |-> f, entry |-> e, asked |-> asked, next |-> 1]

Top == calls[Len(calls)]
Callers == SubSeq(calls, 1, Len(calls) - 1)
Address == ({"guest"} \X Guest) \cup ({"thunk"} \X thunks)
             \cup ({"import"} \X Import) \cup ({"host"} \X Native)

\* esp as a function finds it that is called at e.
Pushed(f, e) == e - Pops[f] - 1

Enter(cs, call) == calls' = Append(cs, call) /\ esp' = call.entry /\ state' = "runs"
Resume(cs, e)   == calls' = cs /\ esp' = e /\ state' = "runs"
Stop(why)       == state' = why /\ UNCHANGED <<calls, esp>>

-----------------------------------------------------------------------------
Init == /\ bound = <<>> /\ lo = Highest /\ hi = 0
        /\ thunks = {} /\ cached = {} /\ planted = {}
        /\ calls = <<>> /\ esp = 0 /\ state = "setup"

\* The title's host.c answers a guest function itself.
Bind(f) ==
    /\ state = "setup" /\ Len(bound) < Bindings
    /\ bound' = Append(bound, f)
    /\ lo' = IF f < lo THEN f ELSE lo
    /\ hi' = IF f > hi THEN f ELSE hi
    /\ UNCHANGED <<planted, thunks, cached, callVars>>

\* And makes one callable by a library that looks at the page first.  When
\* the page cannot be made writable only the thunk is left.
Plant(f) ==
    /\ state = "setup"
    /\ \/ /\ thunks' = thunks \cup {f} /\ planted' \in {planted, planted \cup {f}}
          /\ UNCHANGED callVars
       \/ Stop("thunks spent") /\ UNCHANGED <<thunks, planted>>
    /\ UNCHANGED <<bound, lo, hi, cached>>

\* es3_guest_hle_run() finds a handler, when the span lets it look.
Answers(f) == lo <= f /\ f <= hi /\ \E k \in DOMAIN bound : bound[k] = f

\* A handler that answers unwinds as the function would; one that does not
\* leaves esp alone and the function runs.
RunGuest(cs, f, e) ==
    \/ Answers(f) /\ Resume(cs, e + 1 + Pops[f])
    \/ f \in Lifted /\ Enter(cs, Call("body", f, e, Answers(f)))
    \/ f \notin Lifted /\ Stop("unlifted")

(***************************************************************************)
(* Imports.                                                                *)
(***************************************************************************)
\* The table taken for what is left to pop, as if no handler ever unwound.
HleReturnAdjusting(cs, i, e, left) ==
    \/ Purge[i] >= 0 /\ Resume(cs, left + 1 + Purge[i])
    \/ Purge[i] < 0 /\ left # e /\ Resume(cs, left)
    \/ Purge[i] < 0 /\ left = e /\ Stop("unpurged")

\* After the handler: the table says where esp is, or else the handler must
\* have moved it.
HleReturn(cs, i, e, left) ==
    \/ Purge[i] >= 0 /\ Resume(cs, e + 1 + Purge[i])
    \/ Purge[i] < 0 /\ left # e /\ Resume(cs, left)
    \/ Purge[i] < 0 /\ left = e /\ Stop("unpurged")

\* A guest pointer in the arguments is replaced by its thunk.
WrapArgument(cs, i, e) ==
    \/ Enter(cs, Call("import", i, e, FALSE)) /\ \E f \in Guest : thunks' \in {thunks, thunks \cup {f}}
    \/ Stop("thunks spent") /\ UNCHANGED thunks

HleCall(cs, i, e) ==
    \/ Handler[i] = "none" /\ Stop("unimplemented") /\ UNCHANGED thunks
    \/ Handler[i] = "leaves" /\ Stop("left") /\ UNCHANGED thunks
    \/ Handler[i] = "written" /\ HleReturn(cs, i, e, e) /\ UNCHANGED thunks
    \/ Handler[i] = "unwinds" /\ HleReturn(cs, i, e, e + 1 + Pops[i]) /\ UNCHANGED thunks
    \/ Handler[i] \in {"native"} \cup Initialisers
         /\ Enter(cs, Call("import", i, e, FALSE)) /\ UNCHANGED thunks
    \/ Handler[i] = "wraps" /\ WrapArgument(cs, i, e)

-----------------------------------------------------------------------------
(***************************************************************************)
(* Calls the lifted code makes.                                            *)
(***************************************************************************)
\* The order dispatch_inner() once had: bindings looked up before the thunk.
DispatchingBoundFirst(cs, a, e) ==
    \/ a[1] = "import" /\ HleCall(cs, a[2], e)
    \/ a[1] = "guest" /\ RunGuest(cs, a[2], e) /\ UNCHANGED thunks
    \/ a[1] = "thunk" /\ a[2] \in Lifted
         /\ Enter(cs, Call("body", a[2], e, FALSE)) /\ UNCHANGED thunks
    \/ a[1] = "host" /\ Enter(cs, Call("real", a[2], e, FALSE)) /\ UNCHANGED thunks

\* A thunk's address is taken for the function behind it before anything
\* else is asked of it.
Dispatching(cs, a, e) ==
    \/ a[1] = "import" /\ HleCall(cs, a[2], e)
    \/ a[1] \in {"thunk", "guest"} /\ RunGuest(cs, a[2], e) /\ UNCHANGED thunks
    \/ a[1] = "host" /\ Enter(cs, Call("real", a[2], e, FALSE)) /\ UNCHANGED thunks

Runs(kinds) == state = "runs" /\ calls # <<>> /\ Top.is \in kinds
Shallow     == Len(calls) < MaxDepth

\* The host pushes a return address and dispatches the game's entry.
Start ==
    /\ state = "setup" /\ RunGuest(<<>>, Entry, Pushed(Entry, esp))
    /\ UNCHANGED <<setupVars, thunks, cached>>

DirectCall(f) ==
    /\ Runs({"body"}) /\ Shallow /\ f \in Lifted
    /\ RunGuest(calls, f, Pushed(f, esp))
    /\ UNCHANGED <<setupVars, thunks, cached>>

IndirectCall(a) ==
    /\ Runs({"body"}) /\ Shallow
    /\ Dispatching(calls, a, Pushed(a[2], esp))
    /\ UNCHANGED <<setupVars, cached>>

\* The compiler jumps only to a function that pops what its caller would.
TailCall(a) ==
    /\ Runs({"body"}) /\ Pops[a[2]] = Pops[Top.of]
    /\ Dispatching(Callers, a, esp)
    /\ UNCHANGED <<setupVars, cached>>

\* ret N
BodyReturn ==
    /\ Runs({"body"})
    /\ Resume(Callers, esp + 1 + Pops[Top.of])
    /\ UNCHANGED <<setupVars, thunks, cached>>

InitNext ==
    /\ Runs({"import"}) /\ Handler[Top.of] \in Initialisers
    /\ Shallow /\ Top.next <= Len(InitTable)
    /\ LET f  == InitTable[Top.next]
           cs == Append(Callers, [Top EXCEPT !.next = @ + 1])
       IN  RunGuest(cs, f, esp - 1)
    /\ UNCHANGED <<setupVars, thunks, cached>>

\* At the table's end, or after an initialiser that reports an error.
InitEnd ==
    /\ Runs({"import"})
    /\ \/ Handler[Top.of] \in Initialisers /\ Top.next > Len(InitTable)
       \/ Handler[Top.of] = "initterm_e" /\ Top.next > 1
    /\ HleReturn(Callers, Top.of, Top.entry, esp)
    /\ UNCHANGED <<setupVars, thunks, cached>>

-----------------------------------------------------------------------------
(***************************************************************************)
(* What real code does: an import forwarded to its DLL, or a function the  *)
(* game holds the address of.                                              *)
(***************************************************************************)
RealRuns == \/ Runs({"real"})
            \/ Runs({"import"}) /\ Handler[Top.of] \in {"native", "wraps"}

\* A thunk puts a frame on the arena and dispatches the function behind it.
Cross(f) ==
    RunGuest(Append(calls, Call("invoke", f, Pushed(f, esp), FALSE)), f, 0)

RealCallsThunk(f) ==
    /\ RealRuns /\ Len(calls) + 1 < MaxDepth
    /\ f \in thunks /\ Cross(f)
    /\ UNCHANGED <<setupVars, thunks, cached>>

CacheableAlways(f) == TRUE
Cacheable(f) == f \in cached \/ Cardinality(cached) < CacheSize

\* The guest address itself: the planted jump; the original bytes, where a
\* stub made the page executable; or a fault, sent through a thunk if the
\* function is lifted and the cache has room.
RealCallsGuest(f) ==
    /\ RealRuns /\ Len(calls) + 1 < MaxDepth
    /\ \/ f \in planted /\ Cross(f) /\ UNCHANGED <<thunks, cached>>
       \/ /\ f \notin planted /\ \E g \in planted : Page[g] = Page[f]
          /\ Stop("ran guest bytes") /\ UNCHANGED <<thunks, cached>>
       \/ /\ \A g \in planted : Page[g] # Page[f]
          /\ \/ /\ f \in Lifted /\ Cacheable(f) /\ Cross(f)
                /\ thunks' = thunks \cup {f} /\ cached' = cached \cup {f}
             \/ /\ f \in Lifted /\ f \notin cached /\ Cacheable(f)
                /\ Stop("thunks spent") /\ UNCHANGED <<thunks, cached>>
             \/ /\ ~ (f \in Lifted /\ Cacheable(f))
                /\ Stop("faulted") /\ UNCHANGED <<thunks, cached>>
    /\ UNCHANGED setupVars

\* The lifted function is back: what it popped beyond the arena's return
\* slot is what the trampoline pops for the real caller.
InvokeReturn ==
    /\ Runs({"invoke"})
    /\ LET cleaned == IF esp >= 1 THEN esp - 1 ELSE 0
       IN  Resume(Callers, Top.entry + 1 + cleaned)
    /\ UNCHANGED <<setupVars, thunks, cached>>

RealReturn ==
    /\ RealRuns
    /\ \/ Top.is = "real" /\ Resume(Callers, esp + 1 + Pops[Top.of])
       \/ Top.is = "import" /\ HleReturn(Callers, Top.of, Top.entry, esp + 1 + Pops[Top.of])
    /\ UNCHANGED <<setupVars, thunks, cached>>

End ==
    /\ state = "runs" /\ calls = <<>> /\ state' = "ended"
    /\ UNCHANGED <<setupVars, thunks, cached, calls, esp>>

Next == \/ Start \/ BodyReturn \/ InitNext \/ InitEnd
        \/ InvokeReturn \/ RealReturn \/ End
        \/ \E f \in Guest : \/ Bind(f) \/ Plant(f) \/ DirectCall(f)
                            \/ RealCallsThunk(f) \/ RealCallsGuest(f)
        \/ \E a \in Address : IndirectCall(a) \/ TailCall(a)

Spec == Init /\ [][Next]_vars

-----------------------------------------------------------------------------
\* The call machine is well typed: thunk_for() never fills more slots than
\* THUNK_CACHE, es3_bind_guest() no more than GUEST_HLE_MAX.
TypeOK ==
    /\ bound \in Seq(Guest) /\ Len(bound) <= Bindings
    /\ lo \in 0 .. Highest /\ hi \in 0 .. Highest
    /\ thunks \subseteq Guest /\ planted \subseteq thunks
    /\ cached \subseteq thunks \cap Lifted /\ Cardinality(cached) <= CacheSize
    /\ calls \in Seq(Frame) /\ Len(calls) <= MaxDepth
    /\ esp \in Int
    /\ state \in {"setup", "runs", "ended", "unlifted", "unimplemented", "unpurged",
                  "left", "thunks spent", "ran guest bytes", "faulted"}

\* A bound function's own body never runs without its handler having been
\* asked first, however the call came: directly, through a vtable, a thunk, a
\* tail call, an initialiser table, or from real code (dispatch.c:312-326).
BoundAnswered ==
    \A k \in DOMAIN calls :
       calls[k].is = "body" /\ (\E j \in DOMAIN bound : bound[j] = calls[k].of)
          => calls[k].asked

\* esp as the innermost call finds it when what it called is back.
ResumesAt(call) == IF call.is = "invoke" THEN 1 + Pops[call.of] ELSE call.entry

\* Whoever is running has the guest stack it was entered with: nothing it
\* called, over any mix of lifted code, handlers, tail calls and crossings,
\* left a word too many or too few (hle.c:124-134, hle_callback.c:183).
Balanced == esp = IF calls = <<>> THEN 0 ELSE ResumesAt(Top)
=============================================================================
