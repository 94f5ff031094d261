----------------------------- MODULE Dispatch64 -----------------------------
(***************************************************************************)
(* The 64-bit runtime's way from a guest address to a call                 *)
(* (src/src/runtime64/dispatch64.c): dispatch() and dispatch_jmp(), the    *)
(* native call, the callback bridge, and guest threads.                    *)
(*                                                                         *)
(* A guest address is a member of one of the sets below; what a set's      *)
(* members do is the same, so one or two of each are enough.  A CPU is a   *)
(* number: 0 is the one of the thread itself, k > 0 the one the k-th       *)
(* nested bridge made.  A stack pointer is kept as the number of words in  *)
(* use above it (a push adds one); CPU 0 runs on the guest's stack, every  *)
(* other CPU on the thread's one private stack, each bridge from its top.  *)
(***************************************************************************)
EXTENDS Integers, Sequences, FiniteSets, SequencesExt

CONSTANTS
    Thread,      \* host threads that may run guest code
    Main,        \* the thread main() runs the entry point on
    Entry,       \* the image's entry point
    Plain,       \* catalogued functions, the entry point among them
    Logged,      \* the ones --log-call names
    Gap,         \* addresses inside .text that are not catalogued
    Answered,    \* imports the runtime answers itself (message box, HASP, ...)
    Forwarded,   \* imports that are called; they may call back
    Walker,      \* _initterm and _initterm_e
    CsMax,       \* CS_MAX: entries of the shadow call stack
    DumpMax,     \* lines of a crash report's dump of it (40)
    StallMax,    \* lines of the stall watchdog's (24)
    TcMax,       \* TC_MAX: per-thread counters
    MaxFrames,   \* bound: activations alive on one thread
    MaxNest,     \* bound: bridged callbacks alive on one thread
    MaxCalls     \* bound: dispatches of a whole run (g_dispatch_limit if set)

Lifted == Plain \cup Logged
Native == Answered \cup Forwarded \cup Walker
Cpu    == 0 .. MaxNest

ASSUME DispatchAssumption ==
    /\ Main \in Thread /\ Entry \in Plain
    /\ CsMax \in Nat \ {0} /\ TcMax \in Nat \ {0}
    /\ DumpMax \in Nat \ {0} /\ StallMax \in Nat \ {0}
    /\ MaxFrames \in Nat \ {0} /\ MaxNest \in Nat /\ MaxCalls \in Nat \ {0}

VARIABLES
    frames,   \* [Thread -> Seq(activation)], innermost last
    depth,    \* cs_depth of each thread
    cs,       \* the entries of cs_stack written so far, index -> address
    cur,      \* g_cur_cpu, -1 when no guest code runs on the thread
    rsp,      \* words in use: [Thread -> [Cpu -> Nat]]
    words,    \* who wrote the word: [Thread -> [{"guest","bridge"} -> Seq]]
    slot,     \* tc_slot of each thread, 0 before its first dispatch
    tcn,      \* g_tcn
    state,    \* "idle", "ready" (created), "running", "over"; "foreign" is a
              \* thread of a DLL's own that has called guest code
    calls,    \* g_dispatch_count
    stopped   \* exit(3), abort() or an unbridged fault: nothing runs any more

vars == <<frames, depth, cs, cur, rsp, words, slot, tcn, state, calls, stopped>>

Top(t)    == Last(frames[t])

\* Whose stack a CPU uses: the thread's own, or the one private stack that all
\* of its bridges share, whichever of them is still to be returned to.
Stack(c) == IF c = 0 THEN "guest" ELSE "bridge"
Bridges(t) == IF frames[t] = <<>> THEN 0 ELSE Top(t).cpu

\* A function that is not at its very end may call; the host code of a native
\* function runs on the host's stack and touches neither stack of the guest.
On(t, kind) == ~stopped /\ frames[t] # <<>> /\ Top(t).kind = kind
Running(t)  == On(t, "lifted") /\ ~Top(t).done

Room(t) == Len(frames[t]) < MaxFrames

Activation == [kind : {"lifted", "native", "walk", "bridge"}, fn : Lifted \cup Native \cup {"-"},
               cpu : Cpu, at : Nat, pushed : BOOLEAN, done : BOOLEAN,
               prev : Cpu \cup {-1}]

Init ==
    /\ frames = [t \in Thread |-> <<>>]
    /\ depth  = [t \in Thread |-> 0]
    /\ cs     = [t \in Thread |-> [i \in 1 .. CsMax |-> "-"]]
    /\ cur    = [t \in Thread |-> -1]
    /\ rsp    = [t \in Thread |-> [c \in Cpu |-> 0]]
    /\ words  = [t \in Thread |-> [s \in {"guest", "bridge"} |-> [i \in 1 .. MaxFrames + 1 |-> 0]]]
    /\ slot   = [t \in Thread |-> 0]
    /\ tcn    = 0
    /\ state  = [t \in Thread |-> IF t = Main THEN "ready" ELSE "idle"]
    /\ calls  = 0
    /\ stopped = FALSE

-----------------------------------------------------------------------------
(* The pieces dispatch() is made of *)

\* tc_bump: a thread takes the next counter at its first dispatch; the threads
\* that find none left share the last one.
TcBump(t) ==
    IF slot[t] # 0
    THEN UNCHANGED <<slot, tcn>>
    ELSE /\ tcn' = tcn + 1
         /\ slot' = [slot EXCEPT ![t] = IF tcn >= TcMax THEN TcMax ELSE tcn + 1]

\* check_limit: the dispatch that reaches the limit stops the process.
CheckLimit == calls' = calls + 1

\* The body of f starts on CPU c of thread t, whose stack holds the return
\* address in word w.  The shadow stack is written only while it has room and
\* its depth counts on; a logged function returns before it is pushed at all.
Enter(t, f, c, w, fs) ==
    LET pushed == f \notin Logged
        me == [kind |-> "lifted", fn |-> f, cpu |-> c, at |-> w, pushed |-> pushed,
               done |-> FALSE, prev |-> cur[t]]
    IN  /\ frames' = [frames EXCEPT ![t] = Append(fs, me)]
        /\ cur' = [cur EXCEPT ![t] = c]
        /\ depth' = [depth EXCEPT ![t] = IF pushed THEN @ + 1 ELSE @]
        /\ cs' = IF pushed /\ depth[t] < CsMax
                 THEN [cs EXCEPT ![t][depth[t] + 1] = f] ELSE cs
        /\ rsp' = [rsp EXCEPT ![t][c] = w]
        /\ words' = [words EXCEPT ![t][Stack(c)][w] = Len(fs) + 1]

\* lookup(to_preferred(target)): the index is over the preferred addresses, and
\* an address of .text that it misses is a gap, reported and aborted on.
Stop == /\ stopped' = TRUE
        /\ UNCHANGED <<frames, depth, cs, cur, rsp, words, slot, tcn, state>>

LimitReached == calls + 1 >= MaxCalls

\* The lifted caller pushes a return address and dispatches f.
CallLifted(t, f) ==
    LET c == Top(t).cpu IN
    /\ Running(t) /\ Room(t)
    /\ CheckLimit
    /\ IF LimitReached THEN Stop
       ELSE /\ TcBump(t)
            /\ Enter(t, f, c, rsp[t][c] + 1, frames[t])
            /\ UNCHANGED <<state, stopped>>

\* dispatch_jmp: the caller is at its end, the return address of its own
\* caller is on top, and nothing is pushed or counted for it.
TailLifted(t, f) ==
    LET c  == Top(t).cpu
        me == [Top(t) EXCEPT !.fn = f, !.pushed = FALSE, !.prev = cur[t]]
        fs == [frames[t] EXCEPT ![Len(frames[t])].done = TRUE]
    IN  /\ Running(t) /\ Room(t)
        /\ CheckLimit
        /\ IF LimitReached THEN Stop
           ELSE /\ frames' = [frames EXCEPT ![t] = Append(fs, me)]
                /\ words' = [words EXCEPT ![t][Stack(c)][rsp[t][c]] = Len(fs) + 1]
                /\ UNCHANGED <<depth, cs, cur, rsp, slot, tcn, state, stopped>>

\* unknown_target: inside the image and not catalogued, by call or by jump.
CallGap(t) ==
    /\ Running(t)
    /\ CheckLimit
    /\ Stop

\* es3_native_call takes the return address off for the callee, whose own RET
\* is what would have.  f is answered here and now, or forwarded.
NativeFrame(t, f, c, tail) ==
    [kind |-> IF f \in Walker THEN "walk" ELSE "native", fn |-> f, cpu |-> c,
     at |-> rsp[t][c] - (IF tail THEN 1 ELSE 0), pushed |-> FALSE, done |-> FALSE, prev |-> cur[t]]

\* What if the callee's own RET were waited for in vain?
CallNativeLeaving(t, f, tail) ==
    LET c  == Top(t).cpu
        fs == IF tail THEN [frames[t] EXCEPT ![Len(frames[t])].done = TRUE] ELSE frames[t]
    IN  /\ Running(t) /\ Room(t)
        /\ CheckLimit
        /\ IF LimitReached THEN Stop
           ELSE /\ IF tail THEN UNCHANGED <<slot, tcn>> ELSE TcBump(t)
                /\ rsp' = [rsp EXCEPT ![t][c] = IF tail THEN @ ELSE @ + 1]
                /\ frames' = [frames EXCEPT ![t] =
                       IF f \in Answered THEN fs ELSE Append(fs, NativeFrame(t, f, c, tail))]
                /\ UNCHANGED <<depth, cs, cur, words, state, stopped>>

CallNative(t, f, tail) ==
    LET c  == Top(t).cpu
        fs == IF tail THEN [frames[t] EXCEPT ![Len(frames[t])].done = TRUE] ELSE frames[t]
    IN  /\ Running(t) /\ Room(t)
        /\ CheckLimit
        /\ IF LimitReached THEN Stop
           ELSE /\ IF tail THEN UNCHANGED <<slot, tcn>> ELSE TcBump(t)
                /\ rsp' = [rsp EXCEPT ![t][c] = (IF tail THEN @ ELSE @ + 1) - 1]
                /\ frames' = [frames EXCEPT ![t] =
                       IF f \in Answered THEN fs ELSE Append(fs, NativeFrame(t, f, c, tail))]
                /\ UNCHANGED <<depth, cs, cur, words, state, stopped>>

\* CreateThread: the start routine is replaced by the shim, which the new
\* thread runs when the scheduler lets it; the call itself is forwarded.
CallCreateThread(t, u) ==
    LET c == Top(t).cpu IN
    /\ Running(t)
    /\ state[u] = "idle"
    /\ CheckLimit
    /\ IF LimitReached THEN Stop
       ELSE /\ TcBump(t)
            /\ state' = [state EXCEPT ![u] = "ready"]
            /\ UNCHANGED <<frames, depth, cs, cur, rsp, words, stopped>>

-----------------------------------------------------------------------------
(* Threads and returns *)

\* main() and es3_thread_shim: a stack, a sentinel return address, dispatch.
StartThread(t, f) ==
    /\ ~stopped /\ state[t] = "ready"
    /\ t = Main => f = Entry
    /\ CheckLimit
    /\ IF LimitReached THEN Stop
       ELSE /\ state' = [state EXCEPT ![t] = "running"]
            /\ TcBump(t)
            /\ Enter(t, f, 0, 1, <<>>)
            /\ UNCHANGED stopped

\* es3_alloc_stack found no memory for the thread: the shim gives up.
NoStack(t) ==
    /\ ~stopped /\ state[t] = "ready"
    /\ state' = [state EXCEPT ![t] = "over"]
    /\ UNCHANGED <<frames, depth, cs, cur, rsp, words, slot, tcn, calls, stopped>>

\* What if the CPU of the thread stayed the one of the last body that ran?
ReturnKeepingCpu(t) ==
    LET me == Top(t)
        up == Front(frames[t])
    IN  /\ On(t, "lifted")
        /\ rsp' = [rsp EXCEPT ![t][me.cpu] = IF me.done THEN @ ELSE @ - 1]
        /\ depth' = [depth EXCEPT ![t] = IF me.pushed THEN @ - 1 ELSE @]
        /\ frames' = [frames EXCEPT ![t] = IF up # <<>> /\ Last(up).kind = "bridge" THEN Front(up) ELSE up]
        /\ state' = IF up = <<>> THEN [state EXCEPT ![t] = "over"] ELSE state
        /\ UNCHANGED <<cs, cur, words, slot, tcn, calls, stopped>>

\* A lifted body's RET takes the return address off; when the C body returns
\* dispatch() takes it off the shadow stack and puts g_cur_cpu back.  A body
\* that ended in a jump has neither left to do.  A bridge below it ends with it.
ReturnLifted(t) ==
    LET me == Top(t)
        up == Front(frames[t])
    IN  /\ On(t, "lifted")
        /\ rsp' = [rsp EXCEPT ![t][me.cpu] = IF me.done THEN @ ELSE @ - 1]
        /\ depth' = [depth EXCEPT ![t] = IF me.pushed THEN @ - 1 ELSE @]
        /\ cur' = [cur EXCEPT ![t] = me.prev]
        /\ frames' = [frames EXCEPT ![t] = IF up # <<>> /\ Last(up).kind = "bridge" THEN Front(up) ELSE up]
        /\ state' = IF up = <<>> THEN [state EXCEPT ![t] = "over"] ELSE state
        /\ UNCHANGED <<cs, words, slot, tcn, calls, stopped>>

\* A forwarded import returns into es3_native_call.
ReturnNative(t) ==
    /\ On(t, "native")
    /\ frames' = [frames EXCEPT ![t] = Front(@)]
    /\ UNCHANGED <<depth, cs, cur, rsp, words, slot, tcn, state, calls, stopped>>

-----------------------------------------------------------------------------
(* The other direction: native code reaches a guest address *)

\* _initterm: es3_call_guest pushes a return address on the caller's own CPU
\* and dispatches the entry; the plain form walks on, the _e form may stop.
WalkCalls(t, f) ==
    LET c == Top(t).cpu IN
    /\ On(t, "walk")
    /\ Room(t)
    /\ CheckLimit
    /\ IF LimitReached THEN Stop
       ELSE /\ TcBump(t)
            /\ Enter(t, f, c, rsp[t][c] + 1, frames[t])
            /\ UNCHANGED <<state, stopped>>

WalkEnds(t) ==
    /\ On(t, "walk")
    /\ frames' = [frames EXCEPT ![t] = Front(@)]
    /\ UNCHANGED <<depth, cs, cur, rsp, words, slot, tcn, state, calls, stopped>>

\* Host code runs inside a forwarded import, or on a thread a DLL made itself.
HostCode(t) == \/ On(t, "native")
               \/ ~stopped /\ frames[t] = <<>> /\ t # Main /\ state[t] \in {"idle", "foreign"}

\* es3_bridge_callback: the fault of executing a guest address becomes a call.
\* A fresh CPU, and the top of the thread's one private stack, every time.
Callback(t, f) ==
    LET c == Bridges(t) + 1
        fs == Append(frames[t], [kind |-> "bridge", fn |-> "-", cpu |-> c, at |-> 1,
                                 pushed |-> FALSE, done |-> FALSE, prev |-> cur[t]])
    IN  /\ HostCode(t) /\ Len(frames[t]) + 1 < MaxFrames /\ c \in Cpu
        /\ CheckLimit
        /\ IF LimitReached THEN Stop
           ELSE /\ TcBump(t)
                /\ Enter(t, f, c, 1, fs)
                /\ state' = IF frames[t] = <<>> THEN [state EXCEPT ![t] = "foreign"] ELSE state
                /\ UNCHANGED stopped

\* An address that cannot be entered, or no memory for the private stack: not
\* bridged, and the fault ends the run.
CallbackGap(t) ==
    /\ HostCode(t)
    /\ UNCHANGED calls
    /\ Stop

Finished ==
    /\ stopped \/ \A t \in Thread : state[t] \in {"idle", "over"} \/ (state[t] = "foreign" /\ frames[t] = <<>>)
    /\ UNCHANGED vars

Next ==
    \/ \E t \in Thread :
          \/ \E f \in Lifted : CallLifted(t, f)
          \/ \E f \in Lifted : TailLifted(t, f)
          \/ \E f \in Lifted : StartThread(t, f)
          \/ \E f \in Lifted : WalkCalls(t, f)
          \/ \E f \in Lifted : Callback(t, f)
          \/ \E f \in Native, tail \in BOOLEAN : CallNative(t, f, tail)
          \/ \E u \in Thread : CallCreateThread(t, u)
          \/ Gap # {} /\ CallGap(t)
          \/ Gap # {} /\ CallbackGap(t)
          \/ NoStack(t) \/ ReturnLifted(t) \/ ReturnNative(t) \/ WalkEnds(t)
    \/ Finished

Spec == Init /\ [][Next]_vars

-----------------------------------------------------------------------------
(* Properties *)

LiftedIn(t)  == {i \in DOMAIN frames[t] : frames[t][i].kind = "lifted"}
Pushed(t, i) == Cardinality({j \in 1 .. i : frames[t][j].pushed})

\* Types and bounds of dispatch64.c's per-thread state.
TypeOK ==
    /\ frames \in [Thread -> Seq(Activation)]
    /\ \A t \in Thread : Len(frames[t]) <= MaxFrames
    /\ depth \in [Thread -> Nat]
    /\ cs \in [Thread -> [1 .. CsMax -> Lifted \cup {"-"}]]
    /\ cur \in [Thread -> Cpu \cup {-1}]
    /\ rsp \in [Thread -> [Cpu -> Nat]]
    /\ words \in [Thread -> [{"guest", "bridge"} -> [1 .. MaxFrames + 1 -> 0 .. MaxFrames]]]
    /\ slot \in [Thread -> 0 .. TcMax] /\ tcn \in Nat
    /\ state \in [Thread -> {"idle", "ready", "running", "over", "foreign"}]
    /\ calls \in 0 .. MaxCalls /\ stopped \in BOOLEAN

\* Whatever mix of calls, jumps, imports, initialiser walks and callbacks came
\* before, a body goes on with the stack pointer it was entered with: a word too
\* many or too few would show nowhere (es3_native_call, es3_call_guest).
StackBalanced ==
    \A t \in Thread : Running(t) => rsp[t][Top(t).cpu] = Top(t).at

Least(a, b) == IF a < b THEN a ELSE b

\* es3_dump_callstack: the innermost entries, innermost first.  cs_depth counts
\* on past the array and the index with it: what lies behind is printed.
Behind == "behind"
DumpCallstack(t) ==
    [i \in 1 .. Least(depth[t], DumpMax) |->
        IF depth[t] + 1 - i <= CsMax THEN cs[t][depth[t] + 1 - i] ELSE Behind]

\* stall_watchdog's print of another thread's entries: the depth is clamped to
\* the array first.
StallStack(t) ==
    LET d == Least(depth[t], CsMax)
    IN  [i \in 1 .. Least(d, StallMax) |-> cs[t][d + 1 - i]]

\* Entered by dispatch() rather than by a jump out of the body below it.
Called(t, i) == i \in LiftedIn(t) /\ ~(i > 1 /\ frames[t][i - 1].done)

\* What the reports print, line by line.  The p-th of the pushed calls that have
\* not returned is on the p-th line from the bottom, of the crash dump unless it
\* lies behind the array, of the watchdog's print if it is in the array and near
\* enough; nothing returned is printed, and g_cur_cpu is the CPU of the
\* innermost guest code, also under host code and after a callback.
CrashReportTrue ==
    \A t \in Thread :
        /\ depth[t] = Pushed(t, Len(frames[t]))
        /\ \A i \in DOMAIN frames[t] : frames[t][i].pushed =>
              LET p    == Pushed(t, i)
                  line == depth[t] + 1 - p
                  row  == Least(depth[t], CsMax) + 1 - p
              IN  /\ line \in DOMAIN DumpCallstack(t) =>
                        DumpCallstack(t)[line] = IF p <= CsMax THEN frames[t][i].fn ELSE Behind
                  /\ row \in DOMAIN StallStack(t) => StallStack(t)[row] = frames[t][i].fn
        /\ cur[t] = IF frames[t] = <<>> THEN -1 ELSE Top(t).cpu

\* The comments' promise, "a genuine call stack" that "is maintained ALWAYS": the
\* first line of a dump is the innermost function dispatch() called.  A logged
\* function is not there at all, and one deeper than CS_MAX is not what is read.
DumpGenuine ==
    \A t \in Thread : \A i \in LiftedIn(t) :
        Called(t, i) /\ (\A j \in LiftedIn(t) : j > i => ~Called(t, j)) =>
            DumpCallstack(t) # <<>> /\ DumpCallstack(t)[1] = frames[t][i].fn

\* The promise of the private stack: running a callback writes over no frame
\* that is still to be returned to (es3_bridge_callback).
FramesKept ==
    \A t \in Thread : \A i \in LiftedIn(t) :
        LET a == frames[t][i] IN ~a.done => words[t][Stack(a.cpu)][a.at] = i

\* Only the last counter is ever shared, and only once the table is full: the
\* stall watchdog's busiest thread is one thread (tc_bump).
CountersOwned ==
    \A t, u \in Thread :
        t # u /\ slot[t] = slot[u] /\ slot[t] # 0 => slot[t] = TcMax /\ tcn > TcMax
=============================================================================
