----------------------------- MODULE GuestImage -----------------------------
(***************************************************************************)
(* How the game's image comes to be in a process (src/src/runtime/guest.c, *)
(* guest_load) and what is said of those who write to it.  The image has   *)
(* to be at its own address, which a process cannot keep free for itself:  *)
(* if something is in the way, the process starts itself once more,        *)
(* suspended, reserves the range in the child and waits.                   *)
(* Later a library the game loads may rewrite the mapped code; a copy made *)
(* at the start says which bytes, and the report names the library.  What  *)
(* rewrites and when is external; the runtime's own writes are planted     *)
(* jumps (hle_callback.c).                                                 *)
(***************************************************************************)
EXTENDS Integers, FiniteSets

CONSTANTS
    Loader,     \* the game's threads that load libraries
    Cell,       \* ranges of the executable section, in no order
    Dll,        \* libraries, each loaded once
    MaxRuns     \* the forty ranges a report stops after

\* The process that is started, its child, and a grandchild there must not be.
Gen == 0 .. 2

VARIABLES
    proc,       \* [Gen -> "none", "loading", "reserving", "suspended", "waiting", "guest", "gone"]
    env,        \* the processes that have ES3_IMAGE_RESERVED
    reserved,   \* those whose range was reserved before their loader ran
    status,     \* exit status: "none", "failed", "killed", "guest's"
    code,       \* who last wrote each range: "image", "planted" or a library
    copy,       \* what g_code_copy holds of it
    libs,       \* [Dll -> "out", "in", "told"]: loaded, and diffed
    planting,   \* the range es3_plant_callback() is between writing and copying
    blamed,     \* what reports said: <<the library named, who had written the range>>
    unsaid      \* writers some of whose bytes no report of their own was there to tell

imageVars == <<proc, env, reserved, status, code, copy, libs, planting, blamed, unsaid>>
procVars  == <<proc, env, reserved, status>>
codeVars  == <<code, copy, libs, planting, blamed, unsaid>>

ImageInit ==
    /\ proc = [g \in Gen |-> IF g = 0 THEN "loading" ELSE "none"]
    /\ env = {} /\ reserved = {} /\ status = [g \in Gen |-> "none"]
    /\ code = [c \in Cell |-> "image"] /\ copy = code
    /\ libs = [d \in Dll |-> "out"] /\ planting = {} /\ blamed = {} /\ unsaid = {}
-----------------------------------------------------------------------------
Ends(g, s) ==
    /\ proc' = [proc EXCEPT ![g] = "gone"]
    /\ status' = [status EXCEPT ![g] = s]

\* guest_load() of a file that is short, or not an i386 PE.
NotAnImage(g) ==
    /\ proc[g] = "loading" /\ Ends(g, "failed")
    /\ UNCHANGED <<env, reserved, codeVars>>

\* reserve() has the range, or commits what the parent reserved; the sections are
\* copied, the executable one to the snapshot too, execute is taken away, the import
\* slots are patched, and the guest runs on a thread of its own.
Load(g) ==
    /\ proc[g] = "loading"
    /\ proc' = [proc EXCEPT ![g] = "guest"]
    /\ UNCHANGED <<env, reserved, status, codeVars>>

\* What if the mark were set only when the child is there?
RelaunchUnmarked(g) ==
    /\ proc[g] = "loading" /\ g \notin env /\ g + 1 \in Gen
    /\ proc' = [proc EXCEPT ![g] = "reserving", ![g + 1] = "suspended"]
    /\ env' = env \cup {g}
    /\ UNCHANGED <<reserved, status, codeVars>>

\* The range is not to be had, nor can what is reserved be committed: a marked
\* process gives up, another marks itself and starts a child, which inherits the mark.
Relaunch(g) ==
    /\ proc[g] = "loading" /\ g \notin env /\ g + 1 \in Gen
    /\ proc' = [proc EXCEPT ![g] = "reserving", ![g + 1] = "suspended"]
    /\ env' = env \cup {g, g + 1}
    /\ UNCHANGED <<reserved, status, codeVars>>

GiveUp(g) ==
    /\ proc[g] = "loading" /\ g \in env /\ Ends(g, "failed")
    /\ UNCHANGED <<env, reserved, codeVars>>

CreateProcessFails(g) ==
    /\ proc[g] = "loading" /\ g \notin env /\ Ends(g, "failed")
    /\ env' = env \cup {g}
    /\ UNCHANGED <<reserved, codeVars>>

\* VirtualAllocEx in the suspended child, which then runs; or the child is ended.
ReserveInChild(g) ==
    /\ proc[g] = "reserving"
    /\ proc' = [proc EXCEPT ![g] = "waiting", ![g + 1] = "loading"]
    /\ reserved' = reserved \cup {g + 1}
    /\ UNCHANGED <<env, status, codeVars>>

ReserveFails(g) ==
    /\ proc[g] = "reserving"
    /\ proc' = [proc EXCEPT ![g] = "gone", ![g + 1] = "gone"]
    /\ status' = [status EXCEPT ![g] = "failed", ![g + 1] = "killed"]
    /\ UNCHANGED <<env, reserved, codeVars>>

\* The guest ends, and its status is its parent's too.
GuestEnds(g) ==
    /\ proc[g] = "guest" /\ Ends(g, "guest's")
    /\ UNCHANGED <<env, reserved, codeVars>>

PassOn(g) ==
    /\ proc[g] = "waiting" /\ proc[g + 1] = "gone"
    /\ Ends(g, status[g + 1])
    /\ UNCHANGED <<env, reserved, codeVars>>

Launch(g) == \/ NotAnImage(g) \/ Load(g) \/ Relaunch(g) \/ GiveUp(g) \/ CreateProcessFails(g)
             \/ ReserveInChild(g) \/ ReserveFails(g) \/ GuestEnds(g) \/ PassOn(g)
-----------------------------------------------------------------------------
Running == \E g \in Gen : proc[g] = "guest"

Coming == {e \in Dll : libs[e] = "in"}

\* The real LoadLibrary: the library comes in and rewrites what it wants, while others
\* may be coming in and the runtime planting a jump.
Writes(d, cells) ==
    /\ Running /\ libs[d] = "out"
    /\ Cardinality(Coming) < Cardinality(Loader)
    /\ code' = [c \in Cell |-> IF c \in cells THEN d ELSE code[c]]
    /\ UNCHANGED <<procVars, copy, planting, blamed>>

\* hle_load_library, whose diff follows.
LoadLibrary(d, cells) ==
    /\ Writes(d, cells)
    /\ libs' = [libs EXCEPT ![d] = "in"]
    /\ unsaid' = unsaid \cup (IF Coming = {} THEN {} ELSE Coming \cup {d})
                         \cup (IF planting = {} THEN {} ELSE {"planted"})

\* No diff follows a load that returned 0 after the library had run, nor one by a name
\* that is not hooked (LoadLibraryEx).
LoadUntold(d, cells) ==
    /\ Writes(d, cells)
    /\ libs' = [libs EXCEPT ![d] = "told"]
    /\ unsaid' = unsaid \cup {d}

\* What if the copy stayed as it was at the start?
DiffKeeping(d, told) ==
    /\ libs[d] = "in"
    /\ told = {c \in Cell : code[c] # copy[c]}
    /\ libs' = [libs EXCEPT ![d] = "told"]
    /\ blamed' = blamed \cup {<<d, code[c]>> : c \in told}
    /\ UNCHANGED <<procVars, code, copy, planting, unsaid>>

\* es3_guest_diff(): what was reported is copied, and a report stops after MaxRuns.
Diff(d, told) ==
    LET new == {c \in Cell : code[c] # copy[c]}
    IN  /\ libs[d] = "in"
        /\ told \subseteq new
        /\ IF Cardinality(new) <= MaxRuns THEN told = new ELSE Cardinality(told) = MaxRuns + 1
        /\ libs' = [libs EXCEPT ![d] = "told"]
        /\ copy' = [c \in Cell |-> IF c \in told THEN code[c] ELSE copy[c]]
        /\ blamed' = blamed \cup {<<d, code[c]>> : c \in told}
        /\ unsaid' = unsaid \cup {code[c] : c \in new \ told}
        /\ UNCHANGED <<procVars, code, planting>>

\* es3_plant_callback(), which copies what it wrote: es3_guest_resnapshot().
Plant(c) ==
    /\ Running /\ planting = {}
    /\ code' = [code EXCEPT ![c] = "planted"]
    /\ planting' = {c}
    /\ unsaid' = IF Coming = {} THEN unsaid ELSE unsaid \cup {"planted"}
    /\ UNCHANGED <<procVars, copy, libs, blamed>>

Resnapshot(c) ==
    /\ c \in planting /\ planting' = {}
    /\ copy' = [copy EXCEPT ![c] = code[c]]
    /\ UNCHANGED <<procVars, code, libs, blamed, unsaid>>

ImageNext ==
    \/ \E g \in Gen : Launch(g)
    \/ \E d \in Dll, cells \in SUBSET Cell :
          LoadLibrary(d, cells) \/ LoadUntold(d, cells) \/ Diff(d, cells)
    \/ \E c \in Cell : Plant(c) \/ Resnapshot(c)

\* Types of the processes' and of the code's state.
Writer == {"image", "planted"} \cup Dll
ImageTyped ==
    /\ proc \in [Gen -> {"none", "loading", "reserving", "suspended", "waiting", "guest", "gone"}]
    /\ env \subseteq Gen /\ reserved \subseteq Gen
    /\ status \in [Gen -> {"none", "failed", "killed", "guest's"}]
    /\ code \in [Cell -> Writer] /\ copy \in [Cell -> Writer]
    /\ libs \in [Dll -> {"out", "in", "told"}]
    /\ planting \subseteq Cell /\ blamed \subseteq Dll \X Writer /\ unsaid \subseteq Writer
-----------------------------------------------------------------------------
\* The game runs in one process at a time at most, a child is never the start of
\* another, and the process that was started ends with the status of the one that
\* ran the game.
OneGuest ==
    /\ proc[2] = "none"
    /\ Cardinality({g \in Gen : proc[g] = "guest"}) <= 1
    /\ \A g \in Gen \ {2} : status[g + 1] = "guest's" /\ proc[g] = "gone" => status[g] = "guest's"

\* "A second diff reports only what is new": a report blames a library for what another
\* one or the runtime wrote only if that writer's bytes were not told in time, because
\* its load failed or was not hooked, because its report was cut off, or because
\* another library came in, or a jump was planted, at the same time.
BlamedRight == \A b \in blamed : b[1] = b[2] \/ b[2] \in unsaid
=============================================================================
