---------------------------- MODULE StallWatch64 ----------------------------
(***************************************************************************)
(* Counting frames and noticing that they stopped: the Direct3D vtable     *)
(* hooks (src/src/runtime64/trace64.c) and the stall watchdog              *)
(* (src/src/runtime64/dispatch64.c).  Devices share one vtable, as         *)
(* patch_slot takes them to; a tick of the watchdog is five seconds.       *)
(***************************************************************************)
EXTENDS Integers

CONSTANTS Patience,   \* ticks without a frame before it reports (4, 20 s)
          MaxFrames   \* bound: frames of a whole run

ASSUME StallAssumption == Patience \in Nat \ {0} /\ MaxFrames \in Nat

VARIABLES watched,    \* what is hooked: "none", "d3d9" (CreateDevice), "device" (Present)
          frames,     \* g_present_count
          seen,       \* the count the watchdog saw change last
          quiet,      \* ticks it has not changed since
          still,      \* history: ticks since the last frame, up to Patience
          said        \* history: was a stall reported since the last frame and tick

stallVars == <<watched, frames, seen, quiet, still, said>>

StallInit == watched = "none" /\ frames = 0 /\ seen = 0 /\ quiet = 0 /\ still = 0 /\ said = FALSE

\* Direct3DCreate9 answered: es3_d3d9_watch patches CreateDevice.  A second
\* interface finds the slot patched.
Direct3DCreate9 ==
    /\ watched' = IF watched = "none" THEN "d3d9" ELSE watched
    /\ UNCHANGED <<frames, seen, quiet, still, said>>

\* hook_createdevice: forward, and patch Present on the first device made.
CreateDevice ==
    /\ watched # "none"
    /\ watched' \in {watched, "device"}
    /\ UNCHANGED <<frames, seen, quiet, still, said>>

\* hook_present: the frame is counted when the driver has shown it.
Present ==
    /\ watched = "device" /\ frames < MaxFrames
    /\ frames' = frames + 1
    /\ still' = 0 /\ said' = FALSE
    /\ UNCHANGED <<watched, seen, quiet>>

\* What if the counting went on after a report?
TickOnce ==
    /\ still' = IF still < Patience THEN still + 1 ELSE still
    /\ IF frames # seen
       THEN seen' = frames /\ quiet' = 0 /\ said' = FALSE
       ELSE /\ said' = (quiet + 1 = Patience)
            /\ quiet' = IF quiet < Patience THEN quiet + 1 ELSE quiet
            /\ UNCHANGED seen
    /\ UNCHANGED <<watched, frames>>

\* One turn of the loop: a report starts the counting over.
Tick ==
    /\ still' = IF still < Patience THEN still + 1 ELSE still
    /\ IF frames # seen
       THEN seen' = frames /\ quiet' = 0 /\ said' = FALSE
       ELSE /\ said' = (quiet + 1 = Patience)
            /\ quiet' = IF quiet + 1 = Patience THEN 0 ELSE quiet + 1
            /\ UNCHANGED seen
    /\ UNCHANGED <<watched, frames>>

\* Types: the watchdog's counts never reach its patience.
StallTyped ==
    /\ watched \in {"none", "d3d9", "device"} /\ frames \in 0 .. MaxFrames
    /\ seen \in 0 .. frames /\ quiet \in 0 .. Patience - 1 /\ still \in 0 .. Patience
    /\ said \in BOOLEAN

StallNext == Direct3DCreate9 \/ CreateDevice \/ Present \/ Tick

\* A stall is reported only when no frame has come for the whole time, and one
\* that lasts is reported again and again (Sleep lets the watchdog run).
StallsReported ==
    /\ [](said => still = Patience)
    /\ []<>(said \/ still < Patience)
=============================================================================
