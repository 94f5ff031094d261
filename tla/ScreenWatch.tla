----------------------------- MODULE ScreenWatch ----------------------------
(***************************************************************************)
(* The thread that gives the desktop back (src/src/runtime/guest.c,        *)
(* screen_watchdog): ten times a second it walks over the windows of the   *)
(* desktop for visible ones of this process as large as the display, and   *)
(* puts each back; a window that will not stay put costs the game its run. *)
(* When a window comes, goes, is raised or grows, whether it stays put and *)
(* whether its thread answers is the game's doing or another program's.    *)
(***************************************************************************)
EXTENDS Integers, Sequences, FiniteSets

CONSTANTS
    Window,      \* top-level windows of the desktop
    Own,         \* those of this process
    MaxCaught    \* the forty that are forgiven

ASSUME ScreenAssumption == Own \subseteq Window /\ MaxCaught \in Nat

\* Where the walk stands when it is on no window.
Asleep == "asleep"
Front  == "front"

VARIABLES
    order,       \* the windows there are, from front to back
    covering,    \* the game's that cover the display
    hung,        \* those whose thread does not answer messages
    stand,       \* the window the walk stands on: h of screen_watchdog
    putting,     \* is the walk in the calls that put it back?
    caught,      \* of screen_watchdog: catches so far
    ended        \* TerminateProcess

screenVars == <<order, covering, hung, stand, putting, caught, ended>>
walkVars   == <<stand, putting, caught, ended>>

ScreenInit ==
    /\ order = << >> /\ covering = {} /\ hung = {}
    /\ stand = Asleep /\ putting = FALSE /\ caught = 0 /\ ended = FALSE

Shown == {order[i] : i \in DOMAIN order}
-----------------------------------------------------------------------------
(* What the windows do *)

Without(i) == [j \in 1 .. Len(order) - 1 |-> IF j < i THEN order[j] ELSE order[j + 1]]

Create(w) ==
    /\ ~ended /\ w \notin Shown
    /\ order' = <<w>> \o order
    /\ UNCHANGED <<covering, hung, walkVars>>

Destroy(i) ==
    /\ ~ended /\ i \in DOMAIN order
    /\ order' = Without(i)
    /\ covering' = covering \ {order[i]} /\ hung' = hung \ {order[i]}
    /\ UNCHANGED walkVars

Raise(i) ==
    /\ ~ended /\ i \in DOMAIN order
    /\ order' = <<order[i]>> \o Without(i)
    /\ UNCHANGED <<covering, hung, walkVars>>

\* The game maximises a window, or makes it smaller.
Resize(w) ==
    /\ ~ended /\ w \in Own \cap Shown
    /\ covering' = IF w \in covering THEN covering \ {w} ELSE covering \cup {w}
    /\ UNCHANGED <<order, hung, walkVars>>

Hang(w) ==
    /\ ~ended /\ w \in Own \cap Shown
    /\ hung' = IF w \in hung THEN hung \ {w} ELSE hung \cup {w}
    /\ UNCHANGED <<order, covering, walkVars>>
-----------------------------------------------------------------------------
(* The walk *)

\* What if the catches of the turn before were forgotten?
WakeForgetting ==
    /\ ~ended /\ stand = Asleep
    /\ stand' = Front /\ caught' = 0
    /\ UNCHANGED <<order, covering, hung, putting, ended>>

\* Sleep(100) is over and the walk over the windows begins.
Wake ==
    /\ ~ended /\ stand = Asleep
    /\ stand' = Front
    /\ UNCHANGED <<order, covering, hung, putting, caught, ended>>

\* FindWindowExA: the window behind the one the walk stands on, wherever that is by
\* now.  Behind the last there is none, nor behind one that is gone.
Behind(i) == IF i = 1 THEN Front ELSE order[i - 1]
NextWindow ==
    IF \E i \in DOMAIN order : Behind(i) = stand
    THEN order[CHOOSE i \in DOMAIN order : Behind(i) = stand]
    ELSE Asleep

\* A covering window is counted, and put back.
LookAt ==
    /\ ~ended /\ stand # Asleep /\ ~putting
    /\ stand' = NextWindow
    /\ putting' = (NextWindow \in covering)
    /\ caught' = IF NextWindow \in covering THEN caught + 1 ELSE caught
    /\ UNCHANGED <<order, covering, hung, ended>>

\* ShowWindow() and SetWindowPos() send messages to the window's thread and return
\* when it has answered; the game may undo them at once.  That SetWindowPos() takes a
\* topmost window off its place is one more move of the windows: Raise of the others.
PutBack(stays) ==
    /\ ~ended /\ putting /\ stand \notin hung
    /\ putting' = FALSE
    /\ covering' = IF stays THEN covering \ {stand} ELSE covering
    /\ ended' = (caught > MaxCaught)
    /\ UNCHANGED <<order, hung, stand, caught>>

Watching == Wake \/ LookAt \/ \E stays \in BOOLEAN : PutBack(stays)

ScreenNext ==
    \/ Watching
    \/ \E w \in Window : Create(w) \/ Resize(w) \/ Hang(w)
    \/ \E i \in 1 .. Len(order) : Destroy(i) \/ Raise(i)

\* Types of the windows' and the watchdog's state.
ScreenTyped ==
    /\ order \in Seq(Window) /\ covering \subseteq Window /\ hung \subseteq Window
    /\ stand \in Window \cup {Asleep, Front}
    /\ putting \in BOOLEAN /\ caught \in Nat /\ ended \in BOOLEAN
-----------------------------------------------------------------------------
\* "Leaving somebody without a desktop is worse than losing the run": a window that
\* covers the display each time the walk comes to it costs the game its run, however
\* it was put back in between, and whatever windows came and went before; once, that
\* is, none comes, goes or is raised under the walk any more, and every thread whose
\* window is put back answers.
KeepsDesktop ==
    \A w \in Own :
        /\ <>[][order' = order]_screenVars
        /\ <>[](hung = {})
        /\ <>[](w \in Shown /\ (NextWindow = w => w \in covering))
        => <>ended
=============================================================================
