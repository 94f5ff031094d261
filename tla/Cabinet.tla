------------------------------ MODULE Cabinet -------------------------------
(***************************************************************************)
(* What the 32-bit runtime keeps going beside the calls the game makes:    *)
(* its two loopback servers, the image and who rewrites it, the watch over *)
(* the display and the board on the USB tree.  Each has threads and state  *)
(* of its own, and no call leads from one to another, so a behaviour here  *)
(* follows one of them and leaves the others where they start.             *)
(***************************************************************************)
EXTENDS Loopback, GuestImage, ScreenWatch, UsbBoard

VARIABLE part    \* which of them this behaviour follows

vars == <<part, netVars, imageVars, screenVars, usbVars>>

Init == /\ part \in Server \cup {"image", "screen", "usb"}
        /\ NetInit /\ ImageInit /\ ScreenInit /\ UsbInit /\ taken \subseteq Server \cap {part}

Net(s, A) == part = s        /\ A /\ UNCHANGED <<part, imageVars, screenVars, usbVars>>
Image(A)  == part = "image"  /\ A /\ UNCHANGED <<part, netVars, screenVars, usbVars>>
Screen(A) == part = "screen" /\ A /\ UNCHANGED <<part, netVars, imageVars, usbVars>>
Usb(A)    == part = "usb"    /\ A /\ UNCHANGED <<part, netVars, imageVars, screenVars>>

Next == \/ \E s \in Server : Net(s, NetNext(s))
        \/ Image(ImageNext) \/ Screen(ScreenNext) \/ Usb(UsbNext)

\* The servers' threads and the watchdog are always running, and a peer that has
\* connected sends what it has to say or falls silent.
Spec == /\ Init /\ [][Next]_vars
        /\ \A s \in Server : WF_vars(Net(s, Serve(s)))
        /\ \A p \in Peer : WF_vars(Net(ServerOf(p), Talk(p)))
        /\ WF_vars(Screen(Watching))

\* Types and bounds of the four parts' state.
TypeOK == NetTyped /\ ImageTyped /\ ScreenTyped /\ UsbTyped
=============================================================================
