------------------------------ MODULE UsbBoard ------------------------------
(***************************************************************************)
(* The USB I/O board hle_callback.c puts on an empty port                  *)
(* (src/src/runtime/hle_callback.c, ES3_IOBOARD): a scan asks every hub    *)
(* about its ports and one answer is rewritten into a board; its driver    *)
(* key arms a splice that appends one node to a chain of the device tree,  *)
(* where the game finds the key again.  The real tree and its hubs are     *)
(* external; DirectInput walks the same tree on a thread of its own.       *)
(***************************************************************************)
EXTENDS Integers, FiniteSets

CONSTANTS
    Hub,         \* the hubs of the machine
    Port,        \* port numbers, from 1
    Empty,       \* the ports nothing is plugged in: <<hub, port>>
    HubHandle,   \* handle values the game's opens of a hub are given
    Chains,      \* sibling chains in the tree
    Siblings,    \* real nodes in each
    MaxScans     \* bound: scans of the game

ASSUME UsbAssumption ==
    /\ Port \subseteq Nat \ {0} /\ Empty \subseteq Hub \X Port
    /\ Chains \in Nat \ {0} /\ Siblings \in Nat

Walker == {"game", "dinput"}
Unclaimed == [hub |-> "none", port |-> 0]
Nowhere   == [chain |-> 0, left |-> 0, board |-> FALSE]

VARIABLES
    claim,       \* g_iob_hub and g_iob_port
    scan,        \* the game's scan: [at, hub, handle]
    scans,       \* scans so far
    asked,       \* the ports asked about in this scan
    boards,      \* answers of this scan that look like the board
    armed,       \* g_iob_node_armed
    given,       \* g_iob_node_given
    walk,        \* where each walker is in the tree
    found,       \* has the game's lookup found the node with the board's key?
    shared       \* has DirectInput walked during this lookup?

usbVars == <<claim, scan, scans, asked, boards, armed, given, walk, found, shared>>

UsbInit ==
    /\ claim = Unclaimed /\ scan = [at |-> "idle", hub |-> "none", handle |-> "none"]
    /\ scans = 0 /\ asked = {} /\ boards = 0
    /\ armed = FALSE /\ given = FALSE
    /\ walk = [w \in Walker |-> Nowhere]
    /\ found = FALSE /\ shared = FALSE

treeVars == <<armed, given, walk, found, shared>>
-----------------------------------------------------------------------------
\* SetupDiGetClassDevsW: a scan starts and the claim is forgotten, the splice is not.
\* The game's scans come one after another; a class list another thread asks for in the
\* middle of one, which would forget the claim too, is left out.
NewScan ==
    /\ scan.at = "idle" /\ scans < MaxScans
    /\ scan' = [scan EXCEPT !.at = "hubs"]
    /\ scans' = scans + 1 /\ asked' = {} /\ boards' = 0
    /\ claim' = Unclaimed
    /\ UNCHANGED treeVars

\* The game opens the next hub; a handle number may be one of a hub closed before.
OpenHub(hub, handle) ==
    /\ scan.at = "hubs" /\ \E p \in Port : <<hub, p>> \notin asked
    /\ scan' = [at |-> "ports", hub |-> hub, handle |-> handle]
    /\ UNCHANGED <<claim, scans, asked, boards, treeVars>>

\* What if an answer on the same handle and port were rewritten again?
ClaimsAgain(p) ==
    IF claim = Unclaimed THEN <<scan.hub, p>> \in Empty
    ELSE claim = [hub |-> scan.handle, port |-> p] /\ <<scan.hub, p>> \in Empty

\* ioboard_claim(): the first empty port of a scan becomes the board.
Claims(p) == claim = Unclaimed /\ <<scan.hub, p>> \in Empty

\* DeviceIoControl, GET_NODE_CONNECTION_INFORMATION: the driver's answer, rewritten.
AskPort(p) ==
    /\ scan.at = "ports" /\ <<scan.hub, p>> \notin asked
    /\ asked' = asked \cup {<<scan.hub, p>>}
    /\ IF Claims(p)
       THEN /\ claim' = [hub |-> scan.handle, port |-> p]
            /\ boards' = boards + 1
            /\ scan' = [scan EXCEPT !.at = "key"]
       ELSE UNCHANGED <<claim, boards, scan>>
    /\ UNCHANGED <<scans, treeVars>>

\* Every port of the hub is asked about, or of every hub.
CloseHub ==
    /\ scan.at = "ports" /\ \A p \in Port : <<scan.hub, p>> \in asked
    /\ scan' = [scan EXCEPT !.at = IF Hub \X Port \subseteq asked THEN "idle" ELSE "hubs"]
    /\ UNCHANGED <<claim, scans, asked, boards, treeVars>>

\* ioboard_driverkey(): the full answer opens the window; a size query, answered the
\* same way before it, changes nothing.
DriverKey ==
    /\ scan.at = "key" /\ claim # Unclaimed
    /\ armed' = TRUE /\ given' = FALSE
    /\ scan' = [scan EXCEPT !.at = "lookup"]
    /\ walk' = [walk EXCEPT !["game"] = [chain |-> Chains, left |-> Siblings, board |-> FALSE]]
    /\ found' = FALSE /\ shared' = (walk["dinput"] # Nowhere)
    /\ UNCHANGED <<claim, scans, asked, boards>>

\* DirectInput begins a walk.
DinputWalks ==
    /\ walk["dinput"] = Nowhere
    /\ walk' = [walk EXCEPT !["dinput"] = [chain |-> Chains, left |-> Siblings, board |-> FALSE]]
    /\ shared' = TRUE
    /\ UNCHANGED <<claim, scan, scans, asked, boards, armed, given, found>>

\* CM_Get_Sibling at a chain's end hands out the board when it may.
Splices == claim # Unclaimed /\ armed /\ ~given

\* hle_cm_get_sibling.  The board is the last of its chain.
GetSibling(w) ==
    LET a == walk[w]
    IN  /\ a # Nowhere
        /\ IF ~a.board /\ a.left > 0
           THEN walk' = [walk EXCEPT ![w].left = @ - 1] /\ UNCHANGED given
           ELSE IF ~a.board /\ Splices
           THEN walk' = [walk EXCEPT ![w].board = TRUE] /\ given' = TRUE
           ELSE /\ walk' = [walk EXCEPT ![w] =
                              IF a.chain > 1
                              THEN [chain |-> a.chain - 1, left |-> Siblings, board |-> FALSE]
                              ELSE Nowhere]
                /\ UNCHANGED given
        /\ scan' = IF w = "game" /\ walk'[w] = Nowhere THEN [scan EXCEPT !.at = "ports"] ELSE scan
        /\ UNCHANGED <<claim, scans, asked, boards, armed, found, shared>>

\* hle_cm_get_devnode_prop with CM_DRP_DRIVER on the board: its key is read and the
\* window closed; the game's lookup ends with the match.
ReadKey(w) ==
    /\ walk[w].board /\ claim # Unclaimed
    /\ armed' = FALSE
    /\ found' = (found \/ w = "game")
    /\ scan' = IF w = "game" THEN [scan EXCEPT !.at = "ports"] ELSE scan
    /\ walk' = IF w = "game" THEN [walk EXCEPT ![w] = Nowhere] ELSE walk
    /\ UNCHANGED <<claim, scans, asked, boards, given, shared>>

\* The game reads the key of every node it is handed.
UsbNext ==
    \/ NewScan \/ CloseHub \/ DriverKey \/ DinputWalks
    \/ \E h \in Hub, n \in HubHandle : OpenHub(h, n)
    \/ \E p \in Port : AskPort(p)
    \/ \E w \in Walker : ReadKey(w)
    \/ \E w \in Walker : ~(w = "game" /\ walk[w].board) /\ GetSibling(w)

\* Types of the claim, the scan and the walks.
UsbTyped ==
    /\ claim \in [hub : HubHandle \cup {"none"}, port : Port \cup {0}]
    /\ scan \in [at : {"idle", "hubs", "ports", "key", "lookup"}, hub : Hub \cup {"none"},
                 handle : HubHandle \cup {"none"}]
    /\ scans \in Nat /\ asked \subseteq Hub \X Port /\ boards \in {0, 1}
    /\ armed \in BOOLEAN /\ given \in BOOLEAN /\ found \in BOOLEAN /\ shared \in BOOLEAN
    /\ walk \in [Walker -> [chain : Nat, left : Nat, board : BOOLEAN]]
-----------------------------------------------------------------------------
\* "The game wants exactly one": whatever numbers the hubs' handles have, one answer
\* of a scan is the board when a port is free and none when not; its key is found
\* again in the tree unless DirectInput walked meanwhile; and outside the game's own
\* lookup no walk can be handed the node.
OneBoard ==
    /\ boards = IF asked \cap Empty = {} THEN 0 ELSE 1
    /\ scan.at = "ports" /\ claim # Unclaimed /\ ~shared => found
    /\ armed /\ ~given => scan.at = "lookup"
=============================================================================
