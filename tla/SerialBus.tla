------------------------------ MODULE SerialBus -----------------------------
(***************************************************************************)
(* The cabinet's serial ports as the game sees them                        *)
(* (src/src/runtime/hle_callback.c, hle_create_file to hle_close_handle):  *)
(* which of the JVS board, the card reader, the silent drive board and     *)
(* Windows answers an open, and which answers a call on a handle.  What    *)
(* then happens on the card reader's handle is CardPort, composed here;    *)
(* what happens on the JVS board's is JvsPort.                             *)
(***************************************************************************)
EXTENDS CardPort

CONSTANTS
    Option,     \* what the environment may say: [jvs, card, drive, refuse]
    Com,        \* the COM ports the game opens
    File,       \* and other names
    Native      \* handle values Windows gives out

\* atoi() of a variable that is not set is not asked for: 0 is "no drive stub".
ASSUME OptionAssumption ==
    /\ Option \subseteq [jvs : Nat, card : Nat, drive : Nat, refuse : BOOLEAN]
    /\ Com \subseteq Nat \ {0}
    /\ Com \cap File = {} /\ Native \cap {"jvs", "card", "drive"} = {}

VARIABLES
    option,     \* the environment: ES3_JVS_PORT, ES3_CARD_PORT, ES3_DRIVE_STUB, ES3_NO_COM
    held        \* the handles the game holds, each with the name it opened

routeVars == <<option, held>>
busVars    == <<routeVars, portVars>>

BusInit == /\ option \in Option /\ held = << >> /\ CardInit
-----------------------------------------------------------------------------
\* es3_jvs_open and es3_card_open compare the number after "COM" with the one they
\* are told, or their default; drive_stub_open has no default.
JvsOpens(name)   == name = option.jvs
CardOpens(name)  == name = option.card
DriveOpens(name) == name = option.drive

\* The order hle_create_file asks in.
Claimed(name) ==
    CASE JvsOpens(name) -> "jvs"
      [] ~JvsOpens(name) /\ CardOpens(name) -> "card"
      [] ~JvsOpens(name) /\ ~CardOpens(name) /\ DriveOpens(name) -> "drive"
      [] OTHER -> "windows"

\* The game's handles when it gets h for a name.
Holding(h, name) == [k \in DOMAIN held \cup {h} |-> IF k = h THEN name ELSE held[k]]

\* hle_create_file: refused under ES3_NO_COM, claimed, or left to Windows, which may
\* have no such port.
CreateFile(name) ==
    /\ ~(option.refuse /\ name \in Com)
    /\ IF Claimed(name) = "windows"
       THEN \E h \in Native \ DOMAIN held : held' = Holding(h, name)
       ELSE held' = Holding(Claimed(name), name)
    /\ UNCHANGED <<option, portVars>>

\* hle_close_handle: the runtime's ports stay, whatever is in them.
CloseHandle(h) ==
    /\ h \in Native \cap DOMAIN held
    /\ held' = [k \in DOMAIN held \ {h} |-> held[k]]
    /\ UNCHANGED <<option, portVars>>

Overlapped == {"ReadFileEx", "WriteFileEx", "CancelIoEx"}

\* Which board a call on handle h reaches: es3_jvs_is_port, es3_card_is_port and
\* is_drive_stub, asked in each handler.  The overlapped calls do not ask the last.
Reaches(call, h) ==
    IF h \in {"jvs", "card"} THEN h
    ELSE IF h = "drive" /\ call \notin Overlapped THEN "drive"
    ELSE "windows"

\* The calls on the reader's handle.
OnCard(call) == \E h \in DOMAIN held : Reaches(call, h) = "card"

OnBoard(A) == A /\ UNCHANGED routeVars

BusNext ==
    \/ \E name \in Com \cup File : CreateFile(name)
    \/ \E h \in DOMAIN held : CloseHandle(h)
    \/ \E t \in Thread, n \in 1 .. Len(line) :
          \/ OnCard("WriteFile") /\ OnBoard(WriteFile(t, n))
          \/ OnCard("WriteFileEx") /\ OnBoard(WriteFileEx(t, n))
    \/ \E t \in Thread, n \in Length :
          \/ OnCard("ReadFile") /\ OnBoard(ReadFile(t, n))
          \/ OnCard("ReadFileEx") /\ OnBoard(PostRead(t, n))
    \/ \E t \in Thread : OnCard("CancelIoEx") /\ OnBoard(Cancel(t))
    \/ \E t \in Thread : OnBoard(CompleteWrite(t)) \/ OnBoard(AlertableWait(t))
    \/ \E m \in Message : OnCard("WriteFile") /\ OnBoard(Say(m))
    \/ OnBoard(DeadlineEnds) \/ OnBoard(Ticker)

\* Time passes and the ticker runs.  Nothing is asked of the game.
BusFairness == WF_busVars(OnBoard(DeadlineEnds)) /\ WF_busVars(OnBoard(Ticker))

BusSpec == BusInit /\ [][BusNext]_busVars /\ BusFairness
-----------------------------------------------------------------------------
\* A posted read ends although the line stays silent: it is filled, taken over by the
\* next read or cancelled.
ReadEnds == \A i \in 1 .. MaxReads : read.id = i ~> read.id # i
=============================================================================
