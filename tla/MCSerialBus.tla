---------------------------- MODULE MCSerialBus -----------------------------
(***************************************************************************)
(* SerialBus for TLC: a payload that holds a frame start of its own; the   *)
(* ports as they are by default, as drive_stub_open() wants them, all on   *)
(* one number, and refused.  What the commands do to the card              *)
(* (CardReader) is independent of how they came, so a behaviour follows    *)
(* one of the two.                                                         *)
(***************************************************************************)
EXTENDS SerialBus, CardReader

CONSTANTS ini, n1

MCMessage == {[kind |-> k, data |-> << >>] : k \in {"ack", "nack", "wake"}}
             \cup {[kind |-> "frame", data |-> d] : d \in {<<18>>, <<0, 0, 255>>}}
MCOption  == {[jvs |-> 1, card |-> 4, drive |-> 0, refuse |-> FALSE],
              [jvs |-> 3, card |-> 4, drive |-> 1, refuse |-> FALSE],
              [jvs |-> 4, card |-> 4, drive |-> 4, refuse |-> FALSE],
              [jvs |-> 1, card |-> 4, drive |-> 1, refuse |-> TRUE]}

VARIABLE part

ReaderInit ==
    /\ part \in {"port", "card"} /\ BusInit /\ Init
    /\ part = "port" => card = Format(CHOOSE u \in Uid : TRUE)
    /\ part = "card" => option = CHOOSE o \in Option : TRUE

ReaderNext == \/ part = "port" /\ BusNext /\ UNCHANGED <<vars, part>>
              \/ part = "card" /\ Next /\ UNCHANGED <<busVars, part>>

ReaderSpec == ReaderInit /\ [][ReaderNext]_<<busVars, vars, part>> /\ BusFairness
=============================================================================
