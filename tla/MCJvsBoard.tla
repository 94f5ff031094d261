---------------------------- MODULE MCJvsBoard -----------------------------
(***************************************************************************)
(* The two halves of the JVS board: what packets do (JvsNode) and how they *)
(* come off the wire (JvsWire).  The node takes its packets from           *)
(* Packet whatever the bytes were, so a behaviour follows one of the two.  *)
(***************************************************************************)
EXTENDS MCJvsNode, MCJvsWire

VARIABLE part

BoardInit == part \in {"node", "wire"} /\ Init /\ WireInit

BoardNext == \/ part = "node" /\ Next /\ UNCHANGED <<wireVars, part>>
             \/ part = "wire" /\ WireNext /\ UNCHANGED <<vars, part>>

BoardSpec == BoardInit /\ [][BoardNext]_<<vars, wireVars, part>>
=============================================================================
