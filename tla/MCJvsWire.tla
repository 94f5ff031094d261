----------------------------- MODULE MCJvsWire ------------------------------
(***************************************************************************)
(* Packets for JvsWire over eight byte values, SYNC and ESCAPE among them, *)
(* in the destination, the data, the length and the sum.                   *)
(***************************************************************************)
EXTENDS JvsWire

CONSTANTS Dest, Datum, DataLength, Damaged

\* Packets with a good sum, of every shape, and one whose sum is wrong.
MCMessages ==
    {[dest |-> d, data |-> s, ok |-> TRUE] :
       d \in Dest, s \in UNION {[1 .. n -> Datum] : n \in DataLength}}
    \cup {[dest |-> 1, data |-> s, ok |-> FALSE] : s \in Damaged}

MCDamaged == {<<4>>}

MCNoise == {<<0>>, <<ESCAPE, ESCAPE>>}
=============================================================================
