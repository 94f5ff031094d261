----------------------------- MODULE MCJvsNode ------------------------------
(***************************************************************************)
(* Packets for JvsNode: addressing, coins counted and taken around each    *)
(* other, a byte the node does not know, a reply that fills up and one     *)
(* that is too long to send.                                               *)
(***************************************************************************)
EXTENDS JvsNode

Coins(n)       == [op |-> "coinp", slots |-> n]
Take(s, n)     == [op |-> "coindec", slot |-> s, amount |-> n]
Give(s, n)     == [op |-> "coininc", slot |-> s, amount |-> n]
Other(o)       == [op |-> o]
Assign(a)      == [op |-> "setaddr", addr |-> a]
To(d, cmds)    == [dest |-> d, cmds |-> cmds]

MCPackets == {
    To(255, <<Other("reset")>>),
    To(255, <<Assign(1)>>),
    To(255, <<Other("ident")>>),
    To(1, <<Coins(3), Take(1, 2), Coins(1)>>),
    To(1, <<Coins(2), Other("other"), Coins(2)>>),
    To(1, <<Take(1, 1), Take(3, 1), Give(1, 1)>>),
    To(1, <<Take(1, 1), Other("unknown"), Coins(1)>>),
    To(0, <<Other("ident"), Other("ident"), Other("ident"), Take(1, 1)>>),
    To(1, <<Other("ident"), Other("ident"), Coins(60)>>) }
=============================================================================
