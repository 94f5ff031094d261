----------------------------- MODULE MCJvsLive ------------------------------
(***************************************************************************)
(* What can be checked with a few calls: the port with its ticker running, *)
(* and the ring of bytes under it (ByteRing), index by index.  The ring is *)
(* a part of the port that JvsPort takes as a sequence, so a behaviour     *)
(* follows one of the two.                                                 *)
(***************************************************************************)
EXTENDS MCJvsPort, ByteRing

VARIABLE part

LiveInit == part \in {"port", "ring"} /\ Init /\ RingInit

LiveNext == \/ part = "port" /\ Next /\ UNCHANGED <<ringVars, part>>
            \/ part = "ring" /\ RingNext /\ UNCHANGED <<vars, part>>

LiveSpec == LiveInit /\ [][LiveNext]_<<vars, ringVars, part>> /\ BoardFairness
=============================================================================
