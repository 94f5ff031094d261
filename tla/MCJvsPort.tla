----------------------------- MODULE MCJvsPort ------------------------------
(***************************************************************************)
(* Model values for JvsPort: which operations have no completion routine,  *)
(* and the COMMTIMEOUTS worth telling apart.                               *)
(***************************************************************************)
EXTENDS JvsPort

CONSTANTS w1, w2

LastWriteSilent == {w2}

\* The setting that returns at once; and a total that wraps to zero for a read of two
\* bytes and not for a read of one (2 * 2 = Modulus).
MCTimeouts == { [interval |-> Modulus - 1, mult |-> 0, const |-> 0],
                [interval |-> 0, mult |-> 2, const |-> 0] }
=============================================================================
