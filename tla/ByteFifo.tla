------------------------------ MODULE ByteFifo ------------------------------
(***************************************************************************)
(* What the byte pipe from a board to the game promises: a queue of at     *)
(* most Capacity bytes.  A byte offered to a full queue is dropped and     *)
(* nothing else happens; a read takes as many bytes as there are, up to    *)
(* what was asked for, from the front.                                     *)
(***************************************************************************)
EXTENDS Integers, Sequences

CONSTANTS Byte,      \* the bytes that can be offered
          Capacity,  \* the most the pipe holds
          Request    \* the read lengths a caller may ask for

VARIABLES queue,     \* the bytes waiting, oldest first
          taken      \* what the last read returned

fifoVars == <<queue, taken>>

Least(m, n) == IF m <= n THEN m ELSE n

Init == queue = << >> /\ taken = << >>

Offer(b) == /\ Len(queue) < Capacity
            /\ queue' = Append(queue, b)
            /\ UNCHANGED taken

Take(n) == LET k == Least(n, Len(queue))
           IN  /\ taken' = SubSeq(queue, 1, k)
               /\ queue' = SubSeq(queue, k + 1, Len(queue))

Next == \/ \E b \in Byte : Offer(b)
        \/ \E n \in Request : Take(n)

Spec == Init /\ [][Next]_fifoVars
=============================================================================
