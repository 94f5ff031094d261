------------------------------ MODULE ByteRing ------------------------------
(***************************************************************************)
(* The ring buffer both serial boards answer through: out, out_head and    *)
(* out_tail of JvsPort (jvs.c) and of CardPort (card.c).  One slot is      *)
(* always left empty, so that head = tail means empty and never full.      *)
(* Every caller holds the port's lock, so each operation is one step.      *)
(***************************************************************************)
EXTENDS Integers, Sequences

CONSTANTS FIFO_SIZE,   \* the slots of the ring
          Byte,        \* the bytes that can be pushed
          Request,     \* the lengths a reader may ask for
          NoByte       \* what a slot holds before anything was stored in it

ASSUME RingAssumption == /\ FIFO_SIZE \in Nat \ {0}
                         /\ Request \subseteq Nat
                         /\ NoByte \notin Byte

VARIABLES ring,        \* out: the slots
          out_head,    \* the oldest byte waiting
          out_tail,    \* the slot the next byte goes to
          dst          \* what the last out_take copied ring

ringVars == <<ring, out_head, out_tail, dst>>

Slot == 0 .. FIFO_SIZE - 1

RingInit == /\ ring = [s \in Slot |-> NoByte]
        /\ out_head = 0
        /\ out_tail = 0
        /\ dst = << >>

\* out_avail(): how many bytes wait.
OutAvail == (out_tail + FIFO_SIZE - out_head) % FIFO_SIZE

\* What if out_push() had no test for a full ring?
PushOverwriting(b) ==
    /\ ring' = [ring EXCEPT ![out_tail] = b]
    /\ out_tail' = (out_tail + 1) % FIFO_SIZE
    /\ UNCHANGED <<out_head, dst>>

\* out_push(): a full ring drops the byte and never blocks.
OutPush(b) ==
    LET next == (out_tail + 1) % FIFO_SIZE
    IN  /\ next # out_head
        /\ ring' = [ring EXCEPT ![out_tail] = b]
        /\ out_tail' = next
        /\ UNCHANGED <<out_head, dst>>

\* out_push() on a full ring: its early return.
OutDrop(b) == /\ (out_tail + 1) % FIFO_SIZE = out_head
              /\ UNCHANGED ringVars

\* What if out_take() did not stop where head meets tail?
TakePastTail(n) ==
    /\ dst' = [i \in 1 .. n |-> ring[(out_head + (i - 1)) % FIFO_SIZE]]
    /\ out_head' = (out_head + n) % FIFO_SIZE
    /\ UNCHANGED <<ring, out_tail>>

\* out_take(): the loop stops at n bytes or when head meets tail.
OutTake(n) ==
    LET k == IF n <= OutAvail THEN n ELSE OutAvail
    IN  /\ dst' = [i \in 1 .. k |-> ring[(out_head + (i - 1)) % FIFO_SIZE]]
        /\ out_head' = (out_head + k) % FIFO_SIZE
        /\ UNCHANGED <<ring, out_tail>>

RingNext == \/ \E b \in Byte : OutPush(b) \/ OutDrop(b)
        \/ \E n \in Request : OutTake(n)

RingSpec == RingInit /\ [][RingNext]_ringVars
-----------------------------------------------------------------------------
\* The bytes waiting, oldest first: the refinement mapping.
Waiting == [i \in 1 .. OutAvail |-> ring[(out_head + (i - 1)) % FIFO_SIZE]]

Fifo == INSTANCE ByteFifo WITH queue <- Waiting, taken <- dst,
                               Capacity <- FIFO_SIZE - 1

(***************************************************************************)
(* Type invariant of the ring (jvs.c JvsPort.out, out_head, out_tail).     *)
(***************************************************************************)
RingTypeOK == /\ ring \in [Slot -> Byte \cup {NoByte}]
          /\ out_head \in Slot
          /\ out_tail \in Slot
          /\ dst \in Seq(Byte \cup {NoByte})

(***************************************************************************)
(* The slots between head and tail hold bytes that were pushed: neither a  *)
(* read nor the count of waiting bytes ever reaches a slot out_push() has  *)
(* not filled, across every wrap of the two indices.                       *)
(***************************************************************************)
WaitingIsWritten == \A i \in 1 .. OutAvail : Waiting[i] # NoByte

(***************************************************************************)
(* out_push(), out_avail() and out_take() together are a queue of          *)
(* FIFO_SIZE - 1 bytes: nothing lost before it is full, nothing reordered, *)
(* nothing read twice.                                                     *)
(***************************************************************************)
ImplementsFifo == Fifo!Spec
=============================================================================
