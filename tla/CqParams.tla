------------------------------ MODULE CqParams ------------------------------
(* Parameters of the command ring that its models share. *)
EXTENDS Integers

CONSTANTS
    Size,      \* CQ_RING_SIZE
    BatchN     \* BATCH_N: descriptors the firmware copies at once

ASSUME RingAssumption == Size \in Nat /\ Size >= 2 /\ BatchN \in Nat \ {0}
=============================================================================
