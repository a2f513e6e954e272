----------------------------- MODULE CqContract -----------------------------
(***************************************************************************)
(* What the host may rely on when it publishes descriptors (ADR-0035,      *)
(* ADR-0052): they are executed in the order in which they were published,  *)
(* none is skipped and none runs before it is published.  A descriptor is   *)
(* named by its place in that order.                                       *)
(***************************************************************************)
EXTENDS Integers

VARIABLES
    sent,     \* descriptors published
    ran,      \* descriptors executed
    last      \* the one executed last (-1: none)

cqvars == <<sent, ran, last>>

CqInit == sent = 0 /\ ran = 0 /\ last = -1

Publish == sent' \in Nat /\ sent' >= sent

Run == ran < sent /\ last' = ran /\ ran' = ran + 1

\* Host and sequencer are two cores: both may move in one step.
CqNext == /\ Publish \/ UNCHANGED sent
          /\ Run \/ UNCHANGED <<ran, last>>

CqSpec == CqInit /\ [][CqNext]_cqvars
=============================================================================
