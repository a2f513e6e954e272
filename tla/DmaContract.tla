----------------------------- MODULE DmaContract -----------------------------
(***************************************************************************)
(* What the firmware may rely on when it programs the DMA engine           *)
(* (dma_read, dma_writeback and wait_done in cq_sequencer.c): a transfer   *)
(* moves its words in order, from the first one on; it may stop early, but *)
(* then it reports an error or no completion; done without err means that  *)
(* every word has been moved.                                              *)
(***************************************************************************)
EXTENDS Integers

VARIABLES active, len, moved, done, err

cvars == <<active, len, moved, done, err>>

ContractInit ==
    /\ active = FALSE /\ len = 0 /\ moved = 0
    /\ done = FALSE /\ err = FALSE

(* A command is accepted; a malformed one is marked before anything moves. *)
Accept ==
    /\ ~active
    /\ active' = TRUE
    /\ len' \in Nat /\ moved' = 0
    /\ done' = FALSE /\ err' \in BOOLEAN

(* The next words are moved, or the bus reports an error, or both. *)
Move ==
    /\ active
    /\ moved' \in moved..len
    /\ err' \in {err, TRUE}
    /\ UNCHANGED <<active, len, done>>

(* The transfer ends.  It may claim completion only when it is complete or
   when the error flag tells the reader not to trust it. *)
End ==
    /\ active
    /\ active' = FALSE
    /\ done' \in {FALSE} \cup {moved = len \/ err}
    /\ UNCHANGED <<len, moved, err>>

(* An abort clears the sticky flags of a finished transfer. *)
Clear ==
    /\ ~active
    /\ done' = FALSE /\ err' = FALSE
    /\ UNCHANGED <<active, len, moved>>

ContractNext == Accept \/ Move \/ End \/ Clear

ContractSpec == ContractInit /\ [][ContractNext]_cvars
=============================================================================
