----------------------------- MODULE NpuStripBuf -----------------------------
(***************************************************************************)
(* The two-bank weight strip buffer (npu_strip_buf.v).  A cell holds one   *)
(* AXI beat; its content is abstracted to the shared-memory address it was *)
(* read from, -1 before the first write.                                   *)
(***************************************************************************)
EXTENDS NpuParams

VARIABLES
    bank,         \* the two memories: bank[b][beat]
    bank_valid    \* set of valid banks

stripBufVars == <<bank, bank_valid>>

Cells == 0 .. (StripMax \div BeatBytes) - 1

StripBufInit ==
    /\ bank = [b \in {0, 1} |-> [i \in Cells |-> -1]]
    /\ bank_valid = {}

\* dma_we with its bank, byte address and data; fill_done is strip_done.
StripBufClk(clear, we, b, waddr, data, fill_done) ==
    /\ bank_valid' = IF clear THEN {}
                     ELSE IF fill_done THEN bank_valid \cup {b} ELSE bank_valid
    /\ bank' = IF we THEN [bank EXCEPT ![b][waddr \div BeatBytes] = data] ELSE bank

\* The combinational read window of the matrix engine.
EngB(b, addr) == bank[b][addr \div BeatBytes]

\* The three $fatal checks of the write port.
UnalignedWrite(we, waddr)  == we /\ waddr % BeatBytes # 0
WriteOutOfStrip(we, waddr) == we /\ waddr + BeatBytes > StripMax
BankCollision(we, wb, re, rb) == we /\ re /\ wb = rb
=============================================================================
