----------------------------- MODULE NpuAxilRegs -----------------------------
(***************************************************************************)
(* The control and status registers of the NPU and their side effects      *)
(* (npu_axil_regs.v): start, soft and hard reset, the fault evidence, the   *)
(* command-queue registers, the go pulses and the interrupt.               *)
(*                                                                         *)
(* Two writers share them in every cycle: the host through AXI-Lite (hw,   *)
(* at the cycle the slave commits it, wr_fire) and the NPU's own core      *)
(* through its mirror port (cw).  A write is [reg, val]; descriptor and    *)
(* operand registers hold whole values (byte strobes are abstracted).      *)
(***************************************************************************)
EXTENDS Integers

CONSTANT NoCause    \* ERR_CAUSE = 0

VARIABLES
    ctrl,          \* [start, irq_en]: the stored bits of CTRL
    soft_rst, hard_q, hard_req,
    cq,            \* [head, tail, enable, busy, err]
    err_cause,
    dma_desc, wb_desc,           \* DMA_SRC/DST/LEN, WB_SRC/DST/LEN
    dma_go, wb_go, mat_go,       \* one-cycle pulses
    irq_pending,
    edge           \* the delayed copies the interrupt looks at

regVars == <<ctrl, soft_rst, hard_q, hard_req, cq, err_cause, dma_desc, wb_desc,
             dma_go, wb_go, mat_go, irq_pending, edge>>

NoWrite == [reg |-> "none"]
NoDesc  == [src |-> 0, dst |-> 0, len |-> 0]
Aborted == 8     \* ABORTED(8), latched at quiesce when nothing else was

ASSUME CauseAssumption == NoCause # Aborted

RegsInit ==
    /\ ctrl = [start |-> FALSE, irq_en |-> FALSE]
    /\ soft_rst = FALSE /\ hard_q = FALSE /\ hard_req = FALSE
    /\ cq = [head |-> 0, tail |-> 0, enable |-> FALSE, busy |-> FALSE, err |-> FALSE]
    /\ err_cause = NoCause
    /\ dma_desc = NoDesc /\ wb_desc = NoDesc
    /\ dma_go = FALSE /\ wb_go = FALSE /\ mat_go = FALSE
    /\ irq_pending = FALSE
    /\ edge = [dma_done |-> FALSE, wb_done |-> FALSE, npu_done |-> FALSE,
               cq_err |-> FALSE, dma_err |-> FALSE]

-----------------------------------------------------------------------------
\* Bits of a CTRL write: start, irq_clear, soft, irq_en, hard.
CtrlWrite(hw) == hw.reg = "CTRL"
SoftWrite(hw) == CtrlWrite(hw) /\ (hw.val.soft \/ hw.val.hard)
HardWrite(hw) == CtrlWrite(hw) /\ hw.val.hard

\* Mutant: the acknowledgement is taken from the wrong edge of enable.
AckDisable(hw) == hw.reg = "CQ_CTRL" /\ cq.enable /\ hw.val

\* CQ_CTRL enable going 0 -> 1 acknowledges the fault evidence.
Ack(hw) == hw.reg = "CQ_CTRL" /\ ~cq.enable /\ hw.val

(* The abort is over when the engines are quiet.  quiet is engines_quiet,  *)
(* !dma_busy && !wb_busy && !mat_busy.                                     *)
Quiesced(quiet) == soft_rst /\ quiet
Latched(quiet)  == Quiesced(quiet) /\ ~hard_q

\* Mutant: the first-writer latch with the wrong polarity.
CoreCauseLater(cw) == cw.reg = "ERR_CAUSE" /\ err_cause # NoCause /\ cw.val # NoCause

CoreCause(cw) == cw.reg = "ERR_CAUSE" /\ err_cause = NoCause /\ cw.val # NoCause

\* The later writer of the clocked block wins: quiesce, host, core.
ResetBits(hw, quiet) ==
    /\ hard_req' = HardWrite(hw)
    /\ hard_q' = (hard_q \/ HardWrite(hw))
    /\ soft_rst' = (SoftWrite(hw) \/ (soft_rst /\ ~quiet))
    /\ ctrl' = IF CtrlWrite(hw)
               THEN [start |-> hw.val.start /\ ~SoftWrite(hw), irq_en |-> hw.val.irq_en]
               ELSE ctrl

Evidence(hw, cw, quiet) ==
    err_cause' = IF CoreCause(cw) THEN cw.val
                 ELSE IF Ack(hw) THEN NoCause
                 ELSE IF Latched(quiet) /\ err_cause = NoCause THEN Aborted
                 ELSE err_cause

QueueRegs(hw, cw, quiet) ==
    cq' = [head   |-> IF cw.reg = "CQ_HEAD" THEN cw.val ELSE cq.head,
           tail   |-> IF hw.reg = "CQ_TAIL" THEN hw.val ELSE cq.tail,
           enable |-> IF hw.reg = "CQ_CTRL" THEN hw.val ELSE cq.enable,
           busy   |-> IF cw.reg = "CQ_EVENT" /\ cw.val.idle THEN FALSE
                      ELSE IF cw.reg = "CQ_EVENT" /\ cw.val.busy THEN TRUE
                      ELSE cq.busy /\ ~Quiesced(quiet),
           err    |-> IF CoreCause(cw) THEN TRUE
                      ELSE IF Ack(hw) THEN FALSE ELSE cq.err \/ Latched(quiet)]

\* GO registers pulse for one cycle and are locked during an abort.
Pulses(hw, cw) ==
    /\ dma_go' = ((hw.reg = "DMA_GO" \/ cw.reg = "DMA_GO") /\ ~soft_rst)
    /\ wb_go'  = ((hw.reg = "WB_GO" \/ cw.reg = "WB_GO") /\ ~soft_rst)
    /\ mat_go' = (cw.reg = "MAT_CTRL" /\ ~soft_rst)
    /\ dma_desc' = IF cw.reg = "DMA_DESC" THEN cw.val
                   ELSE IF hw.reg = "DMA_DESC" THEN hw.val ELSE dma_desc
    /\ wb_desc'  = IF cw.reg = "WB_DESC" THEN cw.val
                   ELSE IF hw.reg = "WB_DESC" THEN hw.val ELSE wb_desc

\* A completion or error edge sets the pending bit; a set beats irq_clear.
Rises(now) ==
    \/ ~cq.enable /\ ((now.dma_done /\ ~edge.dma_done) \/ (now.wb_done /\ ~edge.wb_done))
    \/ now.npu_done /\ ~edge.npu_done
    \/ now.cq_err /\ ~edge.cq_err
    \/ now.dma_err /\ ~edge.dma_err

Interrupt(hw, cw, now) ==
    /\ edge' = now
    /\ irq_pending' = \/ Rises(now) \/ (cw.reg = "CQ_EVENT" /\ cw.val.irq)
                      \/ irq_pending /\ ~(CtrlWrite(hw) /\ hw.val.irq_clear)

Irq == ~hard_q /\ irq_pending /\ ctrl.irq_en

(* One rising clock edge of everything but the interrupt. *)
RegsCoreClk(hw, cw, quiet) ==
    /\ ResetBits(hw, quiet)
    /\ Evidence(hw, cw, quiet)
    /\ QueueRegs(hw, cw, quiet)
    /\ Pulses(hw, cw)

(* One rising clock edge.  s: dma_done, wb_done, npu_done, dma_err wires.   *)
RegsClk(hw, cw, quiet, s) ==
    /\ RegsCoreClk(hw, cw, quiet)
    /\ Interrupt(hw, cw, [dma_done |-> s.dma_done, wb_done |-> s.wb_done,
                          npu_done |-> s.npu_done, dma_err |-> s.dma_err,
                          cq_err |-> cq.err])

\* The domain reset of a hard reset.
RegsReset ==
    /\ ctrl' = [start |-> FALSE, irq_en |-> FALSE]
    /\ soft_rst' = FALSE /\ hard_q' = FALSE /\ hard_req' = FALSE
    /\ cq' = [head |-> 0, tail |-> 0, enable |-> FALSE, busy |-> FALSE, err |-> FALSE]
    /\ err_cause' = NoCause
    /\ dma_desc' = NoDesc /\ wb_desc' = NoDesc
    /\ dma_go' = FALSE /\ wb_go' = FALSE /\ mat_go' = FALSE
    /\ irq_pending' = FALSE
    /\ edge' = [dma_done |-> FALSE, wb_done |-> FALSE, npu_done |-> FALSE,
                cq_err |-> FALSE, dma_err |-> FALSE]
=============================================================================
