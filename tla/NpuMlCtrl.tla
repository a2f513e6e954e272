------------------------------ MODULE NpuMlCtrl ------------------------------
(***************************************************************************)
(* Registers and clock step of the hardware GEMM sequencer (npu_ml_ctrl.v).*)
(*                                                                         *)
(* One job kick runs a whole tile loop: the legacy path (load blob, load   *)
(* fold, multiply, rescale, store, tile by tile) or the strip path, where  *)
(* the DMA prefetches the next weight strip into one bank of the strip     *)
(* buffer while the engine computes from the other.                        *)
(*                                                                         *)
(* The RTL is one clocked block in which a later assignment wins.  Here    *)
(* the registers that several of its parts write are records, and a part   *)
(* maps the record the earlier parts left to the next one: AfterMonitor,   *)
(* then AfterCsr, then the abort branch or the state's own action.         *)
(*                                                                         *)
(* Addresses in the TCM are pointers [rgn, i]: "tcm" is the part the job    *)
(* itself writes, the other regions hold operands staged by the firmware.  *)
(* Of those a pointer names the window, not its bytes: window i of "param", *)
(* "fold" and "act" is read at StripParamPtr(i), StripFoldPtr(i) and in      *)
(* StripActPtr(i \div Reps).  That is sound for jobs whose windows lie apart *)
(* (StagedApart), which NpuStrip assumes of its jobs.                       *)
(***************************************************************************)
EXTENDS NpuParams

CONSTANTS
    Reps,       \* operand windows of a full K-chunk (64 / LANES)
    SubTiles,   \* 8-column sub-tiles of a strip (8)
    StoreLen,   \* words of a stored tile (16)
    BlobBase, JobStride,   \* legacy blobs in shared memory
    ActSrc,                \* resident activation of the stationary mode
    DstBase, DstStride     \* legacy results, and the spacing of every result

TileBytes  == Reps * BeatBytes       \* weights of one sub-tile and chunk (512)
ChunkBytes == SubTiles * TileBytes   \* offset(c,t) = c*4096 + t*512

ASSUME MlAssumption ==
    /\ Reps \in Nat \ {0} /\ SubTiles \in Nat \ {0} /\ StoreLen \in Nat \ {0}
    /\ StoreLen % WPB = 0
    /\ {BlobBase, JobStride, ActSrc, DstBase, DstStride} \subseteq Nat

VARIABLES
    ml_st,                 \* state
    cfg,                   \* the job registers the firmware programs
    job,                   \* busy, done, err, loop counters, compute bank, weight base
    pf,                    \* prefetch bookkeeping: pending, done_l, seen, fault
    busy_seen,
    mlmat, mldma, mlwb, mlstrip,   \* registered command outputs with their pulses
    ml_err_we,             \* ml_err_cause_we (the cause is always ML_STRIP_DMA_ERR)
    ml_d                   \* state_d and strip_compute_bank_d of the swap check

mlVars == <<ml_st, cfg, job, pf, busy_seen, mlmat, mldma, mlwb, mlstrip, ml_err_we,
            ml_d>>

StripStates == {"STRIP_PREFILL", "STRIP_PREFILL_W", "STRIP_BEGIN", "STRIP_TILE",
                "STRIP_CLR_W", "STRIP_OP", "STRIP_OP_W", "STRIP_RSC", "STRIP_RSC_W",
                "STRIP_STO_WAIT", "STRIP_STO", "STRIP_STO_W", "STRIP_RV", "STRIP_ADV",
                "STRIP_DRAIN_ERR"}
LegacyStates == {"LOADA", "LOADA_W", "LDW", "LDW_W", "CLR", "CLR_W", "OP", "OP_W",
                 "RSC", "RSC_W", "STO", "STO_W", "NEXT"}
MlStates == {"IDLE", "ABORT", "DONE"} \cup StripStates \cup LegacyStates

\* The job registers.
CfgType == [bypass : BOOLEAN, stationary : BOOLEAN, tight : BOOLEAN, strip : BOOLEAN,
            ntiles : Nat, wbase : Nat, sbytes : Nat, nstrips : Nat, kchunks : Nat,
            ktail : Nat, ntail : Nat, outbase : Nat]

Ptr(r, n) == [rgn |-> r, i |-> n]
NoPf   == [pending |-> FALSE, done |-> FALSE, seen |-> FALSE, fault |-> FALSE]
Cfg0   == [bypass |-> FALSE, stationary |-> FALSE, tight |-> FALSE, strip |-> FALSE,
           ntiles |-> 0, wbase |-> 0, sbytes |-> 0, nstrips |-> 0, kchunks |-> 0,
           ktail |-> 0, ntail |-> 0, outbase |-> DstBase]

MlInit ==
    /\ ml_st = "IDLE" /\ cfg = Cfg0 /\ pf = NoPf /\ busy_seen = FALSE
    /\ job = [busy |-> FALSE, done |-> FALSE, err |-> FALSE, tile |-> 0, strip |-> 0,
              chunk |-> 0, sub |-> 0, bank |-> 0, wbase |-> 0]
    /\ mlmat = [go |-> FALSE, op |-> "NOP", bank |-> 0, rpt |-> 0, a |-> Ptr("tcm", 0),
                b |-> Ptr("tcm", 0), param |-> Ptr("tcm", 0), out |-> 0, bad |-> FALSE]
    /\ mldma = [go |-> FALSE, src |-> 0, dst |-> 0, len |-> 0]
    /\ mlwb = [go |-> FALSE, src |-> 0, dst |-> 0, len |-> 0]
    /\ mlstrip = [start |-> FALSE, addr |-> 0, bytes |-> 0, bank |-> 0, clear |-> FALSE]
    /\ ml_err_we = FALSE /\ ml_d = [st |-> "IDLE", bank |-> 0]

MlActive    == job.busy /\ ~cfg.bypass
StripActive == MlActive /\ cfg.strip

-----------------------------------------------------------------------------
(* What the job registers say.  ktail and ntail are counted in windows and *)
(* sub-tiles instead of K-values and bytes.                                *)
StripKickIllegal ==
    /\ cfg.strip
    /\ \/ cfg.wbase % PageBytes # 0
       \/ cfg.nstrips = 0 \/ cfg.sbytes = 0 \/ cfg.sbytes > StripMax
       \/ cfg.kchunks = 0
       \/ cfg.ktail = 0 \/ cfg.ktail > Reps
       \/ cfg.ntail = 0 \/ cfg.ntail > SubTiles
       \/ cfg.ntiles # 0

\* Mutant: the strips overlap in the fold and parameter tables.
GlobalSubFlat == job.strip + job.sub
GlobalSub   == job.strip * SubTiles + job.sub
StripLast   == job.strip + 1 >= cfg.nstrips
\* Mutant: one sub-tile too many in a full strip.
SubtileLastLate == IF StripLast THEN job.sub + 1 >= cfg.ntail ELSE job.sub = SubTiles
SubtileLast == IF StripLast THEN job.sub + 1 >= cfg.ntail ELSE job.sub = SubTiles - 1
\* Mutant: the prefetch fills the bank that is computed from.
OtherBankSame == job.bank
OtherBank   == 1 - job.bank
ChunkLast   == job.chunk + 1 >= cfg.kchunks

\* Where the weights of the chunk and sub-tile start in their bank: the chunk
\* counts with its low four bits only.
StripWeightBase == (job.chunk % 16) * ChunkBytes + job.sub * TileBytes

\* The bytes of the staged operands in the TCM: 64 of parameters and 32 of folds
\* for sub-tile g of the job, 512 of activations for a chunk k.
StripParamPtr(g) == 4608 + 64 * g      \* STRIP_PARAM_PTR 0x1200
StripFoldPtr(g)  == 5632 + 32 * g      \* STRIP_FOLD_PTR 0x1600
StripActPtr(k)   == 2368 + 512 * k     \* OP_A_ADDR 0x940, STRIP_A_STEP

\* The windows of job c keep apart, whichever of them: the activations end below
\* the batch that the firmware keeps at 0xF00, the parameters below the folds.
StagedApart(c) ==
    /\ \A k \in 0 .. c.kchunks - 1 : StripActPtr(k) + 512 <= 3840
    /\ \A g, h \in 0 .. c.nstrips * SubTiles - 1 : StripParamPtr(g) + 64 <= StripFoldPtr(h)

\* Layout of the legacy blob in the TCM, in windows of WPB words: fold, param,
\* a pad, operand a, operand b.  The pad is as large as a result tile: MAT_OUT
\* lies in it.  The stationary blob has no activation, the tight one no pad
\* either, and MAT_OUT moves behind its weights.
Win(n)    == n * WPB
FoldPtr   == Win(0)
ParamPtr  == Win(1)
AOff      == Win(2) + StoreLen              \* OP_A_ADDR, OP_B_B1
ActSlot   == AOff + Win(Reps)               \* OP_A_B1, OP_B_ADDR, ACT_DSTW
TightB    == Win(2)
OpA       == IF cfg.stationary THEN ActSlot ELSE AOff
OpB       == IF cfg.tight THEN TightB ELSE IF cfg.stationary THEN AOff ELSE ActSlot
\* Mutant: the operand of the resident mode is loaded in every mode.
LoadLenShort == AOff + Win(Reps)
LoadLen   == IF cfg.tight THEN TightB + Win(Reps)
             ELSE IF cfg.stationary THEN AOff + Win(Reps) ELSE AOff + Win(2 * Reps)
ActLen    == Win(Reps)
MatOut    == Win(2)                         \* OUT_BASE, STORE_SRCW
LegacyOut == IF cfg.tight THEN TightB + Win(Reps) ELSE MatOut

-----------------------------------------------------------------------------
(* The three parts of the clocked block that run before the state machine.  *)

\* e: busy, done and error wires of the engines.
\* Mutant: the monitor does not latch a prefetch fault.
AfterMonitorDeaf(e) ==
    IF ~pf.pending THEN pf
    ELSE [pf EXCEPT !.pending = ~(pf.seen /\ e.strip_done),
                    !.done = @ \/ (pf.seen /\ e.strip_done),
                    !.seen = @ \/ e.strip_busy]

AfterMonitor(e) ==
    IF ~pf.pending THEN pf
    ELSE [pending |-> ~(pf.seen /\ e.strip_done),
          done    |-> pf.done \/ (pf.seen /\ e.strip_done),
          seen    |-> pf.seen \/ e.strip_busy,
          fault   |-> pf.fault \/ e.strip_err]

(* w: the core's CSR write of this cycle.  "cfg" writes one or more of the   *)
(* job registers, "go" pulses ML_GO.                                         *)
GoTaken(w, ab) == w.reg = "go" /\ ~job.busy /\ ~ab /\ ~cfg.bypass

\* Mutant: a job starts with the loop counters the last one left.
AfterCsrJobKeep(w, ab) ==
    IF GoTaken(w, ab)
    THEN [job EXCEPT !.busy = ~StripKickIllegal, !.done = FALSE, !.err = StripKickIllegal,
                     !.bank = 0]
    ELSE job

AfterCsrJob(w, ab) ==
    IF GoTaken(w, ab)
    THEN [busy |-> ~StripKickIllegal, done |-> FALSE, err |-> StripKickIllegal, tile |-> 0,
          strip |-> 0, chunk |-> 0, sub |-> 0, bank |-> 0, wbase |-> 0]
    ELSE job
AfterCsrPf(w, ab, e)  == IF GoTaken(w, ab) THEN NoPf ELSE AfterMonitor(e)
AfterCsrSeen(w, ab)   == IF GoTaken(w, ab) /\ ~StripKickIllegal THEN FALSE ELSE busy_seen
AfterCsrSt(w, ab)     == IF ~GoTaken(w, ab) THEN ml_st
                         ELSE IF StripKickIllegal THEN "IDLE"
                         ELSE IF cfg.strip THEN "STRIP_PREFILL"
                         ELSE IF cfg.stationary THEN "LOADA" ELSE "LDW"
CsrCfg(w) == cfg' = IF w.reg = "cfg" THEN w.val ELSE cfg

\* Every pulse is down unless this edge raises it; GO clears the bank state.
NoMat     == mlmat' = [mlmat EXCEPT !.go = FALSE]
NoDma     == mldma' = [mldma EXCEPT !.go = FALSE]
NoWb      == mlwb' = [mlwb EXCEPT !.go = FALSE]
NoStrip(clear) == mlstrip' = [mlstrip EXCEPT !.start = FALSE, !.clear = clear]
NoErrWe   == ml_err_we' = FALSE
Silent    == NoMat /\ NoDma /\ NoWb /\ NoStrip(FALSE) /\ NoErrWe
Goto(st)  == ml_st' = st

\* A job ends at the first engine error.
Retired(j) == [j EXCEPT !.busy = FALSE, !.err = TRUE]

\* ISSUE -> WAIT: done is sticky, so the engine must be seen busy first.
\* Mutant: the engine has finished when it is not busy any more, whatever it says.
WaitIdle(st, bad, bsy, dn, j, next, jnext) ==
    /\ ml_st = st
    /\ IF ~bsy /\ busy_seen THEN job' = jnext /\ Goto(next) ELSE job' = j /\ Goto(st)
    /\ busy_seen' = (busy_seen \/ bsy)
    /\ Silent
\* Mutant: done is believed without having seen the engine busy.
WaitStale(st, bad, bsy, dn, j, next, jnext) ==
    /\ ml_st = st
    /\ IF bad THEN job' = Retired(j) /\ Goto("IDLE")
       ELSE IF dn THEN job' = jnext /\ Goto(next) ELSE job' = j /\ Goto(st)
    /\ Silent /\ UNCHANGED busy_seen

Wait(st, bad, bsy, dn, j, next, jnext) ==
    /\ ml_st = st
    /\ \/ /\ bad
          /\ job' = Retired(j) /\ Goto("IDLE") /\ UNCHANGED busy_seen
       \/ /\ ~bad /\ bsy
          /\ busy_seen' = TRUE /\ job' = j /\ UNCHANGED ml_st
       \/ /\ ~bad /\ ~bsy /\ busy_seen /\ dn
          /\ job' = jnext /\ Goto(next) /\ UNCHANGED busy_seen
       \/ /\ ~bad /\ ~bsy /\ ~(busy_seen /\ dn)
          /\ job' = j /\ UNCHANGED <<ml_st, busy_seen>>
    /\ Silent
MatWait(st, e, j, next) == Wait(st, e.mat_err, e.mat_busy, e.mat_done, j, next, j)

\* The ISSUE half, for each engine.
IssueMat(c, next) ==
    /\ mlmat' = c /\ busy_seen' = FALSE /\ Goto(next)
    /\ NoDma /\ NoWb /\ NoStrip(FALSE) /\ NoErrWe
IssueDma(src, dst, len, next) ==
    /\ mldma' = [go |-> TRUE, src |-> src, dst |-> dst, len |-> len]
    /\ busy_seen' = FALSE /\ Goto(next)
    /\ NoMat /\ NoWb /\ NoStrip(FALSE) /\ NoErrWe
IssueWb(src, dst, next) ==
    /\ mlwb' = [go |-> TRUE, src |-> src, dst |-> dst, len |-> StoreLen]
    /\ busy_seen' = FALSE /\ Goto(next)
    /\ NoMat /\ NoDma /\ NoStrip(FALSE) /\ NoErrWe
IssueStrip(addr, bank) ==
    /\ mlstrip' = [start |-> TRUE, addr |-> addr, bytes |-> cfg.sbytes, bank |-> bank,
                   clear |-> FALSE]
    /\ NoMat /\ NoDma /\ NoWb /\ NoErrWe

\* Commands keep the fields the state does not write.
LoadAcc(a)     == [mlmat EXCEPT !.go = TRUE, !.op = "LOADACC", !.bank = 0, !.rpt = 1, !.a = a]
OpCmd(a, b, n) == [mlmat EXCEPT !.go = TRUE, !.op = "OP", !.bank = 0, !.rpt = n,
                                !.a = a, !.b = b]
Rescale(prm, out) == [mlmat EXCEPT !.go = TRUE, !.op = "RESCALE_PC", !.bank = 0, !.rpt = 1,
                                   !.param = prm, !.out = out]

-----------------------------------------------------------------------------
(* Control states.  j, p, sn and st are what the monitor and the CSR write  *)
(* of the cycle left.                                                       *)
\* Mutant: the abort stops the engines and not the job that waits for them.
MlAbortStay(e) ==
    /\ job' = job /\ Goto(ml_st) /\ pf' = NoPf
    /\ NoMat /\ NoDma /\ NoWb /\ NoStrip(TRUE) /\ NoErrWe /\ UNCHANGED busy_seen

MlAbort(e) ==
    /\ LET quiet == ~e.mat_busy /\ ~e.dma_busy /\ ~e.wb_busy /\ ~e.strip_busy
       IN  IF quiet THEN job' = Retired(job) /\ Goto("IDLE")
                    ELSE job' = job /\ Goto("ABORT")
    /\ pf' = NoPf
    /\ NoMat /\ NoDma /\ NoWb /\ NoStrip(TRUE) /\ NoErrWe /\ UNCHANGED busy_seen

MlFault(clear, j, p, sn) ==        \* overrides whatever state the job is in
    /\ job' = j /\ pf' = p /\ busy_seen' = sn /\ Goto("STRIP_DRAIN_ERR")
    /\ NoMat /\ NoDma /\ NoWb /\ NoStrip(clear) /\ NoErrWe

MlIdle(clear, j, p, sn, st) ==
    /\ ml_st = "IDLE"
    /\ job' = j /\ pf' = p /\ busy_seen' = sn /\ Goto(st)
    /\ NoMat /\ NoDma /\ NoWb /\ NoStrip(clear) /\ NoErrWe

MlAbortDrain(e, j, p) ==           \* ABORT, with abort_i down again
    /\ ml_st = "ABORT"
    /\ IF ~e.mat_busy /\ ~e.dma_busy /\ ~e.wb_busy /\ ~e.strip_busy
       THEN job' = Retired(j) /\ Goto("IDLE")
       ELSE job' = j /\ UNCHANGED ml_st
    /\ pf' = p /\ Silent /\ UNCHANGED busy_seen

MlDone(j, p) ==
    /\ ml_st = "DONE"
    /\ job' = [j EXCEPT !.busy = FALSE, !.done = TRUE] /\ Goto("IDLE")
    /\ pf' = p /\ Silent /\ UNCHANGED busy_seen

-----------------------------------------------------------------------------
(* Strip path. *)
MlPrefill(j, p) ==
    /\ ml_st = "STRIP_PREFILL"
    /\ IssueStrip(cfg.wbase, 0)
    /\ pf' = [p EXCEPT !.seen = FALSE, !.pending = TRUE, !.done = FALSE]
    /\ job' = j /\ Goto("STRIP_PREFILL_W") /\ UNCHANGED busy_seen

MlPrefillW(e, j, p) ==
    /\ ml_st = "STRIP_PREFILL_W"
    /\ \/ /\ e.strip_err
          /\ pf' = [p EXCEPT !.fault = TRUE] /\ Goto("STRIP_DRAIN_ERR")
       \/ /\ ~e.strip_err /\ e.strip_busy
          /\ pf' = [p EXCEPT !.seen = TRUE] /\ UNCHANGED ml_st
       \/ /\ ~e.strip_err /\ ~e.strip_busy /\ pf.seen /\ e.strip_done
          /\ pf' = [p EXCEPT !.pending = FALSE, !.done = TRUE, !.seen = FALSE]
          /\ Goto("STRIP_BEGIN")
       \/ /\ ~e.strip_err /\ ~e.strip_busy /\ ~(pf.seen /\ e.strip_done)
          /\ pf' = p /\ UNCHANGED ml_st
    /\ job' = j /\ Silent /\ UNCHANGED busy_seen

MlBegin(j, p) ==                   \* prefetch the next strip into the other bank
    /\ ml_st = "STRIP_BEGIN"
    /\ \/ /\ ~StripLast
          /\ IssueStrip(cfg.wbase + (job.strip + 1) * cfg.sbytes, OtherBank)
          /\ pf' = [p EXCEPT !.pending = TRUE, !.done = FALSE, !.seen = FALSE]
       \/ /\ StripLast
          /\ pf' = [p EXCEPT !.pending = FALSE, !.done = TRUE, !.seen = FALSE]
          /\ Silent
    /\ job' = [j EXCEPT !.sub = 0] /\ Goto("STRIP_TILE") /\ UNCHANGED busy_seen

MlTile(j, p) ==
    /\ ml_st = "STRIP_TILE"
    /\ IssueMat(LoadAcc(Ptr("fold", GlobalSub)), "STRIP_CLR_W")
    /\ job' = [j EXCEPT !.chunk = 0] /\ pf' = p

MlClrW(e, j, p) == MatWait("STRIP_CLR_W", e, j, "STRIP_OP") /\ pf' = p

MlOp(j, p) ==
    /\ ml_st = "STRIP_OP"
    /\ IssueMat(OpCmd(Ptr("act", job.chunk * Reps), Ptr("strip", 0),
                      IF ChunkLast THEN cfg.ktail ELSE Reps), "STRIP_OP_W")
    /\ job' = [j EXCEPT !.wbase = StripWeightBase]
    /\ pf' = p

MlOpW(e, j, p) ==
    /\ Wait("STRIP_OP_W", e.mat_err, e.mat_busy, e.mat_done, j,
            IF ChunkLast THEN "STRIP_RSC" ELSE "STRIP_OP",
            IF ChunkLast THEN j ELSE [j EXCEPT !.chunk = job.chunk + 1])
    /\ pf' = p

MlRsc(j, p) ==
    /\ ml_st = "STRIP_RSC"
    /\ IssueMat(Rescale(Ptr("param", GlobalSub), MatOut), "STRIP_RSC_W")
    /\ job' = j /\ pf' = p

MlRscW(e, j, p) == MatWait("STRIP_RSC_W", e, j, "STRIP_STO_WAIT") /\ pf' = p

\* Mutant: STORE does not wait.
MlStoWaitNot(j, p) ==
    /\ ml_st = "STRIP_STO_WAIT"
    /\ Goto("STRIP_STO")
    /\ job' = j /\ pf' = p /\ Silent /\ UNCHANGED busy_seen

\* npu_dma is a single engine: STORE waits for the prefetch chain.
MlStoWait(j, p) ==
    /\ ml_st = "STRIP_STO_WAIT"
    /\ IF pf.done THEN Goto("STRIP_STO") ELSE UNCHANGED ml_st
    /\ job' = j /\ pf' = p /\ Silent /\ UNCHANGED busy_seen

MlSto(j, p) ==
    /\ ml_st = "STRIP_STO"
    /\ IssueWb(MatOut, cfg.outbase + GlobalSub * DstStride, "STRIP_STO_W")
    /\ job' = j /\ pf' = p

MlStoW(e, j, p) ==
    /\ Wait("STRIP_STO_W", e.dma_err, e.wb_busy, e.wb_done, j,
            IF SubtileLast THEN "STRIP_RV" ELSE "STRIP_TILE",
            IF SubtileLast THEN j ELSE [j EXCEPT !.sub = job.sub + 1])
    /\ pf' = p

MlRv(j, p) ==                      \* rendezvous of compute and prefetch
    /\ ml_st = "STRIP_RV"
    /\ IF pf.done THEN Goto(IF StripLast THEN "DONE" ELSE "STRIP_ADV")
                  ELSE UNCHANGED ml_st
    /\ job' = j /\ pf' = p /\ Silent /\ UNCHANGED busy_seen

\* Mutant: the next strip is computed from the bank of the last one.
MlAdvNoSwap(j, p) ==
    /\ ml_st = "STRIP_ADV"
    /\ job' = [j EXCEPT !.strip = job.strip + 1]
    /\ pf' = [p EXCEPT !.done = FALSE, !.pending = FALSE, !.seen = FALSE]
    /\ Goto("STRIP_BEGIN") /\ Silent /\ UNCHANGED busy_seen

MlAdv(j, p) ==
    /\ ml_st = "STRIP_ADV"
    /\ job' = [j EXCEPT !.strip = job.strip + 1, !.bank = OtherBank]
    /\ pf' = [p EXCEPT !.done = FALSE, !.pending = FALSE, !.seen = FALSE]
    /\ Goto("STRIP_BEGIN") /\ Silent /\ UNCHANGED busy_seen

MlDrainErr(clear, e, j, p, sn, st) ==
    /\ ml_st = "STRIP_DRAIN_ERR"
    /\ \/ /\ ~e.mat_busy
          /\ job' = Retired(j) /\ pf' = NoPf /\ Goto("IDLE")
          /\ ml_err_we' = TRUE /\ NoStrip(TRUE)
       \/ /\ e.mat_busy
          /\ job' = j /\ pf' = p /\ Goto(st)
          /\ NoErrWe /\ NoStrip(clear)
    /\ NoMat /\ NoDma /\ NoWb /\ busy_seen' = sn

-----------------------------------------------------------------------------
(* Legacy path, tile by tile. *)
MlLoadA(j, p) ==
    /\ ml_st = "LOADA"
    /\ IssueDma(ActSrc, ActSlot, ActLen, "LOADA_W")
    /\ job' = j /\ pf' = p
MlLoadAW(e, j, p) ==
    Wait("LOADA_W", e.dma_err, e.dma_busy, e.dma_done, j, "LDW", j) /\ pf' = p

MlLdw(j, p) ==
    /\ ml_st = "LDW"
    /\ IssueDma(BlobBase + job.tile * JobStride, FoldPtr, LoadLen, "LDW_W")
    /\ job' = j /\ pf' = p
MlLdwW(e, j, p) ==
    Wait("LDW_W", e.dma_err, e.dma_busy, e.dma_done, j, "CLR", j) /\ pf' = p

MlClr(j, p) ==
    /\ ml_st = "CLR"
    /\ IssueMat(LoadAcc(Ptr("tcm", FoldPtr)), "CLR_W")
    /\ job' = j /\ pf' = p
MlLegacyClrW(e, j, p) == MatWait("CLR_W", e, j, "OP") /\ pf' = p

MlLegacyOp(j, p) ==
    /\ ml_st = "OP"
    /\ IssueMat(OpCmd(Ptr("tcm", OpA), Ptr("tcm", OpB), Reps), "OP_W")
    /\ job' = j /\ pf' = p
MlLegacyOpW(e, j, p) == MatWait("OP_W", e, j, "RSC") /\ pf' = p

MlLegacyRsc(j, p) ==
    /\ ml_st = "RSC"
    /\ IssueMat(Rescale(Ptr("tcm", ParamPtr), LegacyOut), "RSC_W")
    /\ job' = j /\ pf' = p
MlLegacyRscW(e, j, p) == MatWait("RSC_W", e, j, "STO") /\ pf' = p

MlLegacySto(j, p) ==
    /\ ml_st = "STO"
    /\ IssueWb(LegacyOut, DstBase + job.tile * DstStride, "STO_W")
    /\ job' = j /\ pf' = p
MlLegacyStoW(e, j, p) ==
    Wait("STO_W", e.dma_err, e.wb_busy, e.wb_done, j, "NEXT", j) /\ pf' = p

MlNext(j, p) ==
    /\ ml_st = "NEXT"
    /\ IF job.tile + 1 >= cfg.ntiles
       THEN job' = j /\ Goto("DONE")
       ELSE job' = [j EXCEPT !.tile = job.tile + 1] /\ Goto("LDW")
    /\ pf' = p /\ Silent /\ UNCHANGED busy_seen

-----------------------------------------------------------------------------
StripStep(e, j, p) ==
    \/ MlPrefill(j, p) \/ MlPrefillW(e, j, p) \/ MlBegin(j, p) \/ MlTile(j, p)
    \/ MlClrW(e, j, p) \/ MlOp(j, p) \/ MlOpW(e, j, p) \/ MlRsc(j, p) \/ MlRscW(e, j, p)
    \/ MlStoWait(j, p) \/ MlSto(j, p) \/ MlStoW(e, j, p) \/ MlRv(j, p) \/ MlAdv(j, p)

LegacyStep(e, j, p) ==
    \/ MlLoadA(j, p) \/ MlLoadAW(e, j, p) \/ MlLdw(j, p) \/ MlLdwW(e, j, p)
    \/ MlClr(j, p) \/ MlLegacyClrW(e, j, p) \/ MlLegacyOp(j, p) \/ MlLegacyOpW(e, j, p)
    \/ MlLegacyRsc(j, p) \/ MlLegacyRscW(e, j, p) \/ MlLegacySto(j, p)
    \/ MlLegacyStoW(e, j, p) \/ MlNext(j, p)

FaultNow == cfg.strip /\ pf.fault /\ ml_st # "STRIP_DRAIN_ERR"

(* One rising clock edge: w is the core's CSR write, ab is abort_i. *)
MlClk(w, ab, e) ==
    LET j     == AfterCsrJob(w, ab)
        p     == AfterCsrPf(w, ab, e)
        sn    == AfterCsrSeen(w, ab)
        st    == AfterCsrSt(w, ab)
        clear == GoTaken(w, ab)
    IN  /\ CsrCfg(w) /\ ml_d' = [st |-> ml_st, bank |-> job.bank]
        /\ \/ ab /\ job.busy /\ MlAbort(e)
           \/ ~(ab /\ job.busy) /\ FaultNow /\ MlFault(clear, j, p, sn)
           \/ /\ ~(ab /\ job.busy) /\ ~FaultNow
              /\ \/ MlIdle(clear, j, p, sn, st)
                 \/ MlDrainErr(clear, e, j, p, sn, st)
                 \/ StripStep(e, j, p) \/ LegacyStep(e, j, p)
                 \/ MlAbortDrain(e, j, p) \/ MlDone(j, p)
=============================================================================
