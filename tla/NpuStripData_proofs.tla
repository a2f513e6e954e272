------------------------ MODULE NpuStripData_proofs ------------------------
(* What the GEMM path of npu_top stores, for every value of the constants   *)
(* that the assumptions admit: of jobs, those the staging layout has room   *)
(* for (JobsAssumption), in which no staged operand lies over another.      *)
(*                                                                          *)
(* The inductive invariant DInv follows a datum along its way and has one   *)
(* layer for each place: the job registers (KickInv), the loop counters     *)
(* (LoopInv), the strip bank that the prefetch fills (FillInv) and the one  *)
(* that is computed from (PrefetchedInv), the TCM after a load (ModeInv,    *)
(* LoadInv, OperInv), the accumulators (AccInv), the requantisation pipe    *)
(* (PipeInv), the store (StoreInv), and shared memory (StoredInv).  A layer *)
(* is stated by the states of sequencer and engines, and kept because of    *)
(* the layers before it.  SInv of NpuStrip_proofs, the control part, says   *)
(* which of those states go together.                                       *)
(*                                                                          *)
(* Edge is what a clock edge does to data; Moves and its parts say what the *)
(* sequencer does in it.  The NPU is calm (NpuStrip_proofs) until the host  *)
(* soft-resets it or acknowledges an error by a restart of the ring: after  *)
(* either, a job may meet what an abandoned one has left.                   *)
EXTENDS NpuStrip_proofs, SequenceTheorems

-----------------------------------------------------------------------------
(* The program: which job the registers hold and which one runs.           *)
KickInv ==
    /\ job.busy => kicked # 0 /\ cfg = Jobs[kicked]
    /\ fw \in {"go", "jgo"} => cfg = Jobs[NextJob]
    /\ Program = "cq" /\ fw \in {"poll", "mode_ok", "head"} => kicked = NextJob
    /\ fw \in {"mode_ok", "head"} => job.done
    /\ Program = "job" => cq.head = 0

(* The loops. *)
PrefillPart == {"STRIP_PREFILL", "STRIP_PREFILL_W"}
StripPart   == StripLive \ PrefillPart
TilePart    == StripPart \ {"STRIP_BEGIN", "STRIP_ADV"}

LoopInv ==
    /\ ml_st \in PrefillPart => job.strip = 0 /\ job.bank = 0
    /\ ml_st \in StripPart => job.strip < cfg.nstrips
    /\ ml_st \in TilePart => (StripLast => job.sub < cfg.ntail)
    /\ ml_st \in {"STRIP_RV", "STRIP_ADV"} => SubtileLast
    /\ ml_st = "STRIP_ADV" => ~StripLast
    /\ ml_st = "STRIP_CLR_W" => job.chunk = 0
    /\ ml_st \in {"STRIP_CLR_W", "STRIP_OP", "STRIP_OP_W"} => job.chunk < cfg.kchunks
    /\ ml_st \in LegacyStates => job.tile < cfg.ntiles

(* What the prefetch has written. *)
Filled(b, a, n) == \A k \in Cells : BeatBytes * k < n => bank[b][k] = a + BeatBytes * k
Fill(n) == Filled(mlstrip.bank, mlstrip.addr, n)

FillInv ==
    /\ bank \in [{0, 1} -> [Cells -> Int]]
    /\ dma_st \notin XferStates => ~narrow_l
    /\ dma_st \in StripChain \/ strip_done => ~mlstrip.start
    /\ dma_st \in StripChain => strip_bank_l = mlstrip.bank
    /\ dma_st = "STRIP_AR" =>
        /\ ~strip_done_ok
        /\ strip_waddr + strip_remaining = mlstrip.bytes
        /\ strip_cur_addr = mlstrip.addr + strip_waddr
        /\ arvalid => araddr = strip_cur_addr
        /\ Fill(strip_waddr)
    /\ dma_st = "STRIP_R" =>
        /\ ~strip_done_ok
        /\ ~strip_error_seen =>
            /\ strip_waddr + BeatBytes * rleft + (strip_remaining - strip_in_burst)
                 = mlstrip.bytes
            /\ strip_cur_addr = mlstrip.addr + mlstrip.bytes - strip_remaining
            /\ raddr = mlstrip.addr + strip_waddr
            /\ Fill(strip_waddr)
    /\ dma_st = "STRIP_DONE" /\ strip_done_ok => Fill(mlstrip.bytes)
    /\ strip_done => Fill(mlstrip.bytes)

(* The bank that is computed from and the one that is prefetched. *)
StripAt(s) == cfg.wbase + s * cfg.sbytes
FetchPart == TilePart \cup {"STRIP_ADV"}

PrefetchedInv ==
    /\ ml_st = "STRIP_PREFILL_W" =>
        mlstrip.addr = cfg.wbase /\ mlstrip.bytes = cfg.sbytes /\ mlstrip.bank = 0
    /\ ml_st \in StripPart => Filled(job.bank, StripAt(job.strip), cfg.sbytes)
    /\ ml_st \in FetchPart /\ ~StripLast =>
        /\ mlstrip.addr = StripAt(job.strip + 1) /\ mlstrip.bytes = cfg.sbytes
        /\ mlstrip.bank = 1 - job.bank
        /\ pf.done => Fill(cfg.sbytes)
    /\ ml_st = "STRIP_ADV" => pf.done

(* What a load has written into the TCM. *)
ModeInv ==
    /\ dma_st \in {"AR", "R"} => ~mode_write
    /\ dma_st \in {"AW", "W", "B"} =>
           mode_write /\ fw \in {"poll", "jpoll", "mode_err", "cause", "halt"}
    /\ t_we => mat_st \in {"RSC", "FIN"}
    /\ DOMAIN tcm = 0 .. TcmWords - 1 /\ DOMAIN shared = ResultBeats

Loaded(p, src, n) == \A j \in 0 .. n - 1 : tcm[p + j] = <<"bus", src + 4 * j>>
LoadOff == buf_addr - mldma.dst
Load(n) == Loaded(mldma.dst, mldma.src, n)

LoadPart ==
    /\ dma_st \in {"AR", "R"} =>
        /\ ~narrow_l /\ buf_addr \in Nat /\ LoadOff >= 0 /\ Load(LoadOff)
        /\ cur_addr = mldma.src + 4 * (mldma.len - remaining)
    /\ dma_st = "AR" =>
        /\ LoadOff + remaining = mldma.len
        /\ arvalid => araddr = cur_addr /\ arbeats = ThisBurst
    /\ dma_st = "R" =>
        /\ rleft > 0 /\ raddr = mldma.src + 4 * LoadOff
        /\ LoadOff + Step * rleft + (remaining - WordsInBurst) = mldma.len
    /\ dma_st \in {"IDLE", "DONE"} /\ ~mldma.go /\ ~err => Load(mldma.len)

LoadInv ==
    /\ ml_st = "LOADA_W" => mldma.src = ActSrc /\ mldma.dst = ActSlot /\ mldma.len = ActLen
    /\ ml_st = "LDW_W" => /\ mldma.src = BlobBase + job.tile * JobStride
                          /\ mldma.dst = FoldPtr /\ mldma.len = LoadLen
    /\ ml_st \in LoadWaits => LoadPart

(* The operands of a legacy tile. *)
Operand == {"CLR", "CLR_W", "OP", "OP_W", "RSC"}
OperInv ==
    ml_st \in LegacyStates =>
        /\ cfg.stationary /\ ml_st \notin {"LOADA", "LOADA_W"} => Loaded(ActSlot, ActSrc, ActLen)
        /\ ml_st \in Operand \/ (ml_st = "RSC_W" /\ (mlmat.go \/ mat_st = "PRM")) =>
               Loaded(FoldPtr, BlobBase + job.tile * JobStride, LoadLen)

(* The accumulators. *)
Tile == IF cfg.strip THEN GlobalSub ELSE job.tile
RowUpTo(c, g, n) ==
    [k \in 1 .. n + 1 |-> IF k = 1 THEN <<Fold(c, g)>>
                                   ELSE <<Act(c, g, k - 2), Weights(c, g, k - 2)>>]
Sums(n) == \A r \in RowSet : acc[0][r] = RowUpTo(cfg, Tile, n)
Depth(c) == IF c.strip THEN (c.kchunks - 1) * Reps + c.ktail ELSE Reps

ClrWaits == {"STRIP_CLR_W", "CLR_W"}
OpStates == {"STRIP_OP", "OP"}
OpWaits  == {"STRIP_OP_W", "OP_W"}
RscStates == {"STRIP_RSC", "RSC"}
RscWaits == {"STRIP_RSC_W", "RSC_W"}

FoldAt  == IF cfg.strip THEN Ptr("fold", Tile) ELSE Ptr("tcm", FoldPtr)
ParamAt == IF cfg.strip THEN Ptr("param", Tile) ELSE Ptr("tcm", ParamPtr)
ActAt   == IF cfg.strip THEN Ptr("act", job.chunk * Reps) ELSE Ptr("tcm", OpA)
WeightAt == IF cfg.strip THEN Ptr("strip", 0) ELSE Ptr("tcm", OpB)
FirstN  == IF cfg.strip THEN job.chunk * Reps ELSE 0
CountN  == IF ~cfg.strip \/ ~ChunkLast THEN Reps ELSE cfg.ktail

ClrPart ==
    /\ mlmat.op = "LOADACC" /\ mlmat.a = FoldAt
    /\ mat_st # "IDLE" => mat_st = "LA" /\ cmd_q.bank = 0 /\ cmd_q.a = FoldAt /\ rep_i = 0
    /\ mat_st = "IDLE" /\ ~mlmat.go /\ ~mat_err => Sums(0)
OpPart ==
    /\ mlmat.op = "OP" /\ mlmat.a = ActAt /\ mlmat.b = WeightAt /\ mlmat.rpt = CountN
    /\ cfg.strip => job.wbase = StripWeightBase
    /\ mlmat.go => Sums(FirstN)
    /\ mat_st # "IDLE" =>
        /\ mat_st = "RUN" /\ cmd_q.bank = 0 /\ cmd_q.a = ActAt /\ cmd_q.b = WeightAt
        /\ cmd_q.rpt = CountN /\ rep_i < CountN /\ Sums(FirstN + rep_i)
    /\ mat_st = "IDLE" /\ ~mlmat.go /\ ~mat_err => Sums(FirstN + CountN)

AccInv ==
    /\ DOMAIN acc = Banks
    /\ ml_st \in ClrWaits => ClrPart
    /\ ml_st \in OpStates => Sums(FirstN)
    /\ ml_st \in OpWaits => OpPart
    /\ ml_st \in RscStates \cup RscWaits => Sums(Depth(cfg))

(* The requantisation pipe. *)
OutPtr(c) == IF c.strip THEN MatOut ELSE IF c.tight THEN TightB + Win(Reps) ELSE MatOut
Held(c, g, n) == \A w \in 0 .. n - 1 : tcm[OutPtr(c) + w] = Result(c, g, w)
Params == <<"blob", Param(cfg, Tile)>>
OutReg(p) == t_we /\ t_waddr = OutPtr(cfg) + p /\ t_wdata = Result(cfg, Tile, p)

PipePart ==
    /\ mlmat.op = "RESCALE_PC" /\ mlmat.param = ParamAt /\ mlmat.out = OutPtr(cfg)
    /\ mat_st # "IDLE" => mat_st \in {"PRM", "PRS", "RSC", "FIN"} /\ cmd_q.bank = 0
    /\ mat_st = "PRM" => cmd_q.a = ParamAt /\ rep_i = 0
    /\ mat_st \in {"PRM", "PRS"} => el_iss = 0 /\ ~rq_v
    /\ mat_st \in {"PRS", "RSC"} => par = Params
    /\ mat_st = "RSC" /\ ~rq_v => el_iss = 0 /\ ~t_we
    /\ mat_st = "RSC" /\ rq_v =>
        /\ el_pack \in 0 .. OutWords - 1
        /\ el_iss = IF el_pack = OutWords - 1 THEN el_pack ELSE el_pack + 1
        /\ rq = <<Row(cfg, Tile), Params>>
        /\ el_pack = 0 => ~t_we
        /\ el_pack > 0 => OutReg(el_pack - 1) /\ Held(cfg, Tile, el_pack - 1)
    /\ mat_st = "FIN" => OutReg(OutWords - 1) /\ Held(cfg, Tile, OutWords - 1)
    /\ mat_st = "IDLE" /\ ~mlmat.go /\ ~mat_err => Held(cfg, Tile, OutWords)

PipeInv == ml_st \in RscWaits => PipePart

(* The stores. *)
DstOf(c, g) == (IF c.strip THEN c.outbase ELSE DstBase) + g * DstStride
StoreCmd(c, g) ==
    /\ mlwb.src = OutPtr(c) /\ mlwb.dst = DstOf(c, g) /\ mlwb.len = StoreLen
    /\ Held(c, g, StoreLen)
StoreOff == buf_raddr - mlwb.src

WritePart ==
    /\ dma_st \in {"AW", "W", "B"} =>
        /\ ~narrow_l /\ mat_st = "IDLE" /\ ~mlmat.go /\ kicked # 0
        /\ \E g \in Tiles(Jobs[kicked]) : StoreCmd(Jobs[kicked], g)
        /\ buf_raddr \in Nat /\ StoreOff >= 0 /\ StoreOff % WPB = 0
        /\ cur_addr = mlwb.dst + 4 * (StoreLen - remaining)
    /\ dma_st = "AW" => /\ StoreOff + remaining = StoreLen
                        /\ awvalid => awaddr = cur_addr
    /\ dma_st = "W" => /\ waddr = mlwb.dst + 4 * StoreOff
                       /\ StoreOff + Step * wleft + (remaining - WordsInBurst) = StoreLen
    /\ dma_st = "B" => StoreOff + (remaining - WordsInBurst) = StoreLen

StoreInv ==
    /\ ml_st \in {"STRIP_STO_WAIT", "STRIP_STO", "STO"} => Held(cfg, Tile, StoreLen)
    /\ ml_st \in StoreWaits => StoreCmd(cfg, Tile)
    /\ WritePart

(* What is in shared memory. *)
RightIn(s, c, g, w) == /\ s[BeatOf(c, g, w)] # <<>>
                       /\ s[BeatOf(c, g, w)][(w % WPB) + 1] = Result(c, g, w)
StoredUpTo(c, g, n) == \A w \in 0 .. n - 1 : RightIn(shared, c, g, w)
AllIn(s, c, n) == \A g \in Tiles(c), w \in 0 .. StoreLen - 1 : g < n => RightIn(s, c, g, w)

StoredPart ==
    /\ dma_st \in {"AW", "W", "B"} => StoredUpTo(cfg, Tile, StoreOff)
    /\ dma_st \in {"IDLE", "DONE"} /\ ~mlwb.go /\ ~err => StoredUpTo(cfg, Tile, StoreLen)

\* How many tiles of the running job are in memory.
Ready == IF ml_st = "STRIP_BEGIN" THEN job.strip * SubTiles
         ELSE IF ml_st \in {"STRIP_RV", "STRIP_ADV", "NEXT", "DONE"} THEN Tile + 1 ELSE Tile
Counted == StripPart \cup LegacyStates \cup {"DONE"}

StoredInv ==
    /\ ml_st \in StoreWaits => StoredPart
    /\ ml_st \in Counted => AllIn(shared, cfg, Ready)
    /\ ml_st = "DONE" => \A g \in Tiles(cfg) : g < Ready

DInv == /\ KickInv /\ LoopInv /\ FillInv /\ PrefetchedInv /\ ModeInv /\ LoadInv /\ OperInv
        /\ AccInv /\ PipeInv /\ StoreInv /\ StoredInv /\ OnlyRightResults /\ ResultsStored
CalmData == Calm => DInv
-----------------------------------------------------------------------------
(* One clock edge, as far as data is concerned.                             *)

Edge(m, ar, r, aw, w, b) ==
    /\ Bounds /\ Core /\ Core' /\ Answers(ar, r, aw, w, b)
    /\ m \in FwMoves /\ Firmware(m)
    /\ MlClk(MlWrite(m), FALSE, Engines)
    /\ MatClk(FALSE, MatGoWire, mlmat, Ports)
    /\ DmaClk(FALSE, DmaStart, Wires, mlstrip.start, StripWires, ar, r, aw, w, b)
    /\ StripBufClk(mlstrip.clear, StripWe(r), strip_bank_l, strip_waddr, raddr, strip_done)
    /\ TcmClk(r) /\ ModeClk /\ SlaveClk(ar, r, aw, w, b)
    /\ kicked' = IF GoTaken(MlWrite(m), FALSE) THEN NextJob ELSE kicked
    /\ cq'.head = cq.head \/ (m = "head" /\ cq'.head = NextJob)
    /\ acks' = acks \/ (Program = "job" /\ fw = "halt")

\* The command registers keep what they hold but for the pulses.
MatKept   == /\ mlmat'.op = mlmat.op /\ mlmat'.bank = mlmat.bank /\ mlmat'.rpt = mlmat.rpt
             /\ mlmat'.a = mlmat.a /\ mlmat'.b = mlmat.b
             /\ mlmat'.param = mlmat.param /\ mlmat'.out = mlmat.out
LoadKept  == mldma'.src = mldma.src /\ mldma'.dst = mldma.dst /\ mldma'.len = mldma.len
StoreKept == mlwb'.src = mlwb.src /\ mlwb'.dst = mlwb.dst /\ mlwb'.len = mlwb.len
StripKept == mlstrip'.addr = mlstrip.addr /\ mlstrip'.bytes = mlstrip.bytes
             /\ mlstrip'.bank = mlstrip.bank
Kept == /\ ~mlmat'.go => MatKept
        /\ ~mldma'.go => LoadKept
        /\ ~mlwb'.go => StoreKept
        /\ ~mlstrip'.start => StripKept

\* An engine has finished its command, and well.
MatRight   == mat_st = "IDLE" /\ ~mlmat.go /\ ~mat_err
LoadRight  == dma_st = "IDLE" /\ ~mldma.go /\ ~err
StoreRight == dma_st = "IDLE" /\ ~mlwb.go /\ ~err

LoadIssued(src, dst, len) ==
    mldma'.go /\ mldma'.src = src /\ mldma'.dst = dst /\ mldma'.len = len
StoreIssued(src, dst) ==
    mlwb'.go /\ mlwb'.src = src /\ mlwb'.dst = dst /\ mlwb'.len = StoreLen
StripIssued(addr, bk) ==
    /\ mlstrip'.start /\ mlstrip'.addr = addr /\ mlstrip'.bytes = cfg.sbytes
    /\ mlstrip'.bank = bk
AccIssued(a) == mlmat'.go /\ mlmat'.op = "LOADACC" /\ mlmat'.a = a
OpIssued(a, bp, n) ==
    mlmat'.go /\ mlmat'.op = "OP" /\ mlmat'.a = a /\ mlmat'.b = bp /\ mlmat'.rpt = n
RscIssued(p, out) ==
    mlmat'.go /\ mlmat'.op = "RESCALE_PC" /\ mlmat'.param = p /\ mlmat'.out = out

Pass(a, z) == ml_st = a /\ ml_st' = z
NoPrefetch == ~mlstrip'.start /\ (pf'.done => pf.done \/ strip_done)

StripMove ==
    \/ /\ Pass("STRIP_PREFILL", "STRIP_PREFILL_W") /\ job' = job
       /\ StripIssued(cfg.wbase, 0)
    \/ /\ Pass("STRIP_PREFILL_W", "STRIP_BEGIN") /\ job' = job /\ strip_done /\ ~mlstrip'.start
    \/ /\ Pass("STRIP_BEGIN", "STRIP_TILE") /\ job' = [job EXCEPT !.sub = 0]
       /\ ~StripLast => StripIssued(StripAt(job.strip + 1), 1 - job.bank) /\ ~pf'.done
    \/ /\ Pass("STRIP_TILE", "STRIP_CLR_W") /\ job' = [job EXCEPT !.chunk = 0] /\ NoPrefetch
       /\ AccIssued(Ptr("fold", GlobalSub))
    \/ /\ Pass("STRIP_CLR_W", "STRIP_OP") /\ job' = job /\ MatRight /\ NoPrefetch
    \/ /\ Pass("STRIP_OP", "STRIP_OP_W") /\ NoPrefetch
       /\ job' = [job EXCEPT !.wbase = StripWeightBase]
       /\ OpIssued(Ptr("act", job.chunk * Reps), Ptr("strip", 0),
                   IF ChunkLast THEN cfg.ktail ELSE Reps)
    \/ /\ Pass("STRIP_OP_W", "STRIP_OP") /\ ~ChunkLast /\ MatRight /\ NoPrefetch
       /\ job' = [job EXCEPT !.chunk = job.chunk + 1]
    \/ /\ Pass("STRIP_OP_W", "STRIP_RSC") /\ ChunkLast /\ MatRight /\ NoPrefetch /\ job' = job
    \/ /\ Pass("STRIP_RSC", "STRIP_RSC_W") /\ job' = job /\ NoPrefetch
       /\ RscIssued(Ptr("param", GlobalSub), MatOut)
    \/ /\ Pass("STRIP_RSC_W", "STRIP_STO_WAIT") /\ job' = job /\ MatRight /\ NoPrefetch
    \/ /\ Pass("STRIP_STO_WAIT", "STRIP_STO") /\ job' = job /\ pf.done /\ NoPrefetch
    \/ /\ Pass("STRIP_STO", "STRIP_STO_W") /\ job' = job /\ NoPrefetch
       /\ StoreIssued(MatOut, cfg.outbase + GlobalSub * DstStride)
    \/ /\ Pass("STRIP_STO_W", "STRIP_RV") /\ job' = job /\ SubtileLast /\ StoreRight
       /\ NoPrefetch
    \/ /\ Pass("STRIP_STO_W", "STRIP_TILE") /\ ~SubtileLast /\ StoreRight /\ NoPrefetch
       /\ job' = [job EXCEPT !.sub = job.sub + 1]
    \/ /\ Pass("STRIP_RV", "STRIP_ADV") /\ job' = job /\ pf.done /\ pf'.done /\ ~StripLast
       /\ NoPrefetch
    \/ /\ Pass("STRIP_RV", "DONE") /\ job' = job /\ StripLast
    \/ /\ Pass("STRIP_ADV", "STRIP_BEGIN") /\ ~mlstrip'.start
       /\ job' = [job EXCEPT !.strip = job.strip + 1, !.bank = 1 - job.bank]

LegacyMove ==
    \/ Pass("LOADA", "LOADA_W") /\ job' = job /\ LoadIssued(ActSrc, ActSlot, ActLen)
    \/ Pass("LOADA_W", "LDW") /\ job' = job /\ LoadRight
    \/ /\ Pass("LDW", "LDW_W") /\ job' = job
       /\ LoadIssued(BlobBase + job.tile * JobStride, FoldPtr, LoadLen)
    \/ Pass("LDW_W", "CLR") /\ job' = job /\ LoadRight
    \/ Pass("CLR", "CLR_W") /\ job' = job /\ AccIssued(Ptr("tcm", FoldPtr))
    \/ Pass("CLR_W", "OP") /\ job' = job /\ MatRight
    \/ /\ Pass("OP", "OP_W") /\ job' = job
       /\ OpIssued(Ptr("tcm", OpA), Ptr("tcm", OpB), Reps)
    \/ Pass("OP_W", "RSC") /\ job' = job /\ MatRight
    \/ Pass("RSC", "RSC_W") /\ job' = job /\ RscIssued(Ptr("tcm", ParamPtr), LegacyOut)
    \/ Pass("RSC_W", "STO") /\ job' = job /\ MatRight
    \/ Pass("STO", "STO_W") /\ job' = job /\ StoreIssued(LegacyOut, DstBase + job.tile * DstStride)
    \/ Pass("STO_W", "NEXT") /\ job' = job /\ StoreRight
    \/ Pass("NEXT", "DONE") /\ job' = job /\ job.tile + 1 >= cfg.ntiles
    \/ /\ Pass("NEXT", "LDW") /\ job.tile + 1 < cfg.ntiles
       /\ job' = [job EXCEPT !.tile = job.tile + 1]

\* A state in which the sequencer waits.
StayMove ==
    /\ ml_st \in MatWaits \cup LoadWaits \cup StoreWaits
                 \cup {"STRIP_PREFILL_W", "STRIP_STO_WAIT", "STRIP_RV"}
    /\ ml_st' = ml_st /\ job' = job /\ Mute /\ NoPrefetch

StartMove ==
    /\ ml_st = "IDLE" /\ Mute
    /\ cfg.strip => ml_st' = "STRIP_PREFILL"
    /\ ~cfg.strip => ml_st' = IF cfg.stationary THEN "LOADA" ELSE "LDW"
    /\ job'.tile = 0 /\ job'.strip = 0 /\ job'.chunk = 0 /\ job'.sub = 0 /\ job'.bank = 0

\* No job runs after the edge.
EndMove ==
    /\ ml_st' \in {"IDLE", "STRIP_DRAIN_ERR"} /\ Mute
    /\ job'.done => ml_st = "DONE" \/ job.done

Moves(m) ==
    \/ EndMove /\ IF GoTaken(MlWrite(m), FALSE) THEN ~job'.done ELSE job.done => job'.done
    \/ GoTaken(MlWrite(m), FALSE) /\ StartMove /\ ~job'.done
    \/ /\ ~GoTaken(MlWrite(m), FALSE) /\ job'.done = job.done
       /\ StripMove \/ LegacyMove \/ StayMove
Issues == /\ mlstrip'.start => ml_st \in {"STRIP_PREFILL", "STRIP_BEGIN"}
          /\ mlmat'.go => ml_st \in MatIssues
          /\ mlwb'.go => ml_st \in StoreIssues

\* What is kept when nothing is commanded.
LEMMA KeptStep ==
    ASSUME MlTypes
    PROVE  /\ NoMat => ~mlmat'.go /\ MatKept
           /\ NoDma => ~mldma'.go /\ LoadKept
           /\ NoWb => ~mlwb'.go /\ StoreKept
           /\ NoStrip(TRUE) \/ NoStrip(FALSE) => ~mlstrip'.start /\ StripKept
           /\ Silent => Mute /\ Kept
<1> USE DEF MlTypes, MlOutTypes
<1>1. NoMat => ~mlmat'.go /\ MatKept
  BY DEF NoMat, MatCmdT, MatKept
<1>2. NoDma => ~mldma'.go /\ LoadKept
  BY DEF NoDma, GoType, LoadKept
<1>3. NoWb => ~mlwb'.go /\ StoreKept
  BY DEF NoWb, GoType, StoreKept
<1>4. NoStrip(TRUE) \/ NoStrip(FALSE) => ~mlstrip'.start /\ StripKept
  BY DEF NoStrip, StripT, StripKept
<1> QED BY <1>1, <1>2, <1>3, <1>4 DEF Silent, Mute, Kept

\* The commands.
LEMMA IssueSteps ==
    ASSUME MlTypes, NEW next
    PROVE  /\ \A c : c.go /\ IssueMat(c, next) =>
                  /\ mlmat' = c /\ ml_st' = next /\ Kept
                  /\ ~mldma'.go /\ ~mlwb'.go /\ ~mlstrip'.start
           /\ \A src, dst, len : IssueDma(src, dst, len, next) =>
                  /\ LoadIssued(src, dst, len) /\ ml_st' = next /\ Kept
                  /\ ~mlmat'.go /\ ~mlwb'.go /\ ~mlstrip'.start
           /\ \A src, dst : IssueWb(src, dst, next) =>
                  /\ StoreIssued(src, dst) /\ ml_st' = next /\ Kept
                  /\ ~mlmat'.go /\ ~mldma'.go /\ ~mlstrip'.start
           /\ \A addr, bk : IssueStrip(addr, bk) =>
                  /\ StripIssued(addr, bk) /\ Kept
                  /\ ~mlmat'.go /\ ~mldma'.go /\ ~mlwb'.go
<1>1. ASSUME NEW c, c.go, IssueMat(c, next)
      PROVE  /\ mlmat' = c /\ ml_st' = next /\ Kept
             /\ ~mldma'.go /\ ~mlwb'.go /\ ~mlstrip'.start
  <2>1. mlmat' = c /\ ml_st' = next /\ NoDma /\ NoWb /\ NoStrip(FALSE)
    BY <1>1 DEF IssueMat, Goto
  <2> QED BY <2>1, <1>1, KeptStep DEF Kept
<1>2. ASSUME NEW src, NEW dst, NEW len, IssueDma(src, dst, len, next)
      PROVE  /\ LoadIssued(src, dst, len) /\ ml_st' = next /\ Kept
             /\ ~mlmat'.go /\ ~mlwb'.go /\ ~mlstrip'.start
  <2>1. /\ mldma' = [go |-> TRUE, src |-> src, dst |-> dst, len |-> len] /\ ml_st' = next
        /\ NoMat /\ NoWb /\ NoStrip(FALSE)
    BY <1>2 DEF IssueDma, Goto
  <2> QED BY <2>1, KeptStep DEF Kept, LoadIssued
<1>3. ASSUME NEW src, NEW dst, IssueWb(src, dst, next)
      PROVE  /\ StoreIssued(src, dst) /\ ml_st' = next /\ Kept
             /\ ~mlmat'.go /\ ~mldma'.go /\ ~mlstrip'.start
  <2>1. /\ mlwb' = [go |-> TRUE, src |-> src, dst |-> dst, len |-> StoreLen] /\ ml_st' = next
        /\ NoMat /\ NoDma /\ NoStrip(FALSE)
    BY <1>3 DEF IssueWb, Goto
  <2> QED BY <2>1, KeptStep DEF Kept, StoreIssued
<1>4. ASSUME NEW addr, NEW bk, IssueStrip(addr, bk)
      PROVE  /\ StripIssued(addr, bk) /\ Kept
             /\ ~mlmat'.go /\ ~mldma'.go /\ ~mlwb'.go
  <2>1. /\ mlstrip' = [start |-> TRUE, addr |-> addr, bytes |-> cfg.sbytes, bank |-> bk,
                       clear |-> FALSE]
        /\ NoMat /\ NoDma /\ NoWb
    BY <1>4 DEF IssueStrip
  <2> QED BY <2>1, KeptStep DEF Kept, StripIssued
<1> QED BY <1>1, <1>2, <1>3, <1>4

LEMMA CommandFields ==
    ASSUME mlmat \in MatCmdT, NEW a, NEW z, NEW n
    PROVE  /\ LoadAcc(a).go /\ LoadAcc(a).op = "LOADACC" /\ LoadAcc(a).a = a
           /\ OpCmd(a, z, n).go /\ OpCmd(a, z, n).op = "OP" /\ OpCmd(a, z, n).a = a
           /\ OpCmd(a, z, n).b = z /\ OpCmd(a, z, n).rpt = n
           /\ Rescale(a, n).go /\ Rescale(a, n).op = "RESCALE_PC" /\ Rescale(a, n).param = a
           /\ Rescale(a, n).out = n
  BY DEF MatCmdT, LoadAcc, OpCmd, Rescale

\* Finished means finished well.
LEMMA RightWaits ==
    ASSUME Core
    PROVE  /\ ml_st \in MatWaits /\ ~mat_err /\ ~MatBusy /\ busy_seen => MatRight
           /\ ml_st \in LoadWaits /\ ~err /\ ~(busy /\ ~mode_write) /\ busy_seen
                 /\ done /\ ~mode_write => LoadRight
           /\ ml_st \in StoreWaits /\ ~err /\ ~(busy /\ mode_write) /\ busy_seen
                 /\ done /\ mode_write => StoreRight
<1>1. dma_st \in DmaStates /\ mode_write \in BOOLEAN
  BY DEF Core, Types, DmaTypes, FlagTypes, TopTypes
<1>2. busy_seen => ~mlmat.go /\ ~mldma.go /\ ~mlwb.go
  BY DEF Core, PulseInv
<1>3. ml_st \in LoadWaits \cup StoreWaits /\ job.err => FALSE
  BY DEF Core, TurnInv, LoadWaits, StoreWaits
<1>4. ml_st \in LoadWaits \cup StoreWaits => dma_st \notin StripChain
  BY <1>3 DEF Core, EngineInv, LoadWaits, StoreWaits, ComputePart
<1>5. ~busy => dma_st \notin XferStates
  BY DEF Core, Wire, Handshake
<1>6. dma_st \notin XferStates /\ dma_st \notin StripChain => dma_st = "IDLE"
  BY <1>1 DEF XferStates, StripChain, DmaStates
<1> QED BY <1>1, <1>2, <1>4, <1>5, <1>6 DEF MatRight, LoadRight, StoreRight, MatBusy

\* A WAIT state goes on, waits, or retires the job.
LEMMA WaitMoves ==
    ASSUME MlTypes, NEW st, NEW bad, NEW bsy, NEW dn, NEW next, NEW jnext,
           Wait(st, bad, bsy, dn, job, next, jnext)
    PROVE  /\ Kept /\ Mute /\ ml_st = st
           /\ \/ ml_st' = "IDLE" /\ job'.done = job.done
              \/ ml_st' = ml_st /\ job' = job
              \/ ~bad /\ ~bsy /\ busy_seen /\ dn /\ ml_st' = next /\ job' = jnext
<1>1. Silent /\ ml_st = st
  BY DEF Wait
<1>2. Retired(job).done = job.done
  BY DEF Retired, MlTypes, MlRegTypes, JobType
<1>3. \/ ml_st' = "IDLE" /\ job' = Retired(job)
      \/ ml_st' = ml_st /\ job' = job
      \/ ~bad /\ ~bsy /\ busy_seen /\ dn /\ ml_st' = next /\ job' = jnext
  BY DEF Wait, Goto
<1> QED BY <1>1, <1>2, <1>3, KeptStep

\* The monitor never reports the end of a prefetch that has not ended.
LEMMA MonitorStep ==
    ASSUME Core
    PROVE  AfterMonitor(Engines).done => pf.done \/ strip_done
  BY Monitored DEF Core, Types, MlTypes, MlRegTypes, DmaTypes, ChainTypes

\* What a step of the sequencer does for the data.
LEMMA StripMoves ==
    ASSUME Core, StripStep(Engines, job, AfterMonitor(Engines))
    PROVE  Kept /\ Issues /\ (EndMove \/ StripMove \/ StayMove) /\ job'.done = job.done
<1> DEFINE e == Engines
           p == AfterMonitor(Engines)
<1>1. /\ MlTypes /\ mlmat \in MatCmdT /\ job \in JobType
  BY DEF Core, Types, MlTypes, MlOutTypes, MlRegTypes
<1>2. p.done => pf.done \/ strip_done
  BY MonitorStep
<1>3. /\ e.mat_busy = MatBusy /\ e.mat_done = mat_done /\ e.mat_err = mat_err
      /\ e.dma_err = err /\ e.wb_busy = (busy /\ mode_write)
      /\ e.wb_done = (done /\ mode_write)
      /\ e.strip_busy = strip_busy /\ e.strip_done = strip_done /\ e.strip_err = strip_err
  BY Wired
<1>4. pf' = p /\ ~mlstrip'.start => NoPrefetch
  BY <1>2 DEF NoPrefetch
<1>5. /\ ml_st \in MatWaits /\ ~mat_err /\ ~MatBusy /\ busy_seen => MatRight
      /\ ml_st \in StoreWaits /\ ~err /\ ~(busy /\ mode_write) /\ busy_seen
            /\ (done /\ mode_write) => StoreRight
  BY RightWaits
<1>6. Silent => Mute /\ Kept
  BY <1>1, KeptStep
<1> HIDE DEF e, p
<1>10. CASE MlPrefill(job, p)
  <2>1. /\ ml_st = "STRIP_PREFILL" /\ ml_st' = "STRIP_PREFILL_W" /\ job' = job
        /\ IssueStrip(cfg.wbase, 0)
    BY <1>10 DEF MlPrefill, Goto
  <2>2. StripIssued(cfg.wbase, 0) /\ Kept /\ ~mlmat'.go /\ ~mldma'.go /\ ~mlwb'.go
    BY <2>1, <1>1, IssueSteps
  <2> QED BY <2>1, <2>2 DEF Issues, StripMove, Pass
<1>11. CASE MlPrefillW(e, job, p)
  <2>1. /\ ml_st = "STRIP_PREFILL_W" /\ job' = job /\ Silent
        /\ \/ ml_st' = "STRIP_DRAIN_ERR"
           \/ ml_st' = ml_st /\ pf'.done = p.done
           \/ ml_st' = "STRIP_BEGIN" /\ strip_done
    <3>1. p \in PfType
      BY Monitored DEF p, Core, Types, MlTypes, MlRegTypes, DmaTypes, ChainTypes
    <3> QED BY <3>1, <1>11, <1>3 DEF MlPrefillW, Goto, PfType
  <2>2. Mute /\ Kept
    BY <2>1, <1>6
  <2>3. pf'.done = p.done => NoPrefetch
    BY <1>2, <2>2 DEF NoPrefetch, Mute
  <2> QED BY <2>1, <2>2, <2>3 DEF Issues, Mute, EndMove, StripMove, StayMove, Pass
<1>12. CASE MlBegin(job, p)
  <2>1. /\ ml_st = "STRIP_BEGIN" /\ ml_st' = "STRIP_TILE" /\ job' = [job EXCEPT !.sub = 0]
    BY <1>12 DEF MlBegin, Goto
  <2>2. CASE StripLast
    BY <1>12, <2>1, <2>2, <1>1, <1>6 DEF MlBegin, Issues, Mute, StripMove, Pass, JobType
  <2>3. CASE ~StripLast
    <3>1. /\ pf' = [p EXCEPT !.pending = TRUE, !.done = FALSE, !.seen = FALSE]
          /\ IssueStrip(cfg.wbase + (job.strip + 1) * cfg.sbytes, OtherBank)
      BY <1>12, <2>3 DEF MlBegin
    <3>2. p \in PfType
      BY Monitored DEF p, Core, Types, MlTypes, MlRegTypes, DmaTypes, ChainTypes
    <3>3. ~pf'.done
      BY <3>1, <3>2 DEF PfType
    <3>4. /\ StripIssued(cfg.wbase + (job.strip + 1) * cfg.sbytes, OtherBank) /\ Kept
          /\ ~mlmat'.go /\ ~mldma'.go /\ ~mlwb'.go
      BY <3>1, <1>1, IssueSteps
    <3> QED BY <3>3, <3>4, <2>1, <1>1
            DEF Issues, StripMove, Pass, StripAt, OtherBank, JobType
  <2> QED BY <2>2, <2>3
<1>13. CASE MlTile(job, p)
  <2>1. /\ ml_st = "STRIP_TILE" /\ job' = [job EXCEPT !.chunk = 0] /\ pf' = p
        /\ IssueMat(LoadAcc(Ptr("fold", GlobalSub)), "STRIP_CLR_W")
    BY <1>13 DEF MlTile
  <2>2. AccIssued(Ptr("fold", GlobalSub)) /\ ml_st' = "STRIP_CLR_W" /\ Kept
        /\ ~mldma'.go /\ ~mlwb'.go /\ ~mlstrip'.start
    <3> DEFINE c == LoadAcc(Ptr("fold", GlobalSub))
    <3>1. c.go /\ c.op = "LOADACC" /\ c.a = Ptr("fold", GlobalSub)
      BY <1>1, CommandFields
    <3>2. IssueMat(c, "STRIP_CLR_W")
      BY <2>1
    <3> HIDE DEF c
    <3>3. /\ mlmat' = c /\ ml_st' = "STRIP_CLR_W" /\ Kept
          /\ ~mldma'.go /\ ~mlwb'.go /\ ~mlstrip'.start
      BY <3>1, <3>2, <1>1, IssueSteps
    <3> QED BY <3>1, <3>3 DEF AccIssued
  <2> QED BY <2>1, <2>2, <1>1, <1>4
          DEF Issues, MatIssues, StripMove, Pass, JobType
<1>14. CASE MlClrW(e, job, p)
  <2>1. Wait("STRIP_CLR_W", mat_err, MatBusy, mat_done, job, "STRIP_OP", job) /\ pf' = p
    BY <1>14, <1>3 DEF MlClrW, MatWait
  <2>2. /\ Kept /\ Mute /\ ml_st = "STRIP_CLR_W"
        /\ \/ ml_st' = "IDLE" /\ job'.done = job.done
           \/ ml_st' = ml_st /\ job' = job
           \/ ~mat_err /\ ~MatBusy /\ busy_seen /\ ml_st' = "STRIP_OP" /\ job' = job
    BY <2>1, <1>1, WaitMoves
  <2> QED BY <2>1, <2>2, <1>4, <1>5
          DEF MatWaits, Issues, Mute, EndMove, StripMove, StayMove, Pass
<1>15. CASE MlOp(job, p)
  <2>1. /\ ml_st = "STRIP_OP" /\ pf' = p
        /\ job' = [job EXCEPT !.wbase = StripWeightBase]
        /\ IssueMat(OpCmd(Ptr("act", job.chunk * Reps), Ptr("strip", 0),
                          IF ChunkLast THEN cfg.ktail ELSE Reps), "STRIP_OP_W")
    BY <1>15 DEF MlOp
  <2>2. /\ OpIssued(Ptr("act", job.chunk * Reps), Ptr("strip", 0),
                    IF ChunkLast THEN cfg.ktail ELSE Reps)
        /\ ml_st' = "STRIP_OP_W" /\ Kept /\ ~mldma'.go /\ ~mlwb'.go /\ ~mlstrip'.start
    <3> DEFINE n == IF ChunkLast THEN cfg.ktail ELSE Reps
               c == OpCmd(Ptr("act", job.chunk * Reps), Ptr("strip", 0), n)
    <3>1. /\ c.go /\ c.op = "OP" /\ c.a = Ptr("act", job.chunk * Reps)
          /\ c.b = Ptr("strip", 0) /\ c.rpt = n
      BY <1>1, CommandFields
    <3>2. IssueMat(c, "STRIP_OP_W")
      BY <2>1
    <3> HIDE DEF c, n
    <3>3. /\ mlmat' = c /\ ml_st' = "STRIP_OP_W" /\ Kept
          /\ ~mldma'.go /\ ~mlwb'.go /\ ~mlstrip'.start
      BY <3>1, <3>2, <1>1, IssueSteps
    <3> QED BY <3>1, <3>3 DEF OpIssued, n
  <2> QED BY <2>1, <2>2, <1>1, <1>4
          DEF Issues, MatIssues, StripMove, Pass, JobType
<1>16. CASE MlOpW(e, job, p)
  <2>1. /\ Wait("STRIP_OP_W", mat_err, MatBusy, mat_done, job,
                IF ChunkLast THEN "STRIP_RSC" ELSE "STRIP_OP",
                IF ChunkLast THEN job ELSE [job EXCEPT !.chunk = job.chunk + 1])
        /\ pf' = p
    BY <1>16, <1>3 DEF MlOpW
  <2>2. /\ Kept /\ Mute /\ ml_st = "STRIP_OP_W"
        /\ \/ ml_st' = "IDLE" /\ job'.done = job.done
           \/ ml_st' = ml_st /\ job' = job
           \/ /\ ~mat_err /\ ~MatBusy /\ busy_seen
              /\ ml_st' = IF ChunkLast THEN "STRIP_RSC" ELSE "STRIP_OP"
              /\ job' = IF ChunkLast THEN job ELSE [job EXCEPT !.chunk = job.chunk + 1]
    BY <2>1, <1>1, WaitMoves
  <2> QED BY <2>1, <2>2, <1>1, <1>4, <1>5
          DEF MatWaits, Issues, Mute, EndMove, StripMove, StayMove, Pass, JobType
<1>17. CASE MlRsc(job, p)
  <2>1. /\ ml_st = "STRIP_RSC" /\ job' = job /\ pf' = p
        /\ IssueMat(Rescale(Ptr("param", GlobalSub), MatOut), "STRIP_RSC_W")
    BY <1>17 DEF MlRsc
  <2>2. RscIssued(Ptr("param", GlobalSub), MatOut) /\ ml_st' = "STRIP_RSC_W" /\ Kept
        /\ ~mldma'.go /\ ~mlwb'.go /\ ~mlstrip'.start
    BY <2>1, <1>1, IssueSteps, CommandFields DEF RscIssued
  <2> QED BY <2>1, <2>2, <1>4 DEF Issues, MatIssues, StripMove, Pass
<1>18. CASE MlRscW(e, job, p)
  <2>1. /\ Wait("STRIP_RSC_W", mat_err, MatBusy, mat_done, job, "STRIP_STO_WAIT", job)
        /\ pf' = p
    BY <1>18, <1>3 DEF MlRscW, MatWait
  <2>2. /\ Kept /\ Mute /\ ml_st = "STRIP_RSC_W"
        /\ \/ ml_st' = "IDLE" /\ job'.done = job.done
           \/ ml_st' = ml_st /\ job' = job
           \/ ~mat_err /\ ~MatBusy /\ busy_seen /\ ml_st' = "STRIP_STO_WAIT" /\ job' = job
    BY <2>1, <1>1, WaitMoves
  <2> QED BY <2>1, <2>2, <1>4, <1>5
          DEF MatWaits, Issues, Mute, EndMove, StripMove, StayMove, Pass
<1>19. CASE MlStoWait(job, p)
  <2>1. /\ ml_st = "STRIP_STO_WAIT" /\ job' = job /\ pf' = p /\ Silent
        /\ ml_st' = ml_st \/ (pf.done /\ ml_st' = "STRIP_STO")
    BY <1>19 DEF MlStoWait, Goto
  <2> QED BY <2>1, <1>4, <1>6 DEF Issues, Mute, StripMove, StayMove, Pass
<1>20. CASE MlSto(job, p)
  <2>1. /\ ml_st = "STRIP_STO" /\ job' = job /\ pf' = p
        /\ IssueWb(MatOut, cfg.outbase + GlobalSub * DstStride, "STRIP_STO_W")
    BY <1>20 DEF MlSto
  <2>2. /\ StoreIssued(MatOut, cfg.outbase + GlobalSub * DstStride) /\ ml_st' = "STRIP_STO_W"
        /\ Kept /\ ~mlmat'.go /\ ~mldma'.go /\ ~mlstrip'.start
    BY <2>1, <1>1, IssueSteps
  <2> QED BY <2>1, <2>2, <1>4 DEF Issues, StoreIssues, StripMove, Pass
<1>21. CASE MlStoW(e, job, p)
  <2>1. /\ Wait("STRIP_STO_W", err, busy /\ mode_write, done /\ mode_write, job,
                IF SubtileLast THEN "STRIP_RV" ELSE "STRIP_TILE",
                IF SubtileLast THEN job ELSE [job EXCEPT !.sub = job.sub + 1])
        /\ pf' = p
    BY <1>21, <1>3 DEF MlStoW
  <2>2. /\ Kept /\ Mute /\ ml_st = "STRIP_STO_W"
        /\ \/ ml_st' = "IDLE" /\ job'.done = job.done
           \/ ml_st' = ml_st /\ job' = job
           \/ /\ ~err /\ ~(busy /\ mode_write) /\ busy_seen /\ (done /\ mode_write)
              /\ ml_st' = IF SubtileLast THEN "STRIP_RV" ELSE "STRIP_TILE"
              /\ job' = IF SubtileLast THEN job ELSE [job EXCEPT !.sub = job.sub + 1]
    BY <2>1, <1>1, WaitMoves
  <2> QED BY <2>1, <2>2, <1>1, <1>4, <1>5
          DEF StoreWaits, Issues, Mute, EndMove, StripMove, StayMove, Pass, JobType
<1>22. CASE MlRv(job, p)
  <2>1. /\ ml_st = "STRIP_RV" /\ job' = job /\ pf' = p /\ Silent
        /\ \/ ml_st' = ml_st
           \/ pf.done /\ ml_st' = IF StripLast THEN "DONE" ELSE "STRIP_ADV"
    BY <1>22 DEF MlRv, Goto
  <2>2. pf.done => p.done
    BY Monitored DEF p, Core, Types, MlTypes, MlRegTypes, DmaTypes, ChainTypes
  <2> QED BY <2>1, <2>2, <1>4, <1>6 DEF Issues, Mute, StripMove, StayMove, Pass
<1>23. CASE MlAdv(job, p)
  <2>1. /\ ml_st = "STRIP_ADV" /\ ml_st' = "STRIP_BEGIN" /\ Silent
        /\ job' = [job EXCEPT !.strip = job.strip + 1, !.bank = 1 - job.bank]
    BY <1>23 DEF MlAdv, Goto, OtherBank
  <2> QED BY <2>1, <1>1, <1>6 DEF Issues, Mute, StripMove, Pass, JobType
<1> QED BY <1>10, <1>11, <1>12, <1>13, <1>14, <1>15, <1>16, <1>17, <1>18, <1>19, <1>20, <1>21,
           <1>22, <1>23 DEF StripStep, e, p

LEMMA LegacyMoves ==
    ASSUME Core, LegacyStep(Engines, job, AfterMonitor(Engines))
    PROVE  Kept /\ Issues /\ (EndMove \/ LegacyMove \/ StayMove) /\ job'.done = job.done
<1> DEFINE e == Engines
           p == AfterMonitor(Engines)
<1>1. /\ MlTypes /\ mlmat \in MatCmdT /\ job \in JobType
  BY DEF Core, Types, MlTypes, MlOutTypes, MlRegTypes
<1>2. p.done => pf.done \/ strip_done
  BY MonitorStep
<1>3. /\ e.mat_busy = MatBusy /\ e.mat_done = mat_done /\ e.mat_err = mat_err
      /\ e.dma_busy = (busy /\ ~mode_write) /\ e.dma_done = (done /\ ~mode_write)
      /\ e.dma_err = err /\ e.wb_busy = (busy /\ mode_write)
      /\ e.wb_done = (done /\ mode_write)
  BY Wired
<1>4. pf' = p /\ ~mlstrip'.start => NoPrefetch
  BY <1>2 DEF NoPrefetch
<1>5. /\ ml_st \in MatWaits /\ ~mat_err /\ ~MatBusy /\ busy_seen => MatRight
      /\ ml_st \in LoadWaits /\ ~err /\ ~(busy /\ ~mode_write) /\ busy_seen
            /\ (done /\ ~mode_write) => LoadRight
      /\ ml_st \in StoreWaits /\ ~err /\ ~(busy /\ mode_write) /\ busy_seen
            /\ (done /\ mode_write) => StoreRight
  BY RightWaits
<1>6. Silent => Mute /\ Kept
  BY <1>1, KeptStep
<1> HIDE DEF e, p
<1>10. CASE MlLoadA(job, p)
  <2>1. /\ ml_st = "LOADA" /\ job' = job /\ pf' = p
        /\ IssueDma(ActSrc, ActSlot, ActLen, "LOADA_W")
    BY <1>10 DEF MlLoadA
  <2>2. /\ LoadIssued(ActSrc, ActSlot, ActLen) /\ ml_st' = "LOADA_W"
        /\ Kept /\ ~mlmat'.go /\ ~mlwb'.go /\ ~mlstrip'.start
    BY <2>1, <1>1, IssueSteps
  <2> QED BY <2>1, <2>2 DEF Issues, LegacyMove, Pass
<1>11. CASE MlLoadAW(e, job, p)
  <2>1. Wait("LOADA_W", err, busy /\ ~mode_write, done /\ ~mode_write, job, "LDW", job) /\ pf' = p
    BY <1>11, <1>3 DEF MlLoadAW
  <2>2. /\ Kept /\ Mute /\ ml_st = "LOADA_W"
        /\ \/ ml_st' = "IDLE" /\ job'.done = job.done
           \/ ml_st' = ml_st /\ job' = job
           \/ /\ ~err /\ ~(busy /\ ~mode_write) /\ busy_seen /\ (done /\ ~mode_write)
              /\ ml_st' = "LDW" /\ job' = job
    BY <2>1, <1>1, WaitMoves
  <2> QED BY <2>1, <2>2, <1>4, <1>5
          DEF LoadWaits, Issues, Mute, EndMove, LegacyMove, StayMove, Pass
<1>12. CASE MlLdw(job, p)
  <2>1. /\ ml_st = "LDW" /\ job' = job /\ pf' = p
        /\ IssueDma(BlobBase + job.tile * JobStride, FoldPtr, LoadLen, "LDW_W")
    BY <1>12 DEF MlLdw
  <2>2. /\ LoadIssued(BlobBase + job.tile * JobStride, FoldPtr, LoadLen) /\ ml_st' = "LDW_W"
        /\ Kept /\ ~mlmat'.go /\ ~mlwb'.go /\ ~mlstrip'.start
    BY <2>1, <1>1, IssueSteps
  <2> QED BY <2>1, <2>2 DEF Issues, LegacyMove, Pass
<1>13. CASE MlLdwW(e, job, p)
  <2>1. Wait("LDW_W", err, busy /\ ~mode_write, done /\ ~mode_write, job, "CLR", job) /\ pf' = p
    BY <1>13, <1>3 DEF MlLdwW
  <2>2. /\ Kept /\ Mute /\ ml_st = "LDW_W"
        /\ \/ ml_st' = "IDLE" /\ job'.done = job.done
           \/ ml_st' = ml_st /\ job' = job
           \/ /\ ~err /\ ~(busy /\ ~mode_write) /\ busy_seen /\ (done /\ ~mode_write)
              /\ ml_st' = "CLR" /\ job' = job
    BY <2>1, <1>1, WaitMoves
  <2> QED BY <2>1, <2>2, <1>4, <1>5
          DEF LoadWaits, Issues, Mute, EndMove, LegacyMove, StayMove, Pass
<1>14. CASE MlClr(job, p)
  <2> DEFINE c == LoadAcc(Ptr("tcm", FoldPtr))
  <2>1. ml_st = "CLR" /\ job' = job /\ pf' = p /\ IssueMat(c, "CLR_W")
    BY <1>14 DEF MlClr
  <2>2. c.go /\ c.op = "LOADACC" /\ c.a = Ptr("tcm", FoldPtr)
    BY <1>1, CommandFields
  <2> HIDE DEF c
  <2>3. /\ mlmat' = c /\ ml_st' = "CLR_W" /\ Kept
        /\ ~mldma'.go /\ ~mlwb'.go /\ ~mlstrip'.start
    BY <2>1, <2>2, <1>1, IssueSteps
  <2>4. AccIssued(Ptr("tcm", FoldPtr))
    BY <2>2, <2>3 DEF AccIssued
  <2> QED BY <2>1, <2>3, <2>4 DEF Issues, MatIssues, LegacyMove, Pass
<1>15. CASE MlLegacyClrW(e, job, p)
  <2>1. Wait("CLR_W", mat_err, MatBusy, mat_done, job, "OP", job) /\ pf' = p
    BY <1>15, <1>3 DEF MlLegacyClrW, MatWait
  <2>2. /\ Kept /\ Mute /\ ml_st = "CLR_W"
        /\ \/ ml_st' = "IDLE" /\ job'.done = job.done
           \/ ml_st' = ml_st /\ job' = job
           \/ /\ ~mat_err /\ ~MatBusy /\ busy_seen
              /\ ml_st' = "OP" /\ job' = job
    BY <2>1, <1>1, WaitMoves
  <2> QED BY <2>1, <2>2, <1>4, <1>5
          DEF MatWaits, Issues, Mute, EndMove, LegacyMove, StayMove, Pass
<1>16. CASE MlLegacyOp(job, p)
  <2> DEFINE c == OpCmd(Ptr("tcm", OpA), Ptr("tcm", OpB), Reps)
  <2>1. ml_st = "OP" /\ job' = job /\ pf' = p /\ IssueMat(c, "OP_W")
    BY <1>16 DEF MlLegacyOp
  <2>2. /\ c.go /\ c.op = "OP" /\ c.a = Ptr("tcm", OpA)
        /\ c.b = Ptr("tcm", OpB) /\ c.rpt = Reps
    BY <1>1, CommandFields
  <2> HIDE DEF c
  <2>3. /\ mlmat' = c /\ ml_st' = "OP_W" /\ Kept
        /\ ~mldma'.go /\ ~mlwb'.go /\ ~mlstrip'.start
    BY <2>1, <2>2, <1>1, IssueSteps
  <2>4. OpIssued(Ptr("tcm", OpA), Ptr("tcm", OpB), Reps)
    BY <2>2, <2>3 DEF OpIssued
  <2> QED BY <2>1, <2>3, <2>4 DEF Issues, MatIssues, LegacyMove, Pass
<1>17. CASE MlLegacyOpW(e, job, p)
  <2>1. Wait("OP_W", mat_err, MatBusy, mat_done, job, "RSC", job) /\ pf' = p
    BY <1>17, <1>3 DEF MlLegacyOpW, MatWait
  <2>2. /\ Kept /\ Mute /\ ml_st = "OP_W"
        /\ \/ ml_st' = "IDLE" /\ job'.done = job.done
           \/ ml_st' = ml_st /\ job' = job
           \/ /\ ~mat_err /\ ~MatBusy /\ busy_seen
              /\ ml_st' = "RSC" /\ job' = job
    BY <2>1, <1>1, WaitMoves
  <2> QED BY <2>1, <2>2, <1>4, <1>5
          DEF MatWaits, Issues, Mute, EndMove, LegacyMove, StayMove, Pass
<1>18. CASE MlLegacyRsc(job, p)
  <2> DEFINE c == Rescale(Ptr("tcm", ParamPtr), LegacyOut)
  <2>1. ml_st = "RSC" /\ job' = job /\ pf' = p /\ IssueMat(c, "RSC_W")
    BY <1>18 DEF MlLegacyRsc
  <2>2. /\ c.go /\ c.op = "RESCALE_PC" /\ c.param = Ptr("tcm", ParamPtr)
        /\ c.out = LegacyOut
    BY <1>1, CommandFields
  <2> HIDE DEF c
  <2>3. /\ mlmat' = c /\ ml_st' = "RSC_W" /\ Kept
        /\ ~mldma'.go /\ ~mlwb'.go /\ ~mlstrip'.start
    BY <2>1, <2>2, <1>1, IssueSteps
  <2>4. RscIssued(Ptr("tcm", ParamPtr), LegacyOut)
    BY <2>2, <2>3 DEF RscIssued
  <2> QED BY <2>1, <2>3, <2>4 DEF Issues, MatIssues, LegacyMove, Pass
<1>19. CASE MlLegacyRscW(e, job, p)
  <2>1. Wait("RSC_W", mat_err, MatBusy, mat_done, job, "STO", job) /\ pf' = p
    BY <1>19, <1>3 DEF MlLegacyRscW, MatWait
  <2>2. /\ Kept /\ Mute /\ ml_st = "RSC_W"
        /\ \/ ml_st' = "IDLE" /\ job'.done = job.done
           \/ ml_st' = ml_st /\ job' = job
           \/ /\ ~mat_err /\ ~MatBusy /\ busy_seen
              /\ ml_st' = "STO" /\ job' = job
    BY <2>1, <1>1, WaitMoves
  <2> QED BY <2>1, <2>2, <1>4, <1>5
          DEF MatWaits, Issues, Mute, EndMove, LegacyMove, StayMove, Pass
<1>20. CASE MlLegacySto(job, p)
  <2>1. /\ ml_st = "STO" /\ job' = job /\ pf' = p
        /\ IssueWb(LegacyOut, DstBase + job.tile * DstStride, "STO_W")
    BY <1>20 DEF MlLegacySto
  <2>2. /\ StoreIssued(LegacyOut, DstBase + job.tile * DstStride) /\ ml_st' = "STO_W"
        /\ Kept /\ ~mlmat'.go /\ ~mldma'.go /\ ~mlstrip'.start
    BY <2>1, <1>1, IssueSteps
  <2> QED BY <2>1, <2>2 DEF Issues, StoreIssues, LegacyMove, Pass
<1>21. CASE MlLegacyStoW(e, job, p)
  <2>1. Wait("STO_W", err, busy /\ mode_write, done /\ mode_write, job, "NEXT", job) /\ pf' = p
    BY <1>21, <1>3 DEF MlLegacyStoW
  <2>2. /\ Kept /\ Mute /\ ml_st = "STO_W"
        /\ \/ ml_st' = "IDLE" /\ job'.done = job.done
           \/ ml_st' = ml_st /\ job' = job
           \/ /\ ~err /\ ~(busy /\ mode_write) /\ busy_seen /\ (done /\ mode_write)
              /\ ml_st' = "NEXT" /\ job' = job
    BY <2>1, <1>1, WaitMoves
  <2> QED BY <2>1, <2>2, <1>4, <1>5
          DEF StoreWaits, Issues, Mute, EndMove, LegacyMove, StayMove, Pass
<1>22. CASE MlNext(job, p)
  <2>1. /\ ml_st = "NEXT" /\ Silent
        /\ \/ job.tile + 1 >= cfg.ntiles /\ job' = job /\ ml_st' = "DONE"
           \/ /\ ~(job.tile + 1 >= cfg.ntiles)
              /\ job' = [job EXCEPT !.tile = job.tile + 1] /\ ml_st' = "LDW"
    BY <1>22 DEF MlNext, Goto
  <2>2. job.tile + 1 >= cfg.ntiles \/ job.tile + 1 < cfg.ntiles
    BY <1>1 DEF MlTypes, CfgType, JobType
  <2> QED BY <2>1, <2>2, <1>1, <1>6 DEF Issues, Mute, LegacyMove, Pass, JobType
<1> QED BY <1>10, <1>11, <1>12, <1>13, <1>14, <1>15, <1>16, <1>17, <1>18, <1>19, <1>20, <1>21, <1>22
           DEF LegacyStep, e, p

\* The step that starts a job, for the data.
LEMMA StartMoves ==
    ASSUME Core, ~job.err, NEW w, GoTaken(w, FALSE), MlClk(w, FALSE, Engines)
    PROVE  Kept /\ Issues /\ ~job'.done /\ (EndMove \/ StartMove)
<1>1. ~job.busy
  BY DEF GoTaken
<1>2. ml_st = "IDLE"
  BY <1>1 DEF Core, TurnInv
<1> DEFINE j  == AfterCsrJob(w, FALSE)
           p  == AfterCsrPf(w, FALSE, Engines)
           sn == AfterCsrSeen(w, FALSE)
           st == AfterCsrSt(w, FALSE)
<1>3. /\ j = [busy |-> ~StripKickIllegal, done |-> FALSE, err |-> StripKickIllegal, tile |-> 0,
              strip |-> 0, chunk |-> 0, sub |-> 0, bank |-> 0, wbase |-> 0]
      /\ ml_st = "IDLE" => \/ StripKickIllegal /\ st = "IDLE"
                           \/ cfg.strip /\ st = "STRIP_PREFILL"
                           \/ ~cfg.strip /\ st = IF cfg.stationary THEN "LOADA" ELSE "LDW"
  BY DEF AfterCsrJob, AfterCsrSt
<1>4. MlIdle(GoTaken(w, FALSE), j, p, sn, st)
  <2>1. /\ ~StripStep(Engines, j, p) /\ ~LegacyStep(Engines, j, p)
    BY <1>2, StatesOf DEF StripLive, StripStates, LegacyStates
  <2>2. /\ ~MlAbortDrain(Engines, j, p) /\ ~MlDone(j, p)
        /\ ~MlDrainErr(GoTaken(w, FALSE), Engines, j, p, sn, st)
    BY <1>2 DEF MlAbortDrain, MlDone, MlDrainErr
  <2>3. ~FaultNow
    BY <1>1 DEF Core, TurnInv, FaultNow
  <2> QED BY <2>1, <2>2, <2>3, Zenon DEF MlClk
<1>5. NoMat /\ NoDma /\ NoWb /\ (NoStrip(TRUE) \/ NoStrip(FALSE)) => Mute /\ Kept
  BY KeptStep DEF Core, Types, Mute, Kept
<1>6. GoTaken(w, FALSE) = TRUE
  <2>1. GoTaken(w, FALSE) \in BOOLEAN
    BY DEF GoTaken
  <2> QED BY <2>1
<1> HIDE DEF j, p, sn, st
<1>7. CASE MlIdle(GoTaken(w, FALSE), j, p, sn, st)
  <2>1. job' = j /\ ml_st = "IDLE" /\ ml_st' = st /\ Mute /\ Kept
    BY <1>5, <1>6, <1>7 DEF MlIdle, Goto
  <2>2. /\ job'.tile = 0 /\ job'.strip = 0 /\ job'.chunk = 0 /\ job'.sub = 0 /\ job'.bank = 0
        /\ ~job'.done
    BY <2>1, <1>3
  <2> QED BY <2>1, <2>2, <1>3 DEF Issues, Mute, EndMove, StartMove
<1> QED BY <1>4, <1>7

\* Every step of the sequencer, for the data.
LEMMA SeqStep ==
    ASSUME NEW m, NEW ar, NEW r, NEW aw, NEW w, NEW b, Edge(m, ar, r, aw, w, b)
    PROVE  /\ Kept /\ Issues /\ Moves(m) /\ FwSeen(m)
           /\ CsrCfg(MlWrite(m))
<1>1. Core /\ Bounds /\ m \in FwMoves /\ Firmware(m) /\ MlClk(MlWrite(m), FALSE, Engines)
  BY DEF Edge
<1>2. CsrCfg(MlWrite(m))
  BY <1>1 DEF MlClk
<1>3. FwSeen(m)
  BY <1>1, <1>2, FirmwareStep DEF Core
<1>4. CASE GoTaken(MlWrite(m), FALSE)
  <2>1. ~job.err
    BY <1>3, <1>4 DEF FwSeen
  <2>2. Kept /\ Issues /\ ~job'.done /\ (EndMove \/ StartMove)
    BY <1>1, <1>4, <2>1, StartMoves
  <2> QED BY <2>2, <1>2, <1>3, <1>4 DEF Moves
<1>5. CASE ~GoTaken(MlWrite(m), FALSE)
  <2> DEFINE v == MlWrite(m)
             p == AfterMonitor(Engines)
  <2>1. /\ AfterCsrJob(v, FALSE) = job /\ AfterCsrPf(v, FALSE, Engines) = p
        /\ AfterCsrSeen(v, FALSE) = busy_seen /\ AfterCsrSt(v, FALSE) = ml_st
    BY <1>5 DEF AfterCsrJob, AfterCsrPf, AfterCsrSeen, AfterCsrSt
  <2>2. \/ MlFault(GoTaken(v, FALSE), job, p, busy_seen)
        \/ MlIdle(GoTaken(v, FALSE), job, p, busy_seen, ml_st)
        \/ MlDrainErr(GoTaken(v, FALSE), Engines, job, p, busy_seen, ml_st)
        \/ StripStep(Engines, job, p)
        \/ LegacyStep(Engines, job, p)
        \/ MlAbortDrain(Engines, job, p)
        \/ MlDone(job, p)
    BY <1>1, <2>1, Zenon DEF MlClk
  <2>3. NoMat /\ NoDma /\ NoWb /\ (NoStrip(TRUE) \/ NoStrip(FALSE)) => Mute /\ Kept
    BY <1>1, KeptStep DEF Core, Types, Mute, Kept
  <2>4. GoTaken(v, FALSE) \in BOOLEAN
    BY DEF GoTaken
  <2>5. job \in JobType
    BY <1>1 DEF Core, Types, MlTypes, MlRegTypes
  <2> HIDE DEF v, p
  <2>6. CASE MlFault(GoTaken(v, FALSE), job, p, busy_seen)
    <3>1. Mute /\ Kept /\ job' = job /\ ml_st' = "STRIP_DRAIN_ERR"
      BY <2>3, <2>4, <2>6 DEF MlFault, Goto
    <3> QED BY <3>1, <1>2, <1>3, <1>5 DEF Issues, Mute, EndMove, Moves
  <2>7. CASE MlIdle(GoTaken(v, FALSE), job, p, busy_seen, ml_st)
    <3>1. Mute /\ Kept /\ job' = job /\ ml_st' = "IDLE"
      BY <2>3, <2>4, <2>7 DEF MlIdle, Goto
    <3> QED BY <3>1, <1>2, <1>3, <1>5 DEF Issues, Mute, EndMove, Moves
  <2>8. CASE MlDrainErr(GoTaken(v, FALSE), Engines, job, p, busy_seen, ml_st)
    <3>1. /\ Mute /\ Kept /\ ml_st' \in {"IDLE", "STRIP_DRAIN_ERR"}
          /\ job' = job \/ job' = Retired(job)
      BY <2>3, <2>4, <2>8 DEF MlDrainErr, Goto
    <3>2. job'.done = job.done
      BY <3>1, <2>5 DEF Retired, JobType
    <3> QED BY <3>1, <3>2, <1>2, <1>3, <1>5 DEF Issues, Mute, EndMove, Moves
  <2>9. CASE StripStep(Engines, job, p)
    BY <2>9, <1>1, <1>2, <1>3, <1>5, StripMoves DEF p, Moves
  <2>10. CASE LegacyStep(Engines, job, p)
    BY <2>10, <1>1, <1>2, <1>3, <1>5, LegacyMoves DEF p, Moves
  <2>11. CASE MlAbortDrain(Engines, job, p)
    BY <2>11, <1>1 DEF MlAbortDrain, Core, TurnInv
  <2>12. CASE MlDone(job, p)
    <3>1. ml_st = "DONE" /\ ml_st' = "IDLE" /\ Mute /\ Kept /\ job'.done
      BY <2>3, <2>5, <2>12 DEF MlDone, Goto, Silent, JobType
    <3> QED BY <3>1, <1>2, <1>3, <1>5 DEF Issues, Mute, EndMove, Moves
  <2> QED BY <2>2, <2>6, <2>7, <2>8, <2>9, <2>10, <2>11, <2>12
<1> QED BY <1>4, <1>5

\* A job runs because it did before or was just started.
LEMMA BusyOnGo ==
    ASSUME NEW m, NEW ar, NEW r, NEW aw, NEW w, NEW b, Edge(m, ar, r, aw, w, b),
           job'.busy, ~GoTaken(MlWrite(m), FALSE)
    PROVE  job.busy
<1>1. AnyKind
  BY PlainStep DEF Edge, Core, EngineFlags, Types, MatTypes, DmaTypes, FlagTypes, ChainTypes,
                   TopTypes
<1> QED BY <1>1 DEF AnyKind, FaultKind, DrainKind, IdleKind, Keeps, Retires

\* Every calm step is such an edge.
LEMMA CalmEdge ==
    ASSUME SInv, Next, Calm'
    PROVE  Calm /\ \E m, ar, r, aw, w, b : Edge(m, ar, r, aw, w, b)
<1>1. PICK h \in HostMoves, m \in FwMoves :
          \E ar \in Late("ar"), r \in RChoices, aw \in Late("aw"), w \in Late("w"),
             b \in BChoices : Clock(h, m, ar, r, aw, w, b)
  BY DEF Next
<1>2. PICK ar \in Late("ar"), r \in RChoices, aw \in Late("aw"), w \in Late("w"),
           b \in BChoices : Clock(h, m, ar, r, aw, w, b)
  BY <1>1
<1>3. Bounds /\ Host(h)
  BY <1>2 DEF SInv, Clock
<1>4. /\ Calm /\ h # "soft" /\ (h = "stop" => Program = "job")
      /\ h = "stop" => Finished
  BY <1>3, HostStep
<1>5. Core /\ Core'
  <2>1. SInv'
    BY NextInv
  <2> QED BY <1>4, <2>1 DEF SInv
<1>6. /\ Firmware(m)
      /\ RegsClk(HostWrite(h), CorePort(m), ~busy /\ ~MatBusy,
                 [dma_done |-> Engines.dma_done, wb_done |-> Engines.wb_done,
                  dma_err |-> err, npu_done |-> done_latch])
      /\ MlClk(MlWrite(m), soft_rst, Engines)
      /\ MatClk(soft_rst, MatGoWire, mlmat, Ports)
      /\ DmaClk(soft_rst, DmaStart, Wires, mlstrip.start, StripWires, ar, r, aw, w, b)
      /\ StripBufClk(mlstrip.clear, StripWe(r), strip_bank_l, strip_waddr, raddr, strip_done)
      /\ TcmClk(r) /\ ModeClk
      /\ SlaveClk(ar, r, aw, w, b)
      /\ kicked' = IF GoTaken(MlWrite(m), soft_rst) THEN NextJob ELSE kicked
  BY <1>2 DEF Clock
<1>7. soft_rst = FALSE /\ host \in {"enable", "start", "tail", "watch"} /\ bowed \in BOOLEAN
      /\ DmaTypes /\ TopTypes
  BY <1>5 DEF Core, Types, TopTypes, FirmwareInv
<1>8. h \in {"stall", "enable", "start", "tail", "stop"}
  BY <1>3, <1>4, <1>7, CalmHost
<1>9. Answers(ar, r, aw, w, b)
  BY <1>7, Chosen
<1>10. cq'.head = cq.head \/ (m = "head" /\ cq'.head = NextJob)
  BY <1>6, <1>7, <1>8, RegsStep
<1>11. acks' = acks \/ (Program = "job" /\ fw = "halt")
  <2>1. h = "stop" => Program = "job" /\ fw = "halt"
    BY <1>4, <1>5 DEF Finished, Core, FirmwareInv
  <2> QED BY <2>1, <1>3 DEF Host
<1>12. Edge(m, ar, r, aw, w, b)
  BY <1>3, <1>5, <1>6, <1>7, <1>9, <1>10, <1>11 DEF Edge
<1> QED BY <1>4, <1>12

-----------------------------------------------------------------------------
(* The program.                                                             *)

\* Which job is kicked.
LEMMA Kicking ==
    ASSUME NEW m, NEW ar, NEW r, NEW aw, NEW w, NEW b, Edge(m, ar, r, aw, w, b), KickInv
    PROVE  IF GoTaken(MlWrite(m), FALSE)
           THEN /\ fw = m /\ fw \in {"go", "jgo"} /\ kicked' = NextJob /\ cfg' = cfg
                /\ cfg = Jobs[kicked'] /\ kicked' # 0
           ELSE kicked' = kicked
<1>1. /\ FwSeen(m) /\ CsrCfg(MlWrite(m))
  BY SeqStep
<1>2. /\ Core /\ Bounds /\ m \in FwMoves /\ Firmware(m)
      /\ kicked' = IF GoTaken(MlWrite(m), FALSE) THEN NextJob ELSE kicked
  BY DEF Edge
<1>3. TopTypes /\ FirmwareInv /\ fw \in FwStates
  BY <1>2 DEF Core, Types, TopTypes
<1>4. (~ctrl.start /\ m = "reset") \/ FwRuns(m)
  BY <1>2, <1>3, FwMoved
<1>5. ASSUME GoTaken(MlWrite(m), FALSE)
      PROVE  /\ fw = m /\ fw \in {"go", "jgo"} /\ kicked' = NextJob /\ cfg' = cfg
             /\ cfg = Jobs[kicked'] /\ kicked' # 0
  <2>1. m \in {"go", "jgo"}
    BY <1>5, MlWrites DEF GoTaken
  <2>2. fw = m
    BY <1>4, <2>1 DEF FwRuns
  <2>3. NextJob \in 1 .. Len(Jobs)
    BY <2>1, <2>2, <1>2, <1>3, NextInRange
  <2> QED BY <2>1, <2>2, <2>3, <1>1, <1>2, <1>5 DEF KickInv, FwSeen
<1> QED BY <1>2, <1>5

\* Where the firmware comes from when a job is retired.
LEMMA FwBack ==
    ASSUME fw \in FwStates
    PROVE  /\ FwNext(fw) = "poll" => fw \in {"go", "poll"}
           /\ FwNext(fw) = "mode_ok" => fw = "poll" /\ job.done
           /\ FwNext(fw) = "head" => fw = "mode_ok"
<1>1. CASE fw \in {"off", "jcfg", "jgo", "jpoll", "boot", "exit"}
  <2>1. /\ fw = "off" => FwNext(fw) \in {"boot", "jcfg"}
        /\ fw = "jcfg" => FwNext(fw) = "jgo"
        /\ fw = "jgo" => FwNext(fw) = "jpoll"
        /\ fw = "jpoll" => FwNext(fw) \in {"exit", "jpoll"}
        /\ fw = "boot" => FwNext(fw) \in {"loop", "exit"}
        /\ fw = "exit" => FwNext(fw) = "halt"
    BY DEF FwNext
  <2> QED BY <1>1, <2>1
<1>2. CASE fw \in {"halt", "loop", "busy", "desc", "dgo", "dret", "dwait"}
  BY <1>2 DEF FwNext
<1>3. CASE fw \in {"dfault", "cfg", "go", "poll", "mode_err", "mode_ok", "cause", "head"}
  BY <1>3 DEF FwNext
<1> QED BY <1>1, <1>2, <1>3 DEF FwStates

LEMMA KickStep ==
    ASSUME NEW m, NEW ar, NEW r, NEW aw, NEW w, NEW b, Edge(m, ar, r, aw, w, b), KickInv
    PROVE  KickInv'
<1>1. /\ FwSeen(m) /\ CsrCfg(MlWrite(m)) /\ Moves(m)
  BY SeqStep
<1>2. /\ Core /\ Core' /\ Bounds /\ m \in FwMoves /\ Firmware(m)
      /\ cq'.head = cq.head \/ (m = "head" /\ cq'.head = NextJob)
      /\ acks' = acks \/ (Program = "job" /\ fw = "halt")
  BY DEF Edge
<1>3. /\ TopTypes /\ FirmwareInv /\ TurnInv /\ fw \in FwStates
      /\ FirmwareInv' /\ TurnInv'
      /\ job \in JobType /\ job' \in JobType /\ Program \in {"cq", "job"}
  BY <1>2, StripAssumption DEF Core, Types, TopTypes, MlTypes, MlRegTypes
<1>4. \/ ~ctrl.start /\ m = "reset" /\ fw' = "off"
      \/ FwRuns(m)
  BY <1>2, <1>3, FwMoved
<1>5. cfg' = IF m \in {"cfg", "jcfg"} THEN Jobs[NextJob]
             ELSE IF m \in {"mode_err", "mode_ok"} THEN [cfg EXCEPT !.strip = FALSE]
             ELSE cfg
  BY <1>1, MlWrites DEF CsrCfg
<1>6. IF GoTaken(MlWrite(m), FALSE)
      THEN /\ fw = m /\ fw \in {"go", "jgo"} /\ kicked' = NextJob /\ cfg' = cfg
           /\ cfg = Jobs[kicked'] /\ kicked' # 0
      ELSE kicked' = kicked
  BY Kicking
<1>7. job'.busy => kicked' # 0 /\ cfg' = Jobs[kicked']
  <2>1. job.busy => cfg' = cfg
    BY <1>1 DEF FwSeen
  <2> QED BY <2>1, <1>6, BusyOnGo DEF KickInv
<1>8. Program = "job" => cq'.head = 0
  <2>1. Program = "job" => m # "head"
    BY <1>3, <1>4 DEF FwRuns, FirmwareInv, DriverStates
  <2> QED BY <2>1, <1>2 DEF KickInv
<1>9. fw' \in {"go", "jgo"} => cfg' = Jobs[NextJob']
  <2> SUFFICES ASSUME fw' \in {"go", "jgo"} PROVE cfg' = Jobs[NextJob']
    OBVIOUS
  <2>1. FwRuns(m) /\ \/ m = "stall" /\ fw' = fw
                     \/ m = fw /\ fw \in {"cfg", "jcfg"}
    <3>1. FwNext(fw) \in {"go", "jgo"} => fw \in {"cfg", "jcfg"}
      BY <1>3, FwGoes
    <3> QED BY <3>1, <1>4 DEF FwRuns
  <2>2. NextJob' = NextJob
    BY <2>1, <1>2 DEF NextJob
  <2> QED BY <2>1, <2>2, <1>5 DEF KickInv
<1>10. fw' \in {"mode_ok", "head"} => job'.done
  <2> SUFFICES ASSUME fw' \in {"mode_ok", "head"} PROVE job'.done
    OBVIOUS
  <2>1. FwRuns(m) /\ \/ m = "stall" /\ fw' = fw
                     \/ m = fw /\ fw \in {"poll", "mode_ok"} /\ fw' = FwNext(fw)
    <3>1. FwNext(fw) \in {"mode_ok", "head"} => fw \in {"poll", "mode_ok"}
      BY <1>3, FwBack
    <3> QED BY <3>1, <1>4 DEF FwRuns
  <2>2. job.done
    BY <2>1 DEF KickInv, FwNext
  <2>3. ~GoTaken(MlWrite(m), FALSE)
    BY <2>1, <1>6
  <2> QED BY <2>2, <2>3, <1>1 DEF Moves
<1>11. Program = "cq" /\ fw' \in {"poll", "mode_ok", "head"} => kicked' = NextJob'
  <2> SUFFICES ASSUME Program = "cq", fw' \in {"poll", "mode_ok", "head"}
               PROVE  kicked' = NextJob'
    OBVIOUS
  <2>1. FwRuns(m) /\ \/ m = "stall" /\ fw' = fw
                     \/ m = fw /\ fw \in {"go", "poll", "mode_ok"}
    <3>1. FwNext(fw) \in {"poll", "mode_ok", "head"} => fw \in {"go", "poll", "mode_ok"}
      BY <1>3, FwBack
    <3> QED BY <3>1, <1>4 DEF FwRuns
  <2>2. NextJob' = NextJob
    BY <2>1, <1>2 DEF NextJob
  <2>3. m = "go" => GoTaken(MlWrite(m), FALSE)
    <3>1. fw = "go" => ~job.busy /\ ~cfg.bypass
      <4>1. fw = "go" => NextJob \in 1 .. Len(Jobs)
        BY <1>2, <1>3, NextInRange
      <4>2. fw = "go" => cfg = Jobs[NextJob] /\ ~job.busy
        BY <1>3 DEF KickInv, TurnInv
      <4> QED BY <4>1, <4>2, JobsAssumption
    <3> QED BY <3>1, <2>1, MlWrites DEF GoTaken
  <2> QED BY <2>1, <2>2, <2>3, <1>6 DEF KickInv
<1> QED BY <1>7, <1>8, <1>9, <1>10, <1>11 DEF KickInv

\* The registers of a job stay what they are while it runs.
LEMMA Programmed ==
    ASSUME NEW m, NEW ar, NEW r, NEW aw, NEW w, NEW b, Edge(m, ar, r, aw, w, b), KickInv
    PROVE  /\ job.busy => /\ cfg' = cfg /\ kicked' = kicked /\ kicked \in 1 .. Len(Jobs)
                          /\ cfg = Jobs[kicked]
           /\ StripMove \/ LegacyMove \/ StayMove => job.busy
           /\ StartMove /\ GoTaken(MlWrite(m), FALSE) =>
                  cfg' = cfg /\ kicked' \in 1 .. Len(Jobs) /\ cfg = Jobs[kicked']
<1>1. Core /\ Core' /\ FwSeen(m)
  BY SeqStep DEF Edge
<1>2. kicked \in 0 .. Len(Jobs) /\ kicked' \in 0 .. Len(Jobs) /\ Len(Jobs) \in Nat
  BY <1>1, StripAssumption DEF Core, Types, TopTypes
<1>3. job.busy => cfg' = cfg /\ ~GoTaken(MlWrite(m), FALSE)
  BY <1>1 DEF FwSeen
<1>4. StripMove \/ LegacyMove \/ StayMove => ml_st \notin {"IDLE", "STRIP_DRAIN_ERR"}
  BY DEF StripMove, LegacyMove, StayMove, Pass, MatWaits, LoadWaits, StoreWaits
<1>5. StripMove \/ LegacyMove \/ StayMove => job.busy
  BY <1>1, <1>4 DEF Core, TurnInv
<1>6. IF GoTaken(MlWrite(m), FALSE)
      THEN kicked' # 0 /\ cfg' = cfg /\ cfg = Jobs[kicked']
      ELSE kicked' = kicked
  BY Kicking
<1>7. job.busy => kicked' = kicked /\ kicked # 0 /\ cfg = Jobs[kicked]
  BY <1>3, <1>6 DEF KickInv
<1>8. GoTaken(MlWrite(m), FALSE) =>
          cfg' = cfg /\ kicked' \in 1 .. Len(Jobs) /\ cfg = Jobs[kicked']
  BY <1>2, <1>6
<1>9. job.busy => kicked \in 1 .. Len(Jobs)
  BY <1>2, <1>7
<1> QED BY <1>3, <1>5, <1>7, <1>8, <1>9, Zenon

\* A step of the sequencer: it starts a job, ends one, or goes on with one.
Goes == StripMove \/ LegacyMove \/ StayMove
LEMMA Ways ==
    ASSUME NEW m, NEW ar, NEW r, NEW aw, NEW w, NEW b, Edge(m, ar, r, aw, w, b), KickInv
    PROVE  \/ EndMove
           \/ /\ GoTaken(MlWrite(m), FALSE) /\ StartMove /\ ~job'.done /\ ~job.busy
              /\ cfg' = cfg /\ kicked' \in 1 .. Len(Jobs) /\ cfg = Jobs[kicked']
           \/ /\ Goes /\ job.busy /\ cfg' = cfg /\ kicked' = kicked /\ job'.done = job.done
              /\ kicked \in 1 .. Len(Jobs) /\ cfg = Jobs[kicked]
  BY SeqStep, Programmed DEF Moves, Goes, GoTaken

\* The states by name.
LEMMA StateNames ==
    /\ StripPart = {"STRIP_BEGIN", "STRIP_TILE", "STRIP_CLR_W", "STRIP_OP", "STRIP_OP_W",
                    "STRIP_RSC", "STRIP_RSC_W", "STRIP_STO_WAIT", "STRIP_STO", "STRIP_STO_W",
                    "STRIP_RV", "STRIP_ADV"}
    /\ TilePart = {"STRIP_TILE", "STRIP_CLR_W", "STRIP_OP", "STRIP_OP_W",
                   "STRIP_RSC", "STRIP_RSC_W", "STRIP_STO_WAIT", "STRIP_STO", "STRIP_STO_W",
                   "STRIP_RV"}
    /\ FetchPart = TilePart \cup {"STRIP_ADV"}
  BY DEF StripPart, TilePart, FetchPart, StripLive, StripStates, PrefillPart

-----------------------------------------------------------------------------
(* The loops.                                                               *)

LEMMA LoopStep ==
    ASSUME NEW m, NEW ar, NEW r, NEW aw, NEW w, NEW b, Edge(m, ar, r, aw, w, b), KickInv,
           LoopInv
    PROVE  LoopInv'
<1>1. /\ cfg \in CfgType /\ job \in JobType /\ job' \in JobType /\ TurnInv /\ TurnInv'
      /\ ml_st \in MlStates
  BY DEF Edge, Core, Types, MlTypes, MlRegTypes
<1>2. SubTiles \in Nat \ {0}
  BY MlAssumption
<1>3. /\ job.strip \in Nat /\ job.sub \in Nat /\ job.chunk \in Nat /\ job.tile \in Nat
      /\ cfg.nstrips \in Nat /\ cfg.ntail \in Nat /\ cfg.kchunks \in Nat /\ cfg.ntiles \in Nat
  BY <1>1, <1>2 DEF JobType, CfgType
<1>4. CASE EndMove
  BY <1>4, StateNames DEF EndMove, LoopInv, PrefillPart, LegacyStates
<1>5. CASE StartMove /\ cfg' = cfg /\ kicked' \in 1 .. Len(Jobs) /\ cfg = Jobs[kicked']
  <2>1. ~cfg.strip => cfg.ntiles > 0
    BY <1>5, JobsAssumption
  <2>2. ml_st' \in {"STRIP_PREFILL", "LOADA", "LDW"}
        /\ (ml_st' = "STRIP_PREFILL" <=> cfg.strip)
    BY <1>5 DEF StartMove
  <2> QED BY <2>1, <2>2, <1>3, <1>5, StateNames
          DEF StartMove, LoopInv, PrefillPart, LegacyStates
<1>6. ASSUME Goes, cfg' = cfg, ml_st \in StripLive PROVE LoopInv'
  <2>1. cfg.nstrips > 0 /\ cfg.ntail > 0 /\ cfg.kchunks > 0
    BY <1>1, <1>3, <1>6 DEF TurnInv, StripKickIllegal
  <2>2. ml_st' \notin LegacyStates
    BY <1>6 DEF Goes, StripMove, LegacyMove, StayMove, Pass, StripLive, StripStates,
                LegacyStates
  <2>3. ml_st' \in PrefillPart => job'.strip = 0 /\ job'.bank = 0
    BY <1>6 DEF Goes, StripMove, LegacyMove, StayMove, Pass, StripLive, StripStates,
                PrefillPart, LoopInv, MatWaits, LoadWaits, StoreWaits
  <2>4. CASE job' = job /\ ml_st' = ml_st
    BY <2>4, <1>6 DEF LoopInv, StripLast, SubtileLast
  <2>5. CASE StripMove
    <3> USE DEF LoopInv, StripLast, SubtileLast, ChunkLast, Pass
    <3>1. ml_st' \in StripPart => job'.strip < cfg.nstrips
      <4>1. CASE ml_st = "STRIP_ADV"
        <5>1. job'.strip = job.strip + 1 /\ ~(job.strip + 1 >= cfg.nstrips)
          BY <4>1, <2>5, <1>1 DEF StripMove, JobType
        <5> QED BY <5>1, <1>3
      <4>2. CASE ml_st = "STRIP_PREFILL_W"
        BY <4>2, <2>1, <2>5, <1>3 DEF StripMove, PrefillPart
      <4>3. CASE ml_st \notin {"STRIP_PREFILL", "STRIP_PREFILL_W", "STRIP_ADV"}
        <5>1. ml_st \in StripPart /\ job'.strip = job.strip
          BY <4>3, <2>5, <1>1, StateNames DEF StripMove, JobType
        <5> QED BY <5>1
      <4>4. ml_st = "STRIP_PREFILL" => ml_st' \notin StripPart
        BY <2>5, StateNames DEF StripMove
      <4> QED BY <4>1, <4>2, <4>3, <4>4
    <3>2. ml_st' \in TilePart => (StripLast' => job'.sub < cfg.ntail)
      BY <2>1, <2>5, <1>1, <1>3, <1>6, StateNames DEF StripMove, JobType
    <3>3. ml_st' \in {"STRIP_RV", "STRIP_ADV"} => SubtileLast'
      BY <2>5, <1>1, <1>3, <1>6 DEF StripMove
    <3>4. ml_st' = "STRIP_ADV" => ~StripLast'
      BY <2>5, <1>1, <1>3, <1>6 DEF StripMove
    <3>5. /\ ml_st' = "STRIP_CLR_W" => job'.chunk = 0
          /\ ml_st' \in {"STRIP_CLR_W", "STRIP_OP", "STRIP_OP_W"} => job'.chunk < cfg.kchunks
      BY <2>1, <2>5, <1>1, <1>3, <1>6 DEF StripMove, JobType
    <3> QED BY <3>1, <3>2, <3>3, <3>4, <3>5, <2>2, <2>3, <1>6
  <2>6. StripMove \/ (job' = job /\ ml_st' = ml_st)
    BY <1>6 DEF Goes, LegacyMove, StayMove, Pass, StripLive, StripStates
  <2> QED BY <2>4, <2>5, <2>6
<1>7. ASSUME Goes, cfg' = cfg, ml_st \notin StripLive PROVE LoopInv'
  <2>1. /\ ml_st' \notin StripPart /\ ml_st' \notin TilePart /\ ml_st' \notin PrefillPart
        /\ ml_st' \in LegacyStates \cup {"DONE"}
        /\ ml_st' \in LegacyStates => ml_st \in LegacyStates
    BY <1>1, <1>7, StateNames
       DEF Goes, StripMove, LegacyMove, StayMove, Pass, PrefillPart, LegacyStates,
           StripLive, StripStates, MatWaits, LoadWaits, StoreWaits
  <2>2. ml_st' \in LegacyStates => job'.tile < cfg.ntiles
    BY <2>1, <1>1, <1>3, <1>7
       DEF LoopInv, Goes, StripMove, LegacyMove, StayMove, Pass, StripLive, StripStates,
           JobType
  <2> QED BY <2>1, <2>2, <1>7 DEF LoopInv, LegacyStates
<1> QED BY <1>4, <1>5, <1>6, <1>7, Ways


-----------------------------------------------------------------------------
(* The engines.                                                             *)

\* What the DMA engine can do on an edge without an abort.
LEMMA DmaCases ==
    ASSUME NEW go, NEW d, NEW ss, NEW c, NEW ar, NEW r, NEW aw, NEW w, NEW b,
           DmaClk(FALSE, go, d, ss, c, ar, r, aw, w, b)
    PROVE  \/ DmaIdleGo(FALSE, go, d) \/ DmaIdleStrip(FALSE, go, ss, c)
           \/ DmaIdleStay(FALSE, go, ss)
           \/ DmaAr(FALSE, ar) \/ DmaR(FALSE, r) \/ DmaRWait(r)
           \/ DmaAw(FALSE, aw) \/ DmaW(w) \/ DmaB(FALSE, b) \/ DmaBWait(b) \/ DmaDone(FALSE)
           \/ DmaStripAr(FALSE, ar) \/ DmaStripR(FALSE, r) \/ DmaStripRWait(r)
           \/ DmaStripDone(FALSE)
<1>1. /\ ~DmaIdleAbort(FALSE) /\ ~DmaArDrop(FALSE) /\ ~DmaAwDrop(FALSE)
      /\ ~DmaStripArDrop(FALSE)
  BY DEF DmaIdleAbort, DmaArDrop, DmaAwDrop, DmaStripArDrop
<1> QED BY <1>1, Zenon DEF DmaClk, DmaIdle, DmaRead, DmaWrite, DmaStrip

\* What an edge means for the engines and the slave.
LEMMA EngineFacts ==
    ASSUME NEW m, NEW ar, NEW r, NEW aw, NEW w, NEW b, Edge(m, ar, r, aw, w, b)
    PROVE  /\ Types /\ Wire /\ Types' /\ Wire' /\ TurnInv /\ TurnInv' /\ FirmwareInv
           /\ PrefetchInv /\ PulseInv /\ EngineInv /\ BankInv /\ FaultInv
           /\ PulseInv' /\ EngineInv' /\ PrefetchInv'
           /\ Answers(ar, r, aw, w, b) /\ Surroundings(r, b)
           /\ rleft' = (IF arvalid /\ ar THEN arbeats
                        ELSE IF r.valid THEN rleft - 1 ELSE rleft)
           /\ wleft' = (IF awvalid /\ aw THEN awbeats
                        ELSE IF wvalid /\ w THEN wleft - 1 ELSE wleft)
<1>1. /\ Core /\ Core' /\ Answers(ar, r, aw, w, b) /\ SlaveClk(ar, r, aw, w, b)
      /\ MatClk(FALSE, MatGoWire, mlmat, Ports) /\ ModeClk
      /\ DmaClk(FALSE, DmaStart, Wires, mlstrip.start, StripWires, ar, r, aw, w, b)
  BY DEF Edge
<1>2. soft_rst = FALSE
  BY <1>1 DEF Core, FirmwareInv, Types, TopTypes
<1>3. Surroundings(r, b)
  BY <1>1, <1>2, EngineStep DEF Core
<1>4. /\ rleft' = (IF arvalid /\ ar THEN arbeats
                   ELSE IF r.valid THEN rleft - 1 ELSE rleft)
      /\ wleft' = (IF awvalid /\ aw THEN awbeats
                   ELSE IF wvalid /\ w THEN wleft - 1 ELSE wleft)
  BY <1>1, SlaveEdge DEF Core, Types, Wire
<1> QED BY <1>1, <1>3, <1>4 DEF Core

-----------------------------------------------------------------------------
(* The strip buffer.                                                        *)

\* While a prefetch runs no other is commanded, and its registers stay.
LEMMA FillKept ==
    ASSUME NEW m, NEW ar, NEW r, NEW aw, NEW w, NEW b, Edge(m, ar, r, aw, w, b)
    PROVE  /\ dma_st \in StripChain \/ mlstrip.start => StripKept
           /\ dma_st' \in StripChain \/ strip_done' => ~mlstrip'.start /\ StripKept
<1>1. Kept /\ Issues
  BY SeqStep
<1>2. mlstrip'.start => ~mlstrip.start /\ dma_st \notin StripChain
  <2> SUFFICES ASSUME mlstrip'.start
               PROVE  ~mlstrip.start /\ dma_st \notin StripChain
    OBVIOUS
  <2>1. ml_st \in {"STRIP_PREFILL", "STRIP_BEGIN"}
    BY <1>1 DEF Issues
  <2>2. ~job.err
    BY <2>1, EngineFacts DEF TurnInv
  <2> QED BY <2>1, <2>2, EngineFacts DEF PulseInv, EngineInv, ComputePart
<1>3. dma_st' \in StripChain => dma_st \in StripChain \/ mlstrip.start
  BY EngineFacts DEF Surroundings
<1>4. strip_done' => dma_st \in StripChain
  <2>1. DmaClk(FALSE, DmaStart, Wires, mlstrip.start, StripWires, ar, r, aw, w, b)
    BY DEF Edge
  <2> QED BY <2>1, DmaCases
          DEF DmaIdleGo, DmaIdleStrip, DmaIdleStay, DmaAr, DmaR, DmaRWait, DmaAw, DmaW, DmaB,
              DmaBWait, DmaDone, DmaStripAr, DmaStripR, DmaStripRWait, DmaStripDone, StripChain
<1> QED BY <1>1, <1>2, <1>3, <1>4 DEF Kept

LEMMA NextCell ==
    ASSUME NEW s \in {4, 8, 16, 32}, NEW k \in Int, NEW q \in Int, s * k < s * q + s, k # q
    PROVE  s * k < s * q
<1>1. CASE s = 4
  BY <1>1
<1>2. CASE s = 8
  BY <1>2
<1>3. CASE s = 16
  BY <1>3
<1>4. CASE s = 32
  BY <1>4
<1> QED BY <1>1, <1>2, <1>3, <1>4

LEMMA PutIn ==
    ASSUME NEW K, NEW S, NEW g \in [K -> S], NEW k \in K, NEW v \in S
    PROVE  [g EXCEPT ![k] = v] \in [K -> S]
  OBVIOUS

\* The prefetch writes the beat that comes next.
LEMMA BeatWritten ==
    ASSUME FillInv, Wire, Types, NEW r, r.valid, ~r.err, dma_st = "STRIP_R", ~strip_error_seen,
           bank' = [bank EXCEPT ![strip_bank_l][strip_waddr \div BeatBytes] = raddr],
           StripKept
    PROVE  /\ \A k \in Cells : BeatBytes * k < strip_waddr + BeatBytes =>
                  bank'[mlstrip'.bank][k] = mlstrip'.addr + BeatBytes * k
           /\ bank' \in [{0, 1} -> [Cells -> Int]]
<1> DEFINE q == strip_waddr \div BeatBytes
<1>1. /\ BeatBytes \in {4, 8, 16, 32} /\ strip_waddr \in Nat /\ strip_waddr % BeatBytes = 0
      /\ mlstrip.addr \in Nat /\ mlstrip.bank \in {0, 1}
  BY StepValue DEF Wire, StripRoom, Types, DmaTypes, ChainTypes, MlTypes, MlOutTypes, StripT
<1>2. q \in Nat /\ strip_waddr = BeatBytes * q
  BY <1>1
<1>3. /\ raddr = mlstrip.addr + strip_waddr /\ Fill(strip_waddr)
      /\ strip_bank_l = mlstrip.bank /\ bank \in [{0, 1} -> [Cells -> Int]]
  BY DEF FillInv, StripChain
<1> HIDE DEF q
<1>4. bank' = [bank EXCEPT ![mlstrip.bank][q] = raddr]
  BY <1>3 DEF q
<1>5. ASSUME NEW k \in Cells
      PROVE  bank'[mlstrip.bank][k] = IF k = q THEN raddr ELSE bank[mlstrip.bank][k]
  BY <1>1, <1>3, <1>4
<1>6. Cells \subseteq Int
  BY DEF Cells
<1>7. ASSUME NEW k \in Cells, BeatBytes * k < strip_waddr + BeatBytes
      PROVE  bank'[mlstrip.bank][k] = mlstrip.addr + BeatBytes * k
  <2>1. CASE k = q
    BY <2>1, <1>2, <1>3, <1>5
  <2>2. CASE k # q
    <3>1. BeatBytes * k < strip_waddr
      <4>1. k \in Int /\ q \in Int /\ BeatBytes * k < BeatBytes * q + BeatBytes
        BY <1>2, <1>6, <1>7
      <4> QED BY <4>1, <2>2, <1>1, <1>2, NextCell
    <3> QED BY <3>1, <2>2, <1>3, <1>5 DEF Fill, Filled
  <2> QED BY <2>1, <2>2
<1>8. raddr \in Int
  BY <1>1, <1>3
<1>9. bank' \in [{0, 1} -> [Cells -> Int]]
  <2>1. [bank[mlstrip.bank] EXCEPT ![q] = raddr] \in [Cells -> Int]
    BY <1>1, <1>3, <1>8
  <2>2. bank' = [bank EXCEPT ![mlstrip.bank] = [bank[mlstrip.bank] EXCEPT ![q] = raddr]]
    BY <1>4
  <2> DEFINE S == [Cells -> Int]
             f == [bank[mlstrip.bank] EXCEPT ![q] = raddr]
             K == {0, 1}
  <2>3. f \in S /\ bank \in [K -> S] /\ mlstrip.bank \in K
    BY <2>1, <1>1, <1>3
  <2> HIDE DEF S, f, K
  <2>4. [bank EXCEPT ![mlstrip.bank] = f] \in [K -> S]
    BY <2>3, PutIn
  <2>5. bank' = [bank EXCEPT ![mlstrip.bank] = f]
    BY <2>2 DEF f
  <2>6. bank' \in [K -> S]
    BY <2>4, <2>5
  <2> QED BY <2>6 DEF S, K
<1> QED BY <1>7, <1>9 DEF StripKept

LEMMA FillStep ==
    ASSUME NEW m, NEW ar, NEW r, NEW aw, NEW w, NEW b, Edge(m, ar, r, aw, w, b), FillInv
    PROVE  FillInv'
<1>1. /\ Types /\ Wire /\ Answers(ar, r, aw, w, b) /\ Surroundings(r, b) /\ PulseInv
      /\ Types' /\ Wire'
      /\ rleft' = (IF arvalid /\ ar THEN arbeats
                   ELSE IF r.valid THEN rleft - 1 ELSE rleft)
  BY EngineFacts
<1>2. /\ dma_st \in StripChain \/ mlstrip.start => StripKept
      /\ dma_st' \in StripChain \/ strip_done' => ~mlstrip'.start /\ StripKept
  BY FillKept
<1>3. /\ DmaClk(FALSE, DmaStart, Wires, mlstrip.start, StripWires, ar, r, aw, w, b)
      /\ bank' = IF StripWe(r)
                 THEN [bank EXCEPT ![strip_bank_l][strip_waddr \div BeatBytes] = raddr]
                 ELSE bank
      /\ raddr' = IF arvalid /\ ar THEN araddr
                  ELSE IF r.valid /\ MRready THEN raddr + 4 * Step ELSE raddr
  BY DEF Edge, StripBufClk, SlaveClk, ArFire
<1>4. /\ strip_waddr \in Nat /\ strip_remaining \in Nat /\ strip_in_burst \in Nat
      /\ rleft \in Nat /\ BeatBytes \in {4, 8, 16, 32} /\ BeatBytes = 4 * WPB
      /\ mlstrip.addr \in Nat /\ mlstrip.bytes \in Nat /\ dma_st \in DmaStates
      /\ strip_done_ok \in BOOLEAN /\ strip_error_seen \in BOOLEAN /\ mlstrip.bank \in {0, 1}
      /\ narrow_l \in BOOLEAN /\ r.valid \in BOOLEAN /\ r.err \in BOOLEAN /\ r.last \in BOOLEAN
  BY <1>1, StepValue DEF Types, DmaTypes, ChainTypes, SlaveTypes, MlTypes, MlOutTypes, StripT,
                         FlagTypes, MoveTypes, Answers
<1>5. bank' \in [{0, 1} -> [Cells -> Int]]
  <2>1. CASE StripWe(r)
    BY <2>1, <1>1, <1>2, <1>3, BeatWritten DEF StripWe, StripChain
  <2>2. CASE ~StripWe(r)
    BY <2>2, <1>3 DEF FillInv
  <2> QED BY <2>1, <2>2
<1>6. dma_st' \notin XferStates => ~narrow_l'
  <2>1. CASE DmaIdleStrip(FALSE, DmaStart, mlstrip.start, StripWires)
             \/ DmaIdleStay(FALSE, DmaStart, mlstrip.start)
             \/ DmaStripAr(FALSE, ar) \/ DmaStripR(FALSE, r) \/ DmaStripRWait(r)
             \/ DmaStripDone(FALSE)
    <3>1. narrow_l' = narrow_l /\ dma_st \notin XferStates
      BY <2>1 DEF DmaIdleStrip, DmaIdleStay, DmaStripAr, DmaStripR, DmaStripRWait, DmaStripDone,
                  XferStates, xfer
    <3> QED BY <3>1 DEF FillInv
  <2>2. CASE DmaDone(FALSE)
    BY <2>2 DEF DmaDone
  <2>3. DmaIdleGo(FALSE, DmaStart, Wires) \/ DmaAr(FALSE, ar) \/ DmaR(FALSE, r) \/ DmaRWait(r)
          => dma_st' \in XferStates
    BY DEF DmaIdleGo, DmaAr, DmaR, DmaRWait, XferStates
  <2>4. DmaAw(FALSE, aw) \/ DmaW(w) \/ DmaB(FALSE, b) \/ DmaBWait(b) => dma_st' \in XferStates
    BY DEF DmaAw, DmaW, DmaB, DmaBWait, XferStates
  <2> QED BY <2>1, <2>2, <2>3, <2>4, <1>3, DmaCases
<1>7. dma_st' \in StripChain \/ strip_done' => ~mlstrip'.start
  BY <1>2
<1>8. dma_st' \in StripChain => strip_bank_l' = mlstrip'.bank
  BY <1>1, <1>2 DEF Surroundings, StripKept, FillInv
<1> DEFINE Rest == /\ dma_st' = "STRIP_AR" =>
                      /\ ~strip_done_ok'
                      /\ strip_waddr' + strip_remaining' = mlstrip'.bytes
                      /\ strip_cur_addr' = mlstrip'.addr + strip_waddr'
                      /\ arvalid' => araddr' = strip_cur_addr'
                      /\ Fill(strip_waddr)'
                   /\ dma_st' = "STRIP_R" =>
                      /\ ~strip_done_ok'
                      /\ ~strip_error_seen' =>
                          /\ strip_waddr' + BeatBytes * rleft'
                               + (strip_remaining' - strip_in_burst') = mlstrip'.bytes
                          /\ strip_cur_addr' = mlstrip'.addr + mlstrip'.bytes
                                                 - strip_remaining'
                          /\ raddr' = mlstrip'.addr + strip_waddr'
                          /\ Fill(strip_waddr)'
                   /\ dma_st' = "STRIP_DONE" /\ strip_done_ok' => Fill(mlstrip.bytes)'
                   /\ strip_done' => Fill(mlstrip.bytes)'
<1>9. ASSUME NEW n, StripKept, bank' = bank, Fill(n)
      PROVE  \A k \in Cells : BeatBytes * k < n =>
                 bank'[mlstrip'.bank][k] = mlstrip'.addr + BeatBytes * k
  BY <1>9 DEF StripKept, Fill, Filled
<1>10. CASE DmaIdleStrip(FALSE, DmaStart, mlstrip.start, StripWires)
  <2>1. /\ strip_waddr' = 0 /\ strip_done' = FALSE /\ strip_done_ok' = FALSE
        /\ arvalid' = arvalid /\ StripKept /\ dma_st = "IDLE"
        /\ \/ dma_st' = "IDLE"
           \/ /\ dma_st' = "STRIP_AR" /\ strip_cur_addr' = mlstrip.addr
              /\ strip_remaining' = mlstrip.bytes
    BY <1>10, <1>2 DEF DmaIdleStrip, StripWires, archan
  <2>2. ~arvalid
    BY <2>1, <1>1 DEF Wire, Handshake
  <2>3. \A k \in Cells : ~(BeatBytes * k < 0)
    BY <1>4 DEF Cells
  <2>4. Fill(strip_waddr)'
    <3>1. \A k \in Cells : ~(BeatBytes * k < strip_waddr')
      BY <2>1, <2>3
    <3>2. Cells' = Cells /\ BeatBytes' = BeatBytes
      BY DEF Cells, BeatBytes
    <3> QED BY <3>1, <3>2 DEF Fill, Filled
  <2>5. Rest
    BY <2>1, <2>2, <2>4, <1>4 DEF StripKept
  <2> QED BY <2>5, <1>5, <1>6, <1>7, <1>8 DEF FillInv
<1>11. CASE DmaStripAr(FALSE, ar)
  <2>1. /\ dma_st = "STRIP_AR" /\ araddr' = strip_cur_addr
        /\ strip_in_burst' = StripThisBytes /\ arvalid' = ~(arvalid /\ ar)
        /\ dma_st' = IF arvalid /\ ar THEN "STRIP_R" ELSE "STRIP_AR"
        /\ strip_done' = FALSE /\ strip_waddr' = strip_waddr
        /\ strip_cur_addr' = strip_cur_addr /\ strip_remaining' = strip_remaining
        /\ strip_done_ok' = strip_done_ok
    BY <1>11 DEF DmaStripAr, sends
  <2>2. StripKept /\ bank' = bank
    BY <2>1, <1>2, <1>3 DEF StripChain, StripWe
  <2>3. /\ ~strip_done_ok /\ strip_waddr + strip_remaining = mlstrip.bytes
        /\ strip_cur_addr = mlstrip.addr + strip_waddr
        /\ arvalid => araddr = strip_cur_addr
        /\ Fill(strip_waddr)
    BY <2>1 DEF FillInv
  <2>4. Fill(strip_waddr)'
    <3>1. Cells' = Cells /\ BeatBytes' = BeatBytes
      BY DEF Cells, BeatBytes
    <3> QED BY <3>1, <2>1, <2>2, <2>3 DEF Fill, Filled, StripKept
  <2>5. StripThisBytes = BeatBytes * StripThisBurst /\ StripThisBytes \in Nat
    BY <2>1, <1>1, StripFits DEF Wire, StripRoom, Types
  <2>6. arvalid /\ ar => BeatBytes * rleft' = StripThisBytes
    BY <2>1, <2>5, <1>1 DEF Wire, StripRoom
  <2>7. arvalid /\ ar => raddr' = mlstrip.addr + strip_waddr
    BY <1>3, <2>3
  <2>8. Rest
    <3>1. CASE arvalid /\ ar
      BY <3>1, <2>1, <2>2, <2>3, <2>4, <2>5, <2>6, <2>7, <1>4 DEF StripKept
    <3>2. CASE ~(arvalid /\ ar)
      BY <3>2, <2>1, <2>2, <2>3, <2>4, <1>4 DEF StripKept
    <3> QED BY <3>1, <3>2
  <2> QED BY <2>8, <1>5, <1>6, <1>7, <1>8 DEF FillInv
<1>12. CASE DmaStripR(FALSE, r)
  <2>1. /\ dma_st = "STRIP_R" /\ r.valid /\ arvalid' = arvalid /\ strip_done' = FALSE
        /\ strip_error_seen' = (strip_error_seen \/ r.err)
        /\ strip_waddr' = IF strip_error_seen' THEN strip_waddr ELSE strip_waddr + BeatBytes
        /\ strip_in_burst' = strip_in_burst
        /\ ~r.last => /\ dma_st' = "STRIP_R" /\ strip_remaining' = strip_remaining
                      /\ strip_cur_addr' = strip_cur_addr /\ strip_done_ok' = strip_done_ok
        /\ r.last => /\ strip_remaining' = strip_remaining - strip_in_burst
                     /\ strip_cur_addr' = strip_cur_addr + strip_in_burst
                     /\ strip_done_ok' = IF strip_error_seen' THEN FALSE
                                         ELSE (strip_remaining' = 0 \/ strip_done_ok)
                     /\ dma_st' = IF strip_error_seen' \/ strip_remaining' = 0
                                  THEN "STRIP_DONE" ELSE "STRIP_AR"
    BY <1>12 DEF DmaStripR, archan
  <2>2. StripKept /\ ~arvalid
    BY <2>1, <1>1, <1>2 DEF StripChain, Wire, Handshake
  <2>3. ~strip_done_ok
    BY <2>1 DEF FillInv
  <2>4. CASE strip_error_seen'
    <3>1. \/ dma_st' = "STRIP_R" /\ ~strip_done_ok'
          \/ dma_st' = "STRIP_DONE" /\ ~strip_done_ok'
      BY <2>1, <2>3, <2>4, <1>4
    <3>2. Rest
      BY <3>1, <2>1, <2>4
    <3> QED BY <3>2, <1>5, <1>6, <1>7, <1>8 DEF FillInv
  <2>5. CASE ~strip_error_seen'
    <3>1. ~strip_error_seen /\ ~r.err /\ StripWe(r)
      BY <2>1, <2>5 DEF StripWe
    <3>2. \A k \in Cells : BeatBytes * k < strip_waddr + BeatBytes =>
              bank'[mlstrip'.bank][k] = mlstrip'.addr + BeatBytes * k
      BY <3>1, <2>1, <2>2, <1>1, <1>3, BeatWritten
    <3>3. strip_waddr' = strip_waddr + BeatBytes
      BY <2>1, <2>5
    <3>4. /\ strip_waddr + BeatBytes * rleft + (strip_remaining - strip_in_burst)
               = mlstrip.bytes
          /\ strip_cur_addr = mlstrip.addr + mlstrip.bytes - strip_remaining
          /\ raddr = mlstrip.addr + strip_waddr
      BY <2>1, <3>1 DEF FillInv
    <3>5. raddr' = raddr + BeatBytes
      <4>1. ~narrow_l
        BY <2>1 DEF FillInv, XferStates
      <4> QED BY <4>1, <2>1, <2>2, <1>3, <1>4 DEF MRready, Step
    <3>6. rleft' = rleft - 1 /\ (r.last => rleft = 1)
      BY <2>1, <2>2, <1>1 DEF Answers
    <3>7. BeatBytes * rleft' = BeatBytes * rleft - BeatBytes
      BY ONLY <3>6, <1>4, LessOne
    <3>8. Fill(strip_waddr)'
      <4>1. BeatBytes' = BeatBytes /\ Cells' = Cells
        BY DEF BeatBytes, Cells
      <4> QED BY <4>1, <3>2, <3>3 DEF Fill, Filled
    <3>9. CASE ~r.last
      <4>1. /\ strip_waddr' + BeatBytes * rleft'
                 + (strip_remaining' - strip_in_burst') = mlstrip.bytes
            /\ strip_cur_addr' = mlstrip.addr + mlstrip.bytes - strip_remaining'
            /\ raddr' = mlstrip.addr + strip_waddr'
        <5> DEFINE n == BeatBytes * rleft
                   k == BeatBytes * rleft'
        <5>1. n \in Int /\ k = n - BeatBytes
          BY <3>7, <1>4
        <5>2. strip_waddr + n + (strip_remaining - strip_in_burst) = mlstrip.bytes
          BY <3>4
        <5> HIDE DEF n, k
        <5>3. strip_waddr' + k + (strip_remaining' - strip_in_burst') = mlstrip.bytes
          BY <5>1, <5>2, <3>3, <3>9, <2>1, <1>4
        <5> QED BY <5>3, <3>3, <3>4, <3>5, <3>9, <2>1, <1>4 DEF k
      <4>2. mlstrip'.bytes = mlstrip.bytes /\ mlstrip'.addr = mlstrip.addr
        BY <2>2 DEF StripKept
      <4>3. Rest
        BY <4>1, <4>2, <3>8, <3>9, <2>1, <2>3
      <4> QED BY <4>3, <1>5, <1>6, <1>7, <1>8 DEF FillInv
    <3>10. CASE r.last
      <4>1. /\ strip_waddr' + strip_remaining' = mlstrip.bytes
            /\ strip_cur_addr' = mlstrip.addr + strip_waddr'
        <5>1. BeatBytes * rleft = BeatBytes
          BY <3>6, <3>10, <1>4
        <5>2. strip_waddr + BeatBytes + (strip_remaining - strip_in_burst) = mlstrip.bytes
          BY <5>1, <3>4
        <5> QED BY <5>2, <3>3, <3>4, <3>10, <2>1, <1>4
      <4>2. mlstrip'.bytes = mlstrip.bytes /\ mlstrip'.addr = mlstrip.addr
        BY <2>2 DEF StripKept
      <4>3. CASE strip_remaining' = 0
        <5>1. strip_waddr' = mlstrip'.bytes
          BY <4>1, <4>2, <4>3, <3>3, <1>4
        <5>2. Fill(mlstrip.bytes)'
          <6>1. BeatBytes' = BeatBytes /\ Cells' = Cells
            BY DEF BeatBytes, Cells
          <6> QED BY <6>1, <5>1, <3>8, Zenon DEF Fill, Filled
        <5>3. dma_st' = "STRIP_DONE"
          BY <2>1, <4>3, <3>10
        <5> QED BY <5>2, <5>3, <2>1, <1>5, <1>6, <1>7, <1>8 DEF FillInv
      <4>4. CASE strip_remaining' # 0
        <5>1. dma_st' = "STRIP_AR" /\ ~strip_done_ok'
          BY <2>1, <2>3, <2>5, <4>4, <3>10
        <5> QED BY <5>1, <4>1, <4>2, <3>8, <2>1, <2>2, <1>5, <1>6, <1>7, <1>8 DEF FillInv
      <4> QED BY <4>3, <4>4
    <3> QED BY <3>9, <3>10
  <2> QED BY <2>4, <2>5
<1>13. CASE DmaStripRWait(r)
  <2>1. /\ dma_st = "STRIP_R" /\ ~r.valid /\ dma_st' = dma_st /\ strip_done' = FALSE
        /\ UNCHANGED <<strip_done_ok, strip_error_seen, strip_waddr, strip_remaining,
                       strip_in_burst, strip_cur_addr, arvalid>>
    BY <1>13 DEF DmaStripRWait, sxfer, sends, archan
  <2>2. StripKept /\ ~arvalid /\ bank' = bank
    BY <2>1, <1>1, <1>2, <1>3 DEF StripChain, Wire, Handshake, StripWe
  <2>3. rleft' = rleft /\ raddr' = raddr
    BY <2>1, <2>2, <1>1, <1>3
  <2>4. /\ ~strip_done_ok
        /\ ~strip_error_seen =>
            /\ strip_waddr + BeatBytes * rleft + (strip_remaining - strip_in_burst)
                 = mlstrip.bytes
            /\ strip_cur_addr = mlstrip.addr + mlstrip.bytes - strip_remaining
            /\ raddr = mlstrip.addr + strip_waddr
            /\ Fill(strip_waddr)
    BY <2>1 DEF FillInv
  <2>5. Fill(strip_waddr) => Fill(strip_waddr)'
    <3>1. BeatBytes' = BeatBytes /\ Cells' = Cells
      BY DEF BeatBytes, Cells
    <3> QED BY <3>1, <2>1, <2>2 DEF Fill, Filled, StripKept
  <2>6. Rest
    BY <2>1, <2>2, <2>3, <2>4, <2>5 DEF StripKept
  <2> QED BY <2>6, <1>5, <1>6, <1>7, <1>8 DEF FillInv
<1>14. CASE DmaStripDone(FALSE)
  <2>1. /\ dma_st = "STRIP_DONE" /\ dma_st' = "IDLE"
        /\ strip_done' = (strip_done_ok /\ ~FALSE)
    BY <1>14 DEF DmaStripDone
  <2>2. StripKept /\ bank' = bank
    BY <2>1, <1>2, <1>3 DEF StripChain, StripWe
  <2>3. strip_done' => Fill(mlstrip.bytes)'
    <3>1. BeatBytes' = BeatBytes /\ Cells' = Cells
      BY DEF BeatBytes, Cells
    <3>2. strip_done' => Fill(mlstrip.bytes)
      BY <2>1 DEF FillInv
    <3> QED BY <3>1, <3>2, <2>2 DEF Fill, Filled, StripKept
  <2> QED BY <2>1, <2>3, <1>5, <1>6, <1>7, <1>8 DEF FillInv
<1>15. ASSUME dma_st' \notin StripChain, strip_done' = FALSE PROVE FillInv'
  BY <1>15, <1>5, <1>6 DEF FillInv, StripChain
<1>16. \/ DmaIdleStrip(FALSE, DmaStart, mlstrip.start, StripWires)
       \/ DmaStripAr(FALSE, ar) \/ DmaStripR(FALSE, r) \/ DmaStripRWait(r)
       \/ DmaStripDone(FALSE)
       \/ dma_st' \notin StripChain /\ strip_done' = FALSE
  BY <1>3, DmaCases
     DEF DmaIdleGo, DmaIdleStay, DmaAr, DmaR, DmaRWait, DmaAw, DmaW, DmaB,
         DmaBWait, DmaDone, StripChain
<1> QED BY <1>10, <1>11, <1>12, <1>13, <1>14, <1>15, <1>16

\* What the prefetch leaves alone.
LEMMA BankKept ==
    ASSUME NEW m, NEW ar, NEW r, NEW aw, NEW w, NEW b, Edge(m, ar, r, aw, w, b), FillInv,
           job.busy, ml_st # "STRIP_DRAIN_ERR"
    PROVE  /\ pf.done \/ strip_done \/ ml_st \notin ComputePart \cup {"STRIP_PREFILL_W"}
                  => bank' = bank
           /\ ml_st \in StripPart => bank'[job.bank] = bank[job.bank]
<1>1. /\ PrefetchInv /\ EngineInv /\ BankInv /\ TurnInv /\ Wire /\ Types
  BY EngineFacts
<1>2. bank' = IF StripWe(r)
              THEN [bank EXCEPT ![strip_bank_l][strip_waddr \div BeatBytes] = raddr] ELSE bank
  BY DEF Edge, StripBufClk
<1>3. ASSUME StripWe(r)
      PROVE  /\ dma_st = "STRIP_R" /\ pf.pending /\ ~pf.done /\ ~strip_done
             /\ \/ ml_st \in ComputePart /\ strip_bank_l # job.bank
                \/ ml_st = "STRIP_PREFILL_W"
  <2>1. dma_st = "STRIP_R" /\ ~job.err
    BY <1>1, <1>3 DEF StripWe, TurnInv
  <2>3. ml_st \in ComputePart \cup {"STRIP_PREFILL_W"} /\ pf.pending
    BY <1>1, <2>1 DEF EngineInv, StripChain
  <2> QED BY <1>1, <2>1, <2>3 DEF PrefetchInv, BankInv, StripChain, Wire, Handshake
<1>4. pf.done \/ strip_done \/ ml_st \notin ComputePart \cup {"STRIP_PREFILL_W"} => bank' = bank
  BY <1>2, <1>3
<1>5. ml_st \in StripPart => bank'[job.bank] = bank[job.bank]
  <2>1. ml_st \in StripPart => ml_st # "STRIP_PREFILL_W"
    BY StateNames
  <2>2. job.bank \in {0, 1} /\ bank \in [{0, 1} -> [Cells -> Int]] /\ strip_bank_l \in {0, 1}
    BY <1>1 DEF FillInv, Types, DmaTypes, ChainTypes, MlTypes, MlRegTypes, JobType
  <2> QED BY <1>2, <1>3, <2>1, <2>2
<1> QED BY <1>4, <1>5

LEMMA GoesFrom == Goes => ml_st \notin {"IDLE", "STRIP_DRAIN_ERR"}
  BY DEF Goes, StripMove, LegacyMove, StayMove, Pass, MatWaits, LoadWaits, StoreWaits

LEMMA PrefetchedStep ==
    ASSUME NEW m, NEW ar, NEW r, NEW aw, NEW w, NEW b, Edge(m, ar, r, aw, w, b), KickInv,
           LoopInv, FillInv, PrefetchedInv
    PROVE  PrefetchedInv'
<1>1. /\ cfg \in CfgType /\ job \in JobType /\ TurnInv /\ PrefetchInv /\ Wire
      /\ mlstrip \in StripT
  BY EngineFacts DEF Types, MlTypes, MlRegTypes, MlOutTypes
<1>2. Kept
  BY SeqStep
<1>3. CASE EndMove \/ StartMove
  BY <1>3, StateNames DEF EndMove, StartMove, PrefetchedInv
<1>4. CASE Goes /\ job.busy /\ cfg' = cfg
  <2>0. ml_st \notin {"IDLE", "STRIP_DRAIN_ERR"}
    BY <1>4, GoesFrom
  <2>1. /\ pf.done \/ strip_done \/ ml_st \notin ComputePart \cup {"STRIP_PREFILL_W"}
               => bank' = bank
        /\ ml_st \in StripPart => bank'[job.bank] = bank[job.bank]
    BY <1>4, <2>0, BankKept
  <2>2. /\ job.strip \in Nat /\ job.bank \in {0, 1} /\ cfg.wbase \in Nat /\ cfg.sbytes \in Nat
        /\ job.sub \in Nat /\ cfg.nstrips \in Nat
    BY <1>1, MlAssumption DEF JobType, CfgType
  <2>3. BeatBytes' = BeatBytes /\ Cells' = Cells
    BY DEF BeatBytes, Cells
  <2>4. CASE ml_st \notin StripLive
    <3>1. ml_st' \notin StripPart /\ ml_st' # "STRIP_PREFILL_W" /\ ml_st' \notin FetchPart
      BY <1>4, <2>4, StateNames
         DEF Goes, StripMove, LegacyMove, StayMove, Pass, StripLive, StripStates, MatWaits,
             LoadWaits, StoreWaits
    <3> QED BY <3>1, StateNames DEF PrefetchedInv
  <2>5. CASE Pass("STRIP_PREFILL", "STRIP_PREFILL_W") /\ StripIssued(cfg.wbase, 0)
    <3>1. ml_st' = "STRIP_PREFILL_W" /\ mlstrip'.addr = cfg'.wbase
          /\ mlstrip'.bytes = cfg'.sbytes /\ mlstrip'.bank = 0
      BY <2>5, <1>4 DEF Pass, StripIssued
    <3> QED BY <3>1, StateNames DEF PrefetchedInv
  <2>6. CASE Pass("STRIP_PREFILL_W", "STRIP_BEGIN") /\ job' = job /\ strip_done
    <3>1. /\ job.strip = 0 /\ job.bank = 0
          /\ mlstrip.addr = cfg.wbase /\ mlstrip.bytes = cfg.sbytes /\ mlstrip.bank = 0
      BY <2>6 DEF LoopInv, PrefetchedInv, Pass, PrefillPart
    <3>2. bank' = bank /\ Fill(mlstrip.bytes)
      BY <2>1, <2>6 DEF FillInv
    <3>3. StripAt(job.strip)' = cfg.wbase
      BY <3>1, <2>2, <2>6, <1>4 DEF StripAt
    <3>4. Filled(job.bank, StripAt(job.strip), cfg.sbytes)'
      BY <3>1, <3>2, <3>3, <2>3, <2>6, <1>4 DEF Fill, Filled
    <3>5. ml_st' = "STRIP_BEGIN"
      BY <2>6 DEF Pass
    <3> QED BY <3>4, <3>5, StateNames DEF PrefetchedInv
  <2>7. ASSUME ml_st \in StripPart, job'.strip = job.strip, job'.bank = job.bank
        PROVE  Filled(job.bank, StripAt(job.strip), cfg.sbytes)'
    BY <2>1, <2>3, <2>7, <1>4 DEF PrefetchedInv, Filled, StripAt
  <2>8. CASE ml_st = "STRIP_BEGIN"
    <3>1. /\ ml_st' = "STRIP_TILE" /\ job' = [job EXCEPT !.sub = 0]
          /\ ~StripLast => StripIssued(StripAt(job.strip + 1), 1 - job.bank) /\ ~pf'.done
      BY <2>8, <1>4 DEF Goes, StripMove, LegacyMove, StayMove, Pass, MatWaits, LoadWaits,
                        StoreWaits
    <3>2. job'.strip = job.strip /\ job'.bank = job.bank
      BY <3>1, <1>1 DEF JobType
    <3>3. Filled(job.bank, StripAt(job.strip), cfg.sbytes)'
      BY <2>7, <2>8, <3>2, StateNames
    <3>4. StripLast' = StripLast /\ StripAt(job.strip + 1)' = StripAt(job.strip + 1)
      BY <3>2, <1>4 DEF StripLast, StripAt
    <3>5. ~StripLast => /\ mlstrip'.addr = StripAt(job.strip + 1) /\ mlstrip'.bytes = cfg.sbytes
                        /\ mlstrip'.bank = 1 - job.bank /\ ~pf'.done
      BY <3>1 DEF StripIssued
    <3> QED BY <3>1, <3>2, <3>3, <3>4, <3>5, <1>4, StateNames DEF PrefetchedInv
  <2>9. CASE Pass("STRIP_ADV", "STRIP_BEGIN")
             /\ job' = [job EXCEPT !.strip = job.strip + 1, !.bank = 1 - job.bank]
    <3>1. /\ ~StripLast /\ pf.done
          /\ mlstrip.addr = StripAt(job.strip + 1) /\ mlstrip.bytes = cfg.sbytes
          /\ mlstrip.bank = 1 - job.bank /\ Fill(cfg.sbytes)
      BY <2>9, StateNames DEF LoopInv, PrefetchedInv, Pass
    <3>2. job'.strip = job.strip + 1 /\ job'.bank = 1 - job.bank /\ bank' = bank
      BY <2>1, <2>9, <3>1, <1>1 DEF JobType
    <3>3. Filled(job.bank, StripAt(job.strip), cfg.sbytes)'
      BY <3>1, <3>2, <2>3, <1>4 DEF Fill, Filled, StripAt
    <3>4. ml_st' = "STRIP_BEGIN"
      BY <2>9 DEF Pass
    <3> QED BY <3>3, <3>4, StateNames DEF PrefetchedInv
  <2>10. ASSUME ml_st \in FetchPart, ml_st' \in FetchPart, ~mlstrip'.start,
                job'.strip = job.strip, job'.bank = job.bank,
                pf'.done => pf.done \/ strip_done, ml_st' = "STRIP_ADV" => pf'.done
         PROVE  PrefetchedInv'
    <3>1. Filled(job.bank, StripAt(job.strip), cfg.sbytes)'
      BY <2>7, <2>10, StateNames
    <3>2. StripKept
      BY <2>10, <1>2 DEF Kept
    <3>3. StripLast' = StripLast /\ StripAt(job.strip + 1)' = StripAt(job.strip + 1)
      BY <2>10, <1>4 DEF StripLast, StripAt
    <3>4. ~StripLast => /\ mlstrip.addr = StripAt(job.strip + 1) /\ mlstrip.bytes = cfg.sbytes
                        /\ mlstrip.bank = 1 - job.bank
                        /\ pf.done => Fill(cfg.sbytes)
      BY <2>10 DEF PrefetchedInv
    <3>5. pf'.done /\ ~StripLast => Fill(cfg.sbytes)'
      <4> SUFFICES ASSUME pf'.done, ~StripLast PROVE Fill(cfg.sbytes)'
        OBVIOUS
      <4>1. bank' = bank
        BY <2>1, <2>10
      <4>2. Fill(cfg.sbytes)
        BY <3>4, <2>10 DEF FillInv
      <4> QED BY <4>1, <4>2, <3>2, <2>3, <1>4 DEF Fill, Filled, StripKept
    <3>6. ml_st' # "STRIP_PREFILL_W"
      BY <2>10, StateNames
    <3> QED BY <3>1, <3>2, <3>3, <3>4, <3>5, <3>6, <2>10, <1>4 DEF PrefetchedInv, StripKept
  <2>11. CASE ml_st = "STRIP_PREFILL_W" /\ ml_st' = ml_st /\ ~mlstrip'.start
    <3>1. StripKept
      BY <2>11, <1>2 DEF Kept
    <3> QED BY <3>1, <2>11, <1>4, StateNames DEF PrefetchedInv, StripKept
  <2>12. CASE Pass("STRIP_RV", "DONE")
    BY <2>12, StateNames DEF Pass, PrefetchedInv
  <2>13. CASE ml_st \in FetchPart
    <3>1. \/ Pass("STRIP_RV", "DONE")
          \/ ml_st = "STRIP_ADV"
          \/ /\ ml_st' \in FetchPart /\ NoPrefetch
             /\ job'.strip = job.strip /\ job'.bank = job.bank
             /\ ml_st' = "STRIP_ADV" => pf'.done
      <4>1. CASE StripMove
        BY <4>1, <2>13, <1>1, StateNames DEF StripMove, Pass, JobType
      <4>2. CASE StayMove
        BY <4>2, <2>13 DEF StayMove, MatWaits, LoadWaits, StoreWaits
      <4>3. ~LegacyMove
        BY <2>13, StateNames DEF LegacyMove, Pass
      <4> QED BY <4>1, <4>2, <4>3, <1>4 DEF Goes
    <3>2. ml_st = "STRIP_ADV" =>
             Pass("STRIP_ADV", "STRIP_BEGIN")
             /\ job' = [job EXCEPT !.strip = job.strip + 1, !.bank = 1 - job.bank]
      BY <1>4 DEF Goes, StripMove, LegacyMove, StayMove, Pass, MatWaits, LoadWaits, StoreWaits
    <3> QED BY <3>1, <3>2, <2>9, <2>10, <2>12, <2>13 DEF NoPrefetch
  <2>14. CASE ml_st \in PrefillPart
    BY <2>14, <2>5, <2>6, <2>11, <1>4
       DEF Goes, StripMove, LegacyMove, StayMove, Pass, PrefillPart, MatWaits, LoadWaits,
           StoreWaits, NoPrefetch
  <2>15. ml_st \in StripLive => ml_st \in PrefillPart \cup FetchPart \cup {"STRIP_BEGIN"}
    BY StateNames DEF StripPart
  <2> QED BY <2>4, <2>8, <2>13, <2>14, <2>15
<1> QED BY <1>3, <1>4, Ways

-----------------------------------------------------------------------------
(* Who uses the engines.                                                    *)

LEMMA MatCases ==
    ASSUME NEW go, NEW c, NEW win, MatClk(FALSE, go, c, win)
    PROVE  \/ MatGo(go, c) \/ MatIdle(go)
           \/ MatRun(win) \/ MatLa(win) \/ MatLv(win)
           \/ MatPrm(win) \/ MatPrs \/ MatRsc(c) \/ MatFin
  BY DEF MatClk

\* What a start of the DMA engine means.
LEMMA Started ==
    ASSUME NEW m, NEW ar, NEW r, NEW aw, NEW w, NEW b, Edge(m, ar, r, aw, w, b),
           DmaIdleGo(FALSE, DmaStart, Wires)
    PROVE  /\ dma_st = "IDLE" /\ mode_write' = StartWrite
           /\ \/ mldma.go /\ ~StartWrite /\ MlActive /\ ml_st \in LoadWaits
              \/ mlwb.go /\ StartWrite /\ MlActive /\ ml_st \in StoreWaits
              \/ dma_go /\ ~StartWrite /\ ~MlActive
           /\ dma_st' \in {"AW", "AR", "DONE"}
           /\ dma_st' = "AW" => StartWrite
           /\ dma_st' = "AR" => ~StartWrite
<1>1. /\ Types /\ FirmwareInv /\ TurnInv /\ PulseInv /\ Wire
  BY EngineFacts
<1>2. /\ mldma.go => job.busy /\ ml_st \in LoadWaits
      /\ mlwb.go => job.busy /\ ml_st \in StoreWaits
  BY <1>1 DEF PulseInv, TurnInv, LoadWaits, StoreWaits
<1>3. /\ MlActive <=> job.busy
      /\ DmaStart <=> mldma.go \/ mlwb.go \/ dma_go
      /\ mldma.go => ~StartWrite
      /\ mlwb.go => StartWrite
      /\ ~wb_go
  BY <1>1, Owned DEF FirmwareInv
<1>4. dma_go => ~job.busy
  BY <1>1 DEF FirmwareInv, TurnInv
<1>5. dma_go => ~StartWrite
  BY <1>3, <1>4 DEF StartWrite, WriteGo
<1>6. dma_st = "IDLE" /\ DmaStart
  BY DEF DmaIdleGo
<1>7. ~busy
  BY <1>1, <1>6 DEF Wire, Handshake, XferStates
<1>8. mode_write' = StartWrite
  BY <1>6, <1>7 DEF Edge, ModeClk
<1>9. Wires.write = StartWrite
  BY DEF Wires
<1>10. /\ dma_st' \in {"AW", "AR", "DONE"}
       /\ dma_st' = "AW" => StartWrite
       /\ dma_st' = "AR" => ~StartWrite
  BY <1>9 DEF DmaIdleGo
<1> QED BY <1>2, <1>3, <1>4, <1>5, <1>6, <1>8, <1>10

LEMMA ModeStep ==
    ASSUME NEW m, NEW ar, NEW r, NEW aw, NEW w, NEW b, Edge(m, ar, r, aw, w, b), ModeInv
    PROVE  ModeInv'
<1>1. /\ Types /\ TurnInv /\ TurnInv' /\ EngineInv' /\ Surroundings(r, b) /\ FirmwareInv
      /\ fw \in FwStates
  BY EngineFacts DEF Types, TopTypes
<1>2. DmaClk(FALSE, DmaStart, Wires, mlstrip.start, StripWires, ar, r, aw, w, b)
  BY DEF Edge
<1>3. \/ /\ dma_st \in XferStates
         /\ dma_st' \in {"AR", "R"} => dma_st \in {"AR", "R"}
         /\ dma_st' \in {"AW", "W", "B"} => dma_st \in {"AW", "W", "B"}
      \/ DmaIdleGo(FALSE, DmaStart, Wires)
      \/ dma_st' \notin {"AR", "R", "AW", "W", "B"}
  <2>1. CASE DmaAr(FALSE, ar) \/ DmaR(FALSE, r) \/ DmaRWait(r)
    BY <2>1 DEF DmaAr, DmaR, DmaRWait, XferStates
  <2>2. CASE DmaAw(FALSE, aw) \/ DmaW(w) \/ DmaB(FALSE, b) \/ DmaBWait(b)
    BY <2>2 DEF DmaAw, DmaW, DmaB, DmaBWait, XferStates
  <2>3. CASE \/ DmaDone(FALSE) \/ DmaIdleStrip(FALSE, DmaStart, mlstrip.start, StripWires)
             \/ DmaIdleStay(FALSE, DmaStart, mlstrip.start) \/ DmaStripAr(FALSE, ar)
             \/ DmaStripR(FALSE, r) \/ DmaStripRWait(r) \/ DmaStripDone(FALSE)
    BY <2>3 DEF DmaDone, DmaIdleStrip, DmaIdleStay, DmaStripAr, DmaStripR, DmaStripRWait,
                DmaStripDone
  <2> QED BY <1>2, <2>1, <2>2, <2>3, DmaCases
<1>4. dma_st' \in {"AR", "R"} => ~mode_write'
  BY <1>1, <1>3, Started DEF ModeInv, Surroundings
<1>5. dma_st' \in {"AW", "W", "B"} =>
          mode_write' /\ fw \in {"poll", "jpoll", "mode_err", "cause", "halt"}
  <2>1. ml_st \in StoreWaits => fw \in {"poll", "jpoll"}
    BY <1>1 DEF TurnInv, StoreWaits
  <2>2. CASE DmaIdleGo(FALSE, DmaStart, Wires)
    <3> SUFFICES ASSUME dma_st' \in {"AW", "W", "B"}
                 PROVE  mode_write' /\ fw \in {"poll", "jpoll", "mode_err", "cause", "halt"}
      OBVIOUS
    <3>1. /\ mode_write' = StartWrite /\ StartWrite
          /\ mlwb.go /\ StartWrite /\ MlActive /\ ml_st \in StoreWaits
      BY <2>2, Started
    <3>2. mode_write'
      BY <3>1, Zenon
    <3> QED BY <2>1, <3>1, <3>2
  <2>3. CASE dma_st \in XferStates /\ dma_st \in {"AW", "W", "B"}
    <3>1. mode_write' = mode_write
      BY <1>1, <2>3 DEF Surroundings
    <3> QED BY <3>1, <2>3 DEF ModeInv
  <2> QED BY <1>3, <2>2, <2>3
<1>6. dma_st' \in {"AW", "W", "B"} => fw' \in {"poll", "jpoll", "mode_err", "cause", "halt"}
  <2> SUFFICES ASSUME dma_st' \in {"AW", "W", "B"}
               PROVE  fw' \in {"poll", "jpoll", "mode_err", "cause", "halt"}
    OBVIOUS
  <2>1. fw' \notin {"dret", "dwait", "dfault"}
    <3>1. m \in FwMoves /\ Firmware(m)
      BY DEF Edge
    <3>2. FwNext(fw) \notin {"dret", "dwait", "dfault"}
      BY <1>5 DEF FwNext
    <3>3. \/ ~ctrl.start /\ m = "reset" /\ fw' = "off"
          \/ FwRuns(m)
      BY <1>1, <3>1, FwMoved DEF Types, TopTypes
    <3> QED BY <1>5, <3>2, <3>3 DEF FwRuns
  <2>3. \/ fw' = "halt" \/ ml_st' \in StoreWaits \/ ml_st' = "STRIP_DRAIN_ERR" \/ job'.err
    BY <1>1, <1>5, <2>1 DEF EngineInv, XferStates
  <2> QED BY <1>1, <2>3 DEF TurnInv, StoreWaits
<1>7. t_we' => mat_st' \in {"RSC", "FIN"}
  <2>1. MatClk(FALSE, MatGoWire, mlmat, Ports)
    BY DEF Edge
  <2>2. CASE MatRsc(mlmat)
    BY <2>2 DEF MatRsc
  <2>3. ~MatRsc(mlmat) => t_we' = FALSE
    BY <2>1, MatCases DEF MatGo, MatIdle, MatRun, MatLa, MatLv, MatPrm, MatPrs, MatFin
  <2> QED BY <2>2, <2>3
<1>8. DOMAIN tcm' = 0 .. TcmWords - 1 /\ DOMAIN shared' = ResultBeats
  <2>1. TcmClk(r) /\ SlaveClk(ar, r, aw, w, b)
    BY DEF Edge
  <2>2. DOMAIN tcm' = DOMAIN tcm
    BY <2>1 DEF TcmClk
  <2>3. DOMAIN shared' = DOMAIN shared
    BY <2>1 DEF SlaveClk
  <2> QED BY <2>2, <2>3 DEF ModeInv
<1> QED BY <1>4, <1>5, <1>6, <1>7, <1>8 DEF ModeInv

-----------------------------------------------------------------------------
(* The loads of a legacy tile.                                              *)

\* The layout of a blob in the TCM.
LEMMA Layout ==
    ASSUME cfg \in CfgType
    PROVE  /\ WPB \in {1, 2, 4, 8} /\ Win(Reps) \in Nat /\ StoreLen \in Nat \ {0}
           /\ FoldPtr = 0 /\ ParamPtr = WPB /\ AOff = 2 * WPB + StoreLen
           /\ ActSlot = 2 * WPB + StoreLen + Win(Reps) /\ TightB = 2 * WPB
           /\ ActLen = Win(Reps) /\ MatOut = 2 * WPB
           /\ OpA = (IF cfg.stationary THEN ActSlot ELSE AOff)
           /\ OpB = (IF cfg.tight THEN TightB ELSE IF cfg.stationary THEN AOff ELSE ActSlot)
           /\ LoadLen = (IF cfg.tight THEN 2 * WPB + Win(Reps)
                         ELSE IF cfg.stationary THEN 2 * WPB + StoreLen + Win(Reps)
                         ELSE 2 * WPB + StoreLen + 2 * Win(Reps))
           /\ AOff + Win(2 * Reps) = 2 * WPB + StoreLen + 2 * Win(Reps)
<1>1. WPB \in {1, 2, 4, 8} /\ Reps \in Nat /\ StoreLen \in Nat \ {0}
  BY ParamsAssumption, MlAssumption
<1>2. /\ Win(Reps) = Reps * WPB /\ Win(Reps) \in Nat /\ Win(0) = 0 /\ Win(1) = WPB
      /\ Win(2) = 2 * WPB
  BY <1>1 DEF Win
<1>3. Win(2 * Reps) = 2 * Win(Reps)
  BY <1>1 DEF Win
<1> HIDE DEF Win
<1>4. /\ FoldPtr = 0 /\ ParamPtr = WPB /\ AOff = 2 * WPB + StoreLen /\ TightB = 2 * WPB
      /\ ActLen = Win(Reps) /\ MatOut = 2 * WPB
  BY <1>2 DEF FoldPtr, ParamPtr, AOff, TightB, ActLen, MatOut
<1>5. ActSlot = 2 * WPB + StoreLen + Win(Reps)
  BY <1>4 DEF ActSlot
<1>6. LoadLen = (IF cfg.tight THEN 2 * WPB + Win(Reps)
                 ELSE IF cfg.stationary THEN 2 * WPB + StoreLen + Win(Reps)
                 ELSE 2 * WPB + StoreLen + 2 * Win(Reps))
  BY <1>3, <1>4 DEF LoadLen
<1> QED BY <1>1, <1>2, <1>3, <1>4, <1>5, <1>6 DEF OpA, OpB

\* An edge on which nobody writes the TCM.
LEMMA TcmKept ==
    ASSUME NEW m, NEW ar, NEW r, NEW aw, NEW w, NEW b, Edge(m, ar, r, aw, w, b), ModeInv
    PROVE  dma_st # "R" \/ ~r.valid =>
               /\ mat_st \notin {"RSC", "FIN"} => tcm' = tcm
               /\ tcm' = IF t_we THEN [tcm EXCEPT ![t_waddr] = t_wdata] ELSE tcm
  BY DEF Edge, TcmClk, BufWe, ModeInv

\* Sources of the loads are addresses of words, and the loads end in the TCM.
LEMMA LoadPlace ==
    ASSUME NEW m, NEW ar, NEW r, NEW aw, NEW w, NEW b, Edge(m, ar, r, aw, w, b), KickInv,
           ModeInv, LoadInv, ml_st \in LoadWaits
    PROVE  /\ mldma.src \in Nat /\ mldma.dst \in Nat /\ mldma.len \in Nat
           /\ mldma.src % 4 = 0 /\ mldma.dst + mldma.len <= TcmWords
           /\ job.busy /\ MlActive /\ mat_st = "IDLE" /\ dma_st \in {"IDLE", "AR", "R", "DONE"}
<1>1. Types /\ TurnInv /\ EngineInv
  BY EngineFacts
<1>2. job.busy /\ MlActive /\ ~cfg.strip
  BY <1>1 DEF TurnInv, LoadWaits, LegacyStates, MlActive
<1>3. mldma.src \in Nat /\ mldma.dst \in Nat /\ mldma.len \in Nat /\ cfg \in CfgType
      /\ dma_st \in DmaStates /\ job.tile \in Nat
  BY <1>1 DEF Types, MlTypes, MlOutTypes, MlRegTypes, JobType, GoType, DmaTypes, FlagTypes
<1>4. kicked \in 1 .. Len(Jobs) /\ cfg = Jobs[kicked]
  BY <1>2, Programmed
<1>5. AOff + Win(2 * Reps) <= TcmWords
  BY <1>2, <1>4, JobsAssumption
<1>6. mldma.dst + mldma.len <= TcmWords
  <2>1. TcmWords \in Nat
    BY StripAssumption
  <2> QED BY <2>1, <1>3, <1>5, Layout DEF LoadInv, LoadWaits
<1>7. mldma.src % 4 = 0
  <2>1. /\ BlobBase % 4 = 0 /\ JobStride % 4 = 0 /\ ActSrc % 4 = 0
        /\ BlobBase \in Nat /\ JobStride \in Nat
    BY JobsAssumption, MlAssumption
  <2>2. (job.tile * JobStride) % 4 = 0 /\ job.tile * JobStride \in Nat
    <3>1. PICK q \in Nat : JobStride = 4 * q
      BY <2>1
    <3>2. job.tile * JobStride = 4 * (job.tile * q) /\ job.tile * q \in Nat
      BY <3>1, <1>3
    <3> QED BY <3>2
  <2>3. (BlobBase + job.tile * JobStride) % 4 = 0
    BY <2>1, <2>2
  <2> QED BY <2>1, <2>3 DEF LoadInv, LoadWaits
<1>8. mat_st = "IDLE"
  BY <1>1, <1>2 DEF EngineInv, TurnInv, LoadWaits, MatWaits
<1>9. dma_st \in {"IDLE", "AR", "R", "DONE"}
  <2>1. fw \in {"poll", "jpoll"} /\ ~job.err
    BY <1>1, <1>2 DEF TurnInv
  <2>2. dma_st \in XferStates => ~mode_write
    BY <1>1, <2>1 DEF EngineInv, LoadWaits, StoreWaits
  <2>3. dma_st \notin StripChain
    BY <1>1, <2>1 DEF EngineInv, LoadWaits, ComputePart
  <2> QED BY <1>3, <2>2, <2>3 DEF ModeInv, XferStates, StripChain, DmaStates
<1> QED BY <1>2, <1>3, <1>6, <1>7, <1>8, <1>9

\* A wait for a load: the engine works on it, or it has been done.
LEMMA LoadStay ==
    ASSUME NEW m, NEW ar, NEW r, NEW aw, NEW w, NEW b, Edge(m, ar, r, aw, w, b), KickInv,
           ModeInv, LoadInv, ml_st \in LoadWaits, LoadKept, ~mldma'.go
    PROVE  LoadPart'
<1>1. /\ Types /\ Wire /\ FirmwareInv /\ TurnInv /\ PulseInv /\ Answers(ar, r, aw, w, b)
      /\ rleft' = (IF arvalid /\ ar THEN arbeats
                   ELSE IF r.valid THEN rleft - 1 ELSE rleft)
  BY EngineFacts
<1>2. /\ mldma.src \in Nat /\ mldma.dst \in Nat /\ mldma.len \in Nat
      /\ mldma.src % 4 = 0 /\ mldma.dst + mldma.len <= TcmWords
      /\ job.busy /\ MlActive /\ mat_st = "IDLE" /\ dma_st \in {"IDLE", "AR", "R", "DONE"}
  BY LoadPlace
<1>3. LoadPart
  BY DEF LoadInv
<1>4. ~t_we
  BY <1>2 DEF ModeInv
<1>5. /\ DmaClk(FALSE, DmaStart, Wires, mlstrip.start, StripWires, ar, r, aw, w, b)
      /\ raddr' = IF arvalid /\ ar THEN araddr
                  ELSE IF r.valid /\ MRready THEN raddr + 4 * Step ELSE raddr
      /\ tcm' = IF dma_st = "R" /\ r.valid
                THEN [i \in DOMAIN tcm |-> IF i - buf_addr \in 0 .. Step - 1
                                           THEN <<"bus", raddr + 4 * (i - buf_addr)>>
                                           ELSE tcm[i]]
                ELSE tcm
  BY <1>4 DEF Edge, SlaveClk, ArFire, TcmClk, BufWe
<1>6. /\ cur_addr \in Nat /\ remaining \in Nat /\ narrow_l \in BOOLEAN /\ rleft \in Nat
      /\ beats_in_burst \in Nat /\ r.valid \in BOOLEAN /\ r.last \in BOOLEAN
      /\ arvalid \in BOOLEAN /\ DmaTypes
  BY <1>1 DEF Types, DmaTypes, FlagTypes, MoveTypes, SlaveTypes, Answers
<1>7. /\ ~dma_go /\ ~mlwb.go /\ ~mlstrip.start /\ (DmaStart <=> mldma.go)
  <2>1. ~dma_go
    BY <1>1, <1>2 DEF FirmwareInv, TurnInv
  <2>2. ~mlwb.go /\ ~mlstrip.start
    BY <1>1 DEF PulseInv, LoadWaits, StoreWaits
  <2> QED BY <2>1, <2>2, <1>1, Owned
<1>8. ~arvalid \/ dma_st = "AR"
  BY <1>1, <1>2 DEF Wire, Handshake
<1> DEFINE Got(n) == \A j \in 0 .. n - 1 :
                         tcm'[mldma.dst + j] = <<"bus", mldma.src + 4 * j>>
           off == buf_addr - mldma.dst
           noff == buf_addr' - mldma.dst
           Now == /\ dma_st' \in {"AR", "R"} =>
                      /\ ~narrow_l' /\ buf_addr' \in Nat /\ noff >= 0 /\ Got(noff)
                      /\ cur_addr' = mldma.src + 4 * (mldma.len - remaining')
                  /\ dma_st' = "AR" =>
                      /\ noff + remaining' = mldma.len
                      /\ arvalid' => araddr' = cur_addr' /\ arbeats' = ThisBurst'
                  /\ dma_st' = "R" =>
                      /\ rleft' > 0 /\ raddr' = mldma.src + 4 * noff
                      /\ noff + Step' * rleft' + (remaining' - WordsInBurst') = mldma.len
                  /\ dma_st' \in {"IDLE", "DONE"} /\ ~err' => Got(mldma.len)
<1>9. Now => LoadPart'
  BY DEF LoadKept, LoadPart, Load, Loaded, LoadOff
<1>10. \A n : tcm' = tcm /\ Load(n) => Got(n)
  BY DEF Load, Loaded
<1>11. CASE DmaIdleGo(FALSE, DmaStart, Wires)
  <2>1. mldma.go /\ ~StartWrite /\ dma_st = "IDLE"
    BY <1>2, <1>7, <1>11, Started
  <2>2. /\ Wires.src = mldma.src /\ Wires.word = mldma.dst /\ Wires.len = mldma.len
        /\ Wires.narrow = FALSE /\ Wires.write = StartWrite
    BY <2>1, <1>2 DEF Wires
  <2>3. (mldma.src \div 4) * 4 = mldma.src
    BY <1>2
  <2>4. /\ cur_addr' = mldma.src /\ remaining' = mldma.len /\ buf_addr' = mldma.dst
        /\ narrow_l' = FALSE /\ err' = (mldma.len # 0 /\ AlignErr(Wires))
        /\ dma_st' = IF mldma.len = 0 \/ AlignErr(Wires) THEN "DONE" ELSE "AR"
        /\ arvalid' = arvalid
    BY <1>11, <2>1, <2>2, <2>3 DEF DmaIdleGo, archan
  <2>5. Got(0)
    OBVIOUS
  <2>6. noff = 0
    BY <2>4, <1>2
  <2> HIDE DEF Got, noff
  <2>7. dma_st' = "DONE" /\ ~err' => Got(mldma.len)
    BY <2>4, <2>5
  <2> QED BY <2>1, <2>4, <2>5, <2>6, <2>7, <1>2, <1>8, <1>9
<1>12. CASE DmaIdleStay(FALSE, DmaStart, mlstrip.start)
  <2>1. dma_st = "IDLE" /\ dma_st' = "IDLE" /\ err' = err /\ ~mldma.go
    BY <1>7, <1>12 DEF DmaIdleStay, flags
  <2>2. tcm' = tcm
    BY <2>1, <1>5
  <2>3. ~err => Got(mldma.len)
    BY <2>1, <2>2, <1>3, <1>10 DEF LoadPart
  <2> QED BY <2>1, <2>3, <1>9
<1>13. CASE DmaDone(FALSE)
  <2>1. dma_st = "DONE" /\ dma_st' = "IDLE" /\ err' = err
    BY <1>13 DEF DmaDone
  <2>2. tcm' = tcm /\ ~mldma.go
    BY <2>1, <1>1, <1>5 DEF PulseInv
  <2>3. ~err => Got(mldma.len)
    BY <2>1, <2>2, <1>3, <1>10 DEF LoadPart
  <2> QED BY <2>1, <2>3, <1>9
<1>14. CASE DmaRWait(r)
  <2>1. /\ dma_st = "R" /\ dma_st' = "R" /\ ~r.valid /\ narrow_l' = narrow_l
        /\ buf_addr' = buf_addr /\ cur_addr' = cur_addr /\ remaining' = remaining
        /\ beats_in_burst' = beats_in_burst
    BY <1>14 DEF DmaRWait, xfer, beats
  <2>2. rleft' = rleft /\ raddr' = raddr /\ tcm' = tcm
    BY <2>1, <1>1, <1>5, <1>8
  <2>3. Step' = Step /\ WordsInBurst' = WordsInBurst
    BY <2>1 DEF Step, WordsInBurst
  <2>4. Got(off)
    BY <2>1, <2>2, <1>3, <1>10 DEF LoadPart, LoadOff
  <2> HIDE DEF Got
  <2> QED BY <2>1, <2>2, <2>3, <2>4, <1>3, <1>9 DEF LoadPart, LoadOff
<1>15. CASE DmaAr(FALSE, ar)
  <2>1. /\ dma_st = "AR" /\ araddr' = cur_addr /\ arbeats' = ThisBurst
        /\ beats_in_burst' = ThisBurst /\ arvalid' = ~(arvalid /\ ar)
        /\ dma_st' = IF arvalid /\ ar THEN "R" ELSE "AR"
        /\ buf_addr' = buf_addr /\ cur_addr' = cur_addr /\ remaining' = remaining
        /\ narrow_l' = narrow_l
    BY <1>15 DEF DmaAr, xfer
  <2>2. /\ ~narrow_l /\ buf_addr \in Nat /\ off >= 0 /\ Load(off)
        /\ cur_addr = mldma.src + 4 * (mldma.len - remaining)
        /\ off + remaining = mldma.len
        /\ arvalid => araddr = cur_addr /\ arbeats = ThisBurst
    BY <2>1, <1>3 DEF LoadPart, LoadOff
  <2>3. tcm' = tcm
    BY <2>1, <1>5
  <2>4. Got(off)
    BY <2>2, <2>3, <1>10
  <2>5. Step' = Step /\ ThisBurst' = ThisBurst /\ WordsInBurst' = ThisBurst * Step
    <3>1. Step' = Step
      BY <2>1 DEF Step
    <3>2. Dist4k' = Dist4k
      BY <2>1, <3>1 DEF Dist4k
    <3> QED BY <2>1, <3>1, <3>2 DEF ThisBurst, WordsInBurst
  <2>6. ThisBurst \in Nat \ {0} /\ Step \in {1, 2, 4, 8}
    <3>1. Aligned /\ remaining > 0
      BY <2>1, <1>1 DEF Wire, Bursts
    <3> QED BY <3>1, <1>6, BurstFits, StepValue
  <2> HIDE DEF Got
  <2>7. CASE arvalid /\ ar
    <3>1. rleft' = ThisBurst /\ raddr' = cur_addr /\ dma_st' = "R"
      BY <2>1, <2>2, <2>7, <1>1, <1>5
    <3>2. Step' * rleft' = WordsInBurst' /\ WordsInBurst' \in Int
      BY <2>5, <2>6, <3>1
    <3> HIDE DEF off
    <3>3. noff = off
      BY <2>1 DEF off
    <3>4. off \in Int
      BY <2>2, <1>2 DEF off
    <3> QED BY <2>1, <2>2, <2>4, <2>6, <3>1, <3>2, <3>3, <3>4, <1>2, <1>6, <1>9
  <2>8. CASE ~(arvalid /\ ar)
    BY <2>1, <2>2, <2>4, <2>5, <2>8, <1>2, <1>6, <1>9
  <2> QED BY <2>7, <2>8
<1>16. CASE DmaR(FALSE, r)
  <2>1. /\ dma_st = "R" /\ r.valid /\ buf_addr' = buf_addr + Step /\ narrow_l' = narrow_l
        /\ beats_in_burst' = beats_in_burst /\ arvalid' = arvalid
        /\ ~r.last => dma_st' = "R" /\ remaining' = remaining /\ cur_addr' = cur_addr
        /\ r.last => /\ remaining' = remaining - WordsInBurst
                     /\ cur_addr' = cur_addr + 4 * WordsInBurst
                     /\ dma_st' = IF remaining' = 0 THEN "DONE" ELSE "AR"
    BY <1>16, <1>6 DEF DmaR, beats, archan
  <2>2. /\ ~narrow_l /\ buf_addr \in Nat /\ off >= 0 /\ Load(off)
        /\ cur_addr = mldma.src + 4 * (mldma.len - remaining)
        /\ rleft > 0 /\ raddr = mldma.src + 4 * off
        /\ off + Step * rleft + (remaining - WordsInBurst) = mldma.len
    BY <2>1, <1>3 DEF LoadPart, LoadOff
  <2>3. /\ rleft' = rleft - 1 /\ raddr' = raddr + 4 * Step /\ ~arvalid
        /\ tcm' = [i \in DOMAIN tcm |-> IF i - buf_addr \in 0 .. Step - 1
                                        THEN <<"bus", raddr + 4 * (i - buf_addr)>>
                                        ELSE tcm[i]]
    BY <2>1, <1>1, <1>5, <1>8 DEF MRready
  <2>4. /\ Step \in {1, 2, 4, 8} /\ Step' = Step /\ WordsInBurst' = WordsInBurst
        /\ WordsInBurst \in Nat /\ WordsInBurst <= remaining
    <3>1. Sized
      BY <2>1, <1>1 DEF Wire, Bursts
    <3>2. Step \in {1, 2, 4, 8} /\ Step' = Step /\ WordsInBurst' = WordsInBurst
      BY <2>1, <1>6, StepValue DEF Step, WordsInBurst
    <3> QED BY <3>1, <3>2, <1>6 DEF Sized, WordsInBurst
  <2>5. off \in Nat /\ noff = off + Step /\ noff \in Nat
    BY <2>1, <2>2, <2>4, <1>2
  <2>6. /\ Step * rleft = Step * (rleft - 1) + Step /\ Step * (rleft - 1) \in Nat
        /\ rleft = 1 => Step * (rleft - 1) = 0
    BY <2>2, <2>4, <1>6
  <2> HIDE DEF off, noff
  <2>7. /\ noff + Step * (rleft - 1) + (remaining - WordsInBurst) = mldma.len
        /\ noff <= mldma.len
    <3> DEFINE x == Step * rleft
               y == Step * (rleft - 1)
    <3>1. off + x + (remaining - WordsInBurst) = mldma.len /\ x = y + Step /\ y \in Nat
      BY <2>2, <2>6
    <3> HIDE DEF x, y
    <3>2. noff + y + (remaining - WordsInBurst) = mldma.len /\ noff <= mldma.len
      BY <3>1, <2>4, <2>5, <1>2, <1>6
    <3> QED BY <3>2 DEF y
  <2>8. Got(noff)
    <3> SUFFICES ASSUME NEW j \in 0 .. noff - 1
                 PROVE  tcm'[mldma.dst + j] = <<"bus", mldma.src + 4 * j>>
      OBVIOUS
    <3>1. mldma.dst + j \in DOMAIN tcm
      <4>1. DOMAIN tcm = 0 .. TcmWords - 1 /\ TcmWords \in Nat
        BY StripAssumption DEF ModeInv
      <4> QED BY <4>1, <2>5, <2>7, <1>2
    <3> DEFINE i == mldma.dst + j
    <3>6. i \in DOMAIN tcm
      BY <3>1
    <3>8. i - buf_addr = j - off
      BY <2>2, <2>5, <1>2 DEF off
    <3> HIDE DEF i
    <3>5. i - buf_addr \in 0 .. Step - 1 <=> j >= off
      BY <2>2, <2>4, <2>5, <3>8
    <3>7. tcm'[i] = IF i - buf_addr \in 0 .. Step - 1
                    THEN <<"bus", raddr + 4 * (i - buf_addr)>> ELSE tcm[i]
      BY <2>3, <3>6
    <3>3. CASE j >= off
      <4>1. tcm'[i] = <<"bus", raddr + 4 * (i - buf_addr)>>
        BY <3>5, <3>7, <3>3
      <4>2. raddr + 4 * (i - buf_addr) = mldma.src + 4 * j
        BY <2>2, <2>5, <3>8, <1>2
      <4>3. tcm'[i] = <<"bus", mldma.src + 4 * j>>
        BY <4>1, <4>2
      <4> QED BY <4>3 DEF i
    <3>4. CASE ~(j >= off)
      <4>1. tcm'[i] = tcm[i]
        BY <3>5, <3>7, <3>4
      <4>2. j \in 0 .. off - 1
        BY <2>5, <3>4
      <4> QED BY <2>2, <4>1, <4>2 DEF Load, Loaded, i
    <3> QED BY <3>3, <3>4
  <2> HIDE DEF Got
  <2>9. CASE ~r.last
    <3>1. rleft' > 0
      BY <2>1, <2>2, <2>3, <2>9, <1>1, <1>6 DEF Answers
    <3>2. Step' * rleft' = Step * (rleft - 1)
      BY <2>3, <2>4
    <3>3. raddr' = mldma.src + 4 * noff
      BY <2>2, <2>3, <2>4, <2>5, <1>2
    <3>4. noff + Step' * rleft' + (remaining' - WordsInBurst') = mldma.len
      BY <2>1, <2>4, <2>7, <2>9, <3>2
    <3> QED BY <2>1, <2>2, <2>5, <2>8, <2>9, <3>1, <3>3, <3>4, <1>2, <1>9 DEF noff
  <2>10. CASE r.last
    <3>1. rleft = 1
      BY <2>10, <1>1 DEF Answers
    <3>2. noff + remaining' = mldma.len /\ remaining' \in Nat
      <4> DEFINE y == Step * (rleft - 1)
      <4>1. y = 0
        BY <2>6, <3>1
      <4>2. noff + y + (remaining - WordsInBurst) = mldma.len
        BY <2>7
      <4> HIDE DEF y
      <4> QED BY <4>1, <4>2, <2>1, <2>4, <2>5, <2>10, <1>6
    <3>3. cur_addr' = mldma.src + 4 * (mldma.len - remaining')
      BY <2>1, <2>2, <2>4, <2>10, <1>2, <1>6
    <3>4. dma_st' = "DONE" => noff = mldma.len
      BY <2>1, <2>5, <2>10, <3>2, <1>2
    <3>5. dma_st' \in {"AR", "DONE"} /\ ~arvalid' /\ ~narrow_l' /\ buf_addr' \in Nat /\ noff >= 0
      BY <2>1, <2>2, <2>3, <2>4, <2>5, <2>10
    <3>6. dma_st' = "DONE" => Got(mldma.len)
      BY <2>8, <3>4
    <3>7. Now
      BY <2>8, <3>2, <3>3, <3>5, <3>6
    <3> QED BY <3>7, <1>9
  <2> QED BY <2>9, <2>10, <1>6
<1>17. /\ ~DmaIdleStrip(FALSE, DmaStart, mlstrip.start, StripWires)
       /\ ~DmaAw(FALSE, aw) /\ ~DmaW(w) /\ ~DmaB(FALSE, b) /\ ~DmaBWait(b)
       /\ ~DmaStripAr(FALSE, ar) /\ ~DmaStripR(FALSE, r) /\ ~DmaStripRWait(r)
       /\ ~DmaStripDone(FALSE)
  BY <1>2, <1>7 DEF DmaIdleStrip, DmaAw, DmaW, DmaB, DmaBWait, DmaStripAr, DmaStripR,
                    DmaStripRWait, DmaStripDone
<1> QED BY <1>5, <1>11, <1>12, <1>13, <1>14, <1>15, <1>16, <1>17, DmaCases

LEMMA LoadStep ==
    ASSUME NEW m, NEW ar, NEW r, NEW aw, NEW w, NEW b, Edge(m, ar, r, aw, w, b), KickInv,
           ModeInv, LoadInv
    PROVE  LoadInv'
<1>1. CASE EndMove \/ StartMove
  BY <1>1 DEF EndMove, StartMove, LoadInv, LoadWaits
<1>2. CASE Goes
  <2>1. \/ ml_st' \notin LoadWaits
        \/ /\ Pass("LOADA", "LOADA_W") /\ LoadIssued(ActSrc, ActSlot, ActLen)
        \/ /\ Pass("LDW", "LDW_W") /\ job' = job
           /\ LoadIssued(BlobBase + job.tile * JobStride, FoldPtr, LoadLen)
        \/ ml_st \in LoadWaits /\ ml_st' = ml_st /\ job' = job /\ Mute
    BY <1>2 DEF Goes, StripMove, LegacyMove, StayMove, Pass, LoadWaits
  <2>2. job.busy /\ cfg' = cfg
    BY <1>2, Programmed DEF Goes
  <2>3. /\ ActSlot' = ActSlot /\ FoldPtr' = FoldPtr /\ ActLen' = ActLen /\ LoadLen' = LoadLen
    BY <2>2 DEF ActSlot, FoldPtr, ActLen, LoadLen, AOff, Win, TightB
  <2>4. mldma'.go => dma_st' \notin {"AR", "R"} /\ LoadPart'
    <3> SUFFICES ASSUME mldma'.go PROVE dma_st' \notin {"AR", "R"} /\ LoadPart'
      OBVIOUS
    <3>1. dma_st' = "IDLE"
      BY EngineFacts DEF PulseInv
    <3> QED BY <3>1 DEF LoadPart
  <2>5. CASE Pass("LOADA", "LOADA_W") /\ LoadIssued(ActSrc, ActSlot, ActLen)
    BY <2>3, <2>4, <2>5 DEF Pass, LoadIssued, LoadInv, LoadWaits
  <2>6. CASE /\ Pass("LDW", "LDW_W") /\ job' = job
             /\ LoadIssued(BlobBase + job.tile * JobStride, FoldPtr, LoadLen)
    BY <2>3, <2>4, <2>6 DEF Pass, LoadIssued, LoadInv, LoadWaits
  <2>7. CASE ml_st \in LoadWaits /\ ml_st' = ml_st /\ job' = job /\ Mute
    <3>1. ~mldma'.go /\ LoadKept
      BY <2>7, SeqStep DEF Kept, Mute
    <3>2. LoadPart'
      BY <2>7, <3>1, LoadStay
    <3> QED BY <2>3, <2>7, <3>1, <3>2 DEF LoadInv, LoadKept, LoadWaits
  <2>8. CASE ml_st' \notin LoadWaits
    BY <2>8 DEF LoadInv, LoadWaits
  <2> QED BY <2>1, <2>5, <2>6, <2>7, <2>8
<1> QED BY <1>1, <1>2, Ways

-----------------------------------------------------------------------------
(* The operands of a legacy tile.                                           *)

\* The read has room for the beat that comes next.
LEMMA BeatRoom ==
    ASSUME Types, Wire, LoadPart, dma_st = "R", mldma.len \in Nat
    PROVE  /\ Step \in {1, 2, 4, 8} /\ LoadOff + Step <= mldma.len /\ LoadOff \in Int
           /\ LoadOff >= 0
<1>1. /\ Step \in {1, 2, 4, 8} /\ rleft \in Nat /\ remaining \in Nat
      /\ beats_in_burst \in Nat /\ WordsInBurst <= remaining /\ mldma.dst \in Nat
  BY StepValue DEF Types, DmaTypes, MoveTypes, SlaveTypes, Wire, Bursts, Sized, MlTypes,
                   MlOutTypes, GoType
<1>2. /\ buf_addr \in Nat /\ rleft > 0 /\ LoadOff >= 0
      /\ LoadOff + Step * rleft + (remaining - WordsInBurst) = mldma.len
  BY DEF LoadPart
<1>3. LoadOff \in Int /\ WordsInBurst \in Nat
  BY <1>1, <1>2 DEF LoadOff, WordsInBurst
<1>4. Step * rleft >= Step /\ Step * rleft \in Nat
  BY <1>1, <1>2
<1> DEFINE x == Step * rleft
<1>5. LoadOff + x + (remaining - WordsInBurst) = mldma.len /\ x >= Step /\ x \in Nat
  BY <1>2, <1>4
<1> HIDE DEF x
<1>6. LoadOff + Step <= mldma.len
  BY <1>1, <1>3, <1>5
<1> QED BY <1>1, <1>2, <1>3, <1>6

\* What the write port of the engine writes.
LEMMA PortRange ==
    ASSUME NEW m, NEW ar, NEW r, NEW aw, NEW w, NEW b, Edge(m, ar, r, aw, w, b), ModeInv,
           AccInv, PipeInv, job.busy, ml_st # "STRIP_DRAIN_ERR", t_we
    PROVE  /\ ml_st \in RscWaits /\ mat_st \in {"RSC", "FIN"}
           /\ \E p \in 0 .. OutWords - 1 : OutReg(p)
<1>1. /\ EngineInv /\ TurnInv
  BY EngineFacts
<1>2. mat_st \in {"RSC", "FIN"}
  BY DEF ModeInv
<1>3. ml_st \in MatWaits
  BY <1>1, <1>2 DEF EngineInv, TurnInv
<1>4. ml_st \in RscWaits
  BY <1>2, <1>3 DEF AccInv, ClrPart, OpPart, MatWaits, RscWaits, ClrWaits, OpWaits
<1>5. OutWords \in Nat \ {0}
  BY MatAssumption DEF OutWords
<1>6. CASE mat_st = "FIN"
  BY <1>2, <1>4, <1>5, <1>6 DEF PipeInv, PipePart
<1>7. CASE mat_st = "RSC"
  <2>1. rq_v /\ el_pack \in 0 .. OutWords - 1 /\ el_pack > 0 /\ OutReg(el_pack - 1)
    BY <1>4, <1>5, <1>7 DEF PipeInv, PipePart
  <2> QED BY <2>1, <1>2, <1>4, <1>5
<1> QED BY <1>2, <1>6, <1>7

\* Which words of the TCM an edge may write.
LEMMA TcmFrame ==
    ASSUME NEW m, NEW ar, NEW r, NEW aw, NEW w, NEW b, Edge(m, ar, r, aw, w, b), KickInv,
           ModeInv, LoadInv, AccInv, PipeInv, job.busy, ml_st # "STRIP_DRAIN_ERR"
    PROVE  /\ ml_st \notin LoadWaits =>
                  tcm' = IF t_we THEN [tcm EXCEPT ![t_waddr] = t_wdata] ELSE tcm
           /\ tcm' = tcm \/ (ml_st \in LoadWaits /\ dma_st = "R") \/ (ml_st \in RscWaits /\ t_we)
           /\ \A i \in 0 .. TcmWords - 1 :
                  \/ tcm'[i] = tcm[i]
                  \/ ml_st \in LoadWaits /\ mldma.dst <= i /\ i < mldma.dst + mldma.len
                  \/ /\ ml_st \in RscWaits /\ t_we /\ i = t_waddr
                     /\ \E p \in 0 .. OutWords - 1 : t_waddr = OutPtr(cfg) + p
<1>1. /\ Types /\ Wire /\ TurnInv /\ EngineInv
  BY EngineFacts
<1>2. dma_st = "R" => ml_st \in LoadWaits
  <2>1. dma_st = "R" => ~mode_write
    BY DEF ModeInv
  <2> QED BY <2>1, <1>1 DEF EngineInv, TurnInv, XferStates
<1>3. dma_st # "R" => tcm' = IF t_we THEN [tcm EXCEPT ![t_waddr] = t_wdata] ELSE tcm
  BY DEF Edge, TcmClk, BufWe
<1>4. t_we => ml_st \in RscWaits
  BY PortRange
<1>5. ml_st \in LoadWaits => ml_st \notin RscWaits
  BY DEF LoadWaits, RscWaits
<1>6. tcm' = tcm \/ (ml_st \in LoadWaits /\ dma_st = "R") \/ (ml_st \in RscWaits /\ t_we)
  BY <1>2, <1>3, <1>4
<1>7. ASSUME NEW i \in 0 .. TcmWords - 1, dma_st = "R", tcm'[i] # tcm[i]
      PROVE  mldma.dst <= i /\ i < mldma.dst + mldma.len
  <2>1. LoadPart /\ mldma.dst \in Nat /\ mldma.len \in Nat
    BY <1>2, <1>7, LoadPlace DEF LoadInv
  <2>2. i \in DOMAIN tcm
    BY <1>7 DEF ModeInv
  <2>3. ~t_we
    BY <1>2, <1>4, <1>5, <1>7
  <2>4. i - buf_addr \in 0 .. Step - 1
    BY <1>7, <2>2, <2>3 DEF Edge, TcmClk, BufWe
  <2>5. /\ Step \in {1, 2, 4, 8} /\ LoadOff + Step <= mldma.len /\ LoadOff \in Int
        /\ LoadOff >= 0 /\ buf_addr \in Nat /\ LoadOff = buf_addr - mldma.dst
    BY <1>1, <1>7, <2>1, BeatRoom DEF LoadPart, LoadOff
  <2> HIDE DEF LoadOff
  <2>6. i \in Int
    BY <1>7
  <2> QED BY <2>1, <2>4, <2>5, <2>6
<1>8. ASSUME NEW i \in 0 .. TcmWords - 1, dma_st # "R", tcm'[i] # tcm[i]
      PROVE  /\ ml_st \in RscWaits /\ t_we /\ i = t_waddr
             /\ \E p \in 0 .. OutWords - 1 : t_waddr = OutPtr(cfg) + p
  <2>1. t_we /\ tcm' = [tcm EXCEPT ![t_waddr] = t_wdata]
    BY <1>3, <1>8
  <2>2. i = t_waddr
    BY <1>8, <2>1 DEF ModeInv
  <2>3. \E p \in 0 .. OutWords - 1 : t_waddr = OutPtr(cfg) + p
    BY <2>1, PortRange DEF OutReg
  <2> QED BY <1>4, <2>1, <2>2, <2>3
<1> QED BY <1>2, <1>3, <1>6, <1>7, <1>8

\* The places of a legacy tile in the TCM.
LEMMA Places ==
    ASSUME cfg \in CfgType, ~cfg.strip, kicked \in 1 .. Len(Jobs), cfg = Jobs[kicked]
    PROVE  /\ OutPtr(cfg) \in Nat /\ OutWords = StoreLen /\ OutWords \in Nat \ {0}
           /\ FoldPtr \in Nat /\ LoadLen \in Nat /\ FoldPtr + LoadLen <= TcmWords
           /\ ActSlot \in Nat /\ ActLen \in Nat /\ ActSlot + ActLen <= TcmWords
           /\ cfg.stationary =>
                  FoldPtr + LoadLen <= ActSlot /\ OutPtr(cfg) + OutWords <= ActSlot
           /\ OutPtr(cfg) + OutWords <= TcmWords /\ TcmWords \in Nat
<1>1. AOff + Win(2 * Reps) <= TcmWords /\ (cfg.tight => cfg.stationary)
  BY JobsAssumption
<1>2. OutWords = StoreLen /\ TcmWords \in Nat
  BY StripAssumption
<1>3. OutPtr(cfg) = IF cfg.tight THEN 2 * WPB + Win(Reps) ELSE 2 * WPB
  BY Layout DEF OutPtr
<1> DEFINE k == Win(Reps)
<1>4. /\ WPB \in {1, 2, 4, 8} /\ k \in Nat /\ StoreLen \in Nat \ {0}
      /\ FoldPtr = 0 /\ AOff + Win(2 * Reps) = 2 * WPB + StoreLen + 2 * k
      /\ ActSlot = 2 * WPB + StoreLen + k /\ ActLen = k
      /\ LoadLen = (IF cfg.tight THEN 2 * WPB + k
                    ELSE IF cfg.stationary THEN 2 * WPB + StoreLen + k
                    ELSE 2 * WPB + StoreLen + 2 * k)
      /\ OutPtr(cfg) = IF cfg.tight THEN 2 * WPB + k ELSE 2 * WPB
  BY <1>3, Layout
<1> HIDE DEF k
<1>5. 2 * WPB + StoreLen + 2 * k <= TcmWords
  BY <1>1, <1>4
<1>6. CASE cfg.tight
  BY <1>1, <1>2, <1>4, <1>5, <1>6
<1>7. CASE ~cfg.tight /\ cfg.stationary
  BY <1>2, <1>4, <1>5, <1>7
<1>8. CASE ~cfg.tight /\ ~cfg.stationary
  BY <1>2, <1>4, <1>5, <1>8
<1> QED BY <1>6, <1>7, <1>8

LEMMA OperStep ==
    ASSUME NEW m, NEW ar, NEW r, NEW aw, NEW w, NEW b, Edge(m, ar, r, aw, w, b), KickInv,
           ModeInv, LoadInv, OperInv, AccInv, PipeInv
    PROVE  OperInv'
<1>1. CASE EndMove \/ (StartMove /\ cfg' = cfg)
  BY <1>1 DEF EndMove, StartMove, OperInv, LegacyStates, Operand
<1>2. CASE Goes
  <2>1. /\ job.busy /\ cfg' = cfg /\ kicked \in 1 .. Len(Jobs) /\ cfg = Jobs[kicked]
        /\ ml_st # "STRIP_DRAIN_ERR"
    BY <1>2, Programmed, GoesFrom DEF Goes
  <2>2. /\ cfg \in CfgType /\ job \in JobType /\ TurnInv /\ PulseInv' /\ EngineInv
        /\ PulseInv
    BY EngineFacts DEF Types, MlTypes, MlRegTypes
  <2>3. CASE ml_st' \notin LegacyStates
    BY <2>3 DEF OperInv
  <2>4. CASE ml_st' \in LegacyStates
    <3>1. ml_st \in LegacyStates
      BY <1>2, <2>4 DEF Goes, StripMove, LegacyMove, StayMove, Pass, LegacyStates
    <3>2. ~cfg.strip
      BY <2>2, <3>1 DEF TurnInv
    <3>3. /\ ActSlot' = ActSlot /\ FoldPtr' = FoldPtr /\ ActLen' = ActLen
          /\ LoadLen' = LoadLen
      BY <2>1 DEF ActSlot, FoldPtr, ActLen, LoadLen, AOff, Win, TightB
    <3>4. ASSUME NEW q, NEW src, NEW n, Loaded(q, src, n),
                 \A i \in 0 .. n - 1 : tcm'[q + i] = tcm[q + i]
          PROVE  \A j \in 0 .. n - 1 : tcm'[q + j] = <<"bus", src + 4 * j>>
      BY <3>4 DEF Loaded
    <3>5. cfg.stationary /\ ml_st' \notin {"LOADA", "LOADA_W"} =>
              Loaded(ActSlot, ActSrc, ActLen)'
      <4> SUFFICES ASSUME cfg.stationary, ml_st' \notin {"LOADA", "LOADA_W"}
                   PROVE  Loaded(ActSlot, ActSrc, ActLen)'
        OBVIOUS
      <4>1. CASE ml_st \in {"LOADA", "LOADA_W"}
        <5>1. ml_st = "LOADA_W" /\ LoadRight
          BY <1>2, <4>1 DEF Goes, StripMove, LegacyMove, StayMove, Pass
        <5>2. Loaded(ActSlot, ActSrc, ActLen)
          BY <5>1 DEF LoadInv, LoadPart, LoadRight, LoadWaits, Load
        <5>3. tcm' = tcm
          BY <2>1, <5>1, TcmFrame DEF LoadRight, LoadWaits, RscWaits
        <5> QED BY <3>3, <5>2, <5>3 DEF Loaded
      <4>2. CASE ml_st \notin {"LOADA", "LOADA_W"}
        <5>1. Loaded(ActSlot, ActSrc, ActLen)
          BY <3>1, <4>2 DEF OperInv
        <5>2. ASSUME NEW i \in 0 .. ActLen - 1
              PROVE  tcm'[ActSlot + i] = tcm[ActSlot + i]
          <6>1. /\ OutPtr(cfg) \in Nat /\ OutWords \in Nat
                /\ FoldPtr \in Nat /\ LoadLen \in Nat
                /\ ActSlot \in Nat /\ ActLen \in Nat /\ ActSlot + ActLen <= TcmWords
                /\ FoldPtr + LoadLen <= ActSlot /\ OutPtr(cfg) + OutWords <= ActSlot
                /\ TcmWords \in Nat
            BY <2>1, <2>2, <3>2, Places
          <6> DEFINE k == ActSlot + i
          <6>2. k \in 0 .. TcmWords - 1 /\ k >= ActSlot /\ k \in Nat
            BY <6>1
          <6> HIDE DEF k
          <6>3. ml_st \in LoadWaits => mldma.dst = FoldPtr /\ mldma.len = LoadLen
            BY <4>2 DEF LoadInv, LoadWaits
          <6>4. ml_st \in LoadWaits => ~(k < mldma.dst + mldma.len)
            BY <6>1, <6>2, <6>3
          <6>5. \A p \in 0 .. OutWords - 1 : k # OutPtr(cfg) + p
            BY <6>1, <6>2
          <6>6. tcm'[k] = tcm[k]
            BY <2>1, <6>2, <6>4, <6>5, TcmFrame
          <6> QED BY <6>6 DEF k
        <5> QED BY <3>3, <3>4, <5>1, <5>2 DEF Loaded
      <4> QED BY <4>1, <4>2
    <3>6. ml_st' \in Operand \/ (ml_st' = "RSC_W" /\ (mlmat'.go \/ mat_st' = "PRM")) =>
              Loaded(FoldPtr, BlobBase + job.tile * JobStride, LoadLen)'
      <4> SUFFICES ASSUME \/ ml_st' \in Operand
                          \/ ml_st' = "RSC_W" /\ (mlmat'.go \/ mat_st' = "PRM")
                   PROVE  Loaded(FoldPtr, BlobBase + job.tile * JobStride, LoadLen)'
        OBVIOUS
      <4>1. job' = job
        BY <1>2 DEF Goes, StripMove, LegacyMove, StayMove, Pass, Operand
      <4>2. CASE ml_st = "LDW_W"
        <5>1. LoadRight
          BY <1>2, <4>2 DEF Goes, StripMove, LegacyMove, StayMove, Pass, Operand
        <5>2. Loaded(FoldPtr, BlobBase + job.tile * JobStride, LoadLen)
          BY <4>2, <5>1 DEF LoadInv, LoadPart, LoadRight, LoadWaits, Load
        <5>3. tcm' = tcm
          BY <2>1, <4>2, <5>1, TcmFrame DEF LoadRight, LoadWaits, RscWaits
        <5> QED BY <3>3, <4>1, <5>2, <5>3 DEF Loaded
      <4>3. CASE ml_st # "LDW_W"
        <5>1. ml_st \in Operand \/ (ml_st = "RSC_W" /\ ml_st' = "RSC_W" /\ Mute)
          BY <1>2, <4>3 DEF Goes, StripMove, LegacyMove, StayMove, Pass, Operand
        <5>2. ml_st \in Operand \/ (ml_st = "RSC_W" /\ (mlmat.go \/ mat_st = "PRM"))
          <6>1. mat_st' = "PRM" => mat_st = "PRM" \/ mlmat.go
            <7>1. MatClk(FALSE, MatGoWire, mlmat, Ports)
              BY DEF Edge
            <7>2. MatGoWire => mlmat.go
              BY EngineFacts, Owned
            <7> QED BY <7>1, <7>2, MatCases
                    DEF MatGo, MatIdle, MatRun, MatLa, MatLv, MatPrm, MatPrs, MatRsc, MatFin
          <6> QED BY <5>1, <6>1 DEF Mute, Operand
        <5>3. Loaded(FoldPtr, BlobBase + job.tile * JobStride, LoadLen)
          BY <3>1, <5>2 DEF OperInv
        <5>4. ~t_we \/ ml_st \notin RscWaits
          BY <5>2, <2>2 DEF PulseInv, ModeInv, RscWaits, Operand
        <5>5. tcm' = tcm
          BY <2>1, <5>2, <5>4, TcmFrame DEF LoadWaits, Operand
        <5> QED BY <3>3, <4>1, <5>3, <5>5 DEF Loaded
      <4> QED BY <4>2, <4>3
    <3> QED BY <3>5, <3>6, <2>1 DEF OperInv
  <2> QED BY <2>3, <2>4
<1> QED BY <1>1, <1>2, Ways

-----------------------------------------------------------------------------
(* The accumulators.                                                        *)

LEMMA DivMod ==
    ASSUME NEW a \in Nat, NEW n \in Nat \ {0}, NEW i \in 0 .. n - 1
    PROVE  (a * n + i) \div n = a /\ (a * n + i) % n = i
<1> DEFINE x == a * n + i
           q == x \div n
           z == x % n
<1>1. x \in Nat
  OBVIOUS
<1> HIDE DEF x
<1>2. q \in Nat /\ z \in 0 .. n - 1 /\ x = n * q + z
  BY <1>1
<1> HIDE DEF q, z
<1>3. x = n * a + i
  BY DEF x
<1>4. q < a => n * q + n <= n * a
  <2> SUFFICES ASSUME q < a PROVE n * q + n <= n * a
    OBVIOUS
  <2>1. PICK d \in Nat : a = q + 1 + d
    <3>1. a - q - 1 \in Nat /\ a = q + 1 + (a - q - 1)
      BY <1>2
    <3> QED BY <3>1
  <2>2. n * a = n * q + n + n * d /\ n * d \in Nat
    BY <2>1, <1>2
  <2>3. n * q \in Nat
    BY <1>2
  <2> QED BY <2>2, <2>3
<1>5. a < q => n * a + n <= n * q
  <2> SUFFICES ASSUME a < q PROVE n * a + n <= n * q
    OBVIOUS
  <2>1. PICK d \in Nat : q = a + 1 + d
    <3>1. q - a - 1 \in Nat /\ q = a + 1 + (q - a - 1)
      BY <1>2
    <3> QED BY <3>1
  <2>2. n * q = n * a + n + n * d /\ n * d \in Nat
    BY <2>1, <1>2
  <2>3. n * a \in Nat
    BY <1>2
  <2> QED BY <2>2, <2>3
<1>6. q = a
  <2> DEFINE s == n * a
             t == n * q
  <2>1. s \in Nat /\ t \in Nat /\ s + i = t + z
    BY <1>2, <1>3
  <2>2. (q < a => t + n <= s) /\ (a < q => s + n <= t)
    BY <1>4, <1>5
  <2> HIDE DEF s, t
  <2> QED BY <2>1, <2>2, <1>2
<1>7. z = i
  <2> DEFINE s == n * a
  <2>1. s \in Nat /\ s + i = s + z
    BY <1>2, <1>3, <1>6
  <2> HIDE DEF s
  <2> QED BY <2>1, <1>2
<1> QED BY <1>6, <1>7 DEF q, z, x

\* A row grows by a pair of windows.
LEMMA RowGrows ==
    ASSUME NEW c, NEW g, NEW n \in Nat
    PROVE  /\ Append(RowUpTo(c, g, n), <<Act(c, g, n), Weights(c, g, n)>>)
                 = RowUpTo(c, g, n + 1)
           /\ RowUpTo(c, g, 0) = << <<Fold(c, g)>> >>
<1> DEFINE R(k) == IF k = 1 THEN <<Fold(c, g)>> ELSE <<Act(c, g, k - 2), Weights(c, g, k - 2)>>
           e == <<Act(c, g, n), Weights(c, g, n)>>
           S == {R(k) : k \in 1 .. n + 2}
           s == RowUpTo(c, g, n)
<1>1. R(n + 2) = e
  <2>1. n + 2 # 1 /\ n + 2 - 2 = n
    OBVIOUS
  <2> QED BY <2>1
<1>2. R(1) = <<Fold(c, g)>>
  OBVIOUS
<1>3. \A k \in Nat : RowUpTo(c, g, k) = [i \in 1 .. k + 1 |-> R(i)]
  BY DEF RowUpTo
<1> HIDE DEF R, e
<1>4. s \in Seq(S) /\ Len(s) = n + 1 /\ e \in S
  <2>1. s = [i \in 1 .. n + 1 |-> R(i)]
    BY <1>3
  <2>2. e \in S
    BY <1>1
  <2>3. s \in [1 .. n + 1 -> S]
    BY <2>1
  <2> QED BY <2>1, <2>2, <2>3
<1>5. /\ Append(s, e) \in Seq(S) /\ Len(Append(s, e)) = n + 2
      /\ \A i \in 1 .. n + 1 : Append(s, e)[i] = s[i]
      /\ Append(s, e)[n + 2] = e
  BY <1>4, AppendProperties
<1>6. Append(s, e) = RowUpTo(c, g, n + 1)
  <2>1. RowUpTo(c, g, n + 1) = [i \in 1 .. n + 2 |-> R(i)]
    <3>1. n + 1 + 1 = n + 2 /\ n + 1 \in Nat
      OBVIOUS
    <3> QED BY <3>1, <1>3
  <2>2. s = [i \in 1 .. n + 1 |-> R(i)]
    BY <1>3
  <2>3. ASSUME NEW i \in 1 .. n + 2 PROVE Append(s, e)[i] = R(i)
    <3>1. CASE i = n + 2
      BY <3>1, <1>1, <1>5
    <3>2. CASE i # n + 2
      <4>1. i \in 1 .. n + 1
        BY <3>2
      <4> QED BY <4>1, <1>5, <2>2
    <3> QED BY <3>1, <3>2
  <2> DEFINE t == Append(s, e)
  <2>4. t \in Seq(S) /\ Len(t) = n + 2
    BY <1>5
  <2> HIDE DEF t, s, S
  <2>5. t = [i \in 1 .. n + 2 |-> t[i]]
    BY <2>4
  <2>6. \A i \in 1 .. n + 2 : t[i] = R(i)
    BY <2>3 DEF t
  <2>7. t = [i \in 1 .. n + 2 |-> R(i)]
    BY <2>5, <2>6
  <2> QED BY <2>1, <2>7 DEF t
<1>7. RowUpTo(c, g, 0) = << <<Fold(c, g)>> >>
  <2>1. RowUpTo(c, g, 0) = [i \in 1 .. 1 |-> R(i)]
    <3>1. 0 + 1 = 1 /\ 0 \in Nat
      OBVIOUS
    <3> QED BY <3>1, <1>3
  <2>2. RowUpTo(c, g, 0) = [i \in 1 .. 1 |-> <<Fold(c, g)>>]
    BY <2>1, <1>2
  <2> QED BY <2>2
<1> QED BY <1>6, <1>7 DEF e

LEMMA TimesLe ==
    ASSUME NEW x \in Nat, NEW y \in Nat, NEW n \in Nat, x <= y
    PROVE  x * n <= y * n /\ x * n \in Nat /\ y * n \in Nat
<1>1. PICK d \in Nat : y = x + d
  <2>1. y - x \in Nat /\ y = x + (y - x)
    OBVIOUS
  <2> QED BY <2>1
<1>2. y * n = x * n + d * n /\ d * n \in Nat /\ x * n \in Nat
  BY <1>1
<1> QED BY <1>2

LEMMA SumsLe ==
    ASSUME NEW x1 \in Nat, NEW x2 \in Nat, NEW x3 \in Nat, NEW x4 \in Nat, NEW x5 \in Nat,
           NEW x6 \in Nat, NEW y \in Nat, NEW n \in Nat
    PROVE  /\ x1 <= x2 /\ x3 <= x4 /\ x5 + x2 + x4 <= n => x5 + x1 + x3 <= n
           /\ x6 + x2 + x4 <= n /\ x5 + y <= x6 /\ x1 + x3 <= y => x5 + x1 + x3 <= n
  OBVIOUS

\* Where window i of sub-tile u of chunk h is in its strip.
CellAt(h, u, i) == h * ChunkBytes + u * TileBytes + i * BeatBytes

\* The weights of a window lie in the strip, and where the blob has them.
LEMMA StripCell ==
    ASSUME cfg \in CfgType, cfg.strip, ~StripKickIllegal, kicked \in 1 .. Len(Jobs),
           cfg = Jobs[kicked],
           NEW h \in Nat, NEW u \in 0 .. SubTiles - 1, NEW i \in 0 .. Reps - 1,
           h < cfg.kchunks, cfg.nstrips = 1 => u < cfg.ntail,
           h + 1 >= cfg.kchunks => i < cfg.ktail,
           NEW a, a = CellAt(h, u, i)
    PROVE  /\ a \div BeatBytes \in Cells /\ BeatBytes * (a \div BeatBytes) = a /\ a \in Nat
           /\ a < cfg.sbytes
<1>1. /\ cfg.kchunks \in Nat /\ cfg.ktail \in Nat /\ cfg.ntail \in Nat /\ cfg.nstrips \in Nat
      /\ cfg.sbytes \in Nat
  BY DEF CfgType
<1>2. /\ BeatBytes \in {4, 8, 16, 32} /\ Reps \in Nat \ {0} /\ SubTiles \in Nat \ {0}
      /\ StripMax \in Nat
  <2>1. Reps \in Nat \ {0} /\ SubTiles \in Nat \ {0} /\ StripMax \in Nat
    BY MlAssumption, ParamsAssumption
  <2>2. WPB \in {1, 2, 4, 8} /\ BeatBytes = 4 * WPB
    BY StepValue
  <2>3. BeatBytes \in {4, 8, 16, 32}
    BY <2>2
  <2> QED BY <2>1, <2>3
<1>3. /\ cfg.kchunks > 0 /\ cfg.ktail > 0 /\ cfg.ntail > 0 /\ cfg.sbytes <= StripMax
      /\ cfg.ntail <= SubTiles
  <2>1. /\ cfg.kchunks # 0 /\ cfg.ktail # 0 /\ cfg.ntail # 0 /\ ~(cfg.sbytes > StripMax)
        /\ ~(cfg.ntail > SubTiles)
    BY Zenon DEF StripKickIllegal
  <2>2. cfg.kchunks > 0 /\ cfg.ktail > 0 /\ cfg.ntail > 0
    BY <2>1, <1>1
  <2>3. cfg.sbytes <= StripMax
    BY <2>1, <1>1, <1>2
  <2>4. cfg.ntail <= SubTiles
    BY <2>1, <1>1, <1>2
  <2> QED BY <2>2, <2>3, <2>4
<1> DEFINE top == IF cfg.nstrips = 1 THEN cfg.ntail ELSE SubTiles
<1>4. (cfg.kchunks - 1) * ChunkBytes + (top - 1) * TileBytes + cfg.ktail * BeatBytes <= cfg.sbytes
  BY JobsAssumption
<1>5. top - 1 \in Nat /\ u \in Nat /\ u <= top - 1 /\ i \in Nat
  <2>1. u \in Nat /\ i \in Nat /\ u <= SubTiles - 1
    BY <1>2
  <2>2. CASE cfg.nstrips = 1
    <3>1. top = cfg.ntail /\ u < cfg.ntail
      BY <2>2
    <3> QED BY <2>1, <3>1, <1>1, <1>3
  <2>3. CASE cfg.nstrips # 1
    <3>1. top = SubTiles
      BY <2>3
    <3> QED BY <2>1, <3>1, <1>2
  <2> QED BY <2>2, <2>3
<1> DEFINE d == top - 1
<1>6. d \in Nat /\ u <= d
  BY <1>5
<1>17. TileBytes = Reps * BeatBytes /\ ChunkBytes = SubTiles * TileBytes
  BY <1>2 DEF TileBytes, ChunkBytes
<1>7. BeatBytes \in Nat \ {0} /\ TileBytes \in Nat /\ ChunkBytes \in Nat
  <2>1. TileBytes \in Nat
    BY <1>2, <1>17
  <2> QED BY <2>1, <1>2, <1>17
<1>8. (cfg.kchunks - 1) * ChunkBytes + d * TileBytes + cfg.ktail * BeatBytes <= cfg.sbytes
  BY <1>4
<1> HIDE DEF top, d
<1>9. h * ChunkBytes + u * TileBytes + (i + 1) * BeatBytes <= cfg.sbytes
  <2>1. CASE h = cfg.kchunks - 1
    <3>1. u * TileBytes <= d * TileBytes /\ u * TileBytes \in Nat /\ d * TileBytes \in Nat
      BY <1>5, <1>6, <1>7, TimesLe
    <3>2. /\ (i + 1) * BeatBytes <= cfg.ktail * BeatBytes
          /\ (i + 1) * BeatBytes \in Nat /\ cfg.ktail * BeatBytes \in Nat
      <4>1. i + 1 \in Nat /\ i + 1 <= cfg.ktail
        BY <2>1, <1>1, <1>5
      <4> QED BY <4>1, <1>1, <1>7, TimesLe
    <3>3. h * ChunkBytes \in Nat /\ h * ChunkBytes = (cfg.kchunks - 1) * ChunkBytes
      BY <2>1, <1>7
    <3> DEFINE x1 == u * TileBytes
               x2 == d * TileBytes
               x3 == (i + 1) * BeatBytes
               x4 == cfg.ktail * BeatBytes
               x5 == h * ChunkBytes
    <3>4. x5 + x2 + x4 <= cfg.sbytes
      BY <1>8, <3>3
    <3>5. x1 <= x2 /\ x3 <= x4 /\ x1 \in Nat /\ x2 \in Nat /\ x3 \in Nat /\ x4 \in Nat /\ x5 \in Nat
      BY <3>1, <3>2, <3>3
    <3> HIDE DEF x1, x2, x3, x4, x5
    <3>6. x5 + x1 + x3 <= cfg.sbytes
      BY <3>4, <3>5, <1>1, SumsLe
    <3> QED BY <3>6 DEF x1, x3, x5
  <2>2. CASE h + 1 <= cfg.kchunks - 1
    <3>1. (i + 1) * BeatBytes <= Reps * BeatBytes /\ (i + 1) * BeatBytes \in Nat
      <4>1. i + 1 \in Nat /\ i + 1 <= Reps /\ Reps \in Nat
        BY <1>2, <1>5
      <4> QED BY <4>1, <1>7, TimesLe
    <3>2. (u + 1) * TileBytes <= SubTiles * TileBytes
      <4>1. u + 1 \in Nat /\ u + 1 <= SubTiles /\ SubTiles \in Nat
        BY <1>2, <1>5
      <4> QED BY <4>1, <1>7, TimesLe
    <3>3. (u + 1) * TileBytes = u * TileBytes + TileBytes /\ u * TileBytes \in Nat
      BY <1>5, <1>7
    <3>4. (h + 1) * ChunkBytes <= (cfg.kchunks - 1) * ChunkBytes
      <4>1. h + 1 \in Nat /\ cfg.kchunks - 1 \in Nat
        BY <1>1, <1>3
      <4> QED BY <4>1, <2>2, <1>7, TimesLe
    <3>5. (h + 1) * ChunkBytes = h * ChunkBytes + ChunkBytes /\ h * ChunkBytes \in Nat
      BY <1>7
    <3>6. d * TileBytes \in Nat /\ cfg.ktail * BeatBytes \in Nat
          /\ (cfg.kchunks - 1) * ChunkBytes \in Nat
      <4>1. d * TileBytes \in Nat
        BY <1>6, <1>7
      <4>2. cfg.ktail * BeatBytes \in Nat
        BY <1>1, <1>7
      <4>3. (cfg.kchunks - 1) * ChunkBytes \in Nat
        <5>1. cfg.kchunks - 1 \in Nat
          BY <1>1, <1>3
        <5> QED BY <5>1, <1>7
      <4> QED BY <4>1, <4>2, <4>3
    <3> DEFINE x1 == u * TileBytes
               x2 == d * TileBytes
               x3 == (i + 1) * BeatBytes
               x4 == cfg.ktail * BeatBytes
               x5 == h * ChunkBytes
               x6 == (cfg.kchunks - 1) * ChunkBytes
    <3>7. /\ x6 + x2 + x4 <= cfg.sbytes /\ x5 + ChunkBytes <= x6 /\ x1 + TileBytes <= ChunkBytes
          /\ x3 <= TileBytes
          /\ x1 \in Nat /\ x2 \in Nat /\ x3 \in Nat /\ x4 \in Nat /\ x5 \in Nat /\ x6 \in Nat
      BY <1>8, <1>17, <3>1, <3>2, <3>3, <3>4, <3>5, <3>6
    <3> HIDE DEF x1, x2, x3, x4, x5, x6
    <3>8. x5 + x1 + x3 <= cfg.sbytes
      <4>1. x1 + x3 <= ChunkBytes
        BY <3>7, <1>7
      <4> QED BY <3>7, <4>1, <1>1, <1>7, SumsLe
    <3> QED BY <3>8 DEF x1, x3, x5
  <2>3. h = cfg.kchunks - 1 \/ h + 1 <= cfg.kchunks - 1
    BY <1>1
  <2> QED BY <2>1, <2>2, <2>3
<1> DEFINE k == h * (SubTiles * Reps) + u * Reps + i
<1>10. k \in Nat
  BY <1>2, <1>5
<1>11. a = BeatBytes * k
  <2>1. h * ChunkBytes = BeatBytes * (h * (SubTiles * Reps))
    <3>1. ChunkBytes = BeatBytes * (SubTiles * Reps)
      BY <1>2, <1>17
    <3> DEFINE p == SubTiles * Reps
    <3>2. p \in Nat
      BY <1>2
    <3> HIDE DEF p
    <3>3. h * (BeatBytes * p) = BeatBytes * (h * p)
      BY <3>2, <1>7
    <3> QED BY <3>1, <3>3 DEF p
  <2>2. u * TileBytes = BeatBytes * (u * Reps)
    BY <1>2, <1>5, <1>17
  <2> DEFINE y == h * (SubTiles * Reps)
             z == u * Reps
  <2>3. y \in Nat /\ z \in Nat /\ a = BeatBytes * y + BeatBytes * z + i * BeatBytes
    <3>1. y \in Nat /\ z \in Nat
      BY <1>2, <1>5
    <3>2. a = h * ChunkBytes + u * TileBytes + i * BeatBytes
      BY DEF CellAt
    <3> QED BY <3>1, <3>2, <2>1, <2>2
  <2>4. k = y + z + i
    OBVIOUS
  <2> HIDE DEF y, z, k
  <2> QED BY <2>3, <2>4, <1>5, <1>2
<1>12. a + BeatBytes <= cfg.sbytes
  <2>1. (i + 1) * BeatBytes = i * BeatBytes + BeatBytes /\ i * BeatBytes \in Nat
    BY <1>5, <1>7
  <2> DEFINE x == h * ChunkBytes
             y == u * TileBytes
             z == i * BeatBytes
  <2>2. x \in Nat /\ y \in Nat /\ z \in Nat /\ x + y + (z + BeatBytes) <= cfg.sbytes /\ a = x + y + z
    <3>1. a = x + y + z
      BY DEF CellAt
    <3>2. x \in Nat /\ y \in Nat /\ z \in Nat
      BY <1>5, <1>7, <2>1
    <3> QED BY <2>1, <1>9, <3>1, <3>2
  <2> HIDE DEF x, y, z
  <2> QED BY <2>2, <1>1, <1>7
<1> HIDE DEF k
<1>13. a \div BeatBytes = k
  BY <1>2, <1>10, <1>11
<1>14. k <= (StripMax \div BeatBytes) - 1
  <2>1. BeatBytes * k + BeatBytes <= StripMax
    <3> DEFINE x == BeatBytes * k
    <3>1. x \in Nat /\ x + BeatBytes <= cfg.sbytes
      BY <1>7, <1>10, <1>11, <1>12
    <3> HIDE DEF x
    <3>2. x + BeatBytes <= StripMax
      BY <3>1, <1>1, <1>2, <1>3
    <3> QED BY <3>2 DEF x
  <2> QED BY <2>1, <1>2, <1>10
<1>15. k \in Cells
  BY <1>2, <1>10, <1>14 DEF Cells
<1>16. a \in Nat /\ a < cfg.sbytes
  <2>1. a \in Nat
    BY <1>7, <1>10, <1>11
  <2> QED BY <2>1, <1>1, <1>7, <1>12
<1> QED BY <1>11, <1>13, <1>15, <1>16

\* Window n of the blob of a legacy tile, where the load has put it.
LEMMA BlobWord ==
    ASSUME cfg \in CfgType, NEW g \in Nat, Loaded(FoldPtr, BlobBase + g * JobStride, LoadLen),
           NEW n \in Nat, n * WPB < LoadLen
    PROVE  tcm[n * WPB] = Blob(g, n)
<1>1. WPB \in {1, 2, 4, 8} /\ FoldPtr = 0
  BY Layout
<1> DEFINE q == n * WPB
           s == BlobBase + g * JobStride
<1>2. q \in Nat /\ 4 * q = n * BeatBytes
  BY <1>1 DEF BeatBytes
<1>3. \A j \in 0 .. LoadLen - 1 : tcm[FoldPtr + j] = <<"bus", s + 4 * j>>
  BY DEF Loaded
<1>4. LoadLen \in Nat
  BY <1>1, Layout
<1>5. q < LoadLen
  OBVIOUS
<1>6. Blob(g, n) = <<"bus", s + 4 * q>>
  BY <1>2 DEF Blob
<1> HIDE DEF q, s
<1>7. q \in 0 .. LoadLen - 1 /\ FoldPtr + q = q
  BY <1>1, <1>2, <1>4, <1>5
<1> QED BY <1>3, <1>6, <1>7 DEF q

\* The same for a window that a pointer of the sequencer names.
LEMMA BlobWindow ==
    ASSUME cfg \in CfgType, NEW g \in Nat, Loaded(FoldPtr, BlobBase + g * JobStride, LoadLen),
           NEW k \in Nat, NEW n \in Nat, NEW p, p = k * WPB, (k + n) * WPB < LoadLen
    PROVE  Window(Ptr("tcm", p), n) = Blob(g, k + n)
<1>1. WPB \in Nat
  BY ParamsAssumption
<1>2. p + n * WPB = (k + n) * WPB /\ k + n \in Nat
  BY <1>1
<1>3. Window(Ptr("tcm", p), n) = tcm[p + n * WPB]
  BY DEF Window, Ptr
<1> QED BY <1>2, <1>3, BlobWord

\* The windows a legacy tile is computed from.
LEMMA LegacyWindows ==
    ASSUME cfg \in CfgType, ~cfg.strip, cfg.tight => cfg.stationary, NEW g \in Nat,
           Loaded(FoldPtr, BlobBase + g * JobStride, LoadLen)
    PROVE  /\ Window(Ptr("tcm", FoldPtr), 0) = Fold(cfg, g)
           /\ Window(Ptr("tcm", ParamPtr), 0) = Param(cfg, g)
           /\ \A i \in 0 .. Reps - 1 :
                 /\ ~cfg.stationary => Window(Ptr("tcm", OpA), i) = Act(cfg, g, i)
                 /\ Window(Ptr("tcm", OpB), i) = Weights(cfg, g, i)
<1>1. Reps \in Nat \ {0} /\ StoreLen \in Nat \ {0} /\ StoreLen % WPB = 0 /\ WPB \in {1, 2, 4, 8}
  BY MlAssumption, ParamsAssumption
<1>2. PadWins \in Nat /\ StoreLen = PadWins * WPB
  BY <1>1 DEF PadWins
<1> DEFINE k == Win(Reps)
<1>3. k = Reps * WPB /\ k \in Nat
  BY <1>1 DEF Win
<1>4. /\ FoldPtr = 0 * WPB /\ ParamPtr = 1 * WPB
      /\ AOff = (2 + PadWins) * WPB /\ ActSlot = (2 + PadWins + Reps) * WPB
      /\ TightB = 2 * WPB
  <2>1. /\ FoldPtr = 0 /\ ParamPtr = WPB /\ AOff = 2 * WPB + StoreLen
        /\ ActSlot = 2 * WPB + StoreLen + k /\ TightB = 2 * WPB
    BY Layout
  <2> HIDE DEF k
  <2>2. /\ (2 + PadWins) * WPB = 2 * WPB + StoreLen
        /\ (2 + PadWins + Reps) * WPB = 2 * WPB + StoreLen + k
    BY <1>1, <1>2, <1>3
  <2> QED BY <1>1, <2>1, <2>2
<1>5. LoadLen = (IF cfg.tight THEN (2 + Reps) * WPB
                 ELSE IF cfg.stationary THEN (2 + PadWins + Reps) * WPB
                 ELSE (2 + PadWins + 2 * Reps) * WPB)
  <2>1. LoadLen = (IF cfg.tight THEN 2 * WPB + k
                   ELSE IF cfg.stationary THEN 2 * WPB + StoreLen + k
                   ELSE 2 * WPB + StoreLen + 2 * k)
    BY Layout
  <2> HIDE DEF k
  <2>2. /\ (2 + Reps) * WPB = 2 * WPB + k
        /\ (2 + PadWins + Reps) * WPB = 2 * WPB + StoreLen + k
        /\ (2 + PadWins + 2 * Reps) * WPB = 2 * WPB + StoreLen + 2 * k
    BY <1>1, <1>2, <1>3
  <2> QED BY <2>1, <2>2
<1>6. ASSUME NEW x \in Nat, NEW y \in Nat, x < y PROVE x * WPB < y * WPB
  BY <1>1, <1>6
<1>7. \A x \in Nat : x < 2 + Reps => x * WPB < LoadLen
  BY <1>1, <1>2, <1>5, <1>6
<1>8. \A x \in Nat : ~cfg.tight /\ x < 2 + PadWins + Reps => x * WPB < LoadLen
  BY <1>1, <1>2, <1>5, <1>6
<1>9. \A x \in Nat : ~cfg.stationary /\ x < 2 + PadWins + 2 * Reps => x * WPB < LoadLen
  BY <1>1, <1>2, <1>5, <1>6
<1> HIDE DEF k
<1>10. /\ Window(Ptr("tcm", FoldPtr), 0) = Blob(g, 0)
       /\ Window(Ptr("tcm", ParamPtr), 0) = Blob(g, 1)
  <2>1. (0 + 0) * WPB < LoadLen /\ (1 + 0) * WPB < LoadLen
    BY <1>1, <1>7
  <2>2. Window(Ptr("tcm", FoldPtr), 0) = Blob(g, 0 + 0)
    BY <1>4, <2>1, BlobWindow
  <2>3. Window(Ptr("tcm", ParamPtr), 0) = Blob(g, 1 + 0)
    BY <1>4, <2>1, BlobWindow
  <2> QED BY <2>2, <2>3
<1>11. ASSUME NEW i \in 0 .. Reps - 1, ~cfg.stationary
       PROVE  Window(Ptr("tcm", OpA), i) = Blob(g, 2 + PadWins + i)
  <2>1. OpA = (2 + PadWins) * WPB /\ i \in Nat /\ 2 + PadWins \in Nat
    BY <1>1, <1>2, <1>4, <1>11, Layout
  <2>2. (2 + PadWins + i) * WPB < LoadLen
    <3>1. 2 + PadWins + i \in Nat /\ 2 + PadWins + i < 2 + PadWins + 2 * Reps
      BY <1>1, <1>2
    <3> QED BY <3>1, <1>9, <1>11
  <2> QED BY <2>1, <2>2, BlobWindow
<1>12. ASSUME NEW i \in 0 .. Reps - 1
       PROVE  Window(Ptr("tcm", OpB), i)
                 = Blob(g, i + IF cfg.tight THEN 2
                               ELSE IF cfg.stationary THEN 2 + PadWins ELSE 2 + PadWins + Reps)
  <2>1. i \in Nat
    BY <1>1
  <2>2. CASE cfg.tight
    <3>1. OpB = 2 * WPB
      BY <2>2, <1>4, Layout
    <3>2. (2 + i) * WPB < LoadLen
      <4>1. 2 + i \in Nat /\ 2 + i < 2 + Reps
        BY <1>1, <2>1
      <4> QED BY <4>1, <1>7
    <3>3. 2 + i = i + 2
      BY <2>1
    <3> QED BY <3>1, <3>2, <3>3, <2>1, <2>2, BlobWindow
  <2>3. CASE ~cfg.tight /\ cfg.stationary
    <3>1. OpB = (2 + PadWins) * WPB /\ 2 + PadWins \in Nat
      BY <2>3, <1>2, <1>4, Layout
    <3>2. (2 + PadWins + i) * WPB < LoadLen
      <4>1. 2 + PadWins + i \in Nat /\ 2 + PadWins + i < 2 + PadWins + Reps
        BY <1>1, <1>2, <2>1
      <4> QED BY <4>1, <1>8, <2>3
    <3>3. 2 + PadWins + i = i + (2 + PadWins)
      BY <1>2, <2>1
    <3> QED BY <3>1, <3>2, <3>3, <2>1, <2>3, BlobWindow
  <2>4. CASE ~cfg.tight /\ ~cfg.stationary
    <3>1. OpB = (2 + PadWins + Reps) * WPB /\ 2 + PadWins + Reps \in Nat
      BY <2>4, <1>1, <1>2, <1>4, Layout
    <3>2. (2 + PadWins + Reps + i) * WPB < LoadLen
      <4>1. 2 + PadWins + Reps + i \in Nat /\ 2 + PadWins + Reps + i < 2 + PadWins + 2 * Reps
        BY <1>1, <1>2, <2>1
      <4> QED BY <4>1, <1>9, <2>4
    <3>3. 2 + PadWins + Reps + i = i + (2 + PadWins + Reps)
      BY <1>1, <1>2, <2>1
    <3> QED BY <3>1, <3>2, <3>3, <2>1, <2>4, BlobWindow
  <2> QED BY <2>2, <2>3, <2>4
<1> QED BY <1>10, <1>11, <1>12 DEF Fold, Param, Act, Weights

\* The resident activation.
LEMMA ActWindow ==
    ASSUME cfg \in CfgType, ~cfg.strip, cfg.stationary, NEW g,
           Loaded(ActSlot, ActSrc, ActLen), NEW i \in 0 .. Reps - 1
    PROVE  Window(Ptr("tcm", OpA), i) = Act(cfg, g, i)
<1>1. Reps \in Nat \ {0} /\ WPB \in {1, 2, 4, 8}
  BY MlAssumption, ParamsAssumption
<1>2. OpA = ActSlot /\ ActLen = Reps * WPB
  BY Layout DEF Win
<1> DEFINE q == i * WPB
<1>3. q \in 0 .. ActLen - 1 /\ 4 * q = i * BeatBytes
  BY <1>1, <1>2 DEF BeatBytes
<1>4. Window(Ptr("tcm", OpA), i) = tcm[ActSlot + q]
  BY <1>2 DEF Window, Ptr
<1>5. Act(cfg, g, i) = <<"bus", ActSrc + 4 * q>>
  BY <1>3 DEF Act
<1> HIDE DEF q
<1> QED BY <1>3, <1>4, <1>5 DEF Loaded

\* The address of the weights of a window.
LEMMA WeightCell ==
    ASSUME NEW c \in CfgType, NEW s \in Nat, NEW u \in 0 .. SubTiles - 1, NEW h \in Nat,
           NEW i \in 0 .. Reps - 1
    PROVE  WeightAddr(c, s * SubTiles + u, h * Reps + i)
              = c.wbase + s * c.sbytes + (h * ChunkBytes + u * TileBytes + i * BeatBytes)
<1>1. /\ SubTiles \in Nat \ {0} /\ Reps \in Nat \ {0} /\ BeatBytes \in Nat
      /\ TileBytes \in Nat /\ ChunkBytes \in Nat /\ c.wbase \in Nat /\ c.sbytes \in Nat
      /\ u \in Nat /\ i \in Nat
  <2>1. SubTiles \in Nat \ {0} /\ Reps \in Nat \ {0} /\ BeatBytes \in Nat
    BY MlAssumption, StepValue
  <2>2. TileBytes \in Nat
    BY <2>1 DEF TileBytes
  <2>3. ChunkBytes \in Nat
    BY <2>1, <2>2 DEF ChunkBytes
  <2> QED BY <2>1, <2>2, <2>3 DEF CfgType
<1>2. (s * SubTiles + u) \div SubTiles = s /\ (s * SubTiles + u) % SubTiles = u
  BY <1>1, DivMod
<1>3. (h * Reps + i) \div Reps = h /\ (h * Reps + i) % Reps = i
  BY <1>1, DivMod
<1> DEFINE x1 == s * c.sbytes
           x2 == u * TileBytes
           x3 == h * ChunkBytes
           x4 == i * BeatBytes
<1>4. WeightAddr(c, s * SubTiles + u, h * Reps + i) = c.wbase + x1 + x2 + x3 + x4
  BY <1>2, <1>3 DEF WeightAddr
<1>5. x1 \in Nat /\ x2 \in Nat /\ x3 \in Nat /\ x4 \in Nat
  BY <1>1
<1>6. c.wbase + x1 + x2 + x3 + x4 = c.wbase + x1 + (x3 + x2 + x4)
  <2> HIDE DEF x1, x2, x3, x4
  <2> QED BY <1>1, <1>5
<1> QED BY <1>4, <1>6

\* A job with room to be staged has so few chunks that the four bits of the chunk
\* in the weight base tell them apart.
LEMMA ChunkBase ==
    ASSUME NEW k \in 1 .. Len(Jobs), Jobs[k].strip, Jobs[k].kchunks \in Nat,
           NEW h \in Nat, h < Jobs[k].kchunks
    PROVE  h % 16 = h
<1>1. StagedApart(Jobs[k])
  BY JobsAssumption DEF RoomToStage
<1>2. StripActPtr(h) + 512 <= 3840
  BY <1>1 DEF StagedApart
<1> QED BY <1>2 DEF StripActPtr

\* With the sizes of the code the jobs that have room are those that StripStaging
\* names Fits: two strips, two chunks, whole blocks of 512 bytes.
LEMMA RoomIsFits ==
    ASSUME SubTiles = 8, TileBytes = 512, NEW c \in CfgType, c.nstrips # 0, c.kchunks # 0
    PROVE  RoomToStage(c) <=>
               c.nstrips <= 2 /\ c.kchunks <= 2 /\ (c.nstrips * c.sbytes) % 512 = 0
<1>1. c.nstrips \in Nat \ {0} /\ c.kchunks \in Nat \ {0}
  BY DEF CfgType
<1>2. (\A k \in 0 .. c.kchunks - 1 : StripActPtr(k) + 512 <= 3840) <=> c.kchunks <= 2
  <2>1. ASSUME c.kchunks > 2 PROVE \E k \in 0 .. c.kchunks - 1 : ~(StripActPtr(k) + 512 <= 3840)
    <3>1. 2 \in 0 .. c.kchunks - 1 /\ ~(StripActPtr(2) + 512 <= 3840)
      BY <1>1, <2>1 DEF StripActPtr
    <3> QED BY <3>1
  <2> QED BY <1>1, <2>1 DEF StripActPtr
<1>3. (\A g, h \in 0 .. c.nstrips * SubTiles - 1 : StripParamPtr(g) + 64 <= StripFoldPtr(h))
         <=> c.nstrips <= 2
  <2>1. ASSUME c.nstrips > 2
        PROVE  \E g, h \in 0 .. c.nstrips * SubTiles - 1 :
                   ~(StripParamPtr(g) + 64 <= StripFoldPtr(h))
    <3>1. 16 \in 0 .. c.nstrips * SubTiles - 1 /\ 0 \in 0 .. c.nstrips * SubTiles - 1
      BY <1>1, <2>1
    <3>2. ~(StripParamPtr(16) + 64 <= StripFoldPtr(0))
      BY DEF StripParamPtr, StripFoldPtr
    <3> QED BY <3>1, <3>2
  <2> QED BY <1>1, <2>1 DEF StripParamPtr, StripFoldPtr
<1> QED BY <1>2, <1>3 DEF RoomToStage, StagedApart

\* The two windows a strip job multiplies are the right ones.
LEMMA StripWindows ==
    ASSUME cfg \in CfgType, job \in JobType, cfg.strip, ~StripKickIllegal,
           kicked \in 1 .. Len(Jobs), cfg = Jobs[kicked], ml_st = "STRIP_OP_W", LoopInv,
           PrefetchedInv, NEW i \in 0 .. Reps - 1, ChunkLast => i < cfg.ktail,
           job.wbase = StripWeightBase
    PROVE  /\ Window(ActAt, i) = Act(cfg, Tile, FirstN + i)
           /\ <<"bus", EngB(job.bank, job.wbase + i * BeatBytes)>>
                 = Weights(cfg, Tile, FirstN + i)
<1>1. /\ job.strip < cfg.nstrips /\ (StripLast => job.sub < cfg.ntail)
      /\ job.chunk < cfg.kchunks
      /\ Filled(job.bank, StripAt(job.strip), cfg.sbytes)
  BY StateNames DEF LoopInv, PrefetchedInv
<1>2. /\ job.strip \in Nat /\ job.chunk \in Nat /\ job.sub \in 0 .. SubTiles - 1
      /\ cfg.nstrips \in Nat /\ cfg.kchunks \in Nat /\ cfg.ntail \in Nat
      /\ cfg.wbase \in Nat /\ cfg.sbytes \in Nat
  BY DEF JobType, CfgType
<1>3. cfg.nstrips = 1 => job.sub < cfg.ntail
  BY <1>1, <1>2 DEF StripLast
<1>4. job.chunk + 1 >= cfg.kchunks => i < cfg.ktail
  BY DEF ChunkLast
<1> DEFINE a == job.chunk * ChunkBytes + job.sub * TileBytes + i * BeatBytes
           k == a \div BeatBytes
<1>5. k \in Cells /\ BeatBytes * k = a /\ a \in Nat /\ a < cfg.sbytes
  BY <1>1, <1>2, <1>3, <1>4, StripCell DEF CellAt
<1>6. WeightAddr(cfg, Tile, FirstN + i) = cfg.wbase + job.strip * cfg.sbytes + a
  <2>1. Tile = job.strip * SubTiles + job.sub /\ FirstN = job.chunk * Reps
    BY DEF Tile, GlobalSub, FirstN
  <2>2. WeightAddr(cfg, job.strip * SubTiles + job.sub, job.chunk * Reps + i)
           = cfg.wbase + job.strip * cfg.sbytes
             + (job.chunk * ChunkBytes + job.sub * TileBytes + i * BeatBytes)
    <3>1. job.strip \in Nat /\ job.sub \in 0 .. SubTiles - 1 /\ job.chunk \in Nat
      BY <1>2
    <3> QED BY <3>1, WeightCell, ZenonT(40)
  <2> QED BY <2>1, <2>2
<1>7. job.wbase + i * BeatBytes = a
  <2>1. cfg.strip /\ cfg = Jobs[kicked] /\ kicked \in 1 .. Len(Jobs)
    OBVIOUS
  <2>2. job.chunk % 16 = job.chunk
    BY <2>1, <1>1, <1>2, ChunkBase
  <2> QED BY <2>2 DEF StripWeightBase
<1>8. StripAt(job.strip) + a = cfg.wbase + job.strip * cfg.sbytes + a
  BY DEF StripAt
<1> HIDE DEF a
<1>9. bank[job.bank][k] = StripAt(job.strip) + a
  BY <1>1, <1>5 DEF Filled
<1>10. EngB(job.bank, job.wbase + i * BeatBytes) = bank[job.bank][k]
  BY <1>7 DEF EngB
<1>11. Window(ActAt, i) = Act(cfg, Tile, FirstN + i)
  BY DEF Window, ActAt, Ptr, Act, FirstN
<1> QED BY <1>6, <1>8, <1>9, <1>10, <1>11 DEF Weights

\* The fold and the parameters of a strip tile are staged by the firmware.
LEMMA StagedWindows ==
    ASSUME cfg.strip, Tile \in Nat
    PROVE  Window(FoldAt, 0) = Fold(cfg, Tile) /\ Window(ParamAt, 0) = Param(cfg, Tile)
  BY DEF Window, FoldAt, ParamAt, Ptr, Fold, Param

\* What the engine and the sequencer are to each other in a job.
LEMMA AccFacts ==
    ASSUME NEW m, NEW ar, NEW r, NEW aw, NEW w, NEW b, Edge(m, ar, r, aw, w, b), job.busy,
           KickInv
    PROVE  /\ cfg \in CfgType /\ job \in JobType /\ job' \in JobType /\ Tile \in Nat
           /\ FirstN \in Nat /\ mlmat \in MatCmdT
           /\ rep_i \in Nat /\ mat_st \in MatStates /\ 0 \in Banks
           /\ kicked \in 1 .. Len(Jobs) /\ cfg = Jobs[kicked] /\ cfg' = cfg
           /\ ml_st # "IDLE"
           /\ ml_st \in StripLive \cup LegacyStates =>
                 /\ CountN \in Nat \ {0} /\ CountN <= Reps
                 /\ ~cfg.strip => CountN = Reps /\ FirstN = 0 /\ Depth(cfg) = Reps
                 /\ cfg.strip /\ ChunkLast /\ job.chunk < cfg.kchunks =>
                        FirstN + CountN = Depth(cfg)
                 /\ cfg.strip /\ ~ChunkLast => FirstN + CountN = (job.chunk + 1) * Reps
           /\ ml_st \in StripLive => cfg.strip /\ ~StripKickIllegal
           /\ ml_st \in LegacyStates => ~cfg.strip /\ (cfg.tight => cfg.stationary)
           /\ MatClk(FALSE, MatGoWire, mlmat, Ports)
           /\ MatGoWire <=> mlmat.go
           /\ mlmat.go => ml_st \in MatWaits /\ mat_st = "IDLE"
           /\ mat_st # "IDLE" => ml_st \in MatWaits \cup {"STRIP_DRAIN_ERR"}
           /\ StripActive <=> cfg.strip
<1>1. /\ Types /\ TurnInv /\ EngineInv /\ PulseInv /\ FirmwareInv
      /\ job' \in JobType
  BY EngineFacts DEF Types, MlTypes, MlRegTypes
<1>2. /\ cfg \in CfgType /\ job \in JobType /\ mlmat \in MatCmdT /\ rep_i \in Nat
      /\ mat_st \in MatStates
  BY <1>1 DEF Types, MlTypes, MlRegTypes, MlOutTypes, MatTypes
<1>3. MatClk(FALSE, MatGoWire, mlmat, Ports)
  BY DEF Edge
<1>4. /\ kicked \in 1 .. Len(Jobs) /\ cfg = Jobs[kicked] /\ cfg' = cfg
  BY Programmed
<1>5. 0 \in Banks /\ (~cfg.strip => (cfg.tight => cfg.stationary))
  BY <1>4, JobsAssumption
<1>6. /\ job.busy <=> MlActive
      /\ ~cfg.bypass
  BY <1>1, Owned DEF TurnInv
<1>7. MatGoWire <=> mlmat.go
  BY <1>6 DEF MatGoWire
<1>8. SubTiles \in Nat \ {0} /\ Reps \in Nat \ {0}
  BY MlAssumption
<1>9. Tile \in Nat
  <2>1. job.strip \in Nat /\ job.sub \in Nat /\ job.tile \in Nat
    BY <1>2, <1>8 DEF JobType
  <2> QED BY <2>1, <1>8 DEF Tile, GlobalSub
<1>10. FirstN \in Nat
  <2>1. job.chunk \in Nat
    BY <1>2 DEF JobType
  <2> QED BY <2>1, <1>8 DEF FirstN
<1>11. ml_st # "IDLE" /\ (ml_st \in StripLive => cfg.strip /\ ~StripKickIllegal)
       /\ (ml_st \in LegacyStates => ~cfg.strip)
  BY <1>1 DEF TurnInv
<1>12. mat_st # "IDLE" => ml_st \in MatWaits \cup {"STRIP_DRAIN_ERR"}
  BY <1>1 DEF EngineInv, TurnInv
<1>13. mlmat.go => ml_st \in MatWaits /\ mat_st = "IDLE"
  BY <1>1 DEF PulseInv
<1>14. ASSUME ml_st \in StripLive \cup LegacyStates
       PROVE  /\ CountN \in Nat \ {0} /\ CountN <= Reps
              /\ ~cfg.strip => CountN = Reps /\ FirstN = 0 /\ Depth(cfg) = Reps
              /\ cfg.strip /\ ChunkLast /\ job.chunk < cfg.kchunks =>
                     FirstN + CountN = Depth(cfg)
              /\ cfg.strip /\ ~ChunkLast => FirstN + CountN = (job.chunk + 1) * Reps
  <2>1. /\ cfg.ktail \in Nat /\ cfg.kchunks \in Nat /\ job.chunk \in Nat
    BY <1>2 DEF CfgType, JobType
  <2>2. cfg.strip => cfg.ktail # 0 /\ ~(cfg.ktail > Reps)
    BY <1>11, <1>14 DEF StripKickIllegal
  <2>3. CASE ~cfg.strip
    BY <2>3, <1>8 DEF CountN, FirstN, Depth
  <2>4. CASE cfg.strip /\ ChunkLast
    <3>1. CountN = cfg.ktail /\ FirstN = job.chunk * Reps
          /\ Depth(cfg) = (cfg.kchunks - 1) * Reps + cfg.ktail
      BY <2>4 DEF CountN, FirstN, Depth
    <3>2. job.chunk < cfg.kchunks => cfg.kchunks - 1 = job.chunk
      BY <2>1, <2>4 DEF ChunkLast
    <3> QED BY <2>1, <2>2, <2>4, <3>1, <3>2, <1>8
  <2>5. CASE cfg.strip /\ ~ChunkLast
    <3>1. CountN = Reps /\ FirstN = job.chunk * Reps
      BY <2>5 DEF CountN, FirstN
    <3>2. (job.chunk + 1) * Reps = job.chunk * Reps + Reps
      BY <2>1, <1>8
    <3> QED BY <2>5, <3>1, <3>2, <1>8
  <2> QED BY <2>3, <2>4, <2>5
<1>15. StripActive <=> cfg.strip
  BY <1>6 DEF StripActive
<1>16. ml_st \in LegacyStates => ~cfg.strip /\ (cfg.tight => cfg.stationary)
  BY <1>5, <1>11
<1> QED BY <1>1, <1>2, <1>3, <1>4, <1>5, <1>7, <1>9, <1>10, <1>11, <1>12, <1>13, <1>14,
           <1>15, <1>16, Zenon

\* An engine that is neither busy nor commanded keeps what it has.
LEMMA QuietMat ==
    ASSUME NEW m, NEW ar, NEW r, NEW aw, NEW w, NEW b, Edge(m, ar, r, aw, w, b), job.busy,
           KickInv, mat_st = "IDLE", ~mlmat.go
    PROVE  /\ acc' = acc /\ mat_st' = "IDLE" /\ mat_err' = mat_err /\ par' = par
           /\ el_iss' = el_iss /\ rq_v' = rq_v /\ ~t_we' /\ cmd_q' = cmd_q
<1>1. MatClk(FALSE, MatGoWire, mlmat, Ports) /\ ~MatGoWire
  BY AccFacts
<1>2. MatIdle(MatGoWire)
  BY <1>1, MatCases DEF MatGo, MatRun, MatLa, MatLv, MatPrm, MatPrs, MatRsc, MatFin
<1> QED BY <1>2 DEF MatIdle, mpipe

\* A pulse is taken by the engine.
LEMMA PulseTaken ==
    ASSUME NEW m, NEW ar, NEW r, NEW aw, NEW w, NEW b, Edge(m, ar, r, aw, w, b), job.busy,
           KickInv, mlmat.go, mlmat.op \in {"LOADACC", "OP", "RESCALE_PC"},
           mlmat.op = "OP" => mlmat.rpt # 0
    PROVE  /\ acc' = acc /\ mat_st' = Start(mlmat.op) /\ rep_i' = 0 /\ el_iss' = 0 /\ ~rq_v'
           /\ ~t_we' /\ cmd_q'.bank = 0 /\ cmd_q'.rpt = mlmat.rpt /\ cmd_q'.b = mlmat.b
           /\ cmd_q'.a = (IF mlmat.op = "RESCALE_PC" THEN mlmat.param ELSE mlmat.a)
<1>1. /\ MatClk(FALSE, MatGoWire, mlmat, Ports) /\ MatGoWire /\ mlmat \in MatCmdT
      /\ mat_st = "IDLE" /\ 0 \in Banks
  BY AccFacts
<1>2. MatGo(MatGoWire, mlmat)
  BY <1>1, MatCases DEF MatIdle, MatRun, MatLa, MatLv, MatPrm, MatPrs, MatRsc, MatFin
<1>3. mlmat.bank = 0 /\ mlmat.bad = FALSE
  BY <1>1 DEF MatCmdT
<1>4. ~ParamBad(mlmat)
  BY <1>1, <1>3 DEF ParamBad
<1> QED BY <1>2, <1>3, <1>4 DEF MatGo

\* The banks stay the banks.
LEMMA AccDomain ==
    ASSUME NEW m, NEW ar, NEW r, NEW aw, NEW w, NEW b, Edge(m, ar, r, aw, w, b), AccInv
    PROVE  DOMAIN acc' = Banks
<1>1. MatClk(FALSE, MatGoWire, mlmat, Ports)
  BY DEF Edge
<1>2. DOMAIN acc = Banks
  BY DEF AccInv
<1>3. CASE MatGo(MatGoWire, mlmat)
  BY <1>2, <1>3 DEF MatGo
<1>4. CASE MatRun(Ports) \/ MatLa(Ports) \/ MatLv(Ports)
  BY <1>2, <1>4 DEF MatRun, MatLa, MatLv
<1>5. CASE MatIdle(MatGoWire) \/ MatPrm(Ports) \/ MatPrs \/ MatRsc(mlmat) \/ MatFin
  BY <1>2, <1>5 DEF MatIdle, MatPrm, MatPrs, MatRsc, MatFin
<1> QED BY <1>1, <1>3, <1>4, <1>5, MatCases

\* What is written about the job does not change with it.
LEMMA SameJob ==
    ASSUME cfg' = cfg, job' = job
    PROVE  /\ Tile' = Tile /\ FoldAt' = FoldAt /\ ParamAt' = ParamAt /\ ActAt' = ActAt
           /\ WeightAt' = WeightAt /\ FirstN' = FirstN /\ CountN' = CountN
           /\ ChunkLast' = ChunkLast /\ Depth(cfg)' = Depth(cfg)
  BY DEF Tile, GlobalSub, FoldAt, ParamAt, ActAt, WeightAt, FirstN, CountN, ChunkLast, FoldPtr,
         ParamPtr, OpA, OpB, ActSlot, AOff, TightB, Win, Depth

\* The load of the accumulators.
LEMMA ClrStay ==
    ASSUME NEW m, NEW ar, NEW r, NEW aw, NEW w, NEW b, Edge(m, ar, r, aw, w, b), KickInv,
           OperInv, AccInv, job.busy, ml_st \in ClrWaits, job' = job, ~mlmat'.go, MatKept
    PROVE  ClrPart'
<1>1. /\ ClrPart /\ cfg' = cfg /\ 0 \in Banks /\ DOMAIN acc = Banks /\ Tile \in Nat
      /\ MatClk(FALSE, MatGoWire, mlmat, Ports)
      /\ cfg \in CfgType
  BY AccFacts DEF AccInv
<1>2. Tile' = Tile /\ FoldAt' = FoldAt
  BY <1>1, SameJob
<1>3. mlmat'.op = "LOADACC" /\ mlmat'.a = FoldAt'
  BY <1>1, <1>2 DEF MatKept, ClrPart
<1>4. CASE mat_st # "IDLE"
  <2>1. mat_st = "LA" /\ cmd_q.bank = 0 /\ cmd_q.a = FoldAt /\ rep_i = 0
    BY <1>1, <1>4 DEF ClrPart
  <2>2. MatLa(Ports)
    BY <1>1, <2>1, MatCases DEF MatGo, MatIdle, MatRun, MatLv, MatPrm, MatPrs, MatRsc, MatFin
  <2>3. Ports.a = Window(FoldAt, 0)
    BY <2>1 DEF Ports, AReads
  <2>4. Window(FoldAt, 0) = Fold(cfg, Tile)
    <3>1. CASE cfg.strip
      BY <3>1, <1>1, StagedWindows
    <3>2. CASE ~cfg.strip
      <4>1. ml_st = "CLR_W" /\ (cfg.tight => cfg.stationary)
        BY <3>2, AccFacts DEF ClrWaits, StripLive, StripStates, LegacyStates
      <4>2. Loaded(FoldPtr, BlobBase + job.tile * JobStride, LoadLen)
        BY <4>1 DEF OperInv, Operand, LegacyStates
      <4>3. Tile = job.tile /\ FoldAt = Ptr("tcm", FoldPtr)
        BY <3>2 DEF Tile, FoldAt
      <4> QED BY <3>2, <4>1, <4>2, <4>3, <1>1, LegacyWindows
    <3> QED BY <3>1, <3>2
  <2>5. acc'[0] = [r1 \in RowSet |-> << <<Fold(cfg, Tile)>> >>]
    BY <1>1, <2>1, <2>2, <2>3, <2>4 DEF MatLa
  <2>6. Sums(0)'
    <3>1. RowUpTo(cfg, Tile, 0) = << <<Fold(cfg, Tile)>> >>
      BY RowGrows
    <3> QED BY <1>1, <1>2, <2>5, <3>1 DEF Sums
  <2>7. mat_st' = "IDLE"
    BY <2>2 DEF MatLa
  <2> QED BY <1>3, <2>6, <2>7 DEF ClrPart
<1>5. CASE mlmat.go
  <2>1. /\ mat_st' = "LA" /\ cmd_q'.bank = 0 /\ cmd_q'.a = mlmat.a /\ rep_i' = 0
    BY <1>1, <1>5, PulseTaken DEF ClrPart, Start
  <2> QED BY <1>1, <1>2, <1>3, <2>1 DEF ClrPart
<1>6. CASE mat_st = "IDLE" /\ ~mlmat.go
  <2>1. acc' = acc /\ mat_st' = "IDLE" /\ mat_err' = mat_err
    BY <1>6, QuietMat
  <2>2. ~mat_err => Sums(0)'
    BY <1>1, <1>2, <1>6, <2>1 DEF ClrPart, Sums
  <2> QED BY <1>3, <2>1, <2>2 DEF ClrPart
<1> QED BY <1>4, <1>5, <1>6

\* The multiplication: pair by pair, each with the right weights.
LEMMA OpStay ==
    ASSUME NEW m, NEW ar, NEW r, NEW aw, NEW w, NEW b, Edge(m, ar, r, aw, w, b), KickInv,
           LoopInv, PrefetchedInv, OperInv, AccInv, job.busy, ml_st \in OpWaits, job' = job,
           ~mlmat'.go, MatKept
    PROVE  OpPart'
<1>1. /\ OpPart /\ cfg' = cfg /\ 0 \in Banks /\ DOMAIN acc = Banks
      /\ Tile \in Nat /\ FirstN \in Nat /\ rep_i \in Nat /\ cfg \in CfgType /\ job \in JobType
      /\ MatClk(FALSE, MatGoWire, mlmat, Ports)
      /\ (StripActive <=> cfg.strip)
      /\ kicked \in 1 .. Len(Jobs) /\ cfg = Jobs[kicked]
  BY AccFacts DEF AccInv
<1>2. /\ Tile' = Tile /\ FirstN' = FirstN /\ CountN' = CountN /\ ActAt' = ActAt
      /\ WeightAt' = WeightAt
  BY <1>1, SameJob
<1>3. ml_st \in StripLive \cup LegacyStates
  BY DEF OpWaits, StripLive, StripStates, LegacyStates
<1>4. CountN \in Nat \ {0} /\ CountN <= Reps
  BY <1>3, AccFacts
<1>5. /\ mlmat'.op = "OP" /\ mlmat'.a = ActAt' /\ mlmat'.b = WeightAt' /\ mlmat'.rpt = CountN'
      /\ cfg'.strip => job'.wbase = StripWeightBase'
  <2>1. StripWeightBase' = StripWeightBase
    BY DEF StripWeightBase
  <2> QED BY <2>1, <1>1, <1>2 DEF MatKept, OpPart
<1>6. CASE mat_st # "IDLE"
  <2>1. /\ mat_st = "RUN" /\ cmd_q.bank = 0 /\ cmd_q.a = ActAt /\ cmd_q.b = WeightAt
        /\ cmd_q.rpt = CountN /\ rep_i < CountN /\ Sums(FirstN + rep_i)
    BY <1>1, <1>6 DEF OpPart
  <2>2. MatRun(Ports)
    BY <1>1, <2>1, MatCases DEF MatGo, MatIdle, MatLa, MatLv, MatPrm, MatPrs, MatRsc, MatFin
  <2>3. /\ Ports.a = Window(ActAt, rep_i)
        /\ Ports.b = IF StripActive
                     THEN <<"bus", EngB(job.bank, job.wbase + rep_i * BeatBytes)>>
                     ELSE Window(WeightAt, rep_i)
    BY <2>1 DEF Ports, AReads, BReads
  <2> DEFINE n == FirstN + rep_i
  <2>4. rep_i \in 0 .. Reps - 1 /\ n \in Nat
    BY <1>1, <1>4, <2>1, MlAssumption
  <2>5. Ports.a = Act(cfg, Tile, n) /\ Ports.b = Weights(cfg, Tile, n)
    <3>1. CASE cfg.strip
      <4>1. ml_st = "STRIP_OP_W" /\ ~StripKickIllegal
        BY <3>1, <1>3, AccFacts DEF OpWaits, LegacyStates, StripLive, StripStates
      <4>2. ChunkLast => rep_i < cfg.ktail
        BY <2>1, <3>1 DEF CountN
      <4>3. job.wbase = StripWeightBase
        BY <1>1, <3>1 DEF OpPart
      <4>4. /\ Window(ActAt, rep_i) = Act(cfg, Tile, n)
            /\ <<"bus", EngB(job.bank, job.wbase + rep_i * BeatBytes)>> = Weights(cfg, Tile, n)
        BY <1>1, <2>4, <3>1, <4>1, <4>2, <4>3, StripWindows
      <4> QED BY <1>1, <2>3, <3>1, <4>4
    <3>2. CASE ~cfg.strip
      <4>1. ml_st = "OP_W" /\ (cfg.tight => cfg.stationary)
        BY <3>2, AccFacts DEF OpWaits, StripLive, StripStates, LegacyStates
      <4>2. /\ Loaded(FoldPtr, BlobBase + job.tile * JobStride, LoadLen)
            /\ cfg.stationary => Loaded(ActSlot, ActSrc, ActLen)
        BY <4>1 DEF OperInv, Operand, LegacyStates
      <4>3. /\ Tile = job.tile /\ FirstN = 0 /\ ActAt = Ptr("tcm", OpA)
            /\ WeightAt = Ptr("tcm", OpB)
        BY <3>2 DEF Tile, FirstN, ActAt, WeightAt
      <4>4. n = rep_i
        BY <4>3, <2>4
      <4>5. /\ ~cfg.stationary => Window(Ptr("tcm", OpA), rep_i) = Act(cfg, Tile, rep_i)
            /\ Window(Ptr("tcm", OpB), rep_i) = Weights(cfg, Tile, rep_i)
        BY <1>1, <2>4, <3>2, <4>1, <4>2, <4>3, LegacyWindows
      <4>6. cfg.stationary => Window(Ptr("tcm", OpA), rep_i) = Act(cfg, Tile, rep_i)
        BY <1>1, <2>4, <3>2, <4>2, ActWindow
      <4> HIDE DEF n
      <4> QED BY <1>1, <2>3, <3>2, <4>3, <4>4, <4>5, <4>6
    <3> QED BY <3>1, <3>2
  <2>6. acc'[0] = [r1 \in RowSet |-> Append(acc[0][r1], <<Ports.a, Ports.b>>)]
    BY <1>1, <2>1, <2>2 DEF MatRun
  <2>7. \A r1 \in RowSet : acc'[0][r1] = RowUpTo(cfg, Tile, n + 1)
    <3>1. \A r1 \in RowSet : acc[0][r1] = RowUpTo(cfg, Tile, n)
      BY <2>1 DEF Sums
    <3>2. Append(RowUpTo(cfg, Tile, n), <<Act(cfg, Tile, n), Weights(cfg, Tile, n)>>)
             = RowUpTo(cfg, Tile, n + 1)
      BY <2>4, RowGrows
    <3> HIDE DEF n
    <3> QED BY <2>5, <2>6, <3>1, <3>2
  <2>8. n + 1 = FirstN + (rep_i + 1)
    BY <1>1
  <2> HIDE DEF n
  <2>9. CASE CountN - rep_i <= 1
    <3>1. mat_st' = "IDLE" /\ rep_i + 1 = CountN
      BY <1>1, <1>4, <2>1, <2>2, <2>9 DEF MatRun
    <3>2. Sums(FirstN + CountN)'
      BY <1>1, <1>2, <2>7, <2>8, <3>1 DEF Sums
    <3> QED BY <1>5, <3>1, <3>2 DEF OpPart
  <2>10. CASE ~(CountN - rep_i <= 1)
    <3>1. /\ mat_st' = "RUN" /\ rep_i' = rep_i + 1 /\ cmd_q' = cmd_q
          /\ rep_i + 1 < CountN
      BY <1>1, <1>4, <2>1, <2>2, <2>10 DEF MatRun
    <3>2. Sums(FirstN + rep_i)'
      BY <1>1, <1>2, <2>7, <2>8, <3>1 DEF Sums
    <3> QED BY <1>2, <1>5, <2>1, <3>1, <3>2 DEF OpPart
  <2> QED BY <2>9, <2>10
<1>7. CASE mlmat.go
  <2>1. mlmat.op = "OP" /\ mlmat.rpt # 0
    BY <1>1, <1>4 DEF OpPart
  <2>2. /\ acc' = acc /\ mat_st' = "RUN" /\ cmd_q'.bank = 0 /\ cmd_q'.a = mlmat.a
        /\ cmd_q'.b = mlmat.b /\ cmd_q'.rpt = mlmat.rpt /\ rep_i' = 0
    BY <2>1, <1>7, PulseTaken DEF Start
  <2>3. Sums(FirstN + rep_i)'
    <3>1. Sums(FirstN) /\ FirstN + 0 = FirstN
      BY <1>1, <1>7 DEF OpPart
    <3> QED BY <1>1, <1>2, <2>2, <3>1 DEF Sums
  <2>4. rep_i' < CountN'
    BY <1>2, <1>4, <2>2
  <2> QED BY <1>1, <1>2, <1>5, <2>2, <2>3, <2>4 DEF OpPart
<1>8. CASE mat_st = "IDLE" /\ ~mlmat.go
  <2>1. acc' = acc /\ mat_st' = "IDLE" /\ mat_err' = mat_err
    BY <1>8, QuietMat
  <2>2. ~mat_err => Sums(FirstN + CountN)'
    BY <1>1, <1>2, <1>8, <2>1 DEF OpPart, Sums
  <2> QED BY <1>5, <2>1, <2>2 DEF OpPart
<1> QED BY <1>6, <1>7, <1>8

\* While a tile is requantised the accumulators stay.
LEMMA RscKeepsAcc ==
    ASSUME NEW m, NEW ar, NEW r, NEW aw, NEW w, NEW b, Edge(m, ar, r, aw, w, b), KickInv,
           PipeInv, job.busy, ml_st \in RscWaits
    PROVE  acc' = acc
<1>1. /\ MatClk(FALSE, MatGoWire, mlmat, Ports) /\ PipeInv
      /\ mat_st # "IDLE" => mat_st \in {"PRM", "PRS", "RSC", "FIN"}
      /\ mlmat.op = "RESCALE_PC"
  BY AccFacts DEF PipeInv, PipePart
<1>2. CASE mat_st # "IDLE"
  <2>1. MatPrm(Ports) \/ MatPrs \/ MatRsc(mlmat) \/ MatFin
    BY <1>1, <1>2, MatCases DEF MatGo, MatIdle, MatRun, MatLa, MatLv
  <2> QED BY <2>1 DEF MatPrm, MatPrs, MatRsc, MatFin
<1>3. CASE mat_st = "IDLE" /\ ~mlmat.go
  BY <1>3, QuietMat
<1>4. CASE mlmat.go
  BY <1>1, <1>4, PulseTaken
<1> QED BY <1>2, <1>3, <1>4

LEMMA AccStep ==
    ASSUME NEW m, NEW ar, NEW r, NEW aw, NEW w, NEW b, Edge(m, ar, r, aw, w, b), KickInv,
           LoopInv, PrefetchedInv, OperInv, AccInv, PipeInv
    PROVE  AccInv'
<1> DEFINE Parts == ClrWaits \cup OpStates \cup OpWaits \cup RscStates \cup RscWaits
<1> USE DEF ClrWaits, OpStates, OpWaits, RscStates, RscWaits
<1>1. DOMAIN acc' = Banks
  BY AccDomain
<1>2. CASE ml_st' \notin Parts
  BY <1>1, <1>2 DEF AccInv
<1>3. ASSUME ml_st' \in Parts, Goes, job.busy, cfg' = cfg PROVE AccInv'
  <2>1. /\ job \in JobType /\ cfg \in CfgType /\ job' \in JobType /\ Kept /\ PulseInv'
        /\ mat_st \in MatStates
    BY <1>3, AccFacts, EngineFacts, SeqStep
  <2>2. MatRight \/ (ml_st \notin MatWaits /\ ml_st # "STRIP_DRAIN_ERR") => acc' = acc
    <3>1. ml_st \notin MatWaits /\ ml_st # "STRIP_DRAIN_ERR" => mat_st = "IDLE" /\ ~mlmat.go
      BY <1>3, AccFacts
    <3> QED BY <1>3, <3>1, QuietMat DEF MatRight
  <2>3. mlmat'.go => mat_st' = "IDLE"
    BY <2>1 DEF PulseInv
  <2>4. CASE StayMove
    <3>1. ml_st' = ml_st /\ job' = job /\ ~mlmat'.go /\ MatKept
      BY <2>1, <2>4 DEF StayMove, Mute, Kept
    <3>2. CASE ml_st \in ClrWaits
      <4>1. ClrPart'
        BY <1>3, <3>1, <3>2, ClrStay
      <4> QED BY <1>1, <3>1, <3>2, <4>1 DEF AccInv
    <3>3. CASE ml_st \in OpWaits
      <4>1. OpPart'
        BY <1>3, <3>1, <3>3, OpStay
      <4> QED BY <1>1, <3>1, <3>3, <4>1 DEF AccInv
    <3>4. CASE ml_st \in RscWaits
      <4>1. acc' = acc
        BY <1>3, <3>4, RscKeepsAcc
      <4>2. Sums(Depth(cfg))'
        BY <1>3, <3>1, <3>4, <4>1, SameJob DEF AccInv, Sums
      <4> QED BY <1>1, <3>1, <3>4, <4>2 DEF AccInv
    <3>5. ml_st \notin OpStates \cup RscStates
      BY <2>4 DEF StayMove, MatWaits, LoadWaits, StoreWaits
    <3> QED BY <1>3, <3>1, <3>2, <3>3, <3>4, <3>5
  <2>5. CASE ml_st' \in ClrWaits /\ ~StayMove
    <3>1. /\ AccIssued(FoldAt') /\ Tile' = Tile
      <4>1. CASE Pass("STRIP_TILE", "STRIP_CLR_W") /\ job' = [job EXCEPT !.chunk = 0]
                 /\ AccIssued(Ptr("fold", GlobalSub))
        <5>1. cfg.strip
          BY <1>3, <4>1, AccFacts DEF Pass, StripLive, StripStates
        <5>2. GlobalSub' = GlobalSub
          BY <2>1, <4>1 DEF GlobalSub, JobType
        <5> QED BY <1>3, <4>1, <5>1, <5>2 DEF FoldAt, Tile
      <4>2. CASE Pass("CLR", "CLR_W") /\ job' = job /\ AccIssued(Ptr("tcm", FoldPtr))
        <5>1. ~cfg.strip
          BY <1>3, <4>2, AccFacts DEF Pass, LegacyStates
        <5> QED BY <1>3, <4>2, <5>1, SameJob DEF FoldAt
      <4> QED BY <1>3, <2>5, <4>1, <4>2 DEF Goes, StripMove, LegacyMove, Pass
    <3>2. ClrPart'
      BY <2>3, <3>1 DEF AccIssued, ClrPart
    <3> QED BY <1>1, <2>5, <3>2 DEF AccInv
  <2>6. CASE ml_st' \in OpStates /\ ~StayMove
    <3>1. Sums(FirstN)'
      <4>1. CASE ml_st \in ClrWaits
        <5>1. job' = job /\ MatRight
          BY <2>6, <4>1, <1>3 DEF Goes, StripMove, LegacyMove, Pass
        <5>2. acc' = acc /\ Sums(0)
          BY <2>2, <4>1, <5>1 DEF AccInv, ClrPart, MatRight
        <5>3. FirstN = 0
          <6>1. cfg.strip => ml_st = "STRIP_CLR_W" /\ job.chunk = 0
            <7>1. cfg.strip => ml_st = "STRIP_CLR_W"
              BY <1>3, <4>1, AccFacts DEF LegacyStates
            <7> QED BY <7>1 DEF LoopInv
          <6>2. 0 * Reps = 0
            BY MlAssumption
          <6> QED BY <6>1, <6>2 DEF FirstN
        <5> QED BY <1>3, <5>1, <5>2, <5>3, SameJob DEF Sums
      <4>2. CASE ml_st = "STRIP_OP_W"
        <5>1. job' = [job EXCEPT !.chunk = job.chunk + 1] /\ MatRight /\ ~ChunkLast
          BY <2>6, <4>2, <1>3 DEF Goes, StripMove, LegacyMove, Pass
        <5>2. acc' = acc /\ Sums(FirstN + CountN)
          BY <2>2, <4>2, <5>1 DEF AccInv, OpPart, MatRight
        <5>3. cfg.strip /\ FirstN + CountN = (job.chunk + 1) * Reps
          BY <1>3, <4>2, <5>1, AccFacts DEF StripLive, StripStates
        <5>4. FirstN' = (job.chunk + 1) * Reps
          BY <1>3, <2>1, <5>1, <5>3 DEF FirstN, JobType
        <5>5. Tile' = Tile
          BY <1>3, <2>1, <5>1 DEF Tile, GlobalSub, JobType
        <5> QED BY <1>3, <5>2, <5>3, <5>4, <5>5 DEF Sums
      <4> QED BY <2>6, <1>3, <4>1, <4>2 DEF Goes, StripMove, LegacyMove, Pass
    <3> QED BY <1>1, <2>6, <3>1 DEF AccInv
  <2>7. CASE ml_st' \in OpWaits /\ ~StayMove
    <3>1. ml_st \in OpStates /\ acc' = acc /\ Sums(FirstN)
      <4>1. ml_st \in OpStates
        BY <1>3, <2>7 DEF Goes, StripMove, LegacyMove, Pass
      <4> QED BY <2>2, <4>1 DEF AccInv, MatWaits
    <3>2. /\ OpIssued(ActAt', WeightAt', CountN') /\ Tile' = Tile /\ FirstN' = FirstN
          /\ cfg'.strip => job'.wbase = StripWeightBase'
      <4>1. CASE ml_st = "STRIP_OP"
        <5>1. /\ job' = [job EXCEPT !.wbase = StripWeightBase]
              /\ OpIssued(Ptr("act", job.chunk * Reps), Ptr("strip", 0),
                          IF ChunkLast THEN cfg.ktail ELSE Reps)
          BY <1>3, <2>7, <4>1 DEF Goes, StripMove, LegacyMove, Pass
        <5>2. cfg.strip
          BY <1>3, <4>1, AccFacts DEF StripLive, StripStates
        <5>3. /\ job'.chunk = job.chunk /\ job'.sub = job.sub /\ job'.strip = job.strip
              /\ job'.wbase = StripWeightBase
          BY <2>1, <5>1 DEF JobType
        <5>4. CountN' = IF ChunkLast THEN cfg.ktail ELSE Reps
          BY <1>3, <5>2, <5>3 DEF CountN, ChunkLast
        <5> QED BY <1>3, <5>1, <5>2, <5>3, <5>4
                DEF ActAt, WeightAt, FirstN, Tile, GlobalSub, StripWeightBase
      <4>2. CASE ml_st = "OP"
        <5>1. /\ job' = job
              /\ OpIssued(Ptr("tcm", OpA), Ptr("tcm", OpB), Reps)
          BY <1>3, <2>7, <4>2 DEF Goes, StripMove, LegacyMove, Pass
        <5>2. ~cfg.strip
          BY <1>3, <4>2, AccFacts DEF LegacyStates
        <5> QED BY <1>3, <5>1, <5>2, SameJob DEF ActAt, WeightAt, CountN
      <4> QED BY <3>1, <4>1, <4>2
    <3>3. Sums(FirstN)'
      BY <1>3, <3>1, <3>2 DEF Sums
    <3>4. OpPart'
      BY <2>3, <3>2, <3>3 DEF OpIssued, OpPart
    <3> QED BY <1>1, <2>7, <3>4 DEF AccInv
  <2>8. CASE ml_st' \in RscStates \cup RscWaits /\ ~StayMove
    <3>1. job' = job /\ acc' = acc /\ Sums(Depth(cfg))
      <4>1. CASE ml_st \in OpWaits
        <5>1. /\ job' = job /\ MatRight
              /\ ml_st = "STRIP_OP_W" => ChunkLast
          BY <1>3, <2>8, <4>1 DEF Goes, StripMove, LegacyMove, Pass
        <5>2. acc' = acc /\ Sums(FirstN + CountN)
          BY <2>2, <4>1, <5>1 DEF AccInv, OpPart, MatRight
        <5>3. FirstN + CountN = Depth(cfg)
          <6>1. CASE ml_st = "STRIP_OP_W"
            BY <1>3, <5>1, <6>1, AccFacts DEF LoopInv, StripLive, StripStates
          <6>2. CASE ml_st = "OP_W"
            <7>1. CountN = Reps /\ FirstN = 0 /\ Depth(cfg) = Reps
              BY <1>3, <6>2, AccFacts DEF LegacyStates
            <7> QED BY <7>1, MlAssumption
          <6> QED BY <4>1, <6>1, <6>2
        <5> QED BY <5>1, <5>2, <5>3
      <4>2. CASE ml_st \in RscStates
        <5>1. job' = job
          BY <1>3, <2>8, <4>2 DEF Goes, StripMove, LegacyMove, Pass
        <5> QED BY <2>2, <4>2, <5>1 DEF AccInv, MatWaits
      <4> QED BY <1>3, <2>8, <4>1, <4>2 DEF Goes, StripMove, LegacyMove, Pass
    <3>2. Sums(Depth(cfg))'
      BY <1>3, <3>1, SameJob DEF Sums
    <3> QED BY <1>1, <2>8, <3>2 DEF AccInv
  <2> QED BY <1>3, <2>4, <2>5, <2>6, <2>7, <2>8
<1>4. EndMove \/ StartMove => ml_st' \notin Parts
  BY DEF EndMove, StartMove
<1> HIDE DEF Parts
<1> QED BY <1>2, <1>3, <1>4, Ways

-----------------------------------------------------------------------------
(* The requantisation pipe.                                                 *)

\* The row of a tile is what has been summed up when the last window is in.
LEMMA RowIsUpTo ==
    ASSUME NEW c, NEW g, Depth(c) \in Nat
    PROVE  RowUpTo(c, g, Depth(c)) = Row(c, g)
<1> DEFINE d == Depth(c)
           T == [n \in 1 .. d |-> <<Act(c, g, n - 1), Weights(c, g, n - 1)>>]
           f == << <<Fold(c, g)>> >>
           S == {T[n] : n \in 1 .. d} \cup {f[1]}
           s == f \o T
<1>1. Row(c, g) = s
  <2>1. Windows(c) = 1 .. d
    BY DEF Windows, Depth
  <2> QED BY <2>1 DEF Row
<1>2. d \in Nat
  OBVIOUS
<1>3. RowUpTo(c, g, d) = [k \in 1 .. d + 1 |-> IF k = 1 THEN f[1] ELSE T[k - 1]]
  <2>1. ASSUME NEW k \in 1 .. d + 1
        PROVE  (IF k = 1 THEN <<Fold(c, g)>> ELSE <<Act(c, g, k - 2), Weights(c, g, k - 2)>>)
                  = (IF k = 1 THEN f[1] ELSE T[k - 1])
    <3>1. CASE k = 1
      BY <3>1
    <3>2. CASE k # 1
      <4>1. k - 1 \in 1 .. d /\ k - 1 - 1 = k - 2
        BY <1>2, <3>2
      <4> QED BY <3>2, <4>1
    <3> QED BY <3>1, <3>2
  <2> HIDE DEF d, T, f
  <2> QED BY <2>1 DEF RowUpTo
<1>4. f \in Seq(S) /\ Len(f) = 1
  OBVIOUS
<1>5. T \in Seq(S) /\ Len(T) = d
  <2>1. T \in [1 .. d -> S]
    OBVIOUS
  <2> HIDE DEF T, S, d
  <2> QED BY <1>2, <2>1
<1> HIDE DEF T, f, S, d
<1>6. /\ s \in Seq(S) /\ Len(s) = 1 + d
      /\ \A i \in 1 .. 1 + d : s[i] = IF i <= 1 THEN f[i] ELSE T[i - 1]
  <2>1. f \in Seq(S) /\ T \in Seq(S)
    BY <1>4, <1>5
  <2>2. /\ f \o T \in Seq(S) /\ Len(f \o T) = Len(f) + Len(T)
        /\ \A i \in 1 .. Len(f) + Len(T) :
              (f \o T)[i] = IF i <= Len(f) THEN f[i] ELSE T[i - Len(f)]
    BY <2>1, ConcatProperties, Zenon
  <2> HIDE DEF s
  <2>3. s = f \o T
    BY DEF s
  <2> QED BY <1>4, <1>5, <2>2, <2>3
<1> HIDE DEF s
<1>7. s = [k \in 1 .. d + 1 |-> IF k = 1 THEN f[1] ELSE T[k - 1]]
  <2>1. s = [k \in 1 .. 1 + d |-> s[k]]
    BY <1>6
  <2>2. 1 + d = d + 1
    BY <1>2
  <2>3. \A k \in 1 .. d + 1 : s[k] = IF k = 1 THEN f[1] ELSE T[k - 1]
    BY <1>2, <1>6
  <2> QED BY <2>1, <2>2, <2>3
<1> QED BY <1>1, <1>3, <1>7 DEF d

\* Where a tile is put in the TCM.
LEMMA OutPlace ==
    ASSUME cfg \in CfgType, kicked \in 1 .. Len(Jobs), cfg = Jobs[kicked]
    PROVE  /\ OutPtr(cfg) \in Nat /\ OutWords = StoreLen /\ OutWords \in Nat \ {0}
           /\ OutPtr(cfg) + OutWords <= TcmWords /\ TcmWords \in Nat
<1>1. CASE cfg.strip
  <2>1. MatOut + StoreLen <= TcmWords
    BY <1>1, JobsAssumption
  <2>2. OutWords = StoreLen /\ TcmWords \in Nat
    BY StripAssumption
  <2>3. MatOut \in Nat /\ StoreLen \in Nat \ {0}
    BY Layout
  <2> QED BY <1>1, <2>1, <2>2, <2>3 DEF OutPtr
<1>2. CASE ~cfg.strip
  BY <1>2, Places
<1> QED BY <1>1, <1>2

\* The port writes the next word.
LEMMA HeldGrows ==
    ASSUME cfg \in CfgType, kicked \in 1 .. Len(Jobs), cfg = Jobs[kicked],
           DOMAIN tcm = 0 .. TcmWords - 1, NEW n \in 0 .. OutWords - 1, OutReg(n),
           Held(cfg, Tile, n), tcm' = [tcm EXCEPT ![t_waddr] = t_wdata]
    PROVE  \A w \in 0 .. n : tcm'[OutPtr(cfg) + w] = Result(cfg, Tile, w)
<1>1. /\ OutPtr(cfg) \in Nat /\ OutWords \in Nat \ {0} /\ TcmWords \in Nat
      /\ OutPtr(cfg) + OutWords <= TcmWords
  BY OutPlace
<1>2. t_waddr = OutPtr(cfg) + n /\ t_wdata = Result(cfg, Tile, n)
  BY DEF OutReg
<1>3. ASSUME NEW w \in 0 .. n PROVE tcm'[OutPtr(cfg) + w] = Result(cfg, Tile, w)
  <2> DEFINE i == OutPtr(cfg) + w
  <2>1. i \in DOMAIN tcm
    BY <1>1
  <2>2. CASE w = n
    BY <1>2, <2>1, <2>2
  <2>3. CASE w # n
    <3>1. i # t_waddr /\ w \in 0 .. n - 1
      BY <1>1, <1>2, <2>3
    <3>2. tcm[i] = Result(cfg, Tile, w)
      BY <3>1 DEF Held
    <3> HIDE DEF i
    <3>3. tcm'[i] = tcm[i]
      BY <2>1, <3>1
    <3> QED BY <3>2, <3>3 DEF i
  <2> QED BY <2>2, <2>3
<1> QED BY <1>3

\* The row of an output word.
LEMMA RowOf ==
    ASSUME NEW i \in 0 .. OutWords - 1
    PROVE  i \div RowWords \in RowSet
<1>1. Rows \in Nat \ {0} /\ RowWords \in Nat \ {0}
  BY MatAssumption
<1> DEFINE q == i \div RowWords
           z == i % RowWords
<1>2. i \in Nat /\ i < Rows * RowWords
  <2>1. Rows * RowWords \in Nat
    BY <1>1
  <2> QED BY <2>1 DEF OutWords
<1>3. q \in Nat /\ z \in Nat /\ i = RowWords * q + z
  BY <1>1, <1>2
<1> HIDE DEF q, z
<1>4. q < Rows
  <2> SUFFICES ASSUME Rows <= q PROVE FALSE
    BY <1>1, <1>3
  <2>1. Rows * RowWords <= q * RowWords /\ q * RowWords \in Nat /\ Rows * RowWords \in Nat
    BY <1>1, <1>3, TimesLe
  <2>2. RowWords * q = q * RowWords
    BY <1>1, <1>3
  <2> DEFINE x == Rows * RowWords
             y == q * RowWords
  <2>3. x <= y /\ x \in Nat /\ y \in Nat /\ i < x /\ i = y + z
    BY <1>2, <1>3, <2>1, <2>2
  <2> HIDE DEF x, y
  <2> QED BY <1>2, <1>3, <2>3
<1> QED BY <1>1, <1>3, <1>4 DEF q, RowSet

LEMMA PipeStay ==
    ASSUME NEW m, NEW ar, NEW r, NEW aw, NEW w, NEW b, Edge(m, ar, r, aw, w, b), KickInv,
           ModeInv, LoadInv, OperInv, AccInv, PipeInv, job.busy, ml_st \in RscWaits,
           job' = job, ~mlmat'.go, MatKept
    PROVE  PipePart'
<1>1. /\ PipePart /\ cfg' = cfg /\ 0 \in Banks /\ Tile \in Nat /\ cfg \in CfgType
      /\ MatClk(FALSE, MatGoWire, mlmat, Ports)
      /\ kicked \in 1 .. Len(Jobs) /\ cfg = Jobs[kicked]
      /\ Sums(Depth(cfg)) /\ DOMAIN tcm = 0 .. TcmWords - 1
  BY AccFacts DEF AccInv, PipeInv, ModeInv
<1>2. /\ Tile' = Tile /\ ParamAt' = ParamAt /\ OutPtr(cfg)' = OutPtr(cfg) /\ Params' = Params
  BY <1>1, SameJob DEF OutPtr, MatOut, TightB, Win, Params
<1>3. ml_st \in StripLive \cup LegacyStates /\ ml_st \notin LoadWaits
      /\ ml_st # "STRIP_DRAIN_ERR"
  BY DEF RscWaits, StripLive, StripStates, LegacyStates, LoadWaits
<1>4. /\ OutPtr(cfg) \in Nat /\ OutWords \in Nat \ {0}
      /\ mlmat.op = "RESCALE_PC" /\ mlmat.param = ParamAt /\ mlmat.out = OutPtr(cfg)
  BY <1>1, OutPlace DEF PipePart
<1>5. mlmat'.op = "RESCALE_PC" /\ mlmat'.param = ParamAt' /\ mlmat'.out = OutPtr(cfg)'
  BY <1>2, <1>4 DEF MatKept
<1>6. tcm' = IF t_we THEN [tcm EXCEPT ![t_waddr] = t_wdata] ELSE tcm
  BY <1>3, TcmFrame
<1> DEFINE HeldNext(n) == \A v \in 0 .. n - 1 : tcm'[OutPtr(cfg) + v] = Result(cfg, Tile, v)
<1>7. t_we => ml_st \in RscWaits /\ mat_st \in {"RSC", "FIN"}
  BY <1>3, PortRange
<1>8. CASE mat_st = "IDLE" /\ ~mlmat.go
  <2>1. mat_st' = "IDLE" /\ mat_err' = mat_err /\ ~t_we
    BY <1>7, <1>8, QuietMat
  <2>2. tcm' = tcm
    BY <1>6, <2>1
  <2>3. ~mat_err => Held(cfg, Tile, OutWords)'
    BY <1>1, <1>2, <1>8, <2>2 DEF PipePart, Held
  <2> QED BY <1>5, <2>1, <2>3 DEF PipePart
<1>9. CASE mlmat.go
  <2>1. /\ mat_st' = "PRM" /\ rep_i' = 0 /\ el_iss' = 0 /\ ~rq_v'
        /\ cmd_q'.bank = 0 /\ cmd_q'.a = mlmat.param
    BY <1>4, <1>9, PulseTaken DEF Start
  <2> QED BY <1>2, <1>4, <1>5, <2>1 DEF PipePart
<1>10. CASE mat_st = "PRM"
  <2>1. cmd_q.bank = 0 /\ cmd_q.a = ParamAt /\ rep_i = 0 /\ el_iss = 0 /\ ~rq_v
    BY <1>1, <1>10 DEF PipePart
  <2>2. MatPrm(Ports)
    BY <1>1, <1>10, MatCases DEF MatGo, MatIdle, MatRun, MatLa, MatLv, MatPrs, MatRsc, MatFin
  <2>3. Ports.a = Window(ParamAt, 0)
    BY <1>10, <2>1 DEF Ports, AReads
  <2>4. Window(ParamAt, 0) = Param(cfg, Tile)
    <3>1. CASE cfg.strip
      BY <3>1, <1>1, StagedWindows
    <3>2. CASE ~cfg.strip
      <4>1. ml_st = "RSC_W" /\ (cfg.tight => cfg.stationary)
        BY <3>2, <1>3, AccFacts DEF RscWaits, LegacyStates
      <4>2. Loaded(FoldPtr, BlobBase + job.tile * JobStride, LoadLen)
        BY <1>10, <4>1 DEF OperInv, LegacyStates
      <4>3. Tile = job.tile /\ ParamAt = Ptr("tcm", ParamPtr)
        BY <3>2 DEF Tile, ParamAt
      <4> QED BY <1>1, <3>2, <4>1, <4>2, <4>3, LegacyWindows
    <3> QED BY <3>1, <3>2
  <2>5. par' = Params'
    BY <1>2, <2>2, <2>3, <2>4 DEF MatPrm, Params
  <2>6. mat_st' = "PRS" /\ cmd_q' = cmd_q /\ el_iss' = el_iss /\ rq_v' = rq_v
    BY <2>2 DEF MatPrm, mpipe
  <2> QED BY <1>5, <2>1, <2>5, <2>6 DEF PipePart
<1>11. CASE mat_st = "PRS"
  <2>1. cmd_q.bank = 0 /\ el_iss = 0 /\ ~rq_v /\ par = Params
    BY <1>1, <1>11 DEF PipePart
  <2>2. MatPrs
    BY <1>1, <1>11, MatCases DEF MatGo, MatIdle, MatRun, MatLa, MatLv, MatPrm, MatRsc, MatFin
  <2>3. /\ \/ mat_st' = "IDLE" /\ mat_err'
           \/ mat_st' = "RSC"
        /\ cmd_q' = cmd_q /\ el_iss' = el_iss /\ rq_v' = rq_v /\ par' = par /\ ~t_we'
    BY <2>2 DEF MatPrs, mpipe
  <2> QED BY <1>2, <1>5, <2>1, <2>3 DEF PipePart
<1>12. ASSUME mat_st = "RSC"
       PROVE  /\ mat_st' = IF rq_v /\ el_pack = OutWords - 1 THEN "FIN" ELSE "RSC"
              /\ cmd_q'.bank = 0 /\ par' = Params' /\ rq_v' /\ el_pack' = el_iss
              /\ el_iss' = (IF el_iss = OutWords - 1 THEN el_iss ELSE el_iss + 1)
              /\ t_we' = rq_v
              /\ rq_v => t_waddr' = OutPtr(cfg) + el_pack /\ t_wdata' = <<"out", el_pack, rq>>
              /\ el_iss \in 0 .. OutWords - 1 => rq' = <<Row(cfg, Tile), Params>>
  <2>1. cmd_q.bank = 0 /\ par = Params
    BY <1>1, <1>12 DEF PipePart
  <2>2. MatRsc(mlmat)
    BY <1>1, <1>12, MatCases DEF MatGo, MatIdle, MatRun, MatLa, MatLv, MatPrm, MatPrs, MatFin
  <2>3. par # <<"wire">>
    <3>1. Len(<<"blob", Param(cfg, Tile)>>) = 2 /\ Len(<<"wire">>) = 1
      OBVIOUS
    <3> QED BY <2>1, <3>1 DEF Params
  <2>4. el_iss \in 0 .. OutWords - 1 => rq' = <<Row(cfg, Tile), Params>>
    <3>1. el_iss \in 0 .. OutWords - 1 =>
              acc[0][el_iss \div RowWords] = RowUpTo(cfg, Tile, Depth(cfg))
      BY <1>1, RowOf DEF Sums
    <3>2. Depth(cfg) \in Nat
      <4>1. /\ cfg.ktail \in Nat /\ cfg.kchunks \in Nat /\ Reps \in Nat
            /\ cfg.strip => ~StripKickIllegal
        BY <1>1, <1>3, AccFacts, MlAssumption DEF CfgType, LegacyStates
      <4>2. cfg.strip => cfg.kchunks # 0
        BY <4>1 DEF StripKickIllegal
      <4>3. cfg.strip => (cfg.kchunks - 1) * Reps \in Nat
        <5>1. cfg.strip => cfg.kchunks - 1 \in Nat
          BY <4>1, <4>2
        <5> QED BY <4>1, <5>1
      <4> QED BY <4>1, <4>3 DEF Depth
    <3>3. RowUpTo(cfg, Tile, Depth(cfg)) = Row(cfg, Tile)
      BY <3>2, RowIsUpTo
    <3> QED BY <2>1, <2>2, <2>3, <3>1, <3>3 DEF MatRsc
  <2>5. /\ mat_st' = IF rq_v /\ el_pack = OutWords - 1 THEN "FIN" ELSE "RSC"
        /\ cmd_q' = cmd_q /\ par' = par /\ rq_v' /\ el_pack' = el_iss
        /\ el_iss' = (IF el_iss = OutWords - 1 THEN el_iss ELSE el_iss + 1)
        /\ t_we' = rq_v
        /\ rq_v => t_waddr' = mlmat.out + el_pack /\ t_wdata' = <<"out", el_pack, rq>>
    BY <2>2 DEF MatRsc
  <2> QED BY <1>2, <1>4, <2>1, <2>4, <2>5
<1>13. CASE mat_st = "RSC" /\ ~rq_v
  <2>1. el_iss = 0
    BY <1>1, <1>13 DEF PipePart
  <2>2. /\ mat_st' = "RSC" /\ cmd_q'.bank = 0 /\ par' = Params' /\ rq_v' /\ el_pack' = 0
        /\ el_iss' = (IF OutWords - 1 = 0 THEN 0 ELSE 1) /\ ~t_we'
        /\ rq' = <<Row(cfg, Tile), Params>>
    BY <1>4, <1>12, <1>13, <2>1
  <2>3. el_pack' \in 0 .. OutWords - 1
    BY <1>4, <2>2
  <2> QED BY <1>1, <1>2, <1>5, <2>2, <2>3 DEF PipePart
<1>14. CASE mat_st = "RSC" /\ rq_v
  <2>1. /\ el_pack \in 0 .. OutWords - 1
        /\ el_iss = IF el_pack = OutWords - 1 THEN el_pack ELSE el_pack + 1
        /\ rq = <<Row(cfg, Tile), Params>>
        /\ el_pack = 0 => ~t_we
        /\ el_pack > 0 => OutReg(el_pack - 1) /\ Held(cfg, Tile, el_pack - 1)
    BY <1>1, <1>14 DEF PipePart
  <2>2. el_iss \in 0 .. OutWords - 1
    BY <1>4, <2>1
  <2>3. /\ cmd_q'.bank = 0 /\ par' = Params' /\ rq_v' /\ el_pack' = el_iss
        /\ el_iss' = (IF el_iss = OutWords - 1 THEN el_iss ELSE el_iss + 1)
        /\ t_we' /\ t_waddr' = OutPtr(cfg) + el_pack /\ t_wdata' = <<"out", el_pack, rq>>
        /\ rq' = <<Row(cfg, Tile), Params>>
        /\ mat_st' = IF el_pack = OutWords - 1 THEN "FIN" ELSE "RSC"
    BY <1>12, <1>14, <2>2
  <2>4. t_wdata' = Result(cfg, Tile, el_pack)
    BY <2>1, <2>3 DEF Result, Params
  <2>5. HeldNext(el_pack)
    <3>1. CASE el_pack = 0
      BY <3>1
    <3>2. CASE el_pack > 0
      <4> DEFINE p == el_pack - 1
      <4>1. p \in 0 .. OutWords - 1 /\ OutReg(p) /\ Held(cfg, Tile, p)
        BY <1>4, <2>1, <3>2
      <4>2. tcm' = [tcm EXCEPT ![t_waddr] = t_wdata]
        BY <1>6, <4>1 DEF OutReg
      <4>3. \A v \in 0 .. p : tcm'[OutPtr(cfg) + v] = Result(cfg, Tile, v)
        BY <1>1, <4>1, <4>2, HeldGrows
      <4> QED BY <4>3
    <3> QED BY <2>1, <3>1, <3>2
  <2>6. CASE el_pack = OutWords - 1
    <3>1. mat_st' = "FIN" /\ t_waddr' = OutPtr(cfg) + (OutWords - 1)
          /\ t_wdata' = Result(cfg, Tile, OutWords - 1) /\ HeldNext(OutWords - 1)
      BY <2>3, <2>4, <2>5, <2>6
    <3>2. OutReg(OutWords - 1)' /\ Held(cfg, Tile, OutWords - 1)'
      BY <1>1, <1>2, <2>3, <3>1 DEF OutReg, Held
    <3> QED BY <1>5, <2>3, <3>1, <3>2 DEF PipePart
  <2>7. CASE el_pack # OutWords - 1
    <3>1. /\ mat_st' = "RSC" /\ el_pack' = el_pack + 1 /\ el_pack' \in 0 .. OutWords - 1
          /\ el_pack' > 0 /\ el_pack' - 1 = el_pack
          /\ el_iss' = (IF el_pack' = OutWords - 1 THEN el_pack' ELSE el_pack' + 1)
      BY <1>4, <2>1, <2>3, <2>7
    <3>2. OutReg(el_pack - 1)' /\ Held(cfg, Tile, el_pack - 1)'
      <4>1. t_waddr' = OutPtr(cfg) + (el_pack' - 1) /\ t_wdata' = Result(cfg, Tile, el_pack' - 1)
            /\ HeldNext(el_pack' - 1)
        BY <2>3, <2>4, <2>5, <3>1
      <4> QED BY <1>1, <1>2, <2>3, <4>1 DEF OutReg, Held
    <3> QED BY <1>1, <1>2, <1>5, <2>3, <3>1, <3>2 DEF PipePart
  <2> QED BY <2>6, <2>7
<1>15. CASE mat_st = "FIN"
  <2>1. OutReg(OutWords - 1) /\ Held(cfg, Tile, OutWords - 1) /\ OutWords - 1 \in 0 .. OutWords - 1
    BY <1>1, <1>4, <1>15 DEF PipePart
  <2>2. MatFin
    BY <1>1, <1>15, MatCases DEF MatGo, MatIdle, MatRun, MatLa, MatLv, MatPrm, MatPrs, MatRsc
  <2>3. mat_st' = "IDLE"
    BY <2>2 DEF MatFin
  <2>4. tcm' = [tcm EXCEPT ![t_waddr] = t_wdata]
    BY <1>6, <2>1 DEF OutReg
  <2>5. HeldNext(OutWords)
    BY <1>1, <2>1, <2>4, HeldGrows
  <2>6. Held(cfg, Tile, OutWords)'
    BY <1>1, <1>2, <2>5 DEF Held
  <2> QED BY <1>5, <2>3, <2>6 DEF PipePart
<1> QED BY <1>1, <1>8, <1>9, <1>10, <1>11, <1>13, <1>14, <1>15 DEF PipePart

LEMMA PipeStep ==
    ASSUME NEW m, NEW ar, NEW r, NEW aw, NEW w, NEW b, Edge(m, ar, r, aw, w, b), KickInv,
           ModeInv, LoadInv, OperInv, AccInv, PipeInv
    PROVE  PipeInv'
<1>1. CASE ml_st' \notin RscWaits
  BY <1>1 DEF PipeInv
<1>2. ASSUME ml_st' \in RscWaits, Goes, job.busy, cfg' = cfg PROVE PipeInv'
  <2>1. Kept /\ PulseInv' /\ cfg \in CfgType /\ job \in JobType
    BY <1>2, AccFacts, EngineFacts, SeqStep
  <2>2. CASE StayMove
    <3>1. ml_st' = ml_st /\ job' = job /\ ~mlmat'.go /\ MatKept
      BY <2>1, <2>2 DEF StayMove, Mute, Kept
    <3>2. PipePart'
      BY <1>2, <3>1, PipeStay
    <3> QED BY <3>2 DEF PipeInv
  <2>3. CASE ~StayMove
    <3>1. RscIssued(ParamAt', OutPtr(cfg)')
      <4>1. CASE ml_st = "STRIP_RSC"
        <5>1. job' = job /\ RscIssued(Ptr("param", GlobalSub), MatOut)
          BY <1>2, <2>3, <4>1 DEF Goes, StripMove, LegacyMove, Pass, RscWaits
        <5>2. cfg.strip
          BY <1>2, <4>1, AccFacts DEF StripLive, StripStates
        <5>3. ParamAt = Ptr("param", GlobalSub) /\ OutPtr(cfg') = MatOut
          BY <1>2, <5>2 DEF ParamAt, Tile, OutPtr
        <5> QED BY <1>2, <5>1, <5>3, SameJob
      <4>2. CASE ml_st = "RSC"
        <5>1. job' = job /\ RscIssued(Ptr("tcm", ParamPtr), LegacyOut)
          BY <1>2, <2>3, <4>2 DEF Goes, StripMove, LegacyMove, Pass, RscWaits
        <5>2. ~cfg.strip
          BY <1>2, <4>2, AccFacts DEF LegacyStates
        <5>3. ParamAt = Ptr("tcm", ParamPtr) /\ OutPtr(cfg') = LegacyOut
          BY <1>2, <5>2 DEF ParamAt, OutPtr, LegacyOut
        <5> QED BY <1>2, <5>1, <5>3, SameJob
      <4> QED BY <1>2, <2>3, <4>1, <4>2 DEF Goes, StripMove, LegacyMove, Pass, RscWaits
    <3>2. mlmat'.go /\ mat_st' = "IDLE"
      BY <2>1, <3>1 DEF RscIssued, PulseInv
    <3>3. PipePart'
      BY <3>1, <3>2 DEF RscIssued, PipePart
    <3> QED BY <3>3 DEF PipeInv
  <2> QED BY <2>2, <2>3
<1>3. EndMove \/ StartMove => ml_st' \notin RscWaits
  BY DEF EndMove, StartMove, RscWaits
<1> QED BY <1>1, <1>2, <1>3, Ways

-----------------------------------------------------------------------------
(* The stores.                                                              *)

\* While a store runs nothing it depends on moves.
LEMMA StoreQuiet ==
    ASSUME NEW m, NEW ar, NEW r, NEW aw, NEW w, NEW b, Edge(m, ar, r, aw, w, b), KickInv,
           ModeInv, WritePart, dma_st \in {"AW", "W", "B"}
    PROVE  /\ ~mlwb'.go /\ StoreKept /\ mat_st' = "IDLE" /\ ~mlmat'.go
           /\ kicked' = kicked /\ tcm' = tcm /\ dma_st' \in {"AW", "W", "B", "DONE"}
           /\ kicked \in 1 .. Len(Jobs)
           /\ mlwb.src \in Nat /\ mlwb.dst \in Nat /\ StoreLen \in Nat
           /\ ml_st \in StoreWaits \cup {"IDLE", "STRIP_DRAIN_ERR"}
<1>1. /\ Types /\ TurnInv /\ EngineInv /\ FirmwareInv /\ PulseInv' /\ Types'
  BY EngineFacts
<1>2. /\ ~narrow_l /\ mat_st = "IDLE" /\ ~mlmat.go /\ kicked # 0
  BY DEF WritePart
<1>3. /\ MatClk(FALSE, MatGoWire, mlmat, Ports)
      /\ DmaClk(FALSE, DmaStart, Wires, mlstrip.start, StripWires, ar, r, aw, w, b)
  BY DEF Edge
<1>4. dma_st' \in {"AW", "W", "B", "DONE"}
  BY <1>3, DmaCases DEF DmaIdleGo, DmaIdleStrip, DmaIdleStay, DmaAr, DmaR, DmaRWait, DmaAw,
                        DmaW, DmaB, DmaBWait, DmaDone, DmaStripAr, DmaStripR, DmaStripRWait,
                        DmaStripDone
<1>5. ~mlwb'.go /\ StoreKept
  <2>1. ~mlwb'.go
    BY <1>1, <1>4 DEF PulseInv
  <2> QED BY <2>1, SeqStep DEF Kept
<1>6. mat_st' = "IDLE"
  <2>1. ~MatGoWire
    BY <1>1, <1>2 DEF MatGoWire, FirmwareInv
  <2>2. MatIdle(MatGoWire)
    BY <1>2, <1>3, <2>1, MatCases
       DEF MatGo, MatRun, MatLa, MatLv, MatPrm, MatPrs, MatRsc, MatFin
  <2> QED BY <1>2, <2>2 DEF MatIdle
<1>7. ml_st \in StoreWaits \cup {"IDLE", "STRIP_DRAIN_ERR"}
  <2>1. mode_write /\ fw \in {"poll", "jpoll", "mode_err", "cause", "halt"}
    BY DEF ModeInv
  <2>2. dma_st \in XferStates
    BY DEF XferStates
  <2>3. fw = "halt" \/ job.err => ~job.busy
    BY <1>1 DEF TurnInv
  <2>4. fw = "halt" \/ ml_st \in StoreWaits \/ ml_st = "STRIP_DRAIN_ERR" \/ job.err
    BY <1>1, <2>1, <2>2 DEF EngineInv
  <2> QED BY <1>1, <2>3, <2>4 DEF TurnInv
<1>8. ~mlmat'.go
  BY <1>7, SeqStep DEF Issues, MatIssues, StoreWaits
<1>9. kicked' = kicked
  <2>1. fw \notin {"go", "jgo"}
    BY DEF ModeInv
  <2> QED BY <2>1, Kicking
<1>10. tcm' = tcm
  BY <1>2, TcmKept
<1>11. kicked \in 1 .. Len(Jobs)
  <2>1. kicked \in 0 .. Len(Jobs) /\ Len(Jobs) \in Nat
    BY <1>1, StripAssumption DEF Types, TopTypes
  <2> QED BY <1>2, <2>1
<1>12. mlwb.src \in Nat /\ mlwb.dst \in Nat /\ StoreLen \in Nat
  BY <1>1, MlAssumption DEF Types, MlTypes, MlOutTypes, GoType
<1> QED BY <1>4, <1>5, <1>6, <1>7, <1>8, <1>9, <1>10, <1>11, <1>12

\* The tile at work is one of the job's.
LEMMA TileOfJob ==
    ASSUME NEW m, NEW ar, NEW r, NEW aw, NEW w, NEW b, Edge(m, ar, r, aw, w, b), job.busy,
           KickInv, LoopInv, ml_st \in TilePart \cup {"STRIP_ADV"} \cup LegacyStates
    PROVE  Tile \in Tiles(cfg)
<1>1. /\ cfg \in CfgType /\ job \in JobType /\ Tile \in Nat
      /\ ml_st \in StripLive => cfg.strip /\ ~StripKickIllegal
      /\ ml_st \in LegacyStates => ~cfg.strip
  BY AccFacts
<1>2. SubTiles \in Nat \ {0}
  BY MlAssumption
<1>3. /\ job.strip \in Nat /\ job.sub \in 0 .. SubTiles - 1 /\ job.tile \in Nat
      /\ cfg.nstrips \in Nat /\ cfg.ntail \in Nat /\ cfg.ntiles \in Nat
  BY <1>1 DEF JobType, CfgType
<1>4. CASE ml_st \in LegacyStates
  BY <1>1, <1>3, <1>4 DEF LoopInv, Tiles, Tile
<1>5. CASE ml_st \in TilePart \cup {"STRIP_ADV"}
  <2>1. cfg.strip /\ cfg.ntail # 0
    BY <1>1, <1>5, StateNames DEF StripKickIllegal, StripLive, StripStates
  <2>2. /\ job.strip < cfg.nstrips /\ (StripLast => job.sub < cfg.ntail)
    BY <1>5, StateNames DEF LoopInv
  <2>3. Tile = job.strip * SubTiles + job.sub
    BY <2>1 DEF Tile, GlobalSub
  <2> DEFINE x == job.strip * SubTiles
             y == (cfg.nstrips - 1) * SubTiles
             z == (job.strip + 1) * SubTiles
  <2>4. x \in Nat /\ y \in Nat /\ z = x + SubTiles
    <3>1. cfg.nstrips - 1 \in Nat
      BY <1>3, <2>2
    <3> QED BY <3>1, <1>2, <1>3
  <2>5. ~StripLast => z <= y
    <3>1. ~StripLast => job.strip + 1 <= cfg.nstrips - 1 /\ cfg.nstrips - 1 \in Nat
      BY <1>3, <2>2 DEF StripLast
    <3> QED BY <3>1, <1>2, <1>3, TimesLe
  <2>6. StripLast => x = y
    BY <1>3, <2>2 DEF StripLast
  <2>7. Tiles(cfg) = 0 .. y + cfg.ntail - 1
    BY <2>1 DEF Tiles
  <2> HIDE DEF x, y, z
  <2>8. x + job.sub \in 0 .. y + cfg.ntail - 1
    <3>1. CASE StripLast
      BY <3>1, <1>2, <1>3, <2>2, <2>4, <2>6
    <3>2. CASE ~StripLast
      BY <3>2, <1>2, <1>3, <2>1, <2>4, <2>5
    <3> QED BY <3>1, <3>2
  <2> QED BY <2>3, <2>7, <2>8 DEF x
<1> QED BY <1>4, <1>5

\* Destinations of the stores are addresses of words.
LEMMA StorePlace ==
    ASSUME NEW m, NEW ar, NEW r, NEW aw, NEW w, NEW b, Edge(m, ar, r, aw, w, b), KickInv,
           LoopInv, StoreInv, ml_st \in StoreWaits
    PROVE  /\ job.busy /\ cfg' = cfg /\ kicked' = kicked /\ kicked \in 1 .. Len(Jobs)
           /\ cfg = Jobs[kicked] /\ Tile \in Tiles(cfg) /\ Tile \in Nat
           /\ StoreCmd(cfg, Tile) /\ mlwb.dst % 4 = 0
           /\ mlwb.src \in Nat /\ mlwb.dst \in Nat /\ StoreLen \in Nat
           /\ mat_st = "IDLE" /\ ~mlmat.go
<1>1. Types /\ TurnInv /\ EngineInv /\ PulseInv
  BY EngineFacts
<1>2. job.busy
  BY <1>1 DEF TurnInv, StoreWaits
<1>3. /\ kicked \in 1 .. Len(Jobs) /\ cfg = Jobs[kicked] /\ cfg' = cfg /\ kicked' = kicked
      /\ Tile \in Nat
  BY <1>2, Programmed, AccFacts
<1>4. Tile \in Tiles(cfg)
  BY <1>2, TileOfJob, StateNames DEF StoreWaits, LegacyStates
<1>5. StoreCmd(cfg, Tile)
  BY DEF StoreInv
<1>6. mlwb.src \in Nat /\ mlwb.dst \in Nat /\ StoreLen \in Nat /\ cfg \in CfgType
  BY <1>1, MlAssumption DEF Types, MlTypes, MlOutTypes, GoType
<1>7. mlwb.dst % 4 = 0
  <2>1. /\ DstBase % 4 = 0 /\ DstStride % 4 = 0 /\ DstBase \in Nat /\ DstStride \in Nat
        /\ cfg.strip => cfg.outbase % 4 = 0
    BY <1>3, JobsAssumption, MlAssumption
  <2>2. cfg.outbase \in Nat
    BY <1>6 DEF CfgType
  <2>3. (Tile * DstStride) % 4 = 0 /\ Tile * DstStride \in Nat
    <3>1. PICK q \in Nat : DstStride = 4 * q
      BY <2>1
    <3>2. Tile * DstStride = 4 * (Tile * q) /\ Tile * q \in Nat
      BY <3>1, <1>3
    <3> QED BY <3>2
  <2>4. DstOf(cfg, Tile) % 4 = 0
    <3> DEFINE x == Tile * DstStride
               y == IF cfg.strip THEN cfg.outbase ELSE DstBase
    <3>1. x \in Nat /\ x % 4 = 0 /\ y \in Nat /\ y % 4 = 0 /\ DstOf(cfg, Tile) = y + x
      BY <2>1, <2>2, <2>3 DEF DstOf
    <3> HIDE DEF x, y
    <3> QED BY <3>1
  <2> QED BY <1>5, <2>4 DEF StoreCmd
<1>8. mat_st = "IDLE" /\ ~mlmat.go
  BY <1>1, <1>2 DEF EngineInv, TurnInv, PulseInv, StoreWaits, MatWaits
<1> QED BY <1>2, <1>3, <1>4, <1>5, <1>6, <1>7, <1>8

\* A beat of a store that the slave takes.
LEMMA WriteRoom ==
    ASSUME NEW m, NEW ar, NEW r, NEW aw, NEW w, NEW b, Edge(m, ar, r, aw, w, b), KickInv,
           ModeInv, WritePart, dma_st = "W"
    PROVE  /\ Step = WPB /\ WPB \in {1, 2, 4, 8} /\ StoreOff \in Nat
           /\ wleft \in Nat \ {0} /\ wleft = beats_in_burst - beats_done
           /\ beats_in_burst \in Nat /\ beats_done \in Nat
           /\ WordsInBurst \in Nat /\ remaining \in Nat /\ WordsInBurst <= remaining
           /\ Step * wleft \in Nat /\ StoreOff + Step <= StoreLen
           /\ Step * (wleft - 1) \in Nat /\ Step * wleft = Step * (wleft - 1) + Step
           /\ StoreOff + Step + Step * (wleft - 1) + (remaining - WordsInBurst) = StoreLen
           /\ wleft = 1 <=> FinalWBeat
           /\ wleft = 1 => StoreOff + Step + (remaining - WordsInBurst) = StoreLen
<1>1. /\ Types /\ Wire
  BY EngineFacts
<1>2. /\ ~narrow_l /\ buf_raddr \in Nat /\ StoreOff >= 0
      /\ StoreOff + Step * wleft + (remaining - WordsInBurst) = StoreLen
  BY DEF WritePart
<1>3. mlwb.src \in Nat /\ StoreLen \in Nat
  BY StoreQuiet
<1>4. StoreOff \in Nat
  BY <1>2, <1>3 DEF StoreOff
<1>5. Step = WPB /\ WPB \in {1, 2, 4, 8}
  BY <1>2, StepValue DEF Step
<1>6. /\ wleft \in Nat \ {0} /\ wleft = beats_in_burst - beats_done
      /\ beats_in_burst \in Nat /\ beats_done \in Nat /\ remaining \in Nat
      /\ WordsInBurst <= remaining
  BY <1>1 DEF Types, DmaTypes, MoveTypes, SlaveTypes, Wire, Bursts, Sized
<1>7. WordsInBurst \in Nat
  BY <1>5, <1>6 DEF WordsInBurst
<1>8. /\ Step * wleft \in Nat /\ Step * (wleft - 1) \in Nat
      /\ Step * wleft = Step * (wleft - 1) + Step
  BY <1>5, <1>6
<1>9. wleft = 1 => Step * (wleft - 1) = 0
  BY <1>5
<1>10. wleft = 1 <=> FinalWBeat
  BY <1>6 DEF FinalWBeat
<1> DEFINE x == Step * wleft
           y == Step * (wleft - 1)
<1>11. /\ x \in Nat /\ y \in Nat /\ x = y + Step
       /\ StoreOff + x + (remaining - WordsInBurst) = StoreLen
       /\ wleft = 1 => y = 0
  BY <1>2, <1>8, <1>9
<1> HIDE DEF x, y
<1>12. /\ StoreOff + Step <= StoreLen
       /\ StoreOff + Step + y + (remaining - WordsInBurst) = StoreLen
       /\ wleft = 1 => StoreOff + Step + (remaining - WordsInBurst) = StoreLen
  <2>1. Step \in Nat
    BY <1>5
  <2> QED BY <1>3, <1>4, <1>6, <1>7, <1>11, <2>1
<1> QED BY <1>4, <1>5, <1>6, <1>7, <1>8, <1>10, <1>12 DEF y

\* The store chain, from its start to its last answer.
LEMMA WriteStep ==
    ASSUME NEW m, NEW ar, NEW r, NEW aw, NEW w, NEW b, Edge(m, ar, r, aw, w, b), KickInv,
           LoopInv, ModeInv, StoreInv
    PROVE  WritePart'
<1>1. /\ Types /\ Wire /\ FirmwareInv /\ PulseInv' /\ Answers(ar, r, aw, w, b) /\ WritePart
      /\ wleft' = (IF awvalid /\ aw THEN awbeats
                   ELSE IF wvalid /\ w THEN wleft - 1 ELSE wleft)
  BY EngineFacts DEF StoreInv
<1>2. /\ DmaClk(FALSE, DmaStart, Wires, mlstrip.start, StripWires, ar, r, aw, w, b)
      /\ waddr' = IF awvalid /\ aw THEN awaddr
                  ELSE IF wvalid /\ w THEN waddr + 4 * Step ELSE waddr
  BY DEF Edge, SlaveClk, AwFire, WFire
<1>3. /\ cur_addr \in Nat /\ remaining \in Nat /\ narrow_l \in BOOLEAN /\ wleft \in Nat
      /\ beats_in_burst \in Nat /\ awvalid \in BOOLEAN /\ wvalid \in BOOLEAN
      /\ b.valid \in BOOLEAN /\ b.err \in BOOLEAN /\ DmaTypes
  BY <1>1 DEF Types, DmaTypes, FlagTypes, MoveTypes, SlaveTypes, Answers
<1>4. (awvalid => dma_st = "AW") /\ (wvalid => dma_st = "W")
  BY <1>1 DEF Wire, Handshake
<1> DEFINE off == StoreOff
           noff == buf_raddr' - mlwb.src
           CmdNext == (\E g \in Tiles(Jobs[kicked]) : StoreCmd(Jobs[kicked], g))'
           Going == /\ ~narrow_l' /\ mat_st' = "IDLE" /\ ~mlmat'.go /\ kicked' # 0
                    /\ CmdNext /\ StoreKept
                    /\ buf_raddr' \in Nat /\ noff >= 0 /\ noff % WPB = 0
                    /\ cur_addr' = mlwb.dst + 4 * (StoreLen - remaining')
           InAw == /\ noff + remaining' = StoreLen
                   /\ awvalid' => awaddr' = cur_addr'
           InW == /\ waddr' = mlwb.dst + 4 * noff
                  /\ noff + Step' * wleft' + (remaining' - WordsInBurst') = StoreLen
           InB == noff + (remaining' - WordsInBurst') = StoreLen
<1>5. \/ dma_st' \notin {"AW", "W", "B"}
      \/ Going /\ dma_st' = "AW" /\ InAw
      \/ Going /\ dma_st' = "W" /\ InW
      \/ Going /\ dma_st' = "B" /\ InB
      => WritePart'
  BY DEF WritePart, StoreKept, StoreOff
<1>6. ASSUME NEW g \in Tiles(Jobs[kicked]), StoreCmd(Jobs[kicked], g), tcm' = tcm, StoreKept,
             kicked' = kicked
      PROVE  CmdNext
  <2>1. StoreCmd(Jobs[kicked], g)'
    BY <1>6 DEF StoreCmd, Held, StoreKept
  <2>2. g \in Tiles(Jobs[kicked])'
    BY <1>6
  <2> QED BY <2>1, <2>2
<1>7. CASE DmaIdleGo(FALSE, DmaStart, Wires)
  <2>1. CASE dma_st' # "AW"
    <3>1. dma_st' \notin {"AW", "W", "B"}
      BY <1>7, <2>1, Started
    <3> QED BY <1>5, <3>1
  <2>2. CASE dma_st' = "AW"
    <3>1. mlwb.go /\ StartWrite /\ MlActive /\ ml_st \in StoreWaits /\ dma_st = "IDLE"
      BY <1>7, <2>2, Started
    <3>2. /\ job.busy /\ kicked' = kicked /\ kicked \in 1 .. Len(Jobs)
          /\ cfg = Jobs[kicked] /\ Tile \in Tiles(cfg)
          /\ StoreCmd(cfg, Tile) /\ mlwb.dst % 4 = 0
          /\ mlwb.src \in Nat /\ mlwb.dst \in Nat /\ StoreLen \in Nat
          /\ mat_st = "IDLE" /\ ~mlmat.go
      BY <3>1, StorePlace
    <3>3. ~mlwb'.go /\ StoreKept
      <4>1. ~mlwb'.go
        BY <1>1, <2>2 DEF PulseInv
      <4> QED BY <4>1, SeqStep DEF Kept
    <3>4. mat_st' = "IDLE" /\ tcm' = tcm
      BY <3>1, <3>2, QuietMat, TcmKept
    <3>5. ~mlmat'.go
      BY <3>1, SeqStep DEF Issues, MatIssues, StoreWaits
    <3>6. /\ Wires.src = mlwb.dst /\ Wires.word = mlwb.src /\ Wires.len = mlwb.len
          /\ Wires.narrow = FALSE
      BY <3>1 DEF Wires
    <3>7. (mlwb.dst \div 4) * 4 = mlwb.dst
      BY <3>2
    <3>8. /\ cur_addr' = mlwb.dst /\ remaining' = StoreLen /\ buf_raddr' = mlwb.src
          /\ narrow_l' = FALSE /\ awvalid' = awvalid
      BY <1>7, <3>2, <3>6, <3>7 DEF DmaIdleGo, wchans, StoreCmd
    <3>9. CmdNext
      BY <1>6, <3>2, <3>3, <3>4
    <3>10. noff = 0 /\ ~awvalid'
      BY <1>4, <3>1, <3>2, <3>8
    <3>11. WPB \in {1, 2, 4, 8}
      BY ParamsAssumption
    <3> HIDE DEF CmdNext, noff
    <3>14. noff >= 0 /\ noff % WPB = 0
      BY <3>10, <3>11
    <3>15. cur_addr' = mlwb.dst + 4 * (StoreLen - remaining')
      <4>1. StoreLen - remaining' = 0
        BY <3>2, <3>8
      <4> QED BY <3>2, <3>8, <4>1
    <3>16. buf_raddr' \in Nat /\ kicked' # 0
      BY <3>2, <3>8
    <3>12. Going
      BY <3>3, <3>4, <3>5, <3>8, <3>9, <3>14, <3>15, <3>16
    <3>13. InAw
      BY <3>2, <3>8, <3>10
    <3> HIDE DEF Going, InAw
    <3> QED BY <1>5, <2>2, <3>12, <3>13
  <2> QED BY <2>1, <2>2
<1>8. ASSUME dma_st \in {"AW", "W", "B"}
      PROVE  /\ StoreKept /\ mat_st' = "IDLE" /\ ~mlmat'.go /\ kicked' = kicked /\ kicked' # 0
             /\ CmdNext /\ off \in Nat /\ off % WPB = 0 /\ WPB \in {1, 2, 4, 8} /\ ~narrow_l
             /\ Step = WPB /\ buf_raddr \in Nat
             /\ cur_addr = mlwb.dst + 4 * (StoreLen - remaining)
             /\ mlwb.src \in Nat /\ mlwb.dst \in Nat /\ StoreLen \in Nat
  <2>1. /\ StoreKept /\ mat_st' = "IDLE" /\ ~mlmat'.go /\ kicked' = kicked /\ tcm' = tcm
        /\ mlwb.src \in Nat /\ mlwb.dst \in Nat /\ StoreLen \in Nat
    BY <1>1, <1>8, StoreQuiet
  <2>2. /\ ~narrow_l /\ kicked # 0 /\ buf_raddr \in Nat /\ off >= 0 /\ off % WPB = 0
        /\ \E g \in Tiles(Jobs[kicked]) : StoreCmd(Jobs[kicked], g)
        /\ cur_addr = mlwb.dst + 4 * (StoreLen - remaining)
    BY <1>1, <1>8 DEF WritePart
  <2>3. CmdNext
    BY <1>6, <2>1, <2>2
  <2>4. off \in Nat
    BY <2>1, <2>2 DEF StoreOff
  <2>5. WPB \in {1, 2, 4, 8} /\ Step = WPB
    BY <2>2, StepValue DEF Step
  <2> QED BY <2>1, <2>2, <2>3, <2>4, <2>5
<1> HIDE DEF CmdNext
<1>9. CASE DmaAw(FALSE, aw)
  <2>1. /\ dma_st = "AW" /\ awaddr' = cur_addr /\ awbeats' = ThisBurst
        /\ beats_in_burst' = ThisBurst /\ awvalid' = ~(awvalid /\ aw)
        /\ dma_st' = IF awvalid /\ aw THEN "W" ELSE "AW"
        /\ buf_raddr' = buf_raddr /\ cur_addr' = cur_addr /\ remaining' = remaining
        /\ narrow_l' = narrow_l
    BY <1>9 DEF DmaAw, xfer
  <2>2. off + remaining = StoreLen /\ (awvalid => awaddr = cur_addr /\ awbeats = ThisBurst)
    BY <2>1, <1>1 DEF WritePart, Wire, Bursts
  <2>3. noff = off
    BY <2>1 DEF StoreOff
  <2>4. Going
    BY <1>8, <2>1, <2>3
  <2>5. Step' = Step /\ WordsInBurst' = ThisBurst * Step
    BY <2>1 DEF Step, WordsInBurst
  <2>6. ThisBurst \in Nat \ {0}
    <3>1. Aligned /\ remaining > 0
      BY <2>1, <1>1 DEF Wire, Bursts
    <3> QED BY <3>1, <1>3, BurstFits
  <2>7. CASE awvalid /\ aw
    <3>1. wleft' = ThisBurst /\ waddr' = cur_addr /\ dma_st' = "W"
      BY <2>1, <2>2, <2>7, <1>1, <1>2
    <3> DEFINE x == WordsInBurst'
               y == Step' * wleft'
    <3>2. y = x /\ x \in Nat
      BY <2>1, <2>5, <2>6, <3>1, <1>8
    <3> HIDE DEF x, y, off, noff
    <3>3. waddr' = mlwb.dst + 4 * noff
      BY <2>1, <2>2, <2>3, <3>1, <1>3, <1>8
    <3>4. noff + y + (remaining' - x) = StoreLen
      BY <2>1, <2>2, <2>3, <3>2, <1>3, <1>8
    <3>5. InW
      BY <3>3, <3>4 DEF x, y
    <3> HIDE DEF Going, InW
    <3> QED BY <1>5, <2>4, <3>1, <3>5
  <2>8. CASE ~(awvalid /\ aw)
    <3>1. InAw /\ dma_st' = "AW"
      BY <2>1, <2>2, <2>3, <2>8
    <3> HIDE DEF Going, InAw
    <3> QED BY <1>5, <2>4, <3>1
  <2> QED BY <2>7, <2>8
<1>10. CASE DmaW(w)
  <2>1. /\ dma_st = "W" /\ cur_addr' = cur_addr /\ remaining' = remaining
        /\ narrow_l' = narrow_l /\ beats_in_burst' = beats_in_burst
        /\ wvalid /\ w => /\ buf_raddr' = buf_raddr + Step
                          /\ dma_st' = IF FinalWBeat THEN "B" ELSE "W"
        /\ ~(wvalid /\ w) => dma_st' = "W" /\ buf_raddr' = buf_raddr
    BY <1>3, <1>1, <1>10 DEF DmaW, Answers
  <2>2. /\ waddr = mlwb.dst + 4 * off
        /\ off + Step * wleft + (remaining - WordsInBurst) = StoreLen
    BY <2>1, <1>1 DEF WritePart
  <2>3. ~awvalid /\ Step' = Step /\ WordsInBurst' = WordsInBurst
    BY <2>1, <1>4 DEF Step, WordsInBurst
  <2>4. CASE wvalid /\ w
    <3>1. /\ Step = WPB /\ WPB \in {1, 2, 4, 8} /\ off \in Nat
          /\ WordsInBurst \in Nat /\ WordsInBurst <= remaining
          /\ off + Step + Step * (wleft - 1) + (remaining - WordsInBurst) = StoreLen
          /\ wleft = 1 <=> FinalWBeat
          /\ wleft = 1 => off + Step + (remaining - WordsInBurst) = StoreLen
      BY <1>1, <2>1, WriteRoom
    <3>2. wleft' = wleft - 1 /\ waddr' = waddr + 4 * Step /\ noff = off + Step
      BY <1>1, <1>2, <1>8, <2>1, <2>3, <2>4 DEF StoreOff
    <3>3. noff \in Nat /\ noff % WPB = 0
      <4> HIDE DEF off, noff
      <4>1. off % WPB = 0
        BY <1>8, <2>1
      <4> QED BY <3>1, <3>2, <4>1
    <3>4. Going
      BY <1>8, <2>1, <2>4, <3>1, <3>3
    <3>5. waddr' = mlwb.dst + 4 * noff
      <4>1. mlwb.dst \in Nat
        BY <1>8, <2>1
      <4> HIDE DEF off, noff
      <4> QED BY <2>2, <3>1, <3>2, <4>1
    <3>6. InW
      <4>1. Step' * wleft' = Step * (wleft - 1)
        BY <2>3, <3>2
      <4> HIDE DEF off, noff
      <4>2. noff + Step' * wleft' + (remaining' - WordsInBurst') = StoreLen
        BY <2>1, <2>3, <3>1, <3>2, <4>1
      <4> QED BY <3>5, <4>2
    <3>7. FinalWBeat => InB
      <4> HIDE DEF off, noff
      <4> QED BY <2>1, <2>3, <3>1, <3>2
    <3> HIDE DEF Going, InW, InB
    <3> QED BY <1>5, <2>1, <2>4, <3>4, <3>6, <3>7
  <2>5. CASE ~(wvalid /\ w)
    <3>1. wleft' = wleft /\ waddr' = waddr /\ noff = off
      BY <1>1, <1>2, <2>1, <2>3, <2>5 DEF StoreOff
    <3>2. Going
      BY <1>8, <2>1, <2>5, <3>1
    <3> HIDE DEF off, noff
    <3>3. InW
      BY <2>1, <2>2, <2>3, <3>1
    <3> HIDE DEF Going, InW
    <3> QED BY <1>5, <2>1, <2>5, <3>2, <3>3
  <2> QED BY <2>4, <2>5
<1>11. CASE DmaB(FALSE, b)
  <2>1. /\ dma_st = "B" /\ narrow_l' = narrow_l /\ buf_raddr' = buf_raddr /\ awvalid' = awvalid
        /\ dma_st' \in {"DONE", "AW"}
        /\ dma_st' = "AW" => /\ remaining' = remaining - WordsInBurst
                             /\ cur_addr' = cur_addr + 4 * WordsInBurst
    BY <1>11 DEF DmaB, wchans
  <2>2. off + (remaining - WordsInBurst) = StoreLen /\ ~awvalid'
    BY <2>1, <1>1, <1>4 DEF WritePart
  <2>3. /\ WordsInBurst \in Nat /\ WordsInBurst <= remaining
    <3>1. Sized
      BY <2>1, <1>1 DEF Wire, Bursts
    <3> QED BY <3>1, <1>3, <1>8, <2>1 DEF Sized, WordsInBurst
  <2>4. noff = off
    BY <2>1 DEF StoreOff
  <2>5. CASE dma_st' = "AW"
    <3>1. cur_addr' = mlwb.dst + 4 * (StoreLen - remaining')
      BY <1>3, <1>8, <2>1, <2>3, <2>5
    <3>2. Going
      BY <1>8, <2>1, <2>4, <3>1
    <3>3. InAw
      BY <2>1, <2>2, <2>4, <2>5
    <3> HIDE DEF Going, InAw
    <3> QED BY <1>5, <2>5, <3>2, <3>3
  <2>6. CASE dma_st' = "DONE"
    BY <1>5, <2>6
  <2> QED BY <2>1, <2>5, <2>6
<1>12. CASE DmaBWait(b)
  <2>1. /\ dma_st = "B" /\ dma_st' = "B" /\ narrow_l' = narrow_l /\ buf_raddr' = buf_raddr
        /\ remaining' = remaining /\ cur_addr' = cur_addr /\ beats_in_burst' = beats_in_burst
    BY <1>12 DEF DmaBWait, xfer, beats
  <2>2. off + (remaining - WordsInBurst) = StoreLen
    BY <2>1, <1>1 DEF WritePart
  <2>3. noff = off /\ WordsInBurst' = WordsInBurst
    BY <2>1 DEF StoreOff, WordsInBurst, Step
  <2>4. Going
    BY <1>8, <2>1, <2>3
  <2>5. InB
    BY <2>1, <2>2, <2>3
  <2> HIDE DEF Going, InB
  <2> QED BY <1>5, <2>1, <2>4, <2>5
<1>13. \/ DmaIdleGo(FALSE, DmaStart, Wires) \/ DmaAw(FALSE, aw) \/ DmaW(w)
       \/ DmaB(FALSE, b) \/ DmaBWait(b) \/ dma_st' \notin {"AW", "W", "B"}
  <2>1. CASE DmaAr(FALSE, ar) \/ DmaR(FALSE, r) \/ DmaRWait(r)
    BY <2>1 DEF DmaAr, DmaR, DmaRWait
  <2>2. CASE \/ DmaDone(FALSE) \/ DmaIdleStrip(FALSE, DmaStart, mlstrip.start, StripWires)
             \/ DmaIdleStay(FALSE, DmaStart, mlstrip.start) \/ DmaStripAr(FALSE, ar)
             \/ DmaStripR(FALSE, r) \/ DmaStripRWait(r) \/ DmaStripDone(FALSE)
    BY <2>2 DEF DmaDone, DmaIdleStrip, DmaIdleStay, DmaStripAr, DmaStripR, DmaStripRWait,
                DmaStripDone
  <2> QED BY <1>2, <2>1, <2>2, DmaCases
<1>14. dma_st' \notin {"AW", "W", "B"} => WritePart'
  BY <1>5
<1> QED BY <1>7, <1>9, <1>10, <1>11, <1>12, <1>13, <1>14

\* How the sequencer comes to a store, and how it stays there.
LEMMA StoreMoves ==
    ASSUME NEW m, NEW ar, NEW r, NEW aw, NEW w, NEW b, Edge(m, ar, r, aw, w, b), KickInv,
           Goes, job.busy,
           ml_st' \in {"STRIP_STO_WAIT", "STRIP_STO", "STO"} \cup StoreWaits
    PROVE  /\ job' = job
           /\ \/ ml_st \in RscWaits /\ MatRight /\ ml_st' \notin StoreWaits
              \/ ml_st \in {"STRIP_STO_WAIT", "STRIP_STO"} /\ ml_st' \notin StoreWaits
              \/ /\ ml_st \in {"STRIP_STO", "STO"} /\ ml_st' \in StoreWaits
                 /\ StoreIssued(OutPtr(cfg), DstOf(cfg, Tile))
              \/ ml_st \in StoreWaits /\ ml_st' = ml_st /\ ~mlwb'.go /\ StoreKept
<1>1. /\ Kept
      /\ ml_st \in StripLive => cfg.strip
      /\ ml_st \in LegacyStates => ~cfg.strip
  BY SeqStep, AccFacts
<1>2. ASSUME ml_st = "STRIP_STO", StoreIssued(MatOut, cfg.outbase + GlobalSub * DstStride)
      PROVE  StoreIssued(OutPtr(cfg), DstOf(cfg, Tile))
  <2>1. cfg.strip
    BY <1>1, <1>2 DEF StripLive, StripStates
  <2> QED BY <1>2, <2>1 DEF OutPtr, DstOf, Tile
<1>3. ASSUME ml_st = "STO", StoreIssued(LegacyOut, DstBase + job.tile * DstStride)
      PROVE  StoreIssued(OutPtr(cfg), DstOf(cfg, Tile))
  <2>1. ~cfg.strip
    BY <1>1, <1>3 DEF LegacyStates
  <2> QED BY <1>3, <2>1 DEF OutPtr, DstOf, Tile, LegacyOut
<1>4. CASE StripMove
  BY <1>2, <1>4 DEF StripMove, Pass, StoreWaits, RscWaits
<1>5. CASE LegacyMove
  BY <1>3, <1>5 DEF LegacyMove, Pass, StoreWaits, RscWaits
<1>6. CASE StayMove
  <2>1. ml_st' = ml_st /\ job' = job /\ ~mlwb'.go /\ StoreKept
    BY <1>1, <1>6 DEF StayMove, Mute, Kept
  <2>2. ml_st \in StoreWaits \/ ml_st = "STRIP_STO_WAIT"
    BY <1>6 DEF StayMove, MatWaits, LoadWaits, StoreWaits
  <2> QED BY <2>1, <2>2 DEF StoreWaits
<1> QED BY <1>4, <1>5, <1>6 DEF Goes

LEMMA StoreStep ==
    ASSUME NEW m, NEW ar, NEW r, NEW aw, NEW w, NEW b, Edge(m, ar, r, aw, w, b), KickInv,
           LoopInv, ModeInv, LoadInv, AccInv, PipeInv, StoreInv
    PROVE  StoreInv'
<1> DEFINE Places1 == {"STRIP_STO_WAIT", "STRIP_STO", "STO"}
<1>1. WritePart'
  BY WriteStep
<1>2. CASE ml_st' \notin Places1 \cup StoreWaits
  BY <1>1, <1>2 DEF StoreInv
<1>3. ASSUME ml_st' \in Places1 \cup StoreWaits, Goes, job.busy, cfg' = cfg,
             kicked \in 1 .. Len(Jobs), cfg = Jobs[kicked]
      PROVE  StoreInv'
  <2>1. /\ job' = job
        /\ \/ ml_st \in RscWaits /\ MatRight /\ ml_st' \notin StoreWaits
           \/ ml_st \in {"STRIP_STO_WAIT", "STRIP_STO"} /\ ml_st' \notin StoreWaits
           \/ /\ ml_st \in {"STRIP_STO", "STO"} /\ ml_st' \in StoreWaits
              /\ StoreIssued(OutPtr(cfg), DstOf(cfg, Tile))
           \/ ml_st \in StoreWaits /\ ml_st' = ml_st /\ ~mlwb'.go /\ StoreKept
    BY <1>3, StoreMoves
  <2>2. tcm' = tcm
    <3>1. ml_st # "STRIP_DRAIN_ERR" /\ ml_st \notin LoadWaits
      BY <2>1 DEF RscWaits, StoreWaits, LoadWaits
    <3>2. ml_st \in RscWaits => ~t_we
      BY <2>1 DEF MatRight, RscWaits, StoreWaits, ModeInv
    <3> QED BY <1>3, <3>1, <3>2, TcmFrame
  <2>3. Tile' = Tile
    BY <1>3, <2>1, SameJob
  <2>4. Held(cfg, Tile, StoreLen)
    <3>1. CASE ml_st \in RscWaits /\ MatRight
      <4>1. Held(cfg, Tile, OutWords)
        BY <3>1 DEF PipeInv, PipePart, MatRight
      <4> QED BY <4>1, StripAssumption
    <3>2. CASE ml_st \in {"STRIP_STO_WAIT", "STRIP_STO", "STO"} \cup StoreWaits
      BY <3>2 DEF StoreInv, StoreCmd
    <3> QED BY <2>1, <3>1, <3>2
  <2>5. Held(cfg, Tile, StoreLen)'
    BY <1>3, <2>2, <2>3, <2>4 DEF Held
  <2>6. ml_st' \in StoreWaits => StoreCmd(cfg, Tile)'
    <3> SUFFICES ASSUME ml_st' \in StoreWaits PROVE StoreCmd(cfg, Tile)'
      OBVIOUS
    <3>1. CASE StoreIssued(OutPtr(cfg), DstOf(cfg, Tile))
      <4>1. mlwb'.src = OutPtr(cfg) /\ mlwb'.dst = DstOf(cfg, Tile) /\ mlwb'.len = StoreLen
        BY <3>1 DEF StoreIssued
      <4>2. OutPtr(cfg)' = OutPtr(cfg) /\ DstOf(cfg, Tile)' = DstOf(cfg, Tile)
        BY <1>3, <2>3
      <4> QED BY <2>5, <4>1, <4>2 DEF StoreCmd
    <3>2. CASE ml_st \in StoreWaits /\ StoreKept
      <4>1. StoreCmd(cfg, Tile)
        BY <3>2 DEF StoreInv
      <4>2. OutPtr(cfg)' = OutPtr(cfg) /\ DstOf(cfg, Tile)' = DstOf(cfg, Tile)
        BY <1>3, <2>3
      <4> QED BY <2>5, <3>2, <4>1, <4>2 DEF StoreCmd, StoreKept
    <3> QED BY <2>1, <3>1, <3>2
  <2> QED BY <1>1, <2>5, <2>6 DEF StoreInv
<1>4. EndMove \/ StartMove => ml_st' \notin Places1 \cup StoreWaits
  BY DEF EndMove, StartMove, StoreWaits
<1> HIDE DEF Places1
<1> QED BY <1>2, <1>3, <1>4, Ways

-----------------------------------------------------------------------------
(* The shared memory.                                                       *)

\* The beat of a store, as it arrives in memory.
Beat(c, g, q) == [n \in 1 .. WPB |-> Result(c, g, WPB * q + n - 1)]

\* The words of a beat.
LEMMA WordOf ==
    ASSUME NEW q \in Nat, NEW n \in 1 .. WPB
    PROVE  /\ (WPB * q + n - 1) \div WPB = q /\ (WPB * q + n - 1) % WPB = n - 1
           /\ WPB * q + n - 1 \in Nat /\ WPB * q \in Nat /\ (WPB * q) \div WPB = q
<1>1. WPB \in Nat \ {0} /\ n - 1 \in 0 .. WPB - 1 /\ 0 \in 0 .. WPB - 1
  BY ParamsAssumption
<1>2. (q * WPB + (n - 1)) \div WPB = q /\ (q * WPB + (n - 1)) % WPB = n - 1
  BY <1>1, DivMod
<1>3. (q * WPB + 0) \div WPB = q
  BY <1>1, DivMod
<1> DEFINE x == WPB * q
<1>4. x \in Nat /\ q * WPB = x
  BY <1>1
<1> HIDE DEF x
<1>5. x + n - 1 = x + (n - 1) /\ x + 0 = x /\ x + n - 1 \in Nat
  BY <1>1, <1>4
<1> QED BY <1>2, <1>3, <1>4, <1>5 DEF x

LEMMA BeatWord ==
    ASSUME NEW w \in 0 .. StoreLen - 1
    PROVE  /\ w \div WPB \in Nat /\ w % WPB \in 0 .. WPB - 1
           /\ w = WPB * (w \div WPB) + (w % WPB)
<1>1. WPB \in {1, 2, 4, 8} /\ w \in Nat
  BY ParamsAssumption, MlAssumption
<1> QED BY <1>1

\* The address of a beat.
LEMMA BeatAt ==
    ASSUME NEW c, NEW g, NEW q \in Nat
    PROVE  BeatOf(c, g, WPB * q) = DstOf(c, g) + q * BeatBytes
<1>1. 1 \in 1 .. WPB
  BY ParamsAssumption
<1>2. (WPB * q) \div WPB = q
  BY <1>1, WordOf
<1> QED BY <1>2 DEF BeatOf, DstOf

\* Two beats of a job have two addresses.
Apart(k, g, q, h, w) ==
    BeatOf(Jobs[k], h, w) = BeatOf(Jobs[k], g, WPB * q) => h = g /\ w \div WPB = q
LEMMA BeatsApart ==
    ASSUME NEW k \in 1 .. Len(Jobs), NEW g \in Tiles(Jobs[k]), NEW h \in Tiles(Jobs[k]),
           NEW q \in Nat, WPB * q + WPB <= StoreLen, NEW w \in 0 .. StoreLen - 1
    PROVE  Apart(k, g, q, h, w)
<1> SUFFICES ASSUME BeatOf(Jobs[k], h, w) = BeatOf(Jobs[k], g, WPB * q)
             PROVE  h = g /\ w \div WPB = q
  BY DEF Apart
<1> DEFINE c == Jobs[k]
           base == IF c.strip THEN c.outbase ELSE DstBase
           p == w \div WPB
           x == WPB * q
           y == WPB * p
           gd == g * DstStride
           hd == h * DstStride
<1>1. /\ WPB \in {1, 2, 4, 8} /\ StoreLen \in Nat \ {0} /\ DstStride \in Nat
      /\ DstStride >= 4 * StoreLen /\ DstBase \in Nat
  BY ParamsAssumption, MlAssumption, JobsAssumption
<1>2. p \in Nat /\ w = y + (w % WPB) /\ w % WPB \in 0 .. WPB - 1
  BY BeatWord
<1>3. c \in CfgType
  BY StripAssumption
<1>4. base \in Nat
  BY <1>1, <1>3 DEF CfgType
<1>5. g \in Nat /\ h \in Nat
  BY DEF Tiles
<1>6. /\ BeatOf(c, g, WPB * q) = base + gd + q * BeatBytes
      /\ BeatOf(c, h, w) = base + hd + p * BeatBytes
  BY BeatAt DEF BeatOf, DstOf
<1>7. q * BeatBytes = 4 * x /\ p * BeatBytes = 4 * y /\ x \in Nat /\ y \in Nat
  BY <1>1, <1>2 DEF BeatBytes
<1>8. gd \in Nat /\ hd \in Nat
  BY <1>1, <1>5
<1>9. x + WPB <= StoreLen
  OBVIOUS
<1>10. (4 * x) \in 0 .. DstStride - 1 /\ (4 * y) \in 0 .. DstStride - 1
  <2> HIDE DEF x, y, p
  <2> QED BY <1>1, <1>2, <1>7, <1>9
<1>11. /\ (gd + 4 * x) \div DstStride = g /\ (hd + 4 * y) \div DstStride = h
  <2>1. DstStride \in Nat \ {0}
    BY <1>1
  <2> HIDE DEF x, y, p
  <2> QED BY <1>5, <1>10, <2>1, DivMod
<1>12. hd + 4 * y = gd + 4 * x
  <2> HIDE DEF c, base, gd, hd, x, y, p
  <2>1. base + gd + 4 * x = base + hd + 4 * y
    BY <1>6, <1>7 DEF c
  <2> QED BY <1>4, <1>7, <1>8, <2>1
<1>13. h = g
  BY <1>11, <1>12
<1>14. x = y
  <2>1. hd = gd
    BY <1>13
  <2> HIDE DEF gd, hd, x, y, p
  <2> QED BY <1>7, <1>8, <1>12, <2>1
<1>15. p = q
  <2>1. WPB * q = WPB * p
    BY <1>14
  <2> HIDE DEF p
  <2> QED BY <1>1, <1>2, <2>1
<1> QED BY <1>13, <1>15

\* A beat that arrives leaves what is right right, and is right itself.
Writes(k, g, q, s, t) == t = [s EXCEPT ![BeatOf(Jobs[k], g, WPB * q)] = Beat(Jobs[k], g, q)]
LEMMA BeatArrives ==
    ASSUME NEW k \in 1 .. Len(Jobs), NEW g \in Tiles(Jobs[k]), NEW q \in Nat,
           WPB * q + WPB <= StoreLen, NEW s, DOMAIN s = ResultBeats, NEW t,
           Writes(k, g, q, s, t)
    PROVE  /\ \A n \in 1 .. WPB : RightIn(t, Jobs[k], g, WPB * q + n - 1)
           /\ \A i \in 1 .. Len(Jobs) : i = k \/ Program = "cq" =>
                  \A h \in Tiles(Jobs[i]), w \in 0 .. StoreLen - 1 :
                      RightIn(s, Jobs[i], h, w) => RightIn(t, Jobs[i], h, w)
           /\ BeatOf(Jobs[k], g, WPB * q) \in ResultBeats
           /\ t[BeatOf(Jobs[k], g, WPB * q)] = Beat(Jobs[k], g, q)
<1> DEFINE c == Jobs[k]
           a == BeatOf(c, g, WPB * q)
<1>1. WPB \in {1, 2, 4, 8} /\ StoreLen \in Nat
  BY ParamsAssumption, MlAssumption
<1>2. WPB * q \in 0 .. StoreLen - 1
  <2> DEFINE x == WPB * q
  <2>1. x \in Nat /\ x + WPB <= StoreLen
    BY <1>1
  <2> HIDE DEF x
  <2>2. x \in 0 .. StoreLen - 1
    BY <1>1, <2>1
  <2> QED BY <2>2 DEF x
<1>3. a \in ResultBeats
  BY <1>2, JobsAssumption
<1>4. t[a] = Beat(c, g, q)
  BY <1>3 DEF Writes
<1>5. Beat(c, g, q) # <<>>
  <2>1. 1 \in DOMAIN Beat(c, g, q)
    BY <1>1 DEF Beat
  <2>2. 1 \notin DOMAIN <<>>
    OBVIOUS
  <2> HIDE DEF c
  <2> QED BY <2>1, <2>2
<1>6. ASSUME NEW n \in 1 .. WPB PROVE RightIn(t, c, g, WPB * q + n - 1)
  <2>1. /\ (WPB * q + n - 1) \div WPB = q /\ (WPB * q + n - 1) % WPB = n - 1
        /\ (WPB * q) \div WPB = q
    BY WordOf
  <2>2. BeatOf(c, g, WPB * q + n - 1) = a
    BY <2>1 DEF BeatOf
  <2>3. Beat(c, g, q)[n] = Result(c, g, WPB * q + n - 1)
    BY DEF Beat
  <2>4. (n - 1) + 1 = n
    BY <1>1
  <2> HIDE DEF a, c
  <2> QED BY <1>4, <1>5, <2>1, <2>2, <2>3, <2>4 DEF RightIn
<1>7. ASSUME NEW i \in 1 .. Len(Jobs), i = k \/ Program = "cq", NEW h \in Tiles(Jobs[i]),
             NEW w \in 0 .. StoreLen - 1, RightIn(s, Jobs[i], h, w)
      PROVE  RightIn(t, Jobs[i], h, w)
  <2> DEFINE z == BeatOf(Jobs[i], h, w)
  <2>1. z \in ResultBeats
    BY JobsAssumption
  <2>2. CASE z # a
    <3>1. t[z] = s[z]
      BY <2>1, <2>2 DEF Writes
    <3> HIDE DEF a, c
    <3> QED BY <1>7, <3>1 DEF RightIn
  <2>3. CASE z = a
    <3>1. i = k
      <4>1. i # k => Program = "cq"
        BY <1>7
      <4> QED BY <1>2, <2>3, <4>1, JobsAssumption
    <3>2. h = g /\ w \div WPB = q
      <4>1. h \in Tiles(Jobs[k]) /\ BeatOf(Jobs[k], h, w) = BeatOf(Jobs[k], g, WPB * q)
        BY <2>3, <3>1
      <4>2. Apart(k, g, q, h, w)
        BY <4>1, BeatsApart
      <4> QED BY <4>1, <4>2 DEF Apart
    <3>3. w = WPB * q + (w % WPB) /\ w % WPB \in 0 .. WPB - 1
      BY <3>2, BeatWord
    <3> DEFINE n == (w % WPB) + 1
    <3>4. n \in 1 .. WPB /\ w = WPB * q + n - 1
      <4> DEFINE x == WPB * q
                 v == w % WPB
      <4>1. x \in Nat /\ w = x + v /\ v \in 0 .. WPB - 1
        BY <1>1, <3>3
      <4> HIDE DEF x, v
      <4>2. v + 1 \in 1 .. WPB /\ w = x + (v + 1) - 1
        BY <1>1, <4>1
      <4> QED BY <4>2 DEF x, v
    <3> HIDE DEF n, a
    <3> QED BY <1>6, <3>1, <3>2, <3>4
  <2> QED BY <2>2, <2>3
<1> QED BY <1>3, <1>4, <1>6, <1>7

\* A beat that the slave takes is a beat of the result of the job.
Takes(g, q) ==
    /\ StoreOff = WPB * q /\ WPB * q + WPB <= StoreLen
    /\ Writes(kicked, g, q, shared, shared')
LEMMA BeatTaken ==
    ASSUME NEW m, NEW ar, NEW r, NEW aw, NEW w, NEW b, Edge(m, ar, r, aw, w, b), KickInv,
           ModeInv, WritePart, wvalid, w, NEW g \in Tiles(Jobs[kicked]),
           StoreCmd(Jobs[kicked], g)
    PROVE  /\ dma_st = "W" /\ kicked \in 1 .. Len(Jobs) /\ kicked' = kicked
           /\ \E q \in Nat : Takes(g, q)
<1>1. Types /\ Wire
  BY EngineFacts
<1>2. dma_st = "W"
  BY <1>1 DEF Wire, Handshake
<1>3. /\ kicked \in 1 .. Len(Jobs) /\ kicked' = kicked
      /\ mlwb.src \in Nat /\ mlwb.dst \in Nat /\ StoreLen \in Nat
  BY <1>2, StoreQuiet
<1>4. /\ Step = WPB /\ WPB \in {1, 2, 4, 8} /\ StoreOff \in Nat /\ StoreOff + Step <= StoreLen
  BY <1>2, WriteRoom
<1>5. /\ StoreOff % WPB = 0 /\ waddr = mlwb.dst + 4 * StoreOff /\ buf_raddr \in Nat
  BY <1>2 DEF WritePart
<1> DEFINE c == Jobs[kicked]
<1>6. mlwb.src = OutPtr(c) /\ mlwb.dst = DstOf(c, g) /\ Held(c, g, StoreLen)
  BY DEF StoreCmd
<1>7. PICK q \in Nat : StoreOff = WPB * q
  <2> DEFINE x == StoreOff
  <2>1. x \in Nat /\ x % WPB = 0
    BY <1>4, <1>5
  <2> HIDE DEF x
  <2>2. x \div WPB \in Nat /\ x = WPB * (x \div WPB)
    BY <1>4, <2>1
  <2> QED BY <2>2 DEF x
<1>8. waddr = BeatOf(c, g, WPB * q)
  <2>1. BeatOf(c, g, WPB * q) = DstOf(c, g) + q * BeatBytes
    BY BeatAt
  <2>2. q * BeatBytes = 4 * (WPB * q)
    BY <1>4 DEF BeatBytes
  <2> QED BY <1>5, <1>6, <1>7, <2>1, <2>2
<1>9. ASSUME NEW n \in 1 .. WPB
      PROVE  tcm[buf_raddr + n - 1] = Result(c, g, WPB * q + n - 1)
  <2> DEFINE x == WPB * q
             v == x + n - 1
             i == buf_raddr + n - 1
  <2>1. x \in Nat /\ x + WPB <= StoreLen /\ buf_raddr - mlwb.src = x
    BY <1>4, <1>7 DEF StoreOff
  <2> HIDE DEF x
  <2>5. n \in Nat /\ n >= 1 /\ n <= WPB
    BY <1>4
  <2>6. v \in 0 .. StoreLen - 1
    <3>1. WPB \in Nat /\ v \in Nat /\ v <= x + WPB - 1
      BY <1>4, <2>1, <2>5
    <3> QED BY <1>3, <2>1, <3>1
  <2>2. v \in 0 .. StoreLen - 1 /\ i = mlwb.src + v
    <3>1. buf_raddr = mlwb.src + x
      BY <1>3, <1>5, <2>1
    <3>2. i = mlwb.src + v
      BY <1>3, <2>1, <2>5, <3>1
    <3> QED BY <2>6, <3>2
  <2> HIDE DEF v, i
  <2>3. tcm[OutPtr(c) + v] = Result(c, g, v)
    BY <1>6, <2>2 DEF Held
  <2>4. tcm[i] = Result(c, g, v)
    BY <1>6, <2>2, <2>3
  <2> QED BY <2>4 DEF i, v, x
<1>10. [n \in 1 .. Step |-> tcm[buf_raddr + n - 1]] = Beat(c, g, q)
  BY <1>4, <1>9 DEF Beat
<1>11. shared' = [shared EXCEPT ![waddr] = [n \in 1 .. Step |-> tcm[buf_raddr + n - 1]]]
  BY DEF Edge, SlaveClk, WFire
<1>12. Takes(g, q)
  BY <1>4, <1>7, <1>8, <1>10, <1>11 DEF Takes, Writes
<1> QED BY <1>2, <1>3, <1>12

LEMMA SharedKept ==
    ASSUME NEW m, NEW ar, NEW r, NEW aw, NEW w, NEW b, Edge(m, ar, r, aw, w, b),
           ~(wvalid /\ w)
    PROVE  shared' = shared
  BY DEF Edge, SlaveClk, WFire

\* What is right stays right: of the job at work, and of every job of a ring.
LEMMA RightStays ==
    ASSUME NEW m, NEW ar, NEW r, NEW aw, NEW w, NEW b, Edge(m, ar, r, aw, w, b), KickInv,
           ModeInv, WritePart, NEW i \in 1 .. Len(Jobs), i = kicked \/ Program = "cq",
           NEW h \in Tiles(Jobs[i]), NEW v \in 0 .. StoreLen - 1,
           RightIn(shared, Jobs[i], h, v)
    PROVE  RightIn(shared', Jobs[i], h, v)
<1>1. CASE ~(wvalid /\ w)
  BY <1>1, SharedKept
<1>2. CASE wvalid /\ w
  <2>1. dma_st = "W"
    BY <1>2, EngineFacts DEF Wire, Handshake
  <2>2. PICK g \in Tiles(Jobs[kicked]) : StoreCmd(Jobs[kicked], g)
    BY <2>1 DEF WritePart
  <2>3. kicked \in 1 .. Len(Jobs) /\ \E q \in Nat : Takes(g, q)
    BY <1>2, <2>2, BeatTaken
  <2>4. PICK q \in Nat : Takes(g, q)
    BY <2>3
  <2>5. DOMAIN shared = ResultBeats
    BY DEF ModeInv
  <2>6. WPB * q + WPB <= StoreLen /\ Writes(kicked, g, q, shared, shared')
    BY <2>4 DEF Takes
  <2>7. \A k \in 1 .. Len(Jobs) : k = kicked \/ Program = "cq" =>
            \A f \in Tiles(Jobs[k]), u \in 0 .. StoreLen - 1 :
                RightIn(shared, Jobs[k], f, u) => RightIn(shared', Jobs[k], f, u)
    BY <2>3, <2>5, <2>6, BeatArrives
  <2> QED BY <2>7
<1> QED BY <1>1, <1>2

\* Only right results are stored.
LEMMA OnlyRightStep ==
    ASSUME NEW m, NEW ar, NEW r, NEW aw, NEW w, NEW b, Edge(m, ar, r, aw, w, b), KickInv,
           ModeInv, WritePart, OnlyRightResults
    PROVE  OnlyRightResults'
<1>1. CASE ~(wvalid /\ w)
  <2>1. shared' = shared
    BY <1>1, SharedKept
  <2> QED BY <2>1 DEF OnlyRightResults
<1>2. CASE wvalid /\ w
  <2>1. dma_st = "W"
    BY <1>2, EngineFacts DEF Wire, Handshake
  <2>2. PICK g \in Tiles(Jobs[kicked]) : StoreCmd(Jobs[kicked], g)
    BY <2>1 DEF WritePart
  <2>3. kicked \in 1 .. Len(Jobs) /\ \E q \in Nat : Takes(g, q)
    BY <1>2, <2>2, BeatTaken
  <2>4. PICK q \in Nat : Takes(g, q)
    BY <2>3
  <2>5. DOMAIN shared = ResultBeats
    BY DEF ModeInv
  <2> DEFINE c == Jobs[kicked]
             a == BeatOf(c, g, WPB * q)
  <2>6. /\ \A n \in 1 .. WPB : RightIn(shared', c, g, WPB * q + n - 1)
        /\ shared'[a] = Beat(c, g, q)
    BY <2>3, <2>4, <2>5, BeatArrives, ZenonT(40) DEF Takes
  <2>7. WPB \in {1, 2, 4, 8} /\ StoreLen \in Nat
    BY ParamsAssumption, MlAssumption
  <2>8. ASSUME NEW n \in 1 .. WPB
        PROVE  \E v \in 0 .. StoreLen - 1 :
                  /\ BeatOf(c, g, v) = a /\ v % WPB = n - 1
                  /\ shared'[a][n] = Result(c, g, v)
    <3> DEFINE x == WPB * q
               v == x + n - 1
    <3>1. /\ v \div WPB = q /\ v % WPB = n - 1 /\ v \in Nat /\ x \in Nat /\ x \div WPB = q
      BY WordOf
    <3>2. BeatOf(c, g, v) = a
      BY <3>1 DEF BeatOf
    <3>3. v \in 0 .. StoreLen - 1
      <4>1. x + WPB <= StoreLen
        BY <2>4 DEF Takes
      <4>2. n \in Nat /\ n <= WPB
        BY <2>7
      <4> HIDE DEF x
      <4> QED BY <2>7, <3>1, <4>1, <4>2
    <3>4. shared'[a][n] = Result(c, g, v)
      BY <2>6 DEF Beat
    <3> HIDE DEF v, a, c
    <3> QED BY <3>1, <3>2, <3>3, <3>4
  <2>9. ASSUME NEW z \in ResultBeats, shared'[z] # <<>>
        PROVE  \E i \in 1 .. Len(Jobs) : \E h \in Tiles(Jobs[i]) :
                  \A n \in 1 .. WPB : \E v \in 0 .. StoreLen - 1 :
                      /\ BeatOf(Jobs[i], h, v) = z /\ v % WPB = n - 1
                      /\ shared'[z][n] = Result(Jobs[i], h, v)
    <3>1. CASE z = a
      <4> HIDE DEF a
      <4> QED BY <2>3, <2>8, <3>1
    <3>2. CASE z # a
      <4>1. shared'[z] = shared[z]
        BY <2>4, <2>5, <3>2 DEF Takes, Writes
      <4>2. shared[z] # <<>>
        BY <2>9, <4>1
      <4>3. PICK i \in 1 .. Len(Jobs) : \E h \in Tiles(Jobs[i]) :
                \A n \in 1 .. WPB : \E v \in 0 .. StoreLen - 1 :
                    /\ BeatOf(Jobs[i], h, v) = z /\ v % WPB = n - 1
                    /\ shared[z][n] = Result(Jobs[i], h, v)
        BY <4>2 DEF OnlyRightResults
      <4>4. PICK h \in Tiles(Jobs[i]) :
                \A n \in 1 .. WPB : \E v \in 0 .. StoreLen - 1 :
                    /\ BeatOf(Jobs[i], h, v) = z /\ v % WPB = n - 1
                    /\ shared'[z][n] = Result(Jobs[i], h, v)
        BY <4>1, <4>3
      <4> HIDE DEF a, c
      <4> QED BY <4>4
    <3> QED BY <3>1, <3>2
  <2> QED BY <2>9 DEF OnlyRightResults
<1> QED BY <1>1, <1>2

\* The words of the running tile, as the store goes on.
LEMMA StoredStay ==
    ASSUME NEW m, NEW ar, NEW r, NEW aw, NEW w, NEW b, Edge(m, ar, r, aw, w, b), KickInv,
           LoopInv, ModeInv, StoreInv, StoredInv, ml_st \in StoreWaits, job' = job,
           ~mlwb'.go, StoreKept
    PROVE  StoredPart'
<1>1. /\ Types /\ Wire /\ TurnInv /\ EngineInv /\ PulseInv /\ WritePart /\ StoredPart
      /\ Answers(ar, r, aw, w, b)
  BY EngineFacts DEF StoreInv, StoredInv
<1>2. /\ job.busy /\ cfg' = cfg /\ kicked' = kicked /\ kicked \in 1 .. Len(Jobs)
      /\ cfg = Jobs[kicked] /\ Tile \in Tiles(cfg) /\ StoreCmd(cfg, Tile) /\ StoreLen \in Nat
  BY StorePlace
<1>3. Tile' = Tile
  BY <1>2, SameJob
<1>4. ASSUME NEW v \in 0 .. StoreLen - 1, RightIn(shared, cfg, Tile, v)
      PROVE  RightIn(shared', cfg, Tile, v)
  BY <1>1, <1>2, <1>4, RightStays
<1> DEFINE off == StoreOff
           noff == buf_raddr' - mlwb.src
           Upto(n) == \A v \in 0 .. n - 1 : RightIn(shared', cfg, Tile, v)
<1>5. /\ dma_st' \in {"AW", "W", "B"} => Upto(noff)
      /\ dma_st' \in {"IDLE", "DONE"} /\ ~err' => Upto(StoreLen)
      => StoredPart'
  BY <1>2, <1>3 DEF StoredPart, StoredUpTo, StoreOff, StoreKept
<1>6. remaining \in Nat /\ WordsInBurst \in Int /\ Step \in {1, 2, 4, 8} /\ wvalid \in BOOLEAN
  <2>1. remaining \in Nat /\ beats_in_burst \in Nat /\ wvalid \in BOOLEAN
    BY <1>1 DEF Types, DmaTypes, MoveTypes, FlagTypes
  <2>2. Step \in {1, 2, 4, 8}
    BY <1>1, StepValue DEF Types, DmaTypes, MoveTypes, FlagTypes
  <2> QED BY <2>1, <2>2 DEF WordsInBurst
<1>7. ASSUME dma_st \in {"AW", "W", "B"}
      PROVE  /\ off \in Nat /\ off <= StoreLen /\ Upto(off)
             /\ dma_st \in {"AW", "B"} \/ ~w => shared' = shared \/ wvalid
             /\ mlwb.src \in Nat
  <2>1. /\ off >= 0 /\ buf_raddr \in Nat /\ mlwb.src \in Nat
    BY <1>1, <1>7, StoreQuiet DEF WritePart
  <2>2. off \in Nat
    BY <2>1 DEF StoreOff
  <2>3. off <= StoreLen
    <3>1. CASE dma_st = "AW"
      <4>1. off + remaining = StoreLen
        BY <1>1, <3>1 DEF WritePart
      <4> HIDE DEF off
      <4> QED BY <1>2, <1>6, <2>2, <4>1
    <3>2. CASE dma_st = "B"
      <4>1. off + (remaining - WordsInBurst) = StoreLen
        BY <1>1, <3>2 DEF WritePart
      <4>2. WordsInBurst <= remaining
        BY <1>1, <3>2 DEF Wire, Bursts, Sized
      <4> HIDE DEF off
      <4> QED BY <1>2, <1>6, <2>2, <4>1, <4>2
    <3>3. CASE dma_st = "W"
      <4>1. off + Step <= StoreLen
        BY <1>1, <3>3, WriteRoom
      <4> HIDE DEF off
      <4> QED BY <1>2, <1>6, <2>2, <4>1
    <3> QED BY <1>7, <3>1, <3>2, <3>3
  <2>4. \A v \in 0 .. off - 1 : RightIn(shared, cfg, Tile, v)
    BY <1>1, <1>7 DEF StoredPart, StoredUpTo
  <2>5. Upto(off)
    <3> SUFFICES ASSUME NEW v \in 0 .. off - 1 PROVE RightIn(shared', cfg, Tile, v)
      OBVIOUS
    <3>1. v \in 0 .. StoreLen - 1
      <4> HIDE DEF off
      <4> QED BY <1>2, <2>2, <2>3
    <3> QED BY <1>4, <2>4, <3>1
  <2>6. ~wvalid => shared' = shared
    BY SharedKept
  <2> QED BY <1>6, <2>1, <2>2, <2>3, <2>5, <2>6
<1>8. DmaClk(FALSE, DmaStart, Wires, mlstrip.start, StripWires, ar, r, aw, w, b)
  BY DEF Edge
<1> HIDE DEF Upto
<1>9. CASE dma_st = "AW"
  <2>1. DmaAw(FALSE, aw)
    BY <1>8, <1>9, DmaCases DEF DmaIdleGo, DmaIdleStrip, DmaIdleStay, DmaAr, DmaR, DmaRWait,
          DmaW, DmaB, DmaBWait, DmaDone, DmaStripAr, DmaStripR, DmaStripRWait, DmaStripDone
  <2>2. dma_st' \in {"AW", "W"} /\ noff = off
    BY <2>1 DEF DmaAw, xfer, StoreOff
  <2> HIDE DEF off, noff
  <2> QED BY <1>5, <1>7, <1>9, <2>2
<1>10. CASE dma_st = "W"
  <2>1. DmaW(w)
    BY <1>8, <1>10, DmaCases DEF DmaIdleGo, DmaIdleStrip, DmaIdleStay, DmaAr, DmaR, DmaRWait,
          DmaAw, DmaB, DmaBWait, DmaDone, DmaStripAr, DmaStripR, DmaStripRWait, DmaStripDone
  <2>2. dma_st' \in {"W", "B"}
    BY <2>1, <1>10 DEF DmaW
  <2>3. CASE ~(wvalid /\ w)
    <3>1. noff = off
      BY <2>1, <2>3 DEF DmaW, StoreOff
    <3> HIDE DEF off, noff
    <3> QED BY <1>5, <1>7, <1>10, <2>2, <3>1
  <2>4. CASE wvalid /\ w
    <3>1. /\ Step = WPB /\ WPB \in {1, 2, 4, 8}
      BY <1>1, <1>10, WriteRoom
    <3>2. buf_raddr' = buf_raddr + WPB /\ buf_raddr \in Nat
      BY <1>1, <1>10, <2>1, <2>4, <3>1 DEF DmaW, WritePart
    <3>3. noff = off + WPB
      BY <1>7, <1>10, <3>1, <3>2 DEF StoreOff
    <3>4. PICK q \in Nat : Takes(Tile, q)
      BY <1>1, <1>2, <2>4, BeatTaken
    <3>5. off = WPB * q /\ WPB * q + WPB <= StoreLen /\ Writes(kicked, Tile, q, shared, shared')
      BY <3>4 DEF Takes
    <3>6. \A n \in 1 .. WPB : RightIn(shared', Jobs[kicked], Tile, WPB * q + n - 1)
      <4>1. DOMAIN shared = ResultBeats
        BY DEF ModeInv
      <4> QED BY <1>2, <3>5, <4>1, BeatArrives
    <3>7. Upto(noff)
      <4> SUFFICES ASSUME NEW v \in 0 .. noff - 1 PROVE RightIn(shared', cfg, Tile, v)
        BY DEF Upto
      <4>1. off \in Nat
        BY <1>7, <1>10
      <4>2. CASE v < off
        <5>1. v \in 0 .. off - 1
          <6> HIDE DEF off, noff
          <6> QED BY <3>1, <3>3, <4>1, <4>2
        <5> QED BY <1>7, <1>10, <5>1 DEF Upto
      <4>3. CASE v >= off
        <5> DEFINE n == v - off + 1
                   x == WPB * q
        <5>1. n \in 1 .. WPB /\ off + n - 1 = v /\ x = off
          <6>1. x = off
            BY <3>5
          <6> HIDE DEF off, noff, x
          <6> QED BY <3>1, <3>3, <4>1, <4>3, <6>1
        <5>2. WPB * q + n - 1 = v
          BY <5>1
        <5> HIDE DEF n, off, noff, x
        <5> QED BY <1>2, <3>6, <5>1, <5>2
      <4> HIDE DEF off, noff
      <4> QED BY <3>1, <3>3, <4>1, <4>2, <4>3
    <3> HIDE DEF off, noff
    <3> QED BY <1>5, <2>2, <3>7
  <2> QED BY <2>3, <2>4
<1>11. CASE dma_st = "B"
  <2>1. DmaB(FALSE, b) \/ DmaBWait(b)
    BY <1>8, <1>11, DmaCases DEF DmaIdleGo, DmaIdleStrip, DmaIdleStay, DmaAr, DmaR, DmaRWait,
          DmaAw, DmaW, DmaDone, DmaStripAr, DmaStripR, DmaStripRWait, DmaStripDone
  <2>2. off + (remaining - WordsInBurst) = StoreLen
    BY <1>1, <1>11 DEF WritePart
  <2>3. /\ noff = off /\ dma_st' \in {"AW", "B", "DONE"}
        /\ dma_st' = "DONE" => err' \/ remaining - WordsInBurst = 0
    BY <2>1, <1>11 DEF DmaB, DmaBWait, xfer, StoreOff
  <2>4. dma_st' = "DONE" /\ ~err' => off = StoreLen
    <3> HIDE DEF off, noff
    <3> QED BY <1>2, <1>6, <1>7, <1>11, <2>2, <2>3
  <2> HIDE DEF off, noff
  <2> QED BY <1>5, <1>7, <1>11, <2>3, <2>4
<1>12. CASE dma_st \in {"IDLE", "DONE"}
  <2>1. ~mldma.go /\ ~mlstrip.start /\ ml_st # "STRIP_DRAIN_ERR"
    BY <1>1 DEF PulseInv, StoreWaits, LoadWaits
  <2>2. CASE DmaIdleGo(FALSE, DmaStart, Wires)
    <3>1. mlwb.go /\ StartWrite
      <4>1. MlActive
        BY <1>1, <1>2 DEF TurnInv, MlActive
      <4> QED BY <2>1, <2>2, <4>1, Started
    <3>2. dma_st' \in {"AW", "DONE"} /\ noff = 0
      <4>1. buf_raddr' = Wires.word /\ Wires.word = mlwb.src /\ Wires.write
        BY <1>1, <1>2, <2>2, <3>1 DEF DmaIdleGo, Wires, MlActive, TurnInv
      <4>2. mlwb.src \in Nat
        BY StorePlace
      <4> QED BY <2>2, <4>1, <4>2 DEF DmaIdleGo
    <3>3. dma_st' = "DONE" => err'
      <4>1. Wires.len = mlwb.len /\ mlwb.len = StoreLen /\ StoreLen # 0
        BY <1>1, <1>2, <3>1, MlAssumption DEF Wires, MlActive, TurnInv, StoreCmd
      <4> QED BY <2>2, <4>1 DEF DmaIdleGo
    <3>4. Upto(0)
      BY DEF Upto
    <3> HIDE DEF noff
    <3> QED BY <1>5, <3>2, <3>3, <3>4
  <2>3. CASE DmaIdleStay(FALSE, DmaStart, mlstrip.start) \/ DmaDone(FALSE)
    <3>1. dma_st' = "IDLE" /\ err' = err
      BY <2>3, <1>12 DEF DmaIdleStay, DmaDone, flags
    <3>2. ~mlwb.go
      <4>1. mlwb.go => dma_st = "IDLE" /\ DmaStart
        BY <1>1, <1>2 DEF PulseInv, DmaStart, WriteGo, MlActive, TurnInv
      <4> QED BY <2>3, <4>1 DEF DmaIdleStay, DmaDone
    <3>3. ~err => Upto(StoreLen)
      BY <1>1, <1>4, <1>12, <3>2 DEF StoredPart, StoredUpTo, Upto
    <3> QED BY <1>5, <3>1, <3>3
  <2>4. ~DmaIdleStrip(FALSE, DmaStart, mlstrip.start, StripWires)
    BY <2>1 DEF DmaIdleStrip
  <2>5. DmaIdleGo(FALSE, DmaStart, Wires)
        \/ DmaIdleStay(FALSE, DmaStart, mlstrip.start) \/ DmaDone(FALSE)
    BY <1>8, <1>12, <2>4, DmaCases DEF DmaAr, DmaR, DmaRWait, DmaAw, DmaW, DmaB, DmaBWait,
          DmaStripAr, DmaStripR, DmaStripRWait, DmaStripDone
  <2> QED BY <2>2, <2>3, <2>5
<1>13. dma_st \in {"AW", "W", "B", "IDLE", "DONE"}
  <2>1. dma_st \notin {"AR", "R"}
    BY <1>1, <1>2 DEF ModeInv, EngineInv, XferStates, TurnInv, StoreWaits, LoadWaits
  <2>2. dma_st \notin StripChain
    BY <1>1, <1>2 DEF EngineInv, TurnInv, StoreWaits, ComputePart
  <2>3. dma_st \in DmaStates
    BY <1>1 DEF Types, DmaTypes, FlagTypes
  <2> QED BY <2>1, <2>2, <2>3 DEF DmaStates, StripChain
<1> QED BY <1>9, <1>10, <1>11, <1>12, <1>13

\* The last sub-tile of a strip.
LEMMA StripEnds ==
    ASSUME NEW m, NEW ar, NEW r, NEW aw, NEW w, NEW b, Edge(m, ar, r, aw, w, b), job.busy,
           KickInv, LoopInv, ml_st \in {"STRIP_RV", "STRIP_ADV"}
    PROVE  /\ ~StripLast => Tile + 1 = (job.strip + 1) * SubTiles
           /\ StripLast => \A g \in Tiles(cfg) : g < Tile + 1
<1>1. /\ cfg \in CfgType /\ job \in JobType /\ cfg.strip
  BY AccFacts DEF StripLive, StripStates
<1>2. SubTiles \in Nat \ {0}
  BY MlAssumption
<1>3. /\ job.strip \in Nat /\ job.sub \in Nat /\ cfg.nstrips \in Nat /\ cfg.ntail \in Nat
  BY <1>1, <1>2 DEF JobType, CfgType
<1>4. SubtileLast /\ job.strip < cfg.nstrips
  BY StateNames DEF LoopInv
<1>5. Tile = job.strip * SubTiles + job.sub
  BY <1>1 DEF Tile, GlobalSub
<1> DEFINE x == job.strip * SubTiles
<1>6. x \in Nat /\ (job.strip + 1) * SubTiles = x + SubTiles
  BY <1>2, <1>3
<1>7. ASSUME ~StripLast PROVE Tile + 1 = (job.strip + 1) * SubTiles
  <2>1. job.sub = SubTiles - 1
    BY <1>4, <1>7 DEF SubtileLast
  <2>2. Tile = x + job.sub
    BY <1>5
  <2> HIDE DEF x
  <2> QED BY <1>2, <1>3, <1>6, <2>1, <2>2
<1>8. ASSUME StripLast, NEW g \in Tiles(cfg) PROVE g < Tile + 1
  <2>1. job.sub + 1 >= cfg.ntail /\ job.strip = cfg.nstrips - 1
    BY <1>3, <1>4, <1>8 DEF SubtileLast, StripLast
  <2>2. Tiles(cfg) = 0 .. x + cfg.ntail - 1
    BY <1>1, <2>1 DEF Tiles
  <2>3. Tile = x + job.sub
    BY <1>5
  <2> HIDE DEF x
  <2> QED BY <1>3, <1>6, <1>8, <2>1, <2>2, <2>3
<1> QED BY <1>7, <1>8

\* The count of the tiles in memory follows the loops.
CountsOn == \/ Ready' = 0 /\ ml_st' # "DONE"
           \/ /\ ml_st \in Counted /\ Ready' = Ready
              /\ ml_st' = "DONE" => \A g \in Tiles(cfg) : g < Ready
           \/ /\ ml_st \in StoreWaits /\ StoreRight /\ Ready = Tile /\ Ready' = Tile + 1
              /\ ml_st' # "DONE"
LEMMA ReadyStep ==
    ASSUME NEW m, NEW ar, NEW r, NEW aw, NEW w, NEW b, Edge(m, ar, r, aw, w, b), job.busy,
           KickInv, LoopInv, Goes, cfg' = cfg, ml_st' \in Counted
    PROVE  CountsOn
<1>1. /\ cfg \in CfgType /\ job \in JobType /\ job' \in JobType /\ Tile \in Nat
      /\ ml_st \in StripLive => cfg.strip
      /\ ml_st \in LegacyStates => ~cfg.strip
  BY AccFacts
<1>2. SubTiles \in Nat \ {0}
  BY MlAssumption
<1>3. /\ job.strip \in Nat /\ job.sub \in Nat /\ job.tile \in Nat /\ cfg.ntiles \in Nat
  BY <1>1, <1>2 DEF JobType, CfgType
<1>4. /\ cfg.strip => Tile = job.strip * SubTiles + job.sub
      /\ cfg.strip => Tile' = job'.strip * SubTiles + job'.sub
      /\ ~cfg.strip => Tile = job.tile /\ Tile' = job'.tile
  BY DEF Tile, GlobalSub
<1> DEFINE x == job.strip * SubTiles
<1>5. x \in Nat
  BY <1>2, <1>3
<1>6. /\ Ready' = IF ml_st' = "STRIP_BEGIN" THEN job'.strip * SubTiles
                  ELSE IF ml_st' \in {"STRIP_RV", "STRIP_ADV", "NEXT", "DONE"}
                       THEN Tile' + 1 ELSE Tile'
  BY DEF Ready
<1> DEFINE Inner == {"STRIP_TILE", "STRIP_CLR_W", "STRIP_OP", "STRIP_OP_W", "STRIP_RSC",
                     "STRIP_RSC_W", "STRIP_STO_WAIT", "STRIP_STO"}
           LInner == {"LOADA", "LOADA_W", "LDW", "LDW_W", "CLR", "CLR_W", "OP", "OP_W", "RSC",
                      "RSC_W", "STO"}
<1>7. CASE StayMove
  <2>1. ml_st' = ml_st /\ job' = job /\ ml_st # "DONE"
    BY <1>7 DEF StayMove, MatWaits, LoadWaits, StoreWaits
  <2>2. Ready' = Ready
    BY <2>1, SameJob DEF Ready
  <2> QED BY <2>1, <2>2 DEF CountsOn
<1>8. CASE StripMove
  <2>1. cfg.strip
    BY <1>1, <1>8 DEF StripMove, Pass, StripLive, StripStates
  <2>2. CASE ml_st = "STRIP_PREFILL"
    BY <2>2, <1>8, StateNames DEF StripMove, Pass, Counted, LegacyStates
  <2>3. CASE ml_st = "STRIP_PREFILL_W"
    <3>1. ml_st' = "STRIP_BEGIN" /\ job' = job /\ job.strip = 0
      BY <2>3, <1>8 DEF StripMove, Pass, LoopInv, PrefillPart
    <3>2. 0 * SubTiles = 0
      BY <1>2
    <3> QED BY <1>6, <3>1, <3>2 DEF CountsOn
  <2>4. CASE ml_st = "STRIP_BEGIN"
    <3>1. ml_st' = "STRIP_TILE" /\ job'.strip = job.strip /\ job'.sub = 0
      BY <2>4, <1>1, <1>8 DEF StripMove, Pass, JobType
    <3>2. Ready' = x + 0 /\ Ready = x
      BY <1>4, <1>6, <2>1, <2>4, <3>1 DEF Ready
    <3> HIDE DEF x
    <3> QED BY <1>5, <2>4, <3>1, <3>2, StateNames DEF CountsOn, Counted
  <2>5. CASE ml_st \in Inner
    <3>1. /\ job'.strip = job.strip /\ job'.sub = job.sub
          /\ ml_st' \in Inner \cup {"STRIP_STO_W"}
      BY <2>5, <1>1, <1>8 DEF StripMove, Pass, JobType
    <3>2. Tile' = Tile
      BY <1>4, <2>1, <3>1
    <3>3. Ready' = Ready /\ ml_st' # "DONE"
      BY <1>6, <2>5, <3>1, <3>2 DEF Ready
    <3> QED BY <2>5, <3>3, StateNames DEF CountsOn, Counted
  <2>6. CASE ml_st = "STRIP_STO_W"
    <3>1. \/ ml_st' = "STRIP_RV" /\ job' = job /\ StoreRight
          \/ ml_st' = "STRIP_TILE" /\ StoreRight
             /\ job'.strip = job.strip /\ job'.sub = job.sub + 1
      BY <2>6, <1>1, <1>8 DEF StripMove, Pass, JobType
    <3>2. CASE ml_st' = "STRIP_RV"
      <4>1. Ready' = Tile + 1
        BY <1>4, <1>6, <2>1, <3>1, <3>2
      <4> QED BY <2>6, <3>1, <3>2, <4>1 DEF CountsOn, Ready, StoreWaits
    <3>3. CASE ml_st' = "STRIP_TILE"
      <4>1. Ready' = x + (job.sub + 1) /\ Tile = x + job.sub
        BY <1>4, <1>6, <2>1, <3>1, <3>3
      <4> HIDE DEF x
      <4>2. Ready' = Tile + 1
        BY <1>3, <1>5, <4>1
      <4> QED BY <2>6, <3>1, <3>3, <4>2 DEF CountsOn, Ready, StoreWaits
    <3> QED BY <3>1, <3>2, <3>3
  <2>7. CASE ml_st = "STRIP_RV"
    <3>1. job' = job /\ (ml_st' = "STRIP_ADV" \/ (ml_st' = "DONE" /\ StripLast))
      BY <2>7, <1>8 DEF StripMove, Pass
    <3>2. Ready' = Tile + 1 /\ Ready = Tile + 1
      BY <1>4, <1>6, <2>1, <2>7, <3>1 DEF Ready
    <3>3. ml_st' = "DONE" => \A g \in Tiles(cfg) : g < Ready
      BY <2>7, <3>1, <3>2, StripEnds
    <3> QED BY <2>7, <3>2, <3>3, StateNames DEF CountsOn, Counted
  <2>8. CASE ml_st = "STRIP_ADV"
    <3>1. ml_st' = "STRIP_BEGIN" /\ job'.strip = job.strip + 1
      BY <2>8, <1>1, <1>8 DEF StripMove, Pass, JobType
    <3>2. Ready' = Tile + 1
      BY <1>6, <2>8, <3>1, StripEnds DEF LoopInv
    <3> QED BY <2>8, <3>1, <3>2, StateNames DEF CountsOn, Counted, Ready
  <2> QED BY <1>8, <2>2, <2>3, <2>4, <2>5, <2>6, <2>7, <2>8 DEF StripMove, Pass
<1>9. CASE LegacyMove
  <2>1. ~cfg.strip
    BY <1>1, <1>9 DEF LegacyMove, Pass, LegacyStates
  <2>2. CASE ml_st \in LInner
    <3>1. job' = job /\ ml_st' \in LInner \cup {"STO_W"}
      BY <2>2, <1>9 DEF LegacyMove, Pass
    <3>2. Ready' = Ready /\ ml_st' # "DONE"
      BY <1>4, <1>6, <2>1, <2>2, <3>1 DEF Ready
    <3> QED BY <2>2, <3>2 DEF CountsOn, Counted, LegacyStates
  <2>3. CASE ml_st = "STO_W"
    <3>1. job' = job /\ ml_st' = "NEXT" /\ StoreRight
      BY <2>3, <1>9 DEF LegacyMove, Pass
    <3>2. Ready' = Tile + 1
      BY <1>4, <1>6, <2>1, <3>1
    <3> QED BY <2>3, <3>1, <3>2 DEF CountsOn, Ready, StoreWaits
  <2>4. CASE ml_st = "NEXT"
    <3>1. \/ job' = job /\ ml_st' = "DONE" /\ job.tile + 1 >= cfg.ntiles
          \/ ml_st' = "LDW" /\ job'.tile = job.tile + 1
      BY <2>4, <1>1, <1>9 DEF LegacyMove, Pass, JobType
    <3>2. Ready' = Tile + 1 /\ Ready = Tile + 1
      BY <1>4, <1>6, <2>1, <2>4, <3>1 DEF Ready
    <3>3. ml_st' = "DONE" => \A g \in Tiles(cfg) : g < Ready
      <4> SUFFICES ASSUME ml_st' = "DONE", NEW g \in Tiles(cfg) PROVE g < Ready
        OBVIOUS
      <4>1. g \in 0 .. cfg.ntiles - 1
        BY <2>1 DEF Tiles
      <4> QED BY <1>3, <1>4, <2>1, <3>1, <3>2, <4>1
    <3> QED BY <2>4, <3>2, <3>3 DEF CountsOn, Counted, LegacyStates
  <2> QED BY <1>9, <2>2, <2>3, <2>4 DEF LegacyMove, Pass
<1> QED BY <1>7, <1>8, <1>9 DEF Goes

\* The tiles that are in memory stay there.
LEMMA AllKept ==
    ASSUME NEW m, NEW ar, NEW r, NEW aw, NEW w, NEW b, Edge(m, ar, r, aw, w, b), KickInv,
           ModeInv, WritePart, NEW i \in 1 .. Len(Jobs), i = kicked \/ Program = "cq",
           NEW n, AllIn(shared, Jobs[i], n)
    PROVE  AllIn(shared', Jobs[i], n)
<1> SUFFICES ASSUME NEW g \in Tiles(Jobs[i]), NEW v \in 0 .. StoreLen - 1, g < n
             PROVE  RightIn(shared', Jobs[i], g, v)
  BY DEF AllIn
<1>1. RightIn(shared, Jobs[i], g, v)
  BY DEF AllIn
<1> QED BY <1>1, RightStays

LEMMA StoredStep ==
    ASSUME NEW m, NEW ar, NEW r, NEW aw, NEW w, NEW b, Edge(m, ar, r, aw, w, b), KickInv,
           LoopInv, ModeInv, StoreInv, StoredInv
    PROVE  StoredInv'
<1>1. WritePart /\ PulseInv'
  BY EngineFacts DEF StoreInv
<1>2. CASE EndMove
  BY <1>2, StateNames DEF EndMove, StoredInv, StoreWaits, Counted, LegacyStates
<1>3. CASE StartMove /\ cfg' = cfg
  <2>1. /\ ml_st' \in {"STRIP_PREFILL", "LOADA", "LDW"}
        /\ ml_st' = "STRIP_PREFILL" <=> cfg'.strip
        /\ job'.tile = 0
    BY <1>3 DEF StartMove
  <2>2. ml_st' \in Counted => Ready' = 0
    BY <2>1, StateNames DEF Counted, LegacyStates, Ready, Tile
  <2>3. AllIn(shared, cfg, 0)'
    BY DEF AllIn, Tiles
  <2> QED BY <2>1, <2>2, <2>3 DEF StoredInv, StoreWaits
<1>4. ASSUME Goes, job.busy, cfg' = cfg, kicked' = kicked, kicked \in 1 .. Len(Jobs),
             cfg = Jobs[kicked]
      PROVE  StoredInv'
  <2>1. ml_st' \in StoreWaits => StoredPart'
    <3> SUFFICES ASSUME ml_st' \in StoreWaits PROVE StoredPart'
      OBVIOUS
    <3>1. /\ job' = job
          /\ \/ StoreIssued(OutPtr(cfg), DstOf(cfg, Tile))
             \/ ml_st \in StoreWaits /\ ml_st' = ml_st /\ ~mlwb'.go /\ StoreKept
      BY <1>4, StoreMoves
    <3>2. CASE StoreIssued(OutPtr(cfg), DstOf(cfg, Tile))
      <4>1. mlwb'.go /\ dma_st' = "IDLE"
        BY <1>1, <3>2 DEF StoreIssued, PulseInv
      <4> QED BY <4>1 DEF StoredPart
    <3>3. CASE ml_st \in StoreWaits /\ ml_st' = ml_st /\ ~mlwb'.go /\ StoreKept
      BY <3>1, <3>3, StoredStay
    <3> QED BY <3>1, <3>2, <3>3
  <2>2. ASSUME ml_st' \in Counted PROVE AllIn(shared', cfg, Ready')
    <3>1. CountsOn
      BY <1>4, <2>2, ReadyStep
    <3>2. CASE Ready' = 0
      BY <3>2 DEF AllIn, Tiles
    <3>3. CASE ml_st \in Counted /\ Ready' = Ready
      <4>1. AllIn(shared, cfg, Ready)
        BY <3>3 DEF StoredInv
      <4>2. AllIn(shared', cfg, Ready)
        BY <1>1, <1>4, <4>1, AllKept
      <4> QED BY <3>3, <4>2
    <3>4. CASE ml_st \in StoreWaits /\ StoreRight /\ Ready = Tile /\ Ready' = Tile + 1
      <4>1. ml_st \in Counted
        BY <3>4, StateNames DEF StoreWaits, Counted, LegacyStates
      <4>2. AllIn(shared, cfg, Tile)
        BY <3>4, <4>1 DEF StoredInv
      <4>3. StoredUpTo(cfg, Tile, StoreLen)
        BY <3>4 DEF StoredInv, StoredPart, StoreRight
      <4>4. Tile \in Nat
        BY <3>4, StorePlace
      <4>5. AllIn(shared, cfg, Tile + 1)
        <5> SUFFICES ASSUME NEW g \in Tiles(cfg), NEW v \in 0 .. StoreLen - 1, g < Tile + 1
                     PROVE  RightIn(shared, cfg, g, v)
          BY DEF AllIn
        <5>1. g < Tile \/ g = Tile
          BY <4>4 DEF Tiles
        <5>2. g < Tile => RightIn(shared, cfg, g, v)
          BY <4>2 DEF AllIn
        <5>3. g = Tile => RightIn(shared, cfg, g, v)
          BY <4>3 DEF StoredUpTo
        <5> QED BY <5>1, <5>2, <5>3
      <4>6. AllIn(shared', cfg, Tile + 1)
        BY <1>1, <1>4, <4>5, AllKept
      <4> QED BY <3>4, <4>6
    <3> QED BY <3>1, <3>2, <3>3, <3>4 DEF CountsOn
  <2>3. ml_st' = "DONE" => \A g \in Tiles(cfg) : g < Ready'
    <3>1. ml_st' = "DONE" => CountsOn
      BY <1>4, ReadyStep DEF Counted
    <3> QED BY <3>1 DEF CountsOn
  <2> QED BY <1>4, <2>1, <2>2, <2>3 DEF StoredInv
<1> QED BY <1>2, <1>3, <1>4, Ways

\* A job is in memory: all its words are right.
LEMMA StoredIsRight ==
    ASSUME NEW i
    PROVE  /\ JobStored(i) <=>
                  \A g \in Tiles(Jobs[i]), v \in 0 .. StoreLen - 1 :
                      RightIn(shared, Jobs[i], g, v)
           /\ JobStored(i)' <=>
                  \A g \in Tiles(Jobs[i]), v \in 0 .. StoreLen - 1 :
                      RightIn(shared', Jobs[i], g, v)
  BY DEF JobStored, Stored, RightIn

\* A job that is in memory stays there, while another job of the ring runs too.
LEMMA JobKept ==
    ASSUME NEW m, NEW ar, NEW r, NEW aw, NEW w, NEW b, Edge(m, ar, r, aw, w, b), KickInv,
           ModeInv, WritePart, NEW i \in 1 .. Len(Jobs), i = kicked \/ Program = "cq",
           JobStored(i)
    PROVE  JobStored(i)'
<1>1. ASSUME NEW g \in Tiles(Jobs[i]), NEW v \in 0 .. StoreLen - 1
      PROVE  RightIn(shared', Jobs[i], g, v)
  <2>1. RightIn(shared, Jobs[i], g, v)
    BY StoredIsRight
  <2> QED BY <2>1, RightStays
<1> QED BY <1>1, StoredIsRight

LEMMA ResultsStep ==
    ASSUME NEW m, NEW ar, NEW r, NEW aw, NEW w, NEW b, Edge(m, ar, r, aw, w, b), KickInv,
           ModeInv, WritePart, StoredInv, ResultsStored
    PROVE  ResultsStored'
<1>1. /\ Types /\ TurnInv /\ FirmwareInv /\ Moves(m)
      /\ cq.head \in 0 .. Len(Jobs) /\ kicked \in 0 .. Len(Jobs) /\ Len(Jobs) \in Nat
      /\ Program \in {"cq", "job"}
  BY EngineFacts, SeqStep, StripAssumption DEF Types, TopTypes
<1>2. /\ m \in FwMoves /\ Firmware(m) /\ TopTypes /\ fw \in FwStates
      /\ cq'.head = cq.head \/ (m = "head" /\ cq'.head = NextJob)
  BY <1>1 DEF Edge, Types, TopTypes
<1>3. ASSUME NEW i \in 1 .. cq.head PROVE i \in 1 .. Len(Jobs) /\ JobStored(i)'
  <2>1. i \in 1 .. Len(Jobs) /\ JobStored(i)
    BY <1>1 DEF ResultsStored
  <2>2. Program = "cq"
    BY <1>1 DEF KickInv
  <2> QED BY <2>1, <2>2, JobKept
<1>4. ASSUME NEW i \in 1 .. cq'.head PROVE JobStored(i)'
  <2>1. CASE cq'.head = cq.head
    BY <1>3, <2>1
  <2>2. CASE m = "head" /\ cq'.head = NextJob
    <3>1. fw = "head"
      BY <1>1, <1>2, <2>2, FwMoved DEF FwRuns
    <3>2. Program = "cq"
      BY <1>1, <3>1 DEF FirmwareInv, DriverStates
    <3>3. kicked = NextJob /\ job.done /\ NextJob = cq.head + 1
      BY <3>1, <3>2 DEF KickInv, NextJob
    <3>4. i \in 1 .. cq.head \/ i = kicked
      BY <1>1, <2>2, <3>3
    <3>5. ASSUME i = kicked PROVE JobStored(i)'
      <4>1. JobStored(kicked) /\ i \in 1 .. Len(Jobs)
        BY <1>1, <3>3, <3>5 DEF ResultsStored
      <4>2. JobStored(i)
        BY <3>5, <4>1
      <4> QED BY <3>5, <4>1, <4>2, JobKept
    <3> QED BY <1>3, <3>4, <3>5
  <2> QED BY <1>2, <2>1, <2>2
<1>5. ASSUME job'.done, kicked' # 0
      PROVE  /\ kicked' = kicked
             /\ \A g \in Tiles(Jobs[kicked]), v \in 0 .. StoreLen - 1 :
                    RightIn(shared, Jobs[kicked], g, v)
  <2>1. ~GoTaken(MlWrite(m), FALSE) /\ (job.done \/ ml_st = "DONE")
    BY <1>1, <1>5 DEF Moves, EndMove
  <2>2. kicked' = kicked
    BY <2>1 DEF Edge
  <2>3. CASE job.done
    BY <1>5, <2>2, <2>3, StoredIsRight DEF ResultsStored
  <2>4. CASE ml_st = "DONE"
    <3>1. job.busy /\ cfg = Jobs[kicked]
      BY <1>1, <2>4 DEF TurnInv, KickInv
    <3>2. AllIn(shared, cfg, Ready) /\ \A g \in Tiles(cfg) : g < Ready
      BY <2>4 DEF StoredInv, Counted
    <3> QED BY <2>2, <3>1, <3>2 DEF AllIn
  <2> QED BY <2>1, <2>2, <2>3, <2>4
<1>6. ASSUME job'.done, kicked' # 0 PROVE JobStored(kicked)'
  <2>1. kicked' = kicked /\ kicked \in 1 .. Len(Jobs)
    BY <1>1, <1>5, <1>6
  <2>2. ASSUME NEW g \in Tiles(Jobs[kicked]), NEW v \in 0 .. StoreLen - 1
        PROVE  RightIn(shared', Jobs[kicked], g, v)
    <3>1. RightIn(shared, Jobs[kicked], g, v)
      BY <1>5, <1>6
    <3> QED BY <2>1, <3>1, RightStays
  <2> QED BY <2>1, <2>2 DEF JobStored, Stored, RightIn
<1> QED BY <1>4, <1>6 DEF ResultsStored

-----------------------------------------------------------------------------
(* The invariant and what it says of the results.                           *)

LEMMA DataInit ==
    ASSUME Init PROVE DInv
<1>1. /\ ml_st = "IDLE" /\ fw = "off" /\ ~job.busy /\ ~job.done /\ cq.head = 0 /\ kicked = 0
  BY DEF Init, MlInit, RegsInit
<1>2. /\ dma_st = "IDLE" /\ ~strip_done /\ ~narrow_l /\ ~t_we
  BY DEF Init, DmaInit, MatInit
<1>3. KickInv
  BY <1>1 DEF KickInv
<1>4. LoopInv
  BY <1>1 DEF LoopInv, PrefillPart, StripPart, TilePart, StripLive, StripStates, LegacyStates
<1>5. FillInv
  <2>1. bank \in [{0, 1} -> [Cells -> Int]]
    BY DEF Init, StripBufInit
  <2> QED BY <1>2, <2>1 DEF FillInv, XferStates, StripChain
<1>6. PrefetchedInv
  BY <1>1 DEF PrefetchedInv, FetchPart, PrefillPart, StripPart, TilePart, StripLive, StripStates
<1>7. ModeInv
  <2>1. DOMAIN tcm = 0 .. TcmWords - 1 /\ DOMAIN shared = ResultBeats
    BY DEF Init
  <2> QED BY <1>2, <2>1 DEF ModeInv
<1>8. LoadInv /\ OperInv
  BY <1>1 DEF LoadInv, LoadWaits, OperInv, LegacyStates
<1>9. AccInv
  <2>1. DOMAIN acc = Banks
    BY DEF Init, MatInit
  <2> QED BY <1>1, <2>1 DEF AccInv, ClrWaits, OpStates, OpWaits, RscStates, RscWaits
<1>10. PipeInv
  BY <1>1 DEF PipeInv, RscWaits
<1>11. StoreInv
  BY <1>1, <1>2 DEF StoreInv, StoreWaits, WritePart
<1>12. StoredInv
  BY <1>1 DEF StoredInv, StoreWaits, Counted, StripPart, PrefillPart, StripLive, StripStates,
              LegacyStates
<1>13. OnlyRightResults
  BY DEF Init, OnlyRightResults
<1>14. ResultsStored
  BY <1>1 DEF ResultsStored
<1> QED BY <1>3, <1>4, <1>5, <1>6, <1>7, <1>8, <1>9, <1>10, <1>11, <1>12, <1>13, <1>14 DEF DInv

\* The layers are kept in their order, each by its own lemma.
LEMMA EdgeKeeps ==
    ASSUME NEW m, NEW ar, NEW r, NEW aw, NEW w, NEW b, Edge(m, ar, r, aw, w, b), DInv
    PROVE  DInv'
<1>1. /\ KickInv /\ LoopInv /\ FillInv /\ PrefetchedInv /\ ModeInv /\ LoadInv /\ OperInv
      /\ AccInv /\ PipeInv /\ StoreInv /\ StoredInv /\ OnlyRightResults /\ ResultsStored
      /\ WritePart
  BY DEF DInv, StoreInv
<1>2. KickInv' /\ LoopInv'
  BY <1>1, KickStep, LoopStep
<1>3. FillInv' /\ PrefetchedInv'
  BY <1>1, FillStep, PrefetchedStep
<1>4. ModeInv' /\ LoadInv'
  BY <1>1, ModeStep, LoadStep
<1>5. OperInv'
  BY <1>1, OperStep
<1>6. AccInv'
  BY <1>1, AccStep
<1>7. PipeInv'
  BY <1>1, PipeStep
<1>8. StoreInv'
  BY <1>1, StoreStep
<1>9. StoredInv'
  BY <1>1, StoredStep
<1>10. OnlyRightResults'
  BY <1>1, OnlyRightStep
<1>11. ResultsStored'
  BY <1>1, ResultsStep
<1> QED BY <1>2, <1>3, <1>4, <1>5, <1>6, <1>7, <1>8, <1>9, <1>10, <1>11 DEF DInv

LEMMA DataNext ==
    ASSUME SInv, CalmData, [Next]_vars PROVE CalmData'
<1>1. CASE Next
  <2> SUFFICES ASSUME Calm' PROVE DInv'
    BY DEF CalmData
  <2>1. Calm /\ \E m, ar, r, aw, w, b : Edge(m, ar, r, aw, w, b)
    BY <1>1, CalmEdge
  <2>2. PICK m, ar, r, aw, w, b : Edge(m, ar, r, aw, w, b)
    BY <2>1
  <2>3. DInv
    BY <2>1 DEF CalmData
  <2> QED BY <2>2, <2>3, EdgeKeeps
<1>2. CASE UNCHANGED vars
  <2>1. /\ UNCHANGED <<dmaVars, matVars, mlVars, stripBufVars, regVars, slaveVars>>
        /\ UNCHANGED topVars
    BY <1>2 DEF vars
  <2> USE <2>1 DEF dmaVars, flags, archan, wchans, xfer, beats, sflags, sxfer, sends, matVars,
                   mlVars, stripBufVars, regVars, slaveVars, topVars
  <2>2. Calm' = Calm
    BY DEF Calm
  <2>3. KickInv' = KickInv
    BY DEF KickInv, NextJob
  <2>4. LoopInv' = LoopInv
    BY DEF LoopInv, StripLast, SubtileLast
  <2>5. FillInv' = FillInv
    BY DEF FillInv, Fill, Filled
  <2>6. PrefetchedInv' = PrefetchedInv
    BY DEF PrefetchedInv, StripAt, StripLast, Fill, Filled
  <2>7. ModeInv' = ModeInv
    BY DEF ModeInv
  <2>8. LoadInv' = LoadInv
    <3>1. Step' = Step /\ ThisBurst' = ThisBurst /\ WordsInBurst' = WordsInBurst
      BY DEF Step, ThisBurst, WordsInBurst, Dist4k
    <3>2. LoadLen' = LoadLen /\ mldma' = mldma /\ tcm' = tcm /\ buf_addr' = buf_addr
      BY DEF LoadLen
    <3>3. LoadPart' = LoadPart
      BY <3>1, <3>2 DEF LoadPart, LoadOff, Load, Loaded
    <3> QED BY <3>2, <3>3 DEF LoadInv
  <2>9. OperInv' = OperInv
    <3>1. LoadLen' = LoadLen /\ tcm' = tcm
      BY DEF LoadLen
    <3> QED BY <3>1 DEF OperInv, Loaded
  <2>10. AccInv' = AccInv
    <3>1. Tile' = Tile /\ FoldAt' = FoldAt /\ ActAt' = ActAt /\ WeightAt' = WeightAt
          /\ FirstN' = FirstN /\ CountN' = CountN
      BY DEF Tile, GlobalSub, FoldAt, ActAt, WeightAt, FirstN, CountN, OpA, OpB, ChunkLast
    <3>2. acc' = acc /\ cfg' = cfg
      OBVIOUS
    <3>3. ClrPart' = ClrPart
      BY <3>1, <3>2 DEF ClrPart, Sums
    <3>4. OpPart' = OpPart
      <4>1. StripWeightBase' = StripWeightBase
        BY DEF StripWeightBase
      <4> QED BY <3>1, <3>2, <4>1 DEF OpPart, Sums
    <3> QED BY <3>1, <3>2, <3>3, <3>4 DEF AccInv, Sums
  <2>11. PipeInv' = PipeInv
    <3>1. Tile' = Tile /\ ParamAt' = ParamAt /\ cfg' = cfg /\ tcm' = tcm
      BY DEF Tile, GlobalSub, ParamAt
    <3>2. PipePart' = PipePart
      BY <3>1 DEF PipePart, OutReg, Held, Params
    <3> QED BY <3>2 DEF PipeInv
  <2>12. StoreInv' = StoreInv
    <3>1. Tile' = Tile /\ cfg' = cfg /\ tcm' = tcm /\ mlwb' = mlwb /\ kicked' = kicked
      BY DEF Tile, GlobalSub
    <3>2. Step' = Step /\ WordsInBurst' = WordsInBurst
      BY DEF Step, WordsInBurst
    <3>3. WritePart' = WritePart
      BY <3>1, <3>2 DEF WritePart, StoreCmd, Held, StoreOff
    <3> QED BY <3>1, <3>3 DEF StoreInv, StoreCmd, Held
  <2>13. StoredInv' = StoredInv
    <3>1. Tile' = Tile /\ Ready' = Ready /\ StoreOff' = StoreOff /\ cfg' = cfg
          /\ shared' = shared
      BY DEF Tile, GlobalSub, Ready, StoreOff
    <3>2. StoredPart' = StoredPart
      BY <3>1 DEF StoredPart, StoredUpTo
    <3> QED BY <3>1, <3>2 DEF StoredInv, AllIn
  <2>14. OnlyRightResults' = OnlyRightResults
    BY DEF OnlyRightResults
  <2>15. ResultsStored' = ResultsStored
    BY DEF ResultsStored, JobStored, Stored
  <2>16. DInv' = DInv
    BY <2>3, <2>4, <2>5, <2>6, <2>7, <2>8, <2>9, <2>10, <2>11, <2>12, <2>13, <2>14, <2>15
       DEF DInv
  <2> QED BY <2>2, <2>16 DEF CalmData
<1> QED BY <1>1, <1>2

\* Every datum of a calm NPU is the right one at every stage of its way: weights in
\* the strip banks, operands in the TCM, the accumulators, the requantisation
\* pipe, the result window, the store and shared memory, for jobs that
\* JobsAssumption admits.
THEOREM DataInvariant == Spec => []CalmData
<1>1. Init => CalmData
  BY DataInit DEF CalmData
<1>2. SInv /\ CalmData /\ [Next]_vars => CalmData'
  BY DataNext
<1> QED BY <1>1, <1>2, StripInvariant, PTL DEF Spec

\* Nothing but right results is stored: every beat that npu_top has written to
\* shared memory holds words of one tile of one job, each computed from the
\* weights, activations, fold and parameters of that very tile, whatever the
\* number of jobs, the delays of the bus and the errors it answers, until the host
\* resets the NPU or restarts it after an error.  The strip jobs are those with
\* room to be staged (JobsAssumption): by RoomIsFits two strips and two chunks in
\* whole blocks, which StagingFits shows to be staged intact.
THEOREM RightResults == Spec => [](Calm => OnlyRightResults)
<1>1. CalmData => (Calm => OnlyRightResults)
  BY DEF CalmData, DInv
<1> QED BY <1>1, DataInvariant, PTL

\* What is reported done is in memory: when the sequencer reports a job done
\* (npu_ml_ctrl.v), and for every job the firmware has retired by advancing HEAD,
\* every word of every tile of the result is in shared memory and the right one.
\* The jobs are those of RightResults.
THEOREM ResultsArrive == Spec => [](Calm => ResultsStored)
<1>1. CalmData => (Calm => ResultsStored)
  BY DEF CalmData, DInv
<1> QED BY <1>1, DataInvariant, PTL
=============================================================================
