------------------------------- MODULE NpuStrip -------------------------------
(***************************************************************************)
(* The NPU at work: the CSR block, the GEMM sequencer, the matrix engine,  *)
(* the DMA engine and the strip buffer on one clock, wired as in npu_top.v,*)
(* with the CQ firmware that kicks jobs, the host that feeds, resets and    *)
(* acknowledges, and the AXI slave that holds blobs, weights and results.  *)
(*                                                                         *)
(* Every step is one clock edge: each block takes its own clock step on the *)
(* values of the cycle that ends.  The firmware and the host may stall for *)
(* any number of cycles between two of their instructions, the slave       *)
(* between two answers.                                                    *)
(***************************************************************************)
EXTENDS NpuDma, MatEngine, NpuMlCtrl, NpuStripBuf, NpuAxilRegs, FiniteSets

CONSTANTS
    Program,      \* the firmware in the ITCM: "cq" (cq_sequencer) or "job" (ml_job_driver)
    Jobs,         \* ML register values of the jobs: of the ring, in order, or of
                  \* the builds of ml_job_driver that the host runs one after
                  \* another: one for the start and one for each restart
    FetchDesc,    \* the firmware's own transfer before a kick: it stands for the
                  \* ring fetch and the reads that stage folds, parameters and
                  \* activations
    BatchN,       \* descriptors the firmware takes at once from the ring (8)
    TcmWords,     \* written words of the TCM
    ResultBeats,  \* beat addresses of shared memory that may hold results
    MaxErrs,      \* bound: error responses of the bus
    MaxSoft,      \* bound: soft resets by the host
    MaxAcks,      \* bound: restarts after a reported error or a finished driver
    Lag           \* how the slave may delay: a set of channel names

ASSUME StripAssumption ==
    /\ {MaxErrs, MaxSoft, MaxAcks, TcmWords} \subseteq Nat /\ BatchN \in Nat \ {0}
    /\ ChunkBytes = PageBytes /\ StoreLen = OutWords
    /\ Program \in {"cq", "job"}
    /\ Jobs \in Seq(CfgType) /\ FetchDesc \in [src : Nat, dst : Nat, len : Nat]
    /\ Program = "job" => MaxAcks < Len(Jobs)
    /\ Lag \subseteq {"ar", "r", "aw", "w", "b", "core"}

VARIABLES
    mode_write,   \* dma_mode_write_l: which busy/done pair shows the engine
    tcm,          \* content of the written part of the TCM
    done_latch,   \* mailbox of the core
    rleft, raddr, wleft, waddr, bowed,   \* the slave
    shared,       \* result area of shared memory
    fw, host,     \* control states of firmware and host
    batch,        \* descriptors of the batch that are not retired yet
    errs, softs, acks,                   \* what has been used of the bounds
    kicked,       \* history: the job last kicked (0: none)
    bus_erred,    \* history: a response was an error during the last job
    fetched       \* history: the DMA accepted the firmware's last DMA_GO

slaveVars == <<rleft, raddr, wleft, waddr, bowed, shared>>
topVars == <<mode_write, tcm, done_latch, fw, host, batch, errs, softs, acks, kicked, bus_erred,
             fetched>>
vars == <<dmaVars, matVars, mlVars, stripBufVars, regVars, slaveVars, topVars>>

\* Causes of the ERR_CAUSE namespace.
CQ_ERR_DMA_FAULT == 5
CQ_ERR_STRIP     == 9
ML_STRIP_DMA_ERR == 9

Init ==
    /\ DmaInit /\ MatInit /\ MlInit /\ StripBufInit /\ RegsInit
    /\ mode_write = FALSE /\ done_latch = FALSE
    /\ tcm = [i \in 0 .. TcmWords - 1 |-> <<>>]
    /\ rleft = 0 /\ raddr = 0 /\ wleft = 0 /\ waddr = 0 /\ bowed = FALSE
    /\ shared = [a \in ResultBeats |-> <<>>]
    /\ fw = "off" /\ host = IF Program = "cq" THEN "enable" ELSE "start"
    /\ batch = 0 /\ errs = 0 /\ softs = 0 /\ acks = 0
    /\ kicked = 0 /\ bus_erred = FALSE /\ fetched = FALSE

-----------------------------------------------------------------------------
(* Wires of npu_top.  The sequencer owns the engines while a job runs.      *)
Engines ==
    [mat_busy |-> MatBusy, mat_done |-> mat_done, mat_err |-> mat_err,
     dma_busy |-> busy /\ ~mode_write, dma_done |-> done /\ ~mode_write, dma_err |-> err,
     wb_busy |-> busy /\ mode_write, wb_done |-> done /\ mode_write,
     strip_busy |-> strip_busy, strip_done |-> strip_done, strip_err |-> strip_err]

ReadGo     == IF MlActive THEN mldma.go ELSE dma_go
WriteGo    == IF MlActive THEN mlwb.go ELSE wb_go
StartWrite == WriteGo /\ ~ReadGo
DmaStart   == ReadGo \/ WriteGo
MatGoWire  == IF MlActive THEN mlmat.go ELSE mat_go

Wires ==
    LET rd == IF MlActive THEN mldma ELSE dma_desc
        wr == IF MlActive THEN mlwb ELSE wb_desc
    IN  [write |-> StartWrite, narrow |-> ~MlActive,
         src  |-> IF StartWrite THEN wr.dst ELSE rd.src,
         word |-> IF StartWrite THEN wr.src ELSE rd.dst,
         len  |-> IF StartWrite THEN wr.len ELSE rd.len]

StripWires == [addr |-> mlstrip.addr, bytes |-> mlstrip.bytes, bank |-> mlstrip.bank]

\* What a window of the TCM holds: the written part, or the staged operand
\* that the pointer names.
Window(ptr, n) == IF ptr.rgn = "tcm" THEN tcm[ptr.i + n * WPB]
                  ELSE <<ptr.rgn, ptr.i + n>>
Ports ==
    [a |-> IF AReads THEN Window(cmd_q.a, rep_i) ELSE <<>>,
     b |-> IF ~BReads THEN <<>>
           ELSE IF StripActive THEN <<"bus", EngB(job.bank, job.wbase + rep_i * BeatBytes)>>
           ELSE Window(cmd_q.b, rep_i)]

\* TCM write port, dma before engine; one word or a whole beat at a time.
TcmClk(r) ==
    tcm' = IF BufWe(r)
           THEN [i \in DOMAIN tcm |-> IF i - buf_addr \in 0 .. Step - 1
                                      THEN <<"bus", raddr + 4 * (i - buf_addr)>> ELSE tcm[i]]
           ELSE IF t_we THEN [tcm EXCEPT ![t_waddr] = t_wdata] ELSE tcm

ModeClk ==
    mode_write' = IF ~busy /\ DmaStart THEN StartWrite ELSE mode_write

-----------------------------------------------------------------------------
(* The AXI slave: any delay on the channels of Lag, an error response while *)
(* the bound lasts.                                                        *)
Late(ch) == IF ch \in Lag THEN BOOLEAN ELSE {TRUE}
MayErr   == IF errs < MaxErrs THEN BOOLEAN ELSE {FALSE}
RChoices == IF rleft = 0 THEN {[valid |-> FALSE, last |-> FALSE, err |-> FALSE]}
            ELSE {[valid |-> v, last |-> (v /\ rleft = 1), err |-> (v /\ x)] :
                  v \in Late("r"), x \in MayErr}
BChoices == IF ~bowed THEN {[valid |-> FALSE, err |-> FALSE]}
            ELSE {[valid |-> v, err |-> (v /\ x)] : v \in Late("b"), x \in MayErr}

ArFire(ready) == arvalid /\ ready
AwFire(ready) == awvalid /\ ready
WFire(ready)  == wvalid /\ ready
BusErr(r, b)  == (r.err /\ MRready) \/ (b.err /\ dma_st = "B")

SlaveClk(ar, r, aw, w, b) ==
    /\ rleft' = IF ArFire(ar) THEN arbeats
                ELSE IF r.valid /\ MRready THEN rleft - 1 ELSE rleft
    /\ raddr' = IF ArFire(ar) THEN araddr
                ELSE IF r.valid /\ MRready THEN raddr + 4 * Step ELSE raddr
    /\ wleft' = IF AwFire(aw) THEN awbeats ELSE IF WFire(w) THEN wleft - 1 ELSE wleft
    /\ waddr' = IF AwFire(aw) THEN awaddr
                ELSE IF WFire(w) THEN waddr + 4 * Step ELSE waddr
    /\ bowed' = IF WFire(w) /\ MWlast THEN TRUE ELSE bowed /\ ~(b.valid /\ dma_st = "B")
    /\ shared' = IF WFire(w)
                 THEN [shared EXCEPT ![waddr] =
                          [n \in 1 .. Step |-> tcm[buf_raddr + n - 1]]]
                 ELSE shared
    /\ errs' = IF BusErr(r, b) THEN errs + 1 ELSE errs

-----------------------------------------------------------------------------
(* The firmware: cq_sequencer.c on a ring of strip descriptors, or          *)
(* ml_job_driver.c with its one job.  fw is the CSR access it does next:    *)
(* what the registers see of it, what the sequencer sees of it, and where   *)
(* the firmware goes from there.  A function return ("dret") lies between a *)
(* GO store and the next load.                                             *)
Write(r, v) == [reg |-> r, val |-> v]
NoMl        == [reg |-> "none"]
NextJob     == IF Program = "cq" THEN cq.head + 1 ELSE acks + 1
StripOff    == Write("cfg", [cfg EXCEPT !.strip = FALSE])

CoreWrite(pc) ==
    CASE pc = "busy"   -> Write("CQ_EVENT", [busy |-> TRUE, idle |-> FALSE, irq |-> FALSE])
      [] pc = "desc"   -> Write("DMA_DESC", FetchDesc)
      [] pc = "dgo"    -> Write("DMA_GO", 1)
      [] pc = "dfault" -> Write("ERR_CAUSE", CQ_ERR_DMA_FAULT)
      [] pc = "cause"  -> Write("ERR_CAUSE", CQ_ERR_STRIP)
      [] pc = "head"   -> Write("CQ_HEAD", NextJob)
      [] OTHER         -> NoWrite

MlWrite(pc) ==
    CASE pc \in {"cfg", "jcfg"} -> Write("cfg", Jobs[NextJob])
      [] pc \in {"go", "jgo"}   -> [reg |-> "go"]
      [] pc \in {"mode_err", "mode_ok"} -> StripOff
      [] OTHER      -> NoMl

FwNext(pc) ==
    CASE pc = "off"   -> IF Program = "cq" THEN "boot" ELSE "jcfg"
      [] pc = "jcfg"  -> "jgo"                        \* ml_job_driver
      [] pc = "jgo"   -> "jpoll"
      [] pc = "jpoll" -> IF job.done THEN "exit" ELSE "jpoll"
      [] pc = "boot"  -> IF cq.enable THEN "loop" ELSE "exit"
      [] pc = "exit"  -> "halt"                       \* mailbox, then spin
      [] pc = "loop"  -> IF cq.head = cq.tail THEN "loop" ELSE "busy"
      [] pc = "busy"  -> "desc"
      [] pc = "desc"  -> "dgo"
      [] pc = "dgo"   -> "dret"
      [] pc = "dret"  -> "dwait"
      [] pc = "dwait" -> IF err THEN "dfault"         \* wait_done
                         ELSE IF done /\ ~mode_write THEN "cfg" ELSE "dwait"
      [] pc = "cfg"   -> "go"
      [] pc = "go"    -> "poll"
      [] pc = "poll"  -> IF job.err THEN "mode_err"
                         ELSE IF job.done THEN "mode_ok" ELSE "poll"
      [] pc = "mode_err" -> "cause"
      [] pc = "mode_ok"  -> "head"
      [] pc = "head"     -> IF batch > 1 THEN "desc" ELSE "loop"
      [] OTHER           -> "halt"                    \* cq_halt spins

\* core_resetn: the core is held in reset while CTRL.start is 0.
FwMoves == IF ~ctrl.start THEN {"reset"}
           ELSE IF "core" \in Lag /\ fw \notin {"off", "loop", "halt"}
                THEN {fw, "stall"} ELSE {fw}

Firmware(m) ==
    /\ fw' = CASE m = "reset" -> "off" [] m = "stall" -> fw [] OTHER -> FwNext(m)
    /\ batch' = CASE m = "reset" -> 0
                  [] m = "loop"  -> LesserOf(cq.tail - cq.head, BatchN)
                  [] m = "head"  -> batch - 1
                  [] OTHER       -> batch

-----------------------------------------------------------------------------
(* The host: enable the queue, start, publish the ring with CQ_TAIL         *)
(* (host_producer.c); on an error stop the core and toggle CQ_CTRL.enable   *)
(* (ADR-0035), or soft-reset at any moment, wait for STATUS[8] to drop and  *)
(* toggle (ADR-0038); then start again.  After STATUS.done of ml_job_driver *)
(* it may load the next build and start that.                               *)
Ctrl(st, soft) == Write("CTRL", [start |-> st, irq_en |-> TRUE, irq_clear |-> FALSE,
                                 soft |-> soft, hard |-> FALSE])
HostWrite(m) ==
    CASE m = "tail"    -> Write("CQ_TAIL", Len(Jobs))
      [] m = "enable"  -> Write("CQ_CTRL", TRUE)
      [] m = "start"   -> Ctrl(TRUE, FALSE)
      [] m = "soft"    -> Ctrl(TRUE, TRUE)
      [] m = "stop"    -> Ctrl(FALSE, FALSE)
      [] m = "disable" -> Write("CQ_CTRL", FALSE)
      [] OTHER         -> NoWrite

Finished == IF Program = "cq" THEN cq.err ELSE done_latch

HostMoves ==
    {"stall"} \cup
    CASE host = "watch"   -> {m \in {"soft", "stop"} :
                                \/ m = "soft" /\ softs < MaxSoft
                                \/ m = "stop" /\ Finished /\ acks < MaxAcks}
      [] host = "quiesce" -> IF soft_rst THEN {} ELSE {"quiesced"}
      [] OTHER            -> {host}

Host(m) ==
    /\ host' = CASE m = "stall"    -> host
                 [] m = "enable"   -> "start"
                 [] m = "start"    -> IF Program = "cq" /\ cq.tail = 0 THEN "tail" ELSE "watch"
                 [] m = "tail"     -> "watch"
                 [] m = "soft"     -> "quiesce"
                 [] m \in {"stop", "quiesced"} -> IF Program = "cq" THEN "disable" ELSE "start"
                 [] m = "disable"  -> "enable"
    /\ softs' = IF m = "soft" THEN softs + 1 ELSE softs
    /\ acks'  = IF m = "stop" THEN acks + 1 ELSE acks

-----------------------------------------------------------------------------
\* A cause from the sequencer takes the core's CSR port for one cycle.
CorePort(m) == IF ml_err_we THEN Write("ERR_CAUSE", ML_STRIP_DMA_ERR) ELSE CoreWrite(m)

(* One clock edge: h and m are the moves of host and firmware, the rest the *)
(* answers of the slave.                                                    *)
Clock(h, m, ar, r, aw, w, b) ==
    /\ Host(h) /\ Firmware(m)
    /\ RegsClk(HostWrite(h), CorePort(m), ~busy /\ ~MatBusy,
               [dma_done |-> Engines.dma_done, wb_done |-> Engines.wb_done,
                dma_err |-> err, npu_done |-> done_latch])
    /\ MlClk(MlWrite(m), soft_rst, Engines)
    /\ MatClk(soft_rst, MatGoWire, mlmat, Ports)
    /\ DmaClk(soft_rst, DmaStart, Wires, mlstrip.start, StripWires, ar, r, aw, w, b)
    /\ StripBufClk(mlstrip.clear, StripWe(r), strip_bank_l, strip_waddr, raddr, strip_done)
    /\ TcmClk(r) /\ ModeClk
    /\ done_latch' = (ctrl.start /\ (done_latch \/ m = "exit"))
    /\ SlaveClk(ar, r, aw, w, b)
    /\ kicked' = IF GoTaken(MlWrite(m), soft_rst) THEN NextJob ELSE kicked
    /\ bus_erred' = IF GoTaken(MlWrite(m), soft_rst) THEN FALSE
                    ELSE bus_erred \/ (job.busy /\ BusErr(r, b))
    /\ fetched' = (m # "dgo" /\ (fetched \/ (dma_go /\ ~MlActive /\ ~soft_rst /\ dma_st = "IDLE")))

Next ==
    \E h \in HostMoves, m \in FwMoves :
        \E ar \in Late("ar"), r \in RChoices, aw \in Late("aw"), w \in Late("w"),
           b \in BChoices : Clock(h, m, ar, r, aw, w, b)

-----------------------------------------------------------------------------
(* A cycle in which nobody stalls. *)
Responsive ==
    \E h \in HostMoves, m \in FwMoves \ {"stall"}, r \in RChoices, b \in BChoices :
        /\ r.valid = (rleft > 0) /\ b.valid = bowed
        /\ h = "stall" => (host = "watch" \/ HostMoves = {"stall"})
        /\ Clock(h, m, TRUE, r, TRUE, TRUE, b)

Spec == Init /\ [][Next]_vars /\ WF_vars(Responsive)

-----------------------------------------------------------------------------
(* What a job computes: word w of tile g of job c comes from the fold of the *)
(* tile, every operand window of K in order with the weights of the same     *)
(* strip, chunk, sub-tile and window, and the tile's parameters.  A tile is  *)
(* a sub-tile of a strip job or a tile of a legacy job.                      *)
Tiles(c)   == 0 .. IF c.strip THEN (c.nstrips - 1) * SubTiles + c.ntail - 1
                              ELSE c.ntiles - 1
Windows(c) == 1 .. IF c.strip THEN (c.kchunks - 1) * Reps + c.ktail ELSE Reps

WeightAddr(c, g, n) ==
    c.wbase + (g \div SubTiles) * c.sbytes + (g % SubTiles) * TileBytes
            + (n \div Reps) * ChunkBytes + (n % Reps) * BeatBytes

\* Window n of the blob of a legacy tile in shared memory.
Blob(g, n) == <<"bus", BlobBase + g * JobStride + n * BeatBytes>>

PadWins      == StoreLen \div WPB

Fold(c, g)   == IF c.strip THEN <<"fold", g>> ELSE Blob(g, 0)
Param(c, g)  == IF c.strip THEN <<"param", g>> ELSE Blob(g, 1)
Act(c, g, n) == IF c.strip THEN <<"act", n>>
                ELSE IF c.stationary THEN <<"bus", ActSrc + n * BeatBytes>>
                ELSE Blob(g, 2 + PadWins + n)
Weights(c, g, n) == IF c.strip THEN <<"bus", WeightAddr(c, g, n)>>
                    ELSE Blob(g, n + IF c.tight THEN 2
                                     ELSE IF c.stationary THEN 2 + PadWins
                                     ELSE 2 + PadWins + Reps)

Row(c, g) == << <<Fold(c, g)>> >> \o
             [n \in Windows(c) |-> <<Act(c, g, n - 1), Weights(c, g, n - 1)>>]

Result(c, g, w) == <<"out", w, <<Row(c, g), <<"blob", Param(c, g)>>>>>>

\* The beat and the position in it where a result word is stored.
BeatOf(c, g, w) == (IF c.strip THEN c.outbase ELSE DstBase)
                   + g * DstStride + (w \div WPB) * BeatBytes
Stored(c, g, w) == shared[BeatOf(c, g, w)]

\* The staged operands of a strip job lie apart, and its weights are whole blocks
\* of STRIP_COMPACT_BYTES, one tile each, so that moving them down spares the
\* parameters behind them (cq_sequencer.c:264).  With the numbers of the code
\* these are the jobs of at most two strips and two chunks in whole blocks: those
\* that StripStaging finds staged intact (Fits).
RoomToStage(c) == StagedApart(c) /\ (c.nstrips * c.sbytes) % TileBytes = 0

\* The jobs the programs are built with.  The blob emitters lay a strip out as
\* offset(c,t) = c*4096 + t*512 (strip_blob.py), which the firmware does not
\* check: sbytes covers what the engine reads.  Every address is one of whole
\* words, a tile fits between two results, the tight layout is a stationary one
\* (npu_ml_ctrl.v:190), a legacy job has a tile, and the jobs of one ring have
\* their results in places of their own.
\* A strip job has room to be staged: the firmware accepts more, and then the
\* windows overwrite each other, which the regions here would not show.
ASSUME JobsAssumption ==
    /\ 0 \in Banks
    /\ \A x \in {BlobBase, JobStride, ActSrc, DstBase, DstStride} : x % 4 = 0
    /\ DstStride >= 4 * StoreLen
    /\ \A i \in 1 .. Len(Jobs) : LET c == Jobs[i] IN
        /\ ~c.bypass
        /\ c.strip =>
            /\ (c.kchunks - 1) * ChunkBytes
               + ((IF c.nstrips = 1 THEN c.ntail ELSE SubTiles) - 1) * TileBytes
               + c.ktail * BeatBytes <= c.sbytes
            /\ RoomToStage(c)
            /\ c.outbase % 4 = 0 /\ MatOut + StoreLen <= TcmWords
        /\ ~c.strip => /\ c.ntiles > 0 /\ (c.tight => c.stationary)
                       /\ AOff + Win(2 * Reps) <= TcmWords
        /\ \A g \in Tiles(c), w \in 0 .. StoreLen - 1 : BeatOf(c, g, w) \in ResultBeats
    /\ Program = "cq" =>
        \A i, k \in 1 .. Len(Jobs) : i # k =>
            \A g \in Tiles(Jobs[i]), w \in 0 .. StoreLen - 1,
               h \in Tiles(Jobs[k]), v \in 0 .. StoreLen - 1 :
                BeatOf(Jobs[i], g, w) # BeatOf(Jobs[k], h, v)

JobStored(i) == \A g \in Tiles(Jobs[i]), w \in 0 .. StoreLen - 1 :
                    LET beat == Stored(Jobs[i], g, w)
                    IN  beat # <<>> /\ beat[(w % WPB) + 1] = Result(Jobs[i], g, w)

\* Type invariant.
TypeOK ==
    /\ dma_st \in DmaStates /\ mat_st \in MatStates /\ ml_st \in MlStates
    /\ cq.head \in 0 .. Len(Jobs) /\ cq.tail \in {0, Len(Jobs)} /\ kicked \in 0 .. Len(Jobs)
    /\ job.bank \in {0, 1} /\ job.sub \in 0 .. SubTiles - 1 /\ bank_valid \subseteq {0, 1}
    /\ {rep_i, el_iss, el_pack, job.tile, job.strip, job.chunk, job.wbase} \subseteq Nat
    /\ {rleft, wleft, errs, softs, acks} \subseteq Nat
    /\ {busy, done, err, strip_busy, strip_done, strip_err, mat_done, mat_err, job.busy,
        job.done, job.err, soft_rst, mode_write, done_latch, bowed, bus_erred} \subseteq BOOLEAN

\* Whenever the sequencer reports a job done, and for every job the firmware
\* has retired by advancing HEAD, every tile of the result is in shared memory
\* and was computed from the right weights, parameters and activations.
ResultsStored ==
    /\ \A i \in 1 .. cq.head : JobStored(i)
    /\ job.done /\ kicked # 0 => JobStored(kicked)

\* Nothing else is ever stored: a job that fails half way leaves correct tiles
\* and untouched ones, never a tile of a mixed or stale strip.
OnlyRightResults ==
    \A a \in ResultBeats : shared[a] # <<>> =>
        \E i \in 1 .. Len(Jobs) : \E g \in Tiles(Jobs[i]) :
            \A n \in 1 .. WPB : \E w \in 0 .. StoreLen - 1 :
                /\ BeatOf(Jobs[i], g, w) = a /\ w % WPB = n - 1
                /\ shared[a][n] = Result(Jobs[i], g, w)

\* The engine never reads the bank that the prefetch is writing, and the
\* prefetch stays in the bank and on whole beats: the $fatal checks of npu_strip_buf.v:78-95 for
\* whatever write the next read beat may cause.
NoBankCollision ==
    dma_st = "STRIP_R" =>
        /\ ~BankCollision(~strip_error_seen, strip_bank_l, BReads /\ StripActive, job.bank)
        /\ ~WriteOutOfStrip(~strip_error_seen /\ rleft > 0, strip_waddr)
        /\ ~UnalignedWrite(~strip_error_seen /\ rleft > 0, strip_waddr)

\* A command pulse finds its engine idle.  Neither engine queues or refuses a
\* command while it is busy: it would be lost, and its WAIT state would take
\* the completion of another command for its own.
NoLostPulse ==
    /\ DmaStart \/ mlstrip.start => dma_st = "IDLE"
    /\ ~(DmaStart /\ mlstrip.start) /\ ~(ReadGo /\ WriteGo)
    /\ MatGoWire => mat_st = "IDLE"

\* A job during which the bus answered with an error is never reported done.
NoSilentFault == bus_erred => ~job.done

\* The bank that is computed from changes at the rendezvous and nowhere else:
\* the $fatal of npu_ml_ctrl.v:636-648, with its registers state_d and
\* strip_compute_bank_d.
SwapOnlyAtRendezvous == job.bank # ml_d.bank => ml_d.st = "STRIP_ADV"

\* After a soft reset has quiesced (STATUS[8] dropped, the core still stopped)
\* the NPU offers no read burst any more (ADR-0038).
NoReadAfterQuiesce == softs > 0 /\ acks = 0 /\ ~soft_rst /\ ~ctrl.start => ~arvalid

\* ERR_CAUSE says ML_STRIP_DMA_ERR only of a job whose prefetch met a bus error.
FaultIsReal == ml_err_we => bus_erred

\* When the firmware goes on from wait_done, the transfer it asked for has been
\* made: the sticky done bit is never that of an earlier one.
FetchIsFresh == fw = "cfg" => fetched

\* Every kicked job ends, done or in error.
JobEnds == job.busy ~> ~job.busy

\* The firmware never hangs: it retires every job of the ring or reports an error.
RingSettles == <>(cq.head = Len(Jobs) \/ cq.err)
=============================================================================
