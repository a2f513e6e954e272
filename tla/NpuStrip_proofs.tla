--------------------------- MODULE NpuStrip_proofs ---------------------------
(***************************************************************************)
(* The NPU at work, for every list of jobs, every size of bus, page, strip,*)
(* engine and batch, every slave and every speed of firmware and host.     *)
(*                                                                         *)
(* The argument.  A clock edge moves the sequencer, both engines, the slave*)
(* and the firmware at once.  DmaStep and MatStep say what an engine can do*)
(* on an edge (DmaSeen, MatSeen); StripRun, LegacyRun and PlainStep reduce *)
(* every state of the sequencer to one of a dozen kinds of step (RunKinds  *)
(* and those around it); FirmwareStep says what the firmware leaves alone  *)
(* (FwSeen).  Control, the part that speaks of several blocks, is then     *)
(* proved kind by kind without a look at the clock.                        *)
(*                                                                         *)
(* A pulse could be lost because neither engine queues commands.  TurnInv  *)
(* and EngineInv say whose command an engine works on: the sequencer's only*)
(* while it waits for it, the firmware's only while it is in wait_done.    *)
(* PulseInv adds the one cycle in which the pulse is up and the engine not *)
(* yet busy, which is what busy_seen is for.  BankInv follows the bank of  *)
(* the prefetch through it, StripRoom counts the beats that are still to   *)
(* come, and FaultInv says where a bus error is kept until the sequencer   *)
(* looks: in the engine, in the monitor or in its own state.               *)
(*                                                                         *)
(* All of it holds until the host resets the NPU or restarts it after a    *)
(* reported error (Calm): a soft reset leaves a prefetch running, and a    *)
(* pulse of the next program is then lost.                                 *)
(***************************************************************************)
EXTENDS NpuStrip, Residues

-----------------------------------------------------------------------------
(* The inductive invariant.                                                *)

\* The host has neither reset the NPU nor restarted it after a reported error.
\* It may have restarted ml_job_driver after a finished job.
Calm == softs = 0 /\ (acks = 0 \/ Program = "job")

\* The states of the sequencer by what they wait for.
MatWaits    == {"STRIP_CLR_W", "STRIP_OP_W", "STRIP_RSC_W", "CLR_W", "OP_W", "RSC_W"}
LoadWaits   == {"LOADA_W", "LDW_W"}
StoreWaits  == {"STRIP_STO_W", "STO_W"}
StripLive   == StripStates \ {"STRIP_DRAIN_ERR"}
ComputePart == {"STRIP_TILE", "STRIP_CLR_W", "STRIP_OP", "STRIP_OP_W", "STRIP_RSC",
                "STRIP_RSC_W", "STRIP_STO_WAIT"}
StorePart   == {"STRIP_STO", "STRIP_STO_W", "STRIP_RV", "STRIP_ADV"}
XferStates  == {"AR", "R", "AW", "W", "B", "DONE"}
StripChain  == {"STRIP_AR", "STRIP_R", "STRIP_DONE"}

FwStates == {"off", "jcfg", "jgo", "jpoll", "boot", "exit", "halt", "loop", "busy", "desc",
             "dgo", "dret", "dwait", "dfault", "cfg", "go", "poll", "mode_err", "mode_ok",
             "cause", "head"}
DriverStates == {"off", "jcfg", "jgo", "jpoll", "exit", "halt"}
BatchStates  == FwStates \ (DriverStates \cup {"boot", "loop"})

DescT   == [src : Nat, dst : Nat, len : Nat]
GoType  == [go : BOOLEAN, src : Nat, dst : Nat, len : Nat]
PtrType == [rgn : {"tcm", "fold", "act", "param", "strip"}, i : Nat]
JobType == [busy : BOOLEAN, done : BOOLEAN, err : BOOLEAN, tile : Nat, strip : Nat,
            chunk : Nat, sub : 0 .. SubTiles - 1, bank : {0, 1}, wbase : Nat]

PfType  == [pending : BOOLEAN, done : BOOLEAN, seen : BOOLEAN, fault : BOOLEAN]
MatCmdT == [go : BOOLEAN, op : {"NOP", "LOADACC", "OP", "RESCALE_PC"}, bank : {0},
            rpt : Nat, a : PtrType, b : PtrType, param : PtrType, out : Nat,
            bad : {FALSE}]
StripT  == [start : BOOLEAN, addr : Nat, bytes : Nat, bank : {0, 1}, clear : BOOLEAN]

MlOutTypes ==
    /\ mldma \in GoType /\ mlwb \in GoType /\ mlmat \in MatCmdT /\ mlstrip \in StripT
    /\ ml_err_we \in BOOLEAN
MlRegTypes ==
    /\ ml_st \in MlStates /\ job \in JobType /\ pf \in PfType /\ busy_seen \in BOOLEAN
MlTypes == cfg \in CfgType /\ MlRegTypes /\ MlOutTypes

MatTypes ==
    /\ mat_st \in MatStates /\ mat_done \in BOOLEAN /\ mat_err \in BOOLEAN
    /\ rep_i \in Nat /\ el_iss \in Nat /\ el_pack \in Nat

FlagTypes ==
    /\ dma_st \in DmaStates
    /\ busy \in BOOLEAN /\ done \in BOOLEAN /\ err \in BOOLEAN
    /\ arvalid \in BOOLEAN /\ awvalid \in BOOLEAN /\ wvalid \in BOOLEAN
    /\ done_ok \in BOOLEAN
MoveTypes ==
    /\ narrow_l \in BOOLEAN
    /\ cur_addr \in Nat /\ remaining \in Nat
    /\ beats_in_burst \in Nat /\ beats_done \in Nat
ChainTypes ==
    /\ strip_busy \in BOOLEAN /\ strip_done \in BOOLEAN /\ strip_err \in BOOLEAN
    /\ strip_error_seen \in BOOLEAN /\ strip_done_ok \in BOOLEAN
    /\ strip_waddr \in Nat /\ strip_remaining \in Nat /\ strip_in_burst \in Nat
    /\ strip_bank_l \in {0, 1}
SlaveTypes ==
    /\ arbeats \in Nat /\ awbeats \in Nat
    /\ rleft \in Nat /\ wleft \in Nat /\ errs \in Nat
DmaTypes == FlagTypes /\ MoveTypes /\ ChainTypes /\ SlaveTypes

TopTypes ==
    /\ mode_write \in BOOLEAN /\ done_latch \in BOOLEAN /\ bowed \in BOOLEAN
    /\ bus_erred \in BOOLEAN /\ soft_rst \in BOOLEAN
    /\ dma_go \in BOOLEAN /\ wb_go \in BOOLEAN /\ mat_go \in BOOLEAN
    /\ ctrl \in [start : BOOLEAN, irq_en : BOOLEAN]
    /\ cq \in [head : 0 .. Len(Jobs), tail : {0, Len(Jobs)}, enable : BOOLEAN,
               busy : BOOLEAN, err : BOOLEAN]
    /\ dma_desc \in DescT /\ wb_desc \in DescT
    /\ bank_valid \subseteq {0, 1}
    /\ fw \in FwStates /\ batch \in Nat /\ kicked \in 0 .. Len(Jobs)
    /\ host \in {"enable", "start", "tail", "watch"}

Bounds == /\ softs \in Nat /\ acks \in 0 .. MaxAcks
          /\ host \in {"enable", "start", "tail", "watch", "quiesce", "disable"}

\* What is on the bus follows the state of the engine.
Handshake ==
    /\ arvalid => dma_st \in {"AR", "STRIP_AR"}
    /\ awvalid => dma_st = "AW"
    /\ wvalid => dma_st = "W"
    /\ rleft > 0 => dma_st \in {"R", "STRIP_R"}
    /\ wleft > 0 => dma_st = "W"
    /\ busy <=> dma_st \in XferStates
    /\ busy => ~done
    /\ strip_busy <=> dma_st \in StripChain
    /\ strip_done => dma_st = "IDLE"

\* A transfer goes on from beat to beat with whole bursts.
Aligned == remaining % Step = 0 /\ cur_addr % (4 * Step) = 0
Sized   == beats_in_burst > 0 /\ WordsInBurst <= remaining
Bursts ==
    /\ dma_st \in {"AR", "AW"} => Aligned /\ remaining > 0
    /\ dma_st = "AW" /\ awvalid => awbeats = ThisBurst
    /\ dma_st \in {"R", "W", "B"} => Aligned /\ Sized
    /\ dma_st = "W" => wleft > 0 /\ wleft = beats_in_burst - beats_done

\* The prefetch has room for what it still has to write.
StripRoom ==
    /\ dma_st \in {"STRIP_AR", "STRIP_R"} =>
        strip_remaining % BeatBytes = 0 /\ strip_waddr % BeatBytes = 0
    /\ dma_st = "STRIP_AR" =>
        /\ strip_remaining > 0 /\ ~strip_error_seen
        /\ strip_waddr + strip_remaining <= StripMax
        /\ arvalid => arbeats = StripThisBurst
    /\ dma_st = "STRIP_R" =>
        /\ rleft > 0 /\ rleft <= beats_in_burst
        /\ strip_in_burst = BeatBytes * beats_in_burst
        /\ strip_in_burst <= strip_remaining
        /\ ~strip_error_seen =>
            strip_waddr + BeatBytes * rleft + (strip_remaining - strip_in_burst) <= StripMax

\* The firmware and what it has set up.
FirmwareInv ==
    /\ ~soft_rst /\ ~wb_go /\ ~mat_go
    /\ ~ctrl.start => \/ fw = "off"
                      \/ fw = "halt" /\ Program = "job"
    /\ Program = "job" => fw \in DriverStates
    /\ Program = "cq" => fw \notin {"jcfg", "jgo", "jpoll"}
    /\ dma_go => fw = "dret" /\ dma_st = "IDLE"
    /\ done_latch /\ Program = "job" => fw = "halt"
    /\ cq.head <= cq.tail
    /\ fw \in BatchStates => batch > 0 /\ cq.head + batch <= cq.tail
    /\ Program = "job" /\ fw \in {"jcfg", "jgo"} => acks < Len(Jobs)

\* Firmware and sequencer take turns; a job in error is the last one.
TurnInv ==
    /\ job.busy => /\ fw \in {"poll", "jpoll"} /\ ~cfg.bypass
                   /\ ~job.done /\ ~job.err
    /\ job.err => /\ fw \in {"poll", "jpoll", "mode_err", "cause", "halt"}
                  /\ Program = "job" => fw = "jpoll"
                  /\ ~job.done
    /\ ml_st # "ABORT"
    /\ job.busy => ml_st # "IDLE"
    /\ ml_st \notin {"IDLE", "STRIP_DRAIN_ERR"} => job.busy
    /\ ml_st = "STRIP_DRAIN_ERR" => job.busy \/ job.err
    /\ ml_st \in StripLive => cfg.strip /\ ~StripKickIllegal
    /\ ml_st \in LegacyStates => ~cfg.strip
    /\ (job.busy /\ cfg.strip) \/ job.err \/ (~pf.pending /\ ~pf.fault)

\* The prefetch of the next strip, as the sequencer keeps book of it.
PrefetchInv ==
    /\ pf.done => ~pf.pending
    /\ ml_st \in StorePart \cup {"DONE"} => ~pf.pending
    /\ ml_st \in {"STRIP_PREFILL", "STRIP_BEGIN"} => ~pf.pending
    /\ ml_st = "STRIP_PREFILL_W" => pf.pending

\* A command pulse: the sequencer waits for its engine, and the engine is idle.
PulseInv ==
    /\ mlmat.go => ml_st \in MatWaits /\ mat_st = "IDLE" /\ ~busy_seen
    /\ mldma.go => ml_st \in LoadWaits /\ dma_st = "IDLE" /\ ~busy_seen
    /\ mlwb.go => ml_st \in StoreWaits /\ dma_st = "IDLE" /\ ~busy_seen
    /\ mlstrip.start => /\ ml_st \in {"STRIP_PREFILL_W", "STRIP_TILE"}
                        /\ dma_st = "IDLE" /\ pf.pending /\ ~pf.seen

\* A busy engine works for whoever waits for it.
EngineInv ==
    /\ mat_st # "IDLE" => /\ ~mat_done
                          /\ \/ ml_st \in MatWaits \cup {"STRIP_DRAIN_ERR"}
                             \/ job.err
    /\ dma_st \in XferStates =>
           \/ fw \in {"dret", "dwait", "dfault"}
           \/ fw = "halt" /\ Program = "cq"
           \/ ml_st \in LoadWaits /\ ~mode_write
           \/ ml_st \in StoreWaits /\ mode_write
           \/ ml_st = "STRIP_DRAIN_ERR" \/ job.err
    /\ dma_st \in StripChain =>
           \/ ml_st \in ComputePart \cup {"STRIP_PREFILL_W"} /\ pf.pending
           \/ ml_st = "STRIP_DRAIN_ERR" \/ job.err

\* The bank of the prefetch is not the one computed from.
BankInv ==
    /\ mlstrip.start /\ ml_st = "STRIP_TILE" => mlstrip.bank # job.bank
    /\ dma_st \in StripChain /\ job.busy /\ (ml_st \in ComputePart \/ mat_st # "IDLE")
           => strip_bank_l # job.bank

\* A bus error of the running job is on its way to the sequencer.
FaultInv ==
    /\ bus_erred => ~job.done
    /\ bus_erred /\ job.busy =>
           \/ ml_st = "STRIP_DRAIN_ERR"
           \/ cfg.strip /\ pf.fault
           \/ strip_err /\ pf.pending /\ ~mlstrip.start
           \/ err /\ ml_st \in LoadWaits /\ ~mldma.go
           \/ err /\ ml_st \in StoreWaits /\ ~mlwb.go

Types == MlTypes /\ MatTypes /\ DmaTypes /\ TopTypes
Wire  == Handshake /\ Bursts /\ StripRoom
Core  == /\ Types /\ Wire /\ FirmwareInv /\ TurnInv /\ PrefetchInv /\ PulseInv
         /\ EngineInv /\ BankInv /\ FaultInv

SInv == Bounds /\ (Calm => Core)

-----------------------------------------------------------------------------
(* The DMA engine and its slave.                                            *)

\* What the slave may answer in a cycle.
Answers(ar, r, aw, w, b) ==
    /\ ar \in BOOLEAN /\ aw \in BOOLEAN /\ w \in BOOLEAN
    /\ r.valid \in BOOLEAN /\ r.last \in BOOLEAN /\ r.err \in BOOLEAN
    /\ b.valid \in BOOLEAN /\ b.err \in BOOLEAN
    /\ r.valid => rleft > 0
    /\ r.last <=> r.valid /\ rleft = 1
    /\ r.err => r.valid
    /\ b.err => b.valid

\* What the rest of the NPU relies on in a step of the engine.
DmaSeen(go, ss, c, r, b) ==
    /\ go => dma_st' \in XferStates
    /\ ~go /\ dma_st \in XferStates => dma_st' \in XferStates \cup {"IDLE"}
    /\ ss => dma_st' \in StripChain \cup {"IDLE"} /\ strip_bank_l' = c.bank
    /\ ~ss => strip_bank_l' = strip_bank_l
    /\ dma_st \in StripChain => dma_st' \in StripChain \cup {"IDLE"}
    /\ ~go /\ ~ss /\ dma_st = "IDLE" => dma_st' = "IDLE"
    /\ err /\ ~go => err'
    /\ strip_err /\ ~ss => strip_err'
    /\ BusErr(r, b) => \/ dma_st \in XferStates /\ ~go /\ err'
                       \/ dma_st = "STRIP_R" /\ strip_err'

\* The commands of a cycle.
Commands(go, d, ss, c) ==
    /\ go \in BOOLEAN /\ ss \in BOOLEAN /\ ~(go /\ ss)
    /\ go \/ ss => dma_st = "IDLE"
    /\ d \in DescType /\ c \in StripType

DmaEdge(go, d, ss, c, ar, r, aw, w, b) ==
    Commands(go, d, ss, c) /\ Answers(ar, r, aw, w, b) /\ SlaveClk(ar, r, aw, w, b)

LEMMA StepValue ==
    /\ WPB \in {1, 2, 4, 8} /\ BeatBytes = 4 * WPB /\ BeatBytes \in Nat \ {0}
    /\ narrow_l \in BOOLEAN => Step \in {1, 2, 4, 8}
  BY ParamsAssumption DEF BeatBytes, Step

\* The next burst of a transfer is not empty and fits into what is left.
LEMMA BurstFits ==
    ASSUME DmaTypes, Aligned, remaining > 0
    PROVE  /\ ThisBurst \in Nat \ {0}
           /\ ThisBurst * Step <= remaining
<1> USE ParamsAssumption, DmaAssumption
<1>1. /\ cur_addr \in Nat /\ remaining \in Nat /\ Step \in {1, 2, 4, 8}
      /\ 4 * Step \in Nat \ {0} /\ PageBytes \in Nat \ {0}
  BY StepValue DEF DmaTypes, FlagTypes, MoveTypes, ChainTypes, SlaveTypes
<1>2. PageBytes % (4 * Step) = 0
  BY DEF Step
<1>3. cur_addr % (4 * Step) = 0 /\ remaining % Step = 0
  BY DEF Aligned
<1>4. cur_addr % PageBytes \in 0..(PageBytes - 1)
      /\ (cur_addr % PageBytes) + 4 * Step <= PageBytes
  BY <1>1, <1>2, <1>3, PageRoom
<1> DEFINE room == PageBytes - (cur_addr % PageBytes)
<1>5. room \in Nat /\ room >= 4 * Step /\ Dist4k = room \div (4 * Step)
  BY <1>1, <1>4 DEF Dist4k
<1> HIDE DEF room
<1>6. Dist4k \in Nat /\ Dist4k >= 1
  BY <1>1, <1>5
<1>7. /\ remaining \div Step \in Nat /\ remaining \div Step >= 1
      /\ (remaining \div Step) * Step <= remaining
  BY <1>1, <1>3
<1>8. /\ ThisBurst \in Nat /\ ThisBurst >= 1 /\ ThisBurst <= remaining \div Step
  BY <1>6, <1>7 DEF ThisBurst, LesserOf
<1>9. ThisBurst * Step <= remaining
  BY <1>1, <1>7, <1>8
<1> QED BY <1>8, <1>9

\* The same for a burst of the strip chain.
LEMMA StripFits ==
    ASSUME DmaTypes, strip_remaining % BeatBytes = 0, strip_remaining > 0
    PROVE  /\ StripThisBurst \in Nat \ {0}
           /\ StripThisBytes = BeatBytes * StripThisBurst
           /\ StripThisBytes \in Nat /\ StripThisBytes <= strip_remaining
           /\ StripThisBytes % BeatBytes = 0
<1> USE ParamsAssumption, DmaAssumption
<1>1. /\ WPB \in {1, 2, 4, 8} /\ BeatBytes = 4 * WPB /\ BeatBytes \in Nat \ {0}
      /\ PageBytes \in Nat \ {0} /\ PageBytes % BeatBytes = 0 /\ MaxBeats \in Nat \ {0}
      /\ strip_remaining \in Nat
  BY DEF BeatBytes, DmaTypes, ChainTypes
<1>2. /\ MaxBeats * BeatBytes \in Nat /\ MaxBeats * BeatBytes >= BeatBytes
      /\ (MaxBeats * BeatBytes) % BeatBytes = 0
  BY <1>1
<1>3. PageBytes >= BeatBytes
  BY <1>1
<1>4. /\ StripCap \in Nat /\ StripCap >= BeatBytes /\ StripCap % BeatBytes = 0
  BY <1>1, <1>2, <1>3 DEF StripCap
<1>5. /\ StripThisBytes \in Nat /\ StripThisBytes >= BeatBytes
      /\ StripThisBytes % BeatBytes = 0 /\ StripThisBytes <= strip_remaining
  BY <1>1, <1>4 DEF StripThisBytes, LesserOf
<1> QED BY <1>1, <1>5 DEF StripThisBurst

\* What the slave has left to do after the edge.
LEMMA SlaveEdge ==
    ASSUME DmaTypes, Handshake, NEW ar, NEW r, NEW aw, NEW w, NEW b,
           Answers(ar, r, aw, w, b), SlaveClk(ar, r, aw, w, b)
    PROVE  /\ rleft' = IF arvalid /\ ar THEN arbeats
                       ELSE IF r.valid THEN rleft - 1 ELSE rleft
           /\ rleft' \in Nat
           /\ wleft' = IF awvalid /\ aw THEN awbeats
                       ELSE IF wvalid /\ w THEN wleft - 1 ELSE wleft
           /\ errs' \in Nat
<1>1. r.valid => MRready
  BY DEF Answers, Handshake, MRready
<1>2. rleft' = IF arvalid /\ ar THEN arbeats
               ELSE IF r.valid THEN rleft - 1 ELSE rleft
  BY <1>1 DEF SlaveClk, ArFire
<1>3. rleft' \in Nat
  BY <1>2 DEF DmaTypes, SlaveTypes, Answers
<1>4. errs' \in Nat
  BY DEF SlaveClk, DmaTypes, SlaveTypes
<1> QED BY <1>2, <1>3, <1>4 DEF SlaveClk, AwFire, WFire

-----------------------------------------------------------------------------
(* One step of the engine, action by action.                                *)

DmaGood(go, ss, c, r, b) == DmaTypes' /\ Wire' /\ DmaSeen(go, ss, c, r, b)

\* An edge on which the engine stays idle.
LEMMA IdleEdge ==
    ASSUME DmaTypes, Wire, NEW go, NEW d, NEW ss, NEW c, NEW ar, NEW r, NEW aw, NEW w, NEW b,
           DmaEdge(go, d, ss, c, ar, r, aw, w, b),
           DmaIdleStay(FALSE, go, ss)
    PROVE  DmaGood(go, ss, c, r, b)
<1> USE DEF DmaEdge, Commands, DmaIdleStay
<1>1. rleft' \in Nat /\ rleft' = rleft /\ wleft' = wleft /\ errs' \in Nat
  BY SlaveEdge DEF Wire, Handshake, Answers, DmaTypes, FlagTypes, ChainTypes, SlaveTypes
<1>2. DmaTypes'
  <2>1. FlagTypes'
    BY <1>1 DEF DmaTypes, FlagTypes, flags, archan, wchans, xfer, DmaStates
  <2>2. MoveTypes'
    BY <1>1 DEF DmaTypes, MoveTypes, xfer, beats
  <2>3. ChainTypes'
    BY <1>1 DEF DmaTypes, ChainTypes, sflags, sxfer, sends
  <2>4. SlaveTypes'
    BY <1>1 DEF DmaTypes, SlaveTypes, archan, wchans
  <2> QED BY <2>1, <2>2, <2>3, <2>4 DEF DmaTypes
<1>3. Handshake' /\ Bursts' /\ StripRoom'
  BY <1>1 DEF Wire, Handshake, Bursts, StripRoom, DmaTypes, FlagTypes, ChainTypes,
              SlaveTypes, flags, archan, wchans, sflags, XferStates, StripChain
<1>4. DmaSeen(go, ss, c, r, b)
  BY DEF DmaSeen, flags, sflags, sxfer, XferStates, StripChain, BusErr, MRready, Answers
<1> QED BY <1>2, <1>3, <1>4 DEF DmaGood, Wire

\* The engine takes a command.
LEMMA GoEdge ==
    ASSUME DmaTypes, Wire, NEW go, NEW d, NEW ss, NEW c, NEW ar, NEW r, NEW aw, NEW w, NEW b,
           DmaEdge(go, d, ss, c, ar, r, aw, w, b),
           DmaIdleGo(FALSE, go, d)
    PROVE  DmaGood(go, ss, c, r, b)
<1> USE DEF DmaEdge, Commands, DmaIdleGo
<1>1. rleft' \in Nat /\ rleft' = rleft /\ wleft' = wleft /\ errs' \in Nat
  BY SlaveEdge DEF Wire, Handshake, Answers, DmaTypes, FlagTypes, ChainTypes, SlaveTypes
<1>2. d.src \in Nat /\ d.word \in Nat /\ d.len \in Nat /\ d.narrow \in BOOLEAN
      /\ d.write \in BOOLEAN
  BY DEF DescType
<1>3. DmaTypes'
  <2>1. (d.src \div 4) * 4 \in Nat
    BY <1>2
  <2>2. FlagTypes'
    BY <1>2 DEF DmaTypes, FlagTypes, DmaStates, archan, wchans
  <2>3. MoveTypes'
    BY <1>2, <2>1 DEF DmaTypes, MoveTypes, beats
  <2>4. ChainTypes'
    BY DEF DmaTypes, ChainTypes, sflags, sxfer, sends
  <2>5. SlaveTypes'
    BY <1>1 DEF DmaTypes, SlaveTypes, archan, wchans
  <2> QED BY <2>2, <2>3, <2>4, <2>5 DEF DmaTypes
<1>4. Handshake' /\ StripRoom'
  BY <1>1 DEF Wire, Handshake, StripRoom, DmaTypes, FlagTypes, ChainTypes, SlaveTypes, flags,
              archan, wchans, sflags, XferStates, StripChain
<1>5. dma_st' \in {"AR", "AW"} => Aligned' /\ remaining' > 0
  <2> SUFFICES ASSUME dma_st' \in {"AR", "AW"} PROVE Aligned' /\ remaining' > 0
    OBVIOUS
  <2>1. d.len > 0 /\ ~AlignErr(d)
    BY <1>2
  <2>2. Step' = IF d.narrow THEN 1 ELSE WPB
    BY DEF Step
  <2>3. CASE Step' = 1
    BY <1>2, <2>1, <2>3 DEF Aligned
  <2>4. CASE Step' # 1
    <3>1. /\ Step' = WPB /\ WPB \in {2, 4, 8} /\ d.src % (4 * WPB) = 0 /\ d.len % WPB = 0
      BY <2>1, <2>2, <2>4, StepValue DEF AlignErr
    <3>2. cur_addr' = d.src
      BY <3>1, <1>2
    <3> QED BY <3>1, <3>2, <2>1, <1>2 DEF Aligned
  <2> QED BY <2>3, <2>4
<1>6. Bursts'
  BY <1>5, <1>1 DEF Bursts, Wire, Handshake, wchans
<1>7. DmaSeen(go, ss, c, r, b)
  BY DEF DmaSeen, sflags, sxfer, XferStates, StripChain, BusErr, MRready, Answers
<1> QED BY <1>3, <1>4, <1>6, <1>7 DEF DmaGood, Wire

\* The engine takes a strip command, or refuses it.
LEMMA StripStartEdge ==
    ASSUME DmaTypes, Wire, NEW go, NEW d, NEW ss, NEW c, NEW ar, NEW r, NEW aw, NEW w, NEW b,
           DmaEdge(go, d, ss, c, ar, r, aw, w, b),
           DmaIdleStrip(FALSE, go, ss, c)
    PROVE  DmaGood(go, ss, c, r, b)
<1> USE DEF DmaEdge, Commands, DmaIdleStrip
<1>1. rleft' \in Nat /\ rleft' = rleft /\ wleft' = wleft /\ errs' \in Nat
  BY SlaveEdge DEF Wire, Handshake, Answers, DmaTypes, FlagTypes, ChainTypes, SlaveTypes
<1>2. c.addr \in Nat /\ c.bytes \in Nat /\ c.bank \in {0, 1}
  BY DEF StripType
<1>3. DmaTypes'
  <2>1. FlagTypes'
    BY <1>1, <1>2 DEF DmaTypes, FlagTypes, flags, archan, wchans, xfer, DmaStates
  <2>2. MoveTypes'
    BY <1>1, <1>2 DEF DmaTypes, MoveTypes, xfer, beats
  <2>3. ChainTypes'
    BY <1>1, <1>2 DEF DmaTypes, ChainTypes
  <2>4. SlaveTypes'
    BY <1>1, <1>2 DEF DmaTypes, SlaveTypes, archan, wchans
  <2> QED BY <2>1, <2>2, <2>3, <2>4 DEF DmaTypes
<1>4. Handshake' /\ Bursts'
  BY <1>1 DEF Wire, Handshake, Bursts, DmaTypes, FlagTypes, ChainTypes, SlaveTypes, flags,
              archan, wchans, XferStates, StripChain
<1>5. StripRoom'
  <2>1. ASSUME dma_st' = "STRIP_AR"
        PROVE  c.bytes % BeatBytes = 0 /\ c.bytes > 0 /\ c.bytes <= StripMax
               /\ strip_remaining' = c.bytes
    BY <2>1, <1>2, ParamsAssumption DEF StripKickErr
  <2>2. 0 % BeatBytes = 0
    BY StepValue
  <2> QED BY <2>1, <2>2, <1>2, <1>1 DEF StripRoom, Wire, Handshake, archan
<1>6. DmaSeen(go, ss, c, r, b)
  BY DEF DmaSeen, flags, XferStates, StripChain, BusErr, MRready, Answers
<1> QED BY <1>3, <1>4, <1>5, <1>6 DEF DmaGood, Wire

-----------------------------------------------------------------------------
(* A read burst of a transfer. *)

LEMMA ArEdge ==
    ASSUME DmaTypes, Wire, NEW go, NEW d, NEW ss, NEW c, NEW ar, NEW r, NEW aw, NEW w, NEW b,
           DmaEdge(go, d, ss, c, ar, r, aw, w, b),
           DmaAr(FALSE, ar)
    PROVE  DmaGood(go, ss, c, r, b)
<1> USE DEF DmaAr
<1> DEFINE fire == arvalid /\ ar
<1>1. /\ rleft' = IF fire THEN arbeats ELSE 0
      /\ rleft = 0 /\ wleft' = wleft /\ wleft = 0
      /\ rleft' \in Nat /\ errs' \in Nat
  BY SlaveEdge DEF DmaEdge, Answers, Wire, Handshake, DmaTypes, SlaveTypes
<1>2. ThisBurst \in Nat \ {0} /\ ThisBurst * Step <= remaining /\ Aligned /\ remaining > 0
  BY BurstFits DEF Wire, Bursts
<1>3. DmaTypes'
  <2>1. FlagTypes'
    BY <1>1, <1>2 DEF DmaTypes, FlagTypes, flags, wchans, xfer, DmaStates
  <2>2. MoveTypes'
    BY <1>1, <1>2 DEF DmaTypes, MoveTypes, xfer
  <2>3. ChainTypes'
    BY <1>1, <1>2 DEF DmaTypes, ChainTypes, sflags, sxfer, sends
  <2>4. SlaveTypes'
    BY <1>1, <1>2 DEF DmaTypes, SlaveTypes, wchans
  <2> QED BY <2>1, <2>2, <2>3, <2>4 DEF DmaTypes
<1>4. Handshake' /\ StripRoom'
  BY <1>1 DEF Wire, Handshake, StripRoom, DmaTypes, FlagTypes, ChainTypes, SlaveTypes, flags,
              wchans, sflags, XferStates, StripChain
<1>5. Bursts'
  <2>1. Aligned' /\ Step' = Step /\ remaining' = remaining
    BY <1>2 DEF Aligned, Step, xfer
  <2>2. Sized'
    BY <2>1, <1>2 DEF Sized, WordsInBurst
  <2> QED BY <2>1, <2>2, <1>2 DEF Bursts
<1>6. DmaSeen(go, ss, c, r, b)
  BY DEF DmaSeen, flags, sflags, sxfer, XferStates, StripChain, BusErr, MRready,
         DmaEdge, Commands, Answers
<1> QED BY <1>3, <1>4, <1>5, <1>6 DEF DmaGood, Wire

\* The words of a burst of the transfer have been moved.
LEMMA BurstMoved ==
    ASSUME DmaTypes, Aligned, Sized
    PROVE  /\ WordsInBurst \in Nat /\ WordsInBurst % Step = 0
           /\ remaining - WordsInBurst \in Nat
           /\ (remaining - WordsInBurst) % Step = 0
           /\ cur_addr + 4 * WordsInBurst \in Nat
           /\ (cur_addr + 4 * WordsInBurst) % (4 * Step) = 0
<1>1. /\ Step \in {1, 2, 4, 8} /\ beats_in_burst \in Nat /\ remaining \in Nat
      /\ cur_addr \in Nat /\ WordsInBurst = beats_in_burst * Step
      /\ WordsInBurst <= remaining /\ remaining % Step = 0 /\ cur_addr % (4 * Step) = 0
  BY StepValue DEF DmaTypes, MoveTypes, Aligned, Sized, WordsInBurst
<1>2. /\ beats_in_burst * Step \in Nat /\ (beats_in_burst * Step) % Step = 0
      /\ (4 * (beats_in_burst * Step)) % (4 * Step) = 0
  BY <1>1
<1>3. (remaining - WordsInBurst) % Step = 0
  BY <1>1, <1>2
<1>4. (cur_addr + 4 * WordsInBurst) % (4 * Step) = 0
  BY <1>1, <1>2
<1> QED BY <1>1, <1>2, <1>3, <1>4

LEMMA REdge ==
    ASSUME DmaTypes, Wire, NEW go, NEW d, NEW ss, NEW c, NEW ar, NEW r, NEW aw, NEW w, NEW b,
           DmaEdge(go, d, ss, c, ar, r, aw, w, b),
           DmaR(FALSE, r)
    PROVE  DmaGood(go, ss, c, r, b)
<1>0. dma_st = "R" /\ r.valid
  BY DEF DmaR
<1>1. /\ rleft' = rleft - 1 /\ rleft' \in Nat /\ wleft' = wleft /\ wleft = 0
      /\ errs' \in Nat /\ rleft \in Nat
  <2>1. /\ rleft' = IF arvalid /\ ar THEN arbeats
                    ELSE IF r.valid THEN rleft - 1 ELSE rleft
        /\ wleft' = IF awvalid /\ aw THEN awbeats
                    ELSE IF wvalid /\ w THEN wleft - 1 ELSE wleft
        /\ rleft' \in Nat /\ errs' \in Nat
    BY SlaveEdge DEF DmaEdge, Wire
  <2>2. rleft \in Nat /\ wleft \in Nat
    BY DEF DmaTypes, SlaveTypes
  <2> QED BY <1>0, <2>1, <2>2 DEF Wire, Handshake
<1>2. r.last <=> rleft' = 0
  BY <1>0, <1>1 DEF DmaEdge, Answers
<1> USE DEF DmaR
<1>3. Aligned /\ Sized
  BY DEF Wire, Bursts
<1>4. /\ remaining - WordsInBurst \in Nat /\ cur_addr + 4 * WordsInBurst \in Nat
      /\ (remaining - WordsInBurst) % Step = 0
      /\ (cur_addr + 4 * WordsInBurst) % (4 * Step) = 0
  BY <1>3, BurstMoved
<1>5. DmaTypes'
  <2>1. FlagTypes'
    BY <1>1, <1>4 DEF DmaTypes, FlagTypes, archan, wchans, DmaStates, DmaEdge, Answers
  <2>2. MoveTypes'
    BY <1>1, <1>4 DEF DmaTypes, MoveTypes, beats, DmaEdge, Answers
  <2>3. ChainTypes'
    BY <1>1, <1>4 DEF DmaTypes, ChainTypes, sflags, sxfer, sends, DmaEdge, Answers
  <2>4. SlaveTypes'
    BY <1>1, <1>4 DEF DmaTypes, SlaveTypes, archan, wchans, DmaEdge, Answers
  <2> QED BY <2>1, <2>2, <2>3, <2>4 DEF DmaTypes
<1>6. Handshake' /\ StripRoom'
  BY <1>1, <1>2 DEF Wire, Handshake, StripRoom, DmaTypes, FlagTypes, ChainTypes, SlaveTypes,
                    archan, wchans, sflags, XferStates, StripChain
<1>7. Bursts'
  <2>1. Step' = Step /\ WordsInBurst' = WordsInBurst
    BY DEF Step, WordsInBurst, beats
  <2>2. Aligned'
    BY <2>1, <1>3, <1>4 DEF Aligned
  <2>3. dma_st' = "R" => Sized'
    BY <2>1, <1>3 DEF Sized, beats
  <2>4. dma_st' \in {"AR", "R", "DONE"} /\ (dma_st' = "AR" => remaining' > 0)
    BY <1>2, <1>4
  <2> QED BY <2>2, <2>3, <2>4 DEF Bursts
<1>8. DmaSeen(go, ss, c, r, b)
  BY DEF DmaSeen, flags, sflags, sxfer, XferStates, StripChain, BusErr, MRready,
         DmaEdge, Commands, Answers
<1> QED BY <1>5, <1>6, <1>7, <1>8 DEF DmaGood, Wire

LEMMA RWaitEdge ==
    ASSUME DmaTypes, Wire, NEW go, NEW d, NEW ss, NEW c, NEW ar, NEW r, NEW aw, NEW w, NEW b,
           DmaEdge(go, d, ss, c, ar, r, aw, w, b),
           DmaRWait(r)
    PROVE  DmaGood(go, ss, c, r, b)
<1> USE DEF DmaRWait
<1>1. /\ rleft' = rleft /\ wleft' = wleft /\ rleft \in Nat /\ wleft \in Nat /\ errs' \in Nat
  BY SlaveEdge DEF DmaEdge, Answers, Wire, Handshake, DmaTypes, SlaveTypes
<1>2. DmaTypes'
  <2>1. FlagTypes'
    BY <1>1 DEF DmaTypes, FlagTypes, flags, archan, wchans, xfer, DmaStates
  <2>2. MoveTypes'
    BY <1>1 DEF DmaTypes, MoveTypes, xfer, beats
  <2>3. ChainTypes'
    BY <1>1 DEF DmaTypes, ChainTypes, sflags, sxfer, sends
  <2>4. SlaveTypes'
    BY <1>1 DEF DmaTypes, SlaveTypes, archan, wchans
  <2> QED BY <2>1, <2>2, <2>3, <2>4 DEF DmaTypes
<1>3. Handshake' /\ StripRoom'
  BY <1>1 DEF Wire, Handshake, StripRoom, DmaTypes, FlagTypes, ChainTypes, SlaveTypes, flags,
              archan, wchans, sflags, XferStates, StripChain
<1>4. Bursts'
  BY DEF Wire, Bursts, Aligned, Sized, WordsInBurst, Step, xfer, beats
<1>5. DmaSeen(go, ss, c, r, b)
  BY DEF DmaSeen, flags, sflags, sxfer, XferStates, StripChain, BusErr, MRready,
         DmaEdge, Commands, Answers
<1> QED BY <1>2, <1>3, <1>4, <1>5 DEF DmaGood, Wire

-----------------------------------------------------------------------------
(* A write burst of a transfer. *)

LEMMA AwEdge ==
    ASSUME DmaTypes, Wire, NEW go, NEW d, NEW ss, NEW c, NEW ar, NEW r, NEW aw, NEW w, NEW b,
           DmaEdge(go, d, ss, c, ar, r, aw, w, b),
           DmaAw(FALSE, aw)
    PROVE  DmaGood(go, ss, c, r, b)
<1> USE DEF DmaAw
<1> DEFINE fire == awvalid /\ aw
<1>1. /\ rleft' = rleft /\ rleft = 0 /\ wleft = 0
      /\ wleft' = IF fire THEN awbeats ELSE 0
      /\ errs' \in Nat
  BY SlaveEdge DEF DmaEdge, Answers, Wire, Handshake, DmaTypes, SlaveTypes
<1>2. ThisBurst \in Nat \ {0} /\ ThisBurst * Step <= remaining /\ Aligned /\ remaining > 0
  BY BurstFits DEF Wire, Bursts
<1>3. fire => awbeats = ThisBurst
  BY DEF Wire, Bursts
<1>4. DmaTypes'
  <2>1. FlagTypes'
    BY <1>1, <1>2 DEF DmaTypes, FlagTypes, flags, archan, xfer, DmaStates
  <2>2. MoveTypes'
    BY <1>1, <1>2 DEF DmaTypes, MoveTypes, xfer
  <2>3. ChainTypes'
    BY <1>1, <1>2 DEF DmaTypes, ChainTypes, sflags, sxfer, sends
  <2>4. SlaveTypes'
    BY <1>1, <1>2 DEF DmaTypes, SlaveTypes, archan
  <2> QED BY <2>1, <2>2, <2>3, <2>4 DEF DmaTypes
<1>5. Handshake' /\ StripRoom'
  BY <1>1 DEF Wire, Handshake, StripRoom, DmaTypes, FlagTypes, ChainTypes, SlaveTypes, flags,
              archan, sflags, XferStates, StripChain
<1>6. Bursts'
  <2>1. Aligned' /\ Step' = Step /\ remaining' = remaining /\ ThisBurst' = ThisBurst
    BY <1>2 DEF Aligned, Step, xfer, ThisBurst, Dist4k, LesserOf
  <2>2. Sized'
    BY <2>1, <1>2 DEF Sized, WordsInBurst
  <2> QED BY <2>1, <2>2, <1>1, <1>2, <1>3 DEF Bursts
<1>7. DmaSeen(go, ss, c, r, b)
  BY DEF DmaSeen, flags, sflags, sxfer, XferStates, StripChain, BusErr, MRready,
         DmaEdge, Commands, Answers
<1> QED BY <1>4, <1>5, <1>6, <1>7 DEF DmaGood, Wire

LEMMA WEdge ==
    ASSUME DmaTypes, Wire, NEW go, NEW d, NEW ss, NEW c, NEW ar, NEW r, NEW aw, NEW w, NEW b,
           DmaEdge(go, d, ss, c, ar, r, aw, w, b),
           DmaW(w)
    PROVE  DmaGood(go, ss, c, r, b)
<1> USE DEF DmaW
<1> DEFINE fire == wvalid /\ w
<1>1. /\ rleft' = rleft /\ rleft = 0 /\ rleft \in Nat
      /\ wleft' = IF fire THEN wleft - 1 ELSE wleft
      /\ errs' \in Nat
  BY SlaveEdge DEF DmaEdge, Answers, Wire, Handshake, DmaTypes, SlaveTypes
<1>2. Aligned /\ Sized /\ wleft > 0 /\ wleft = beats_in_burst - beats_done
      /\ wleft \in Nat /\ beats_done \in Nat /\ beats_in_burst \in Nat
  BY DEF Wire, Bursts, DmaTypes, MoveTypes, SlaveTypes
<1>3. FinalWBeat <=> wleft = 1
  BY <1>2 DEF FinalWBeat
<1>4. DmaTypes'
  <2>1. FlagTypes'
    BY <1>1, <1>2, <1>3 DEF DmaTypes, FlagTypes, flags, archan, DmaStates
  <2>2. MoveTypes'
    BY <1>1, <1>2, <1>3 DEF DmaTypes, MoveTypes
  <2>3. ChainTypes'
    BY <1>1, <1>2, <1>3 DEF DmaTypes, ChainTypes, sflags, sxfer, sends
  <2>4. SlaveTypes'
    BY <1>1, <1>2, <1>3 DEF DmaTypes, SlaveTypes, archan
  <2> QED BY <2>1, <2>2, <2>3, <2>4 DEF DmaTypes
<1>5. Handshake' /\ StripRoom'
  BY <1>1, <1>2, <1>3 DEF Wire, Handshake, StripRoom, DmaTypes, FlagTypes, ChainTypes,
                          SlaveTypes, flags, archan, sflags, XferStates, StripChain
<1>6. Bursts'
  <2>1. Aligned' /\ Sized'
    BY <1>2 DEF Aligned, Sized, Step, WordsInBurst
  <2> QED BY <2>1, <1>1, <1>2, <1>3 DEF Bursts
<1>7. DmaSeen(go, ss, c, r, b)
  BY DEF DmaSeen, flags, sflags, sxfer, XferStates, StripChain, BusErr, MRready,
         DmaEdge, Commands, Answers
<1> QED BY <1>4, <1>5, <1>6, <1>7 DEF DmaGood, Wire

LEMMA BEdge ==
    ASSUME DmaTypes, Wire, NEW go, NEW d, NEW ss, NEW c, NEW ar, NEW r, NEW aw, NEW w, NEW b,
           DmaEdge(go, d, ss, c, ar, r, aw, w, b),
           DmaB(FALSE, b)
    PROVE  DmaGood(go, ss, c, r, b)
<1>0. dma_st = "B" 
  BY DEF DmaB
<1>1. /\ rleft' = rleft /\ rleft = 0 /\ wleft' = wleft /\ wleft = 0 /\ errs' \in Nat
  BY <1>0, SlaveEdge DEF DmaEdge, Answers, Wire, Handshake, DmaTypes, SlaveTypes
<1> USE DEF DmaB
<1>2. Aligned /\ Sized
  BY DEF Wire, Bursts
<1>3. /\ remaining - WordsInBurst \in Nat /\ cur_addr + 4 * WordsInBurst \in Nat
      /\ (remaining - WordsInBurst) % Step = 0
      /\ (cur_addr + 4 * WordsInBurst) % (4 * Step) = 0
  BY <1>2, BurstMoved
<1>4. DmaTypes'
  <2>1. FlagTypes'
    BY <1>1, <1>3 DEF DmaTypes, FlagTypes, archan, wchans, DmaStates, DmaEdge, Answers
  <2>2. MoveTypes'
    BY <1>1, <1>3 DEF DmaTypes, MoveTypes, beats, DmaEdge, Answers
  <2>3. ChainTypes'
    BY <1>1, <1>3 DEF DmaTypes, ChainTypes, sflags, sxfer, sends, DmaEdge, Answers
  <2>4. SlaveTypes'
    BY <1>1, <1>3 DEF DmaTypes, SlaveTypes, archan, wchans, DmaEdge, Answers
  <2> QED BY <2>1, <2>2, <2>3, <2>4 DEF DmaTypes
<1>5. Handshake' /\ StripRoom'
  BY <1>1 DEF Wire, Handshake, StripRoom, DmaTypes, FlagTypes, ChainTypes, SlaveTypes,
              archan, wchans, sflags, XferStates, StripChain
<1>6. Bursts'
  <2>1. Step' = Step
    BY DEF Step
  <2>2. Aligned'
    BY <2>1, <1>2, <1>3 DEF Aligned
  <2>3. dma_st' \in {"AW", "DONE"} /\ (dma_st' = "AW" => remaining' > 0) /\ ~awvalid'
    BY <1>3 DEF Wire, Handshake, wchans
  <2> QED BY <2>2, <2>3 DEF Bursts
<1>7. DmaSeen(go, ss, c, r, b)
  BY DEF DmaSeen, flags, sflags, sxfer, XferStates, StripChain, BusErr, MRready,
         DmaEdge, Commands, Answers
<1> QED BY <1>4, <1>5, <1>6, <1>7 DEF DmaGood, Wire

LEMMA BWaitEdge ==
    ASSUME DmaTypes, Wire, NEW go, NEW d, NEW ss, NEW c, NEW ar, NEW r, NEW aw, NEW w, NEW b,
           DmaEdge(go, d, ss, c, ar, r, aw, w, b),
           DmaBWait(b)
    PROVE  DmaGood(go, ss, c, r, b)
<1> USE DEF DmaBWait
<1>1. /\ rleft' = rleft /\ rleft = 0 /\ wleft' = wleft /\ wleft = 0 /\ errs' \in Nat
  BY SlaveEdge DEF DmaEdge, Answers, Wire, Handshake, DmaTypes, SlaveTypes
<1>2. DmaTypes'
  <2>1. FlagTypes'
    BY <1>1 DEF DmaTypes, FlagTypes, flags, archan, wchans, xfer, DmaStates
  <2>2. MoveTypes'
    BY <1>1 DEF DmaTypes, MoveTypes, xfer, beats
  <2>3. ChainTypes'
    BY <1>1 DEF DmaTypes, ChainTypes, sflags, sxfer, sends
  <2>4. SlaveTypes'
    BY <1>1 DEF DmaTypes, SlaveTypes, archan, wchans
  <2> QED BY <2>1, <2>2, <2>3, <2>4 DEF DmaTypes
<1>3. Handshake' /\ StripRoom'
  BY <1>1 DEF Wire, Handshake, StripRoom, DmaTypes, FlagTypes, ChainTypes, SlaveTypes, flags,
              archan, wchans, sflags, XferStates, StripChain
<1>4. Bursts'
  BY DEF Wire, Bursts, Aligned, Sized, WordsInBurst, Step, xfer, beats
<1>5. DmaSeen(go, ss, c, r, b)
  BY DEF DmaSeen, flags, sflags, sxfer, XferStates, StripChain, BusErr, MRready,
         DmaEdge, Commands, Answers
<1> QED BY <1>2, <1>3, <1>4, <1>5 DEF DmaGood, Wire

LEMMA DoneEdge ==
    ASSUME DmaTypes, Wire, NEW go, NEW d, NEW ss, NEW c, NEW ar, NEW r, NEW aw, NEW w, NEW b,
           DmaEdge(go, d, ss, c, ar, r, aw, w, b),
           DmaDone(FALSE)
    PROVE  DmaGood(go, ss, c, r, b)
<1> USE DEF DmaDone
<1>1. /\ rleft' = rleft /\ rleft = 0 /\ wleft' = wleft /\ wleft = 0 /\ errs' \in Nat
  BY SlaveEdge DEF DmaEdge, Answers, Wire, Handshake, DmaTypes, SlaveTypes
<1>2. DmaTypes'
  <2>1. FlagTypes'
    BY <1>1 DEF DmaTypes, FlagTypes, archan, wchans, DmaStates
  <2>2. MoveTypes'
    BY <1>1 DEF DmaTypes, MoveTypes, beats
  <2>3. ChainTypes'
    BY <1>1 DEF DmaTypes, ChainTypes, sflags, sxfer, sends
  <2>4. SlaveTypes'
    BY <1>1 DEF DmaTypes, SlaveTypes, archan, wchans
  <2> QED BY <2>1, <2>2, <2>3, <2>4 DEF DmaTypes
<1>3. Handshake' /\ Bursts' /\ StripRoom'
  BY <1>1 DEF Wire, Handshake, Bursts, StripRoom, DmaTypes, FlagTypes, ChainTypes,
              SlaveTypes, archan, wchans, sflags, XferStates, StripChain
<1>4. DmaSeen(go, ss, c, r, b)
  BY DEF DmaSeen, flags, sflags, sxfer, XferStates, StripChain, BusErr, MRready,
         DmaEdge, Commands, Answers
<1> QED BY <1>2, <1>3, <1>4 DEF DmaGood, Wire

-----------------------------------------------------------------------------
(* A burst of the strip chain. *)

LEMMA StripArEdge ==
    ASSUME DmaTypes, Wire, NEW go, NEW d, NEW ss, NEW c, NEW ar, NEW r, NEW aw, NEW w, NEW b,
           DmaEdge(go, d, ss, c, ar, r, aw, w, b),
           DmaStripAr(FALSE, ar)
    PROVE  DmaGood(go, ss, c, r, b)
<1>0. dma_st = "STRIP_AR"
  BY DEF DmaStripAr
<1> DEFINE fire == arvalid /\ ar
<1>1. /\ rleft' = IF fire THEN arbeats ELSE 0
      /\ wleft' = wleft /\ wleft = 0 /\ rleft' \in Nat /\ errs' \in Nat
  <2>1. /\ rleft' = IF arvalid /\ ar THEN arbeats
                    ELSE IF r.valid THEN rleft - 1 ELSE rleft
        /\ wleft' = IF awvalid /\ aw THEN awbeats
                    ELSE IF wvalid /\ w THEN wleft - 1 ELSE wleft
        /\ rleft' \in Nat /\ errs' \in Nat
    BY SlaveEdge DEF DmaEdge, Wire
  <2>2. rleft \in Nat /\ wleft \in Nat
    BY DEF DmaTypes, SlaveTypes
  <2>3. ~r.valid
    BY <1>0, <2>2 DEF DmaEdge, Answers, Wire, Handshake
  <2> QED BY <1>0, <2>1, <2>2, <2>3 DEF Wire, Handshake
<1> USE DEF DmaStripAr
<1>2. /\ strip_remaining > 0 /\ strip_remaining % BeatBytes = 0
      /\ strip_waddr % BeatBytes = 0 /\ ~strip_error_seen
      /\ strip_waddr + strip_remaining <= StripMax
      /\ fire => arbeats = StripThisBurst
  BY <1>0 DEF Wire, StripRoom
<1>3. /\ StripThisBurst \in Nat \ {0} /\ StripThisBytes = BeatBytes * StripThisBurst
      /\ StripThisBytes \in Nat /\ StripThisBytes <= strip_remaining
  BY <1>2, StripFits
<1>4. DmaTypes'
  <2>1. FlagTypes'
    BY <1>1, <1>3 DEF DmaTypes, FlagTypes, DmaStates, flags, wchans, xfer
  <2>2. MoveTypes'
    BY <1>1, <1>3 DEF DmaTypes, MoveTypes, xfer
  <2>3. ChainTypes'
    BY <1>1, <1>3 DEF DmaTypes, ChainTypes, sflags, sends
  <2>4. SlaveTypes'
    BY <1>1, <1>3 DEF DmaTypes, SlaveTypes, wchans
  <2> QED BY <2>1, <2>2, <2>3, <2>4 DEF DmaTypes
<1>5. Handshake' /\ Bursts'
  BY <1>1 DEF Wire, Handshake, Bursts, DmaTypes, FlagTypes, ChainTypes, flags, wchans, sflags,
              XferStates, StripChain
<1>6. StripRoom'
  <2>1. StripThisBurst' = StripThisBurst
    BY DEF StripThisBurst, StripThisBytes, LesserOf
  <2>2. strip_waddr \in Nat /\ strip_remaining \in Nat
    BY DEF DmaTypes, ChainTypes
  <2>3. CASE fire
    <3>1. /\ dma_st' = "STRIP_R" /\ rleft' = StripThisBurst /\ beats_in_burst' = StripThisBurst
          /\ strip_in_burst' = StripThisBytes /\ strip_remaining' = strip_remaining
          /\ strip_waddr' = strip_waddr
      BY <2>3, <1>1, <1>2
    <3> QED BY <3>1, <1>2, <1>3, <2>2 DEF StripRoom
  <2>4. CASE ~fire
    BY <2>1, <2>4, <1>2, <1>3 DEF StripRoom, sends
  <2> QED BY <2>3, <2>4
<1>7. DmaSeen(go, ss, c, r, b)
  BY DEF DmaSeen, flags, sflags, sxfer, XferStates, StripChain, BusErr, MRready,
         DmaEdge, Commands, Answers
<1> QED BY <1>4, <1>5, <1>6, <1>7 DEF DmaGood, Wire

LEMMA LessOne ==
    ASSUME NEW a \in Int, NEW n \in Int, NEW m \in Int, m = n - 1
    PROVE  a * m = a * n - a
  OBVIOUS

LEMMA StripREdge ==
    ASSUME DmaTypes, Wire, NEW go, NEW d, NEW ss, NEW c, NEW ar, NEW r, NEW aw, NEW w, NEW b,
           DmaEdge(go, d, ss, c, ar, r, aw, w, b),
           DmaStripR(FALSE, r)
    PROVE  DmaGood(go, ss, c, r, b)
<1>0. dma_st = "STRIP_R" /\ r.valid
  BY DEF DmaStripR
<1>1. /\ rleft' = rleft - 1 /\ rleft' \in Nat /\ wleft' = wleft /\ wleft = 0
      /\ errs' \in Nat /\ rleft \in Nat
  <2>1. /\ rleft' = IF arvalid /\ ar THEN arbeats
                    ELSE IF r.valid THEN rleft - 1 ELSE rleft
        /\ wleft' = IF awvalid /\ aw THEN awbeats
                    ELSE IF wvalid /\ w THEN wleft - 1 ELSE wleft
        /\ rleft' \in Nat /\ errs' \in Nat
    BY SlaveEdge DEF DmaEdge, Wire
  <2>2. rleft \in Nat /\ wleft \in Nat
    BY DEF DmaTypes, SlaveTypes
  <2> QED BY <1>0, <2>1, <2>2 DEF Wire, Handshake
<1>2. r.last <=> rleft' = 0
  BY <1>0, <1>1 DEF DmaEdge, Answers
<1>3. r.err \in BOOLEAN
  BY DEF DmaEdge, Answers
<1> USE DEF DmaStripR
<1>4. /\ strip_remaining % BeatBytes = 0 /\ strip_waddr % BeatBytes = 0
      /\ rleft > 0 /\ rleft <= beats_in_burst
      /\ strip_in_burst = BeatBytes * beats_in_burst
      /\ strip_in_burst <= strip_remaining
      /\ ~strip_error_seen =>
            strip_waddr + BeatBytes * rleft + (strip_remaining - strip_in_burst) <= StripMax
  BY <1>0 DEF Wire, StripRoom
<1>5. /\ strip_waddr \in Nat /\ strip_remaining \in Nat /\ strip_in_burst \in Nat
      /\ beats_in_burst \in Nat /\ BeatBytes \in Nat \ {0} /\ WPB \in {1, 2, 4, 8}
      /\ BeatBytes = 4 * WPB
  BY StepValue DEF DmaTypes, ChainTypes, MoveTypes
<1>6. strip_remaining - strip_in_burst \in Nat /\ strip_waddr + BeatBytes \in Nat
  BY <1>4, <1>5
<1>11. /\ (strip_waddr + BeatBytes) % BeatBytes = 0
       /\ (strip_remaining - strip_in_burst) % BeatBytes = 0
  <2>1. (BeatBytes * beats_in_burst) % BeatBytes = 0
    BY <1>5
  <2> QED BY <2>1, <1>4, <1>5
<1>12. /\ strip_err' = (strip_err \/ r.err)
       /\ strip_error_seen' = (strip_error_seen \/ r.err)
       /\ strip_waddr' = IF strip_error_seen' THEN strip_waddr ELSE strip_waddr + BeatBytes
       /\ beats_in_burst' = beats_in_burst /\ strip_in_burst' = strip_in_burst
       /\ strip_busy' = strip_busy /\ strip_bank_l' = strip_bank_l /\ strip_done' = FALSE
  BY DEF beats
<1>13. ASSUME ~r.last
       PROVE  /\ dma_st' = "STRIP_R" /\ strip_remaining' = strip_remaining
              /\ strip_done_ok' = strip_done_ok
  BY <1>13, <1>0
<1>14. ASSUME r.last
       PROVE  /\ dma_st' \in {"STRIP_AR", "STRIP_DONE"} /\ strip_done_ok' \in BOOLEAN
              /\ strip_remaining' = strip_remaining - strip_in_burst
              /\ dma_st' = "STRIP_AR" => ~strip_error_seen' /\ strip_remaining' # 0
  BY <1>14, <1>0 DEF DmaTypes, ChainTypes
<1>7. DmaTypes'
  <2>1. FlagTypes'
    BY <1>1, <1>3, <1>5, <1>6 DEF DmaTypes, FlagTypes, DmaStates, flags, archan, wchans, xfer
  <2>2. MoveTypes'
    BY <1>1, <1>3, <1>5, <1>6 DEF DmaTypes, MoveTypes, xfer, beats
  <2>3. ChainTypes'
    <3> HIDE DEF DmaStripR
    <3>1. strip_waddr' \in Nat /\ strip_in_burst' \in Nat
      BY <1>5, <1>6, <1>12
    <3>2. /\ strip_err' \in BOOLEAN /\ strip_error_seen' \in BOOLEAN
          /\ strip_busy' \in BOOLEAN /\ strip_done' \in BOOLEAN /\ strip_bank_l' \in {0, 1}
      BY <1>3, <1>12 DEF DmaTypes, ChainTypes
    <3>3. strip_done_ok' \in BOOLEAN /\ strip_remaining' \in Nat
      BY <1>5, <1>6, <1>13, <1>14 DEF DmaTypes, ChainTypes
    <3> QED BY <3>1, <3>2, <3>3 DEF ChainTypes
  <2>4. SlaveTypes'
    BY <1>1, <1>3, <1>5, <1>6 DEF DmaTypes, SlaveTypes, archan, wchans
  <2> QED BY <2>1, <2>2, <2>3, <2>4 DEF DmaTypes
<1>8. Handshake' /\ Bursts'
  BY <1>1, <1>2, <1>0 DEF Wire, Handshake, Bursts, DmaTypes, FlagTypes, ChainTypes, flags, archan,
                    wchans, XferStates, StripChain
<1>9. StripRoom'
  <2> HIDE DEF DmaStripR
  <2>1. strip_waddr' % BeatBytes = 0
    BY <1>4, <1>11, <1>12
  <2>2. CASE ~r.last
    <3>1. dma_st' = "STRIP_R" /\ strip_remaining' = strip_remaining /\ rleft' > 0
      BY <2>2, <1>1, <1>2, <1>13
    <3>2. BeatBytes * rleft' = BeatBytes * rleft - BeatBytes
      BY ONLY <1>1, <1>5, LessOne
    <3>3. ~strip_error_seen' =>
            strip_waddr' + BeatBytes * rleft' + (strip_remaining - strip_in_burst) <= StripMax
      <4> SUFFICES ASSUME ~strip_error_seen'
                   PROVE  strip_waddr' + BeatBytes * rleft' + (strip_remaining - strip_in_burst)
                             <= StripMax
        OBVIOUS
      <4> DEFINE m == BeatBytes * rleft
      <4>1. m \in Nat /\ BeatBytes * rleft' = m - BeatBytes
        BY <3>2, <1>1, <1>5
      <4>2. strip_waddr + m + (strip_remaining - strip_in_burst) <= StripMax
        BY <1>4, <1>12
      <4>3. strip_waddr' = strip_waddr + BeatBytes
        BY <1>12
      <4> HIDE DEF m
      <4> QED BY <4>1, <4>2, <4>3, <1>5, ParamsAssumption
    <3>4. rleft' <= beats_in_burst
      BY <1>1, <1>4, <1>5
    <3> QED BY <3>1, <3>3, <3>4, <2>1, <1>4, <1>12 DEF StripRoom
  <2>3. CASE r.last
    <3>1. dma_st' \in {"STRIP_AR", "STRIP_DONE"} /\ rleft = 1
          /\ strip_remaining' = strip_remaining - strip_in_burst
          /\ (dma_st' = "STRIP_AR" => ~strip_error_seen' /\ strip_remaining' # 0)
      BY <2>3, <1>1, <1>2, <1>14
    <3>2. dma_st' = "STRIP_AR" =>
            /\ strip_remaining' > 0
            /\ strip_waddr' + strip_remaining' <= StripMax
      <4> SUFFICES ASSUME dma_st' = "STRIP_AR"
                   PROVE  strip_remaining' > 0 /\ strip_waddr' + strip_remaining' <= StripMax
        OBVIOUS
      <4>3. ~strip_error_seen' /\ strip_remaining' > 0
        BY <3>1, <1>6
      <4>1. /\ ~strip_error_seen /\ strip_waddr' = strip_waddr + BeatBytes
            /\ strip_remaining' > 0
        BY <4>3, <1>12
      <4>2. strip_waddr + BeatBytes + (strip_remaining - strip_in_burst) <= StripMax
        <5>1. BeatBytes * rleft = BeatBytes
          BY <3>1, <1>5
        <5> QED BY <5>1, <4>1, <1>4
      <4> QED BY <4>1, <4>2, <3>1, <1>5, <1>6, ParamsAssumption
    <3>3. ~arvalid'
      BY <1>0 DEF DmaStripR, Wire, Handshake, archan
    <3> QED BY <3>1, <3>2, <3>3, <2>1, <1>11 DEF StripRoom
  <2> QED BY <2>2, <2>3
<1>10. DmaSeen(go, ss, c, r, b)
  BY DEF DmaSeen, flags, sflags, sxfer, XferStates, StripChain, BusErr, MRready,
         DmaEdge, Commands, Answers
<1> QED BY <1>7, <1>8, <1>9, <1>10 DEF DmaGood, Wire

LEMMA StripRWaitEdge ==
    ASSUME DmaTypes, Wire, NEW go, NEW d, NEW ss, NEW c, NEW ar, NEW r, NEW aw, NEW w, NEW b,
           DmaEdge(go, d, ss, c, ar, r, aw, w, b),
           DmaStripRWait(r)
    PROVE  DmaGood(go, ss, c, r, b)
<1>0. dma_st = "STRIP_R" /\ ~r.valid
  BY DEF DmaStripRWait
<1>1. /\ rleft' = rleft /\ wleft' = wleft /\ rleft \in Nat /\ wleft = 0 /\ errs' \in Nat
  <2>1. /\ rleft' = IF arvalid /\ ar THEN arbeats
                    ELSE IF r.valid THEN rleft - 1 ELSE rleft
        /\ wleft' = IF awvalid /\ aw THEN awbeats
                    ELSE IF wvalid /\ w THEN wleft - 1 ELSE wleft
        /\ rleft' \in Nat /\ errs' \in Nat
    BY SlaveEdge DEF DmaEdge, Wire
  <2>2. rleft \in Nat /\ wleft \in Nat
    BY DEF DmaTypes, SlaveTypes
  <2> QED BY <1>0, <2>1, <2>2 DEF Wire, Handshake
<1> USE DEF DmaStripRWait
<1>2. DmaTypes'
  <2>1. FlagTypes'
    BY <1>1 DEF DmaTypes, FlagTypes, DmaStates, flags, archan, wchans, xfer
  <2>2. MoveTypes'
    BY <1>1 DEF DmaTypes, MoveTypes, xfer, beats
  <2>3. ChainTypes'
    BY <1>1 DEF DmaTypes, ChainTypes, sflags, sxfer, sends
  <2>4. SlaveTypes'
    BY <1>1 DEF DmaTypes, SlaveTypes, archan, wchans
  <2> QED BY <2>1, <2>2, <2>3, <2>4 DEF DmaTypes
<1>3. Handshake' /\ Bursts'
  BY <1>1 DEF Wire, Handshake, Bursts, DmaTypes, FlagTypes, ChainTypes, flags, archan, wchans,
              sflags, XferStates, StripChain
<1>4. StripRoom'
  BY <1>1 DEF Wire, StripRoom, archan, beats, sxfer, sends
<1>5. DmaSeen(go, ss, c, r, b)
  BY DEF DmaSeen, flags, sflags, sxfer, XferStates, StripChain, BusErr, MRready,
         DmaEdge, Commands, Answers
<1> QED BY <1>2, <1>3, <1>4, <1>5 DEF DmaGood, Wire

LEMMA StripDoneEdge ==
    ASSUME DmaTypes, Wire, NEW go, NEW d, NEW ss, NEW c, NEW ar, NEW r, NEW aw, NEW w, NEW b,
           DmaEdge(go, d, ss, c, ar, r, aw, w, b),
           DmaStripDone(FALSE)
    PROVE  DmaGood(go, ss, c, r, b)
<1>0. dma_st = "STRIP_DONE"
  BY DEF DmaStripDone
<1>1. /\ rleft' = rleft /\ rleft = 0 /\ wleft' = wleft /\ wleft = 0 /\ errs' \in Nat
  <2>1. /\ rleft' = IF arvalid /\ ar THEN arbeats
                    ELSE IF r.valid THEN rleft - 1 ELSE rleft
        /\ wleft' = IF awvalid /\ aw THEN awbeats
                    ELSE IF wvalid /\ w THEN wleft - 1 ELSE wleft
        /\ rleft' \in Nat /\ errs' \in Nat
    BY SlaveEdge DEF DmaEdge, Wire
  <2>2. rleft \in Nat /\ wleft \in Nat
    BY DEF DmaTypes, SlaveTypes
  <2>3. ~r.valid
    BY <1>0, <2>2 DEF DmaEdge, Answers, Wire, Handshake
  <2> QED BY <1>0, <2>1, <2>2, <2>3 DEF Wire, Handshake
<1> USE DEF DmaStripDone
<1>2. DmaTypes'
  <2>1. FlagTypes'
    BY <1>1 DEF DmaTypes, FlagTypes, DmaStates, flags, archan, wchans, xfer
  <2>2. MoveTypes'
    BY <1>1 DEF DmaTypes, MoveTypes, xfer, beats
  <2>3. ChainTypes'
    BY <1>1 DEF DmaTypes, ChainTypes, sxfer
  <2>4. SlaveTypes'
    BY <1>1 DEF DmaTypes, SlaveTypes, archan, wchans
  <2> QED BY <2>1, <2>2, <2>3, <2>4 DEF DmaTypes
<1>3. Handshake' /\ Bursts' /\ StripRoom'
  BY <1>1 DEF Wire, Handshake, Bursts, StripRoom, DmaTypes, FlagTypes, ChainTypes, flags, archan,
              wchans, XferStates, StripChain
<1>4. DmaSeen(go, ss, c, r, b)
  BY DEF DmaSeen, flags, sflags, sxfer, XferStates, StripChain, BusErr, MRready,
         DmaEdge, Commands, Answers
<1> QED BY <1>2, <1>3, <1>4 DEF DmaGood, Wire

\* One clock edge of the engine and its slave, with no abort.
LEMMA DmaStep ==
    ASSUME DmaTypes, Wire, NEW go, NEW d, NEW ss, NEW c, NEW ar, NEW r, NEW aw, NEW w, NEW b,
           DmaEdge(go, d, ss, c, ar, r, aw, w, b),
           DmaClk(FALSE, go, d, ss, c, ar, r, aw, w, b)
    PROVE  DmaGood(go, ss, c, r, b)
<1>1. CASE DmaIdle(FALSE, go, d, ss, c)
  BY <1>1, IdleEdge, GoEdge, StripStartEdge DEF DmaIdle, DmaIdleAbort
<1>2. CASE DmaRead(FALSE, ar, r)
  BY <1>2, ArEdge, REdge, RWaitEdge DEF DmaRead, DmaArDrop
<1>3. CASE DmaWrite(FALSE, aw, w, b)
  BY <1>3, AwEdge, WEdge, BEdge, BWaitEdge DEF DmaWrite, DmaAwDrop
<1>4. CASE DmaDone(FALSE)
  BY <1>4, DoneEdge
<1>5. CASE DmaStrip(FALSE, ar, r)
  BY <1>5, StripArEdge, StripREdge, StripRWaitEdge, StripDoneEdge DEF DmaStrip, DmaStripArDrop
<1> QED BY <1>1, <1>2, <1>3, <1>4, <1>5 DEF DmaClk

-----------------------------------------------------------------------------
(* The matrix engine.                                                       *)

MatSeen(go) ==
    mat_st' # "IDLE" => ~mat_done' /\ (mat_st # "IDLE" \/ go)

LEMMA MatStep ==
    ASSUME MatTypes, MlTypes, mat_st # "IDLE" => ~mat_done, NEW go, NEW win,
           MatClk(FALSE, go, mlmat, win)
    PROVE  MatTypes' /\ MatSeen(go)
<1> USE DEF MatTypes, MatStates, MatSeen, mpipe, mport
<1>1. CASE MatGo(go, mlmat)
  <2>1. mlmat.op \in {"NOP", "LOADACC", "OP", "RESCALE_PC"}
    BY DEF MlTypes, MlOutTypes, MatCmdT
  <2>2. Start(mlmat.op) \in MatStates
    BY DEF Start
  <2>3. ParamBad(mlmat) \in BOOLEAN
    BY DEF ParamBad
  <2>4. CASE ParamBad(mlmat)
    BY <1>1, <2>4 DEF MatGo
  <2>5. CASE ~ParamBad(mlmat)
    <3>1. /\ mat_st' = Start(mlmat.op) /\ rep_i' = 0 /\ el_iss' = 0 /\ el_pack' = el_pack
          /\ mat_done' \in BOOLEAN /\ mat_err' \in BOOLEAN
      BY <1>1, <2>5 DEF MatGo
    <3>2. mat_st' # "IDLE" => ~mat_done'
      BY <1>1, <2>1, <2>5 DEF MatGo, Start
    <3>3. mat_st = "IDLE" /\ go
      BY <1>1 DEF MatGo
    <3> QED BY <2>2, <3>1, <3>2, <3>3
  <2> QED BY <2>4, <2>5
<1>2. CASE MatIdle(go)
  BY <1>2 DEF MatIdle
<1>3. CASE MatRun(win)
  <2>1. /\ mat_st = "RUN" /\ mat_err' = mat_err /\ el_iss' = el_iss /\ el_pack' = el_pack
    BY <1>3 DEF MatRun
  <2>2. \/ mat_st' = "IDLE" /\ mat_done' /\ rep_i' = rep_i
        \/ mat_st' = mat_st /\ mat_done' = mat_done /\ rep_i' = rep_i + 1
    BY <1>3, Zenon DEF MatRun
  <2>3. CASE mat_st' = "IDLE" /\ mat_done' /\ rep_i' = rep_i
    BY <2>1, <2>3
  <2>4. CASE mat_st' = mat_st /\ mat_done' = mat_done /\ rep_i' = rep_i + 1
    BY <2>1, <2>4
  <2> QED BY <2>2, <2>3, <2>4
<1>4. CASE MatLa(win)
  BY <1>4 DEF MatLa
<1>5. CASE MatLv(win)
  BY <1>5 DEF MatLv
<1>6. CASE MatPrm(win)
  BY <1>6 DEF MatPrm
<1>7. CASE MatPrs
  BY <1>7 DEF MatPrs
<1>8. CASE MatRsc(mlmat)
  <2>1. /\ mat_st = "RSC" /\ mat_st' \in {"FIN", "RSC"}
        /\ mat_done' = mat_done /\ mat_err' = mat_err /\ rep_i' = rep_i /\ el_pack' = el_iss
    BY <1>8 DEF MatRsc
  <2>2. el_iss' = el_iss \/ el_iss' = el_iss + 1
    BY <1>8 DEF MatRsc
  <2> QED BY <2>1, <2>2
<1>9. CASE MatFin
  BY <1>9 DEF MatFin
<1> QED BY <1>1, <1>2, <1>3, <1>4, <1>5, <1>6, <1>7, <1>8, <1>9 DEF MatClk

-----------------------------------------------------------------------------
(* The sequencer: what each of its steps does, as far as the other blocks   *)
(* and the firmware see it.                                                 *)

Keeps   == /\ job'.busy = job.busy /\ job'.done = job.done /\ job'.err = job.err
           /\ job'.bank = job.bank
Retires == ~job'.busy /\ job'.done = job.done /\ job'.err /\ ml_st' = "IDLE"
Mute    == ~mlmat'.go /\ ~mldma'.go /\ ~mlwb'.go /\ ~mlstrip'.start
Counts  == /\ pf'.pending <=> pf.pending /\ ~(pf.seen /\ strip_done)
           /\ pf'.done <=> pf.done \/ (pf.pending /\ pf.seen /\ strip_done)
Watches == /\ Counts
           /\ pf'.fault <=> pf.fault \/ (pf.pending /\ strip_err)

\* Where a WAIT state goes on, and what an ISSUE state issues.
After(st) == CASE st = "STRIP_CLR_W" -> {"STRIP_OP"}
               [] st = "STRIP_OP_W"  -> {"STRIP_OP", "STRIP_RSC"}
               [] st = "STRIP_RSC_W" -> {"STRIP_STO_WAIT"}
               [] st = "STRIP_STO_W" -> {"STRIP_RV", "STRIP_TILE"}
               [] st = "CLR_W"   -> {"OP"}
               [] st = "OP_W"    -> {"RSC"}
               [] st = "RSC_W"   -> {"STO"}
               [] st = "STO_W"   -> {"NEXT"}
               [] st = "LOADA_W" -> {"LDW"}
               [] st = "LDW_W"   -> {"CLR"}
MatIssues   == {"STRIP_TILE", "STRIP_OP", "STRIP_RSC", "CLR", "OP", "RSC"}
LoadIssues  == {"LOADA", "LDW"}
StoreIssues == {"STRIP_STO", "STO"}
WaitOf(st) == CASE st = "STRIP_TILE" -> "STRIP_CLR_W"
                [] st = "STRIP_OP"   -> "STRIP_OP_W"
                [] st = "STRIP_RSC"  -> "STRIP_RSC_W"
                [] st = "STRIP_STO"  -> "STRIP_STO_W"
                [] st = "CLR"   -> "CLR_W"
                [] st = "OP"    -> "OP_W"
                [] st = "RSC"   -> "RSC_W"
                [] st = "STO"   -> "STO_W"
                [] st = "LOADA" -> "LOADA_W"
                [] st = "LDW"   -> "LDW_W"

WaitKind(bad, bsy, dn) ==
    /\ Mute /\ Watches
    /\ \/ bad /\ Retires
       \/ ~bad /\ Keeps /\ ml_st' = ml_st
       \/ ~bad /\ ~bsy /\ busy_seen /\ dn /\ Keeps /\ ml_st' \in After(ml_st)

IssueKind(mat, ld, st) ==
    /\ Keeps /\ Watches /\ ~busy_seen' /\ ~mlstrip'.start /\ ml_st' = WaitOf(ml_st)
    /\ (mlmat'.go <=> mat) /\ (mldma'.go <=> ld) /\ (mlwb'.go <=> st)

PrefillKind ==
    /\ ml_st = "STRIP_PREFILL" /\ ml_st' = "STRIP_PREFILL_W"
    /\ Keeps /\ ~mlmat'.go /\ ~mldma'.go /\ ~mlwb'.go /\ mlstrip'.start
    /\ pf'.pending /\ ~pf'.seen /\ ~pf'.done

PrefillWaitKind ==
    /\ ml_st = "STRIP_PREFILL_W" /\ Keeps /\ Mute
    /\ \/ strip_err /\ ml_st' = "STRIP_DRAIN_ERR" /\ Counts
       \/ ~strip_err /\ strip_busy /\ ml_st' = ml_st /\ Watches
       \/ /\ ~strip_err /\ ~strip_busy /\ pf.seen /\ strip_done
          /\ ml_st' = "STRIP_BEGIN" /\ ~pf'.pending
       \/ /\ ~strip_err /\ ~strip_busy /\ ~(pf.seen /\ strip_done)
          /\ ml_st' = ml_st /\ Watches

BeginKind ==
    /\ ml_st = "STRIP_BEGIN" /\ ml_st' = "STRIP_TILE"
    /\ Keeps /\ ~mlmat'.go /\ ~mldma'.go /\ ~mlwb'.go
    /\ \/ /\ mlstrip'.start /\ mlstrip'.bank = 1 - job.bank
          /\ pf'.pending /\ ~pf'.done /\ ~pf'.seen
       \/ ~mlstrip'.start /\ ~pf'.pending

\* STRIP_STO_WAIT, STRIP_RV and NEXT.
PassKind ==
    /\ Keeps /\ Mute /\ Watches
    /\ \/ ml_st = "STRIP_STO_WAIT" /\ ml_st' = ml_st
       \/ ml_st = "STRIP_STO_WAIT" /\ pf.done /\ ml_st' = "STRIP_STO"
       \/ ml_st = "STRIP_RV" /\ ml_st' \in {"STRIP_RV", "STRIP_ADV", "DONE"}
       \/ ml_st = "NEXT" /\ ml_st' \in {"LDW", "DONE"}

SwapKind ==
    /\ ml_st = "STRIP_ADV" /\ ml_st' = "STRIP_BEGIN" /\ Mute
    /\ job'.busy = job.busy /\ job'.done = job.done /\ job'.err = job.err
    /\ ~pf'.pending /\ ~pf'.done

DoneKind ==
    /\ ml_st = "DONE" /\ ml_st' = "IDLE" /\ Mute /\ Watches
    /\ ~job'.busy /\ job'.done /\ job'.err = job.err

FaultKind ==
    /\ cfg.strip /\ pf.fault /\ ml_st' = "STRIP_DRAIN_ERR" /\ Keeps /\ Mute /\ Watches

DrainKind ==
    /\ ml_st = "STRIP_DRAIN_ERR" /\ Mute
    /\ \/ ~MatBusy /\ Retires /\ ~pf'.pending /\ ~pf'.done /\ ~pf'.fault
       \/ MatBusy /\ Keeps /\ Watches /\ ml_st' = ml_st

IdleKind ==
    ml_st = "IDLE" /\ ml_st' = "IDLE" /\ Keeps /\ Mute /\ Watches

StartKind ==
    /\ ml_st = "IDLE" /\ ~job.busy /\ ~cfg.bypass /\ Mute
    /\ ~job'.done /\ ~pf'.pending /\ ~pf'.done /\ ~pf'.fault
    /\ \/ ~job'.busy /\ job'.err /\ ml_st' = "IDLE"
       \/ /\ job'.busy /\ ~job'.err
          /\ \/ cfg.strip /\ ~StripKickIllegal /\ ml_st' = "STRIP_PREFILL"
             \/ ~cfg.strip /\ ml_st' \in {"LOADA", "LDW"}

\* A step of a running job that no fault interrupts.
RunKinds ==
    \/ ml_st \in MatWaits /\ WaitKind(mat_err, MatBusy, mat_done)
    \/ ml_st \in LoadWaits /\ WaitKind(err, busy /\ ~mode_write, done /\ ~mode_write)
    \/ ml_st \in StoreWaits /\ WaitKind(err, busy /\ mode_write, done /\ mode_write)
    \/ ml_st \in MatIssues /\ IssueKind(TRUE, FALSE, FALSE)
    \/ ml_st \in LoadIssues /\ IssueKind(FALSE, TRUE, FALSE)
    \/ ml_st \in StoreIssues /\ IssueKind(FALSE, FALSE, TRUE)
    \/ PrefillKind \/ PrefillWaitKind \/ BeginKind \/ PassKind \/ SwapKind \/ DoneKind

-----------------------------------------------------------------------------

\* The wires of the engines.
LEMMA Wired ==
    /\ Engines.mat_busy = MatBusy /\ Engines.mat_done = mat_done /\ Engines.mat_err = mat_err
    /\ Engines.dma_busy = (busy /\ ~mode_write) /\ Engines.dma_done = (done /\ ~mode_write)
    /\ Engines.dma_err = err
    /\ Engines.wb_busy = (busy /\ mode_write) /\ Engines.wb_done = (done /\ mode_write)
    /\ Engines.strip_busy = strip_busy /\ Engines.strip_done = strip_done
    /\ Engines.strip_err = strip_err
  BY DEF Engines

\* Addresses and pointers of the commands.
LEMMA Operands ==
    ASSUME cfg \in CfgType, MlRegTypes
    PROVE  /\ GlobalSub \in Nat /\ job.chunk * Reps \in Nat /\ MatOut \in Nat
           /\ LegacyOut \in Nat /\ OpA \in Nat /\ OpB \in Nat /\ FoldPtr \in Nat
           /\ ParamPtr \in Nat /\ ActSlot \in Nat /\ ActLen \in Nat /\ LoadLen \in Nat
           /\ cfg.wbase + (job.strip + 1) * cfg.sbytes \in Nat
           /\ cfg.outbase + GlobalSub * DstStride \in Nat
           /\ StripWeightBase \in Nat
           /\ BlobBase + job.tile * JobStride \in Nat
           /\ DstBase + job.tile * DstStride \in Nat
<1>1. /\ job.tile \in Nat /\ job.strip \in Nat /\ job.chunk \in Nat /\ job.sub \in Nat
      /\ cfg.wbase \in Nat /\ cfg.sbytes \in Nat /\ cfg.outbase \in Nat
  BY DEF CfgType, MlRegTypes, JobType
<1>2. /\ Reps \in Nat /\ SubTiles \in Nat /\ StoreLen \in Nat /\ WPB \in Nat
      /\ BlobBase \in Nat /\ JobStride \in Nat /\ DstBase \in Nat /\ DstStride \in Nat
  BY MlAssumption, ParamsAssumption
<1>3. ASSUME NEW a \in Nat, NEW b \in Nat PROVE a * b \in Nat
  BY <1>3
<1>4. /\ GlobalSub \in Nat /\ job.chunk * Reps \in Nat
      /\ job.tile * JobStride \in Nat /\ job.tile * DstStride \in Nat
      /\ (job.strip + 1) * cfg.sbytes \in Nat
  <2>1. job.strip * SubTiles \in Nat /\ job.strip + 1 \in Nat
    BY <1>1, <1>2, <1>3
  <2> QED BY <1>1, <1>2, <1>3, <2>1 DEF GlobalSub
<1>5. GlobalSub * DstStride \in Nat
  BY <1>2, <1>3, <1>4
<1>6. TileBytes \in Nat /\ ChunkBytes \in Nat
  BY <1>2, <1>3 DEF TileBytes, ChunkBytes, BeatBytes
<1>7. StripWeightBase \in Nat
  <2>1. job.chunk % 16 \in Nat
    BY <1>1
  <2>2. (job.chunk % 16) * ChunkBytes \in Nat /\ job.sub * TileBytes \in Nat
    BY <2>1, <1>1, <1>3, <1>6
  <2> QED BY <2>2 DEF StripWeightBase
<1>8. /\ Win(0) \in Nat /\ Win(1) \in Nat /\ Win(2) \in Nat
      /\ Win(Reps) \in Nat /\ Win(2 * Reps) \in Nat
  BY <1>2, <1>3 DEF Win
<1>9. AOff \in Nat /\ ActSlot \in Nat /\ TightB \in Nat
  BY <1>2, <1>8 DEF AOff, ActSlot, TightB
<1>10. /\ MatOut \in Nat /\ LegacyOut \in Nat /\ OpA \in Nat /\ OpB \in Nat /\ FoldPtr \in Nat
       /\ ParamPtr \in Nat /\ ActLen \in Nat /\ LoadLen \in Nat
  BY <1>8, <1>9 DEF MatOut, LegacyOut, OpA, OpB, FoldPtr, ParamPtr, ActLen, LoadLen
<1> QED BY <1>1, <1>2, <1>4, <1>5, <1>7, <1>9, <1>10

\* The monitor of the prefetch.
LEMMA Monitored ==
    ASSUME pf \in PfType, strip_done \in BOOLEAN, strip_err \in BOOLEAN, strip_busy \in BOOLEAN
    PROVE  /\ AfterMonitor(Engines) \in PfType
           /\ AfterMonitor(Engines).pending <=> pf.pending /\ ~(pf.seen /\ strip_done)
           /\ AfterMonitor(Engines).done <=> pf.done \/ (pf.pending /\ pf.seen /\ strip_done)
           /\ AfterMonitor(Engines).fault <=> pf.fault \/ (pf.pending /\ strip_err)
  BY Wired DEF AfterMonitor, PfType

LEMMA Watched ==
    ASSUME pf \in PfType, strip_done \in BOOLEAN, strip_err \in BOOLEAN, strip_busy \in BOOLEAN,
           pf' = AfterMonitor(Engines)
    PROVE  pf' \in PfType /\ Watches
  BY Monitored DEF Watches, Counts

\* No command is raised.
LEMMA SilentStep ==
    ASSUME MlTypes, Silent
    PROVE  MlOutTypes' /\ Mute
<1>1. /\ mlmat' \in MatCmdT /\ ~mlmat'.go
      /\ mldma' \in GoType /\ ~mldma'.go
      /\ mlwb' \in GoType /\ ~mlwb'.go
      /\ mlstrip' \in StripT /\ ~mlstrip'.start
      /\ ml_err_we' \in BOOLEAN
  BY DEF MlTypes, MlOutTypes, Silent, NoMat, NoDma, NoWb, NoStrip, NoErrWe, MatCmdT, GoType,
         StripT
<1> QED BY <1>1 DEF MlOutTypes, Mute

\* A WAIT state.
LEMMA WaitStep ==
    ASSUME MlTypes, NEW st, NEW bad, NEW bsy, NEW dn, NEW next, NEW jn,
           Wait(st, bad, bsy, dn, job, next, jn),
           next \in MlStates, next \in After(st), jn \in JobType,
           jn.busy = job.busy, jn.done = job.done, jn.err = job.err, jn.bank = job.bank,
           pf' \in PfType, Watches
    PROVE  MlRegTypes' /\ MlOutTypes' /\ ml_st = st /\ WaitKind(bad, bsy, dn)
<1>1. MlOutTypes' /\ Mute /\ ml_st = st
  BY SilentStep DEF Wait
<1>2. job \in JobType /\ ml_st \in MlStates /\ busy_seen \in BOOLEAN
  BY DEF MlTypes, MlRegTypes
<1>3. /\ Retired(job) \in JobType /\ ~Retired(job).busy /\ Retired(job).err
      /\ Retired(job).done = job.done
  BY <1>2 DEF Retired, JobType
<1>4. \/ bad /\ job' = Retired(job) /\ ml_st' = "IDLE" /\ busy_seen' = busy_seen
      \/ ~bad /\ job' = job /\ ml_st' = ml_st /\ busy_seen' \in {TRUE, busy_seen}
      \/ /\ ~bad /\ ~bsy /\ busy_seen /\ dn /\ job' = jn /\ ml_st' = next
         /\ busy_seen' = busy_seen
  BY DEF Wait, Goto
<1>5. job' \in JobType /\ ml_st' \in MlStates /\ busy_seen' \in BOOLEAN
  BY <1>2, <1>3, <1>4 DEF MlStates
<1>6. \/ bad /\ Retires
      \/ ~bad /\ Keeps /\ ml_st' = ml_st
      \/ ~bad /\ ~bsy /\ busy_seen /\ dn /\ Keeps /\ ml_st' \in After(ml_st)
  BY <1>1, <1>3, <1>4 DEF Retires, Keeps
<1> QED BY <1>1, <1>5, <1>6 DEF MlRegTypes, WaitKind

\* The three kinds of ISSUE.
LEMMA IssueMatStep ==
    ASSUME MlTypes, NEW c \in MatCmdT, NEW next, IssueMat(c, next), c.go,
           next \in MlStates, next = WaitOf(ml_st), job' \in JobType, Keeps, pf' \in PfType,
           Watches
    PROVE  MlRegTypes' /\ MlOutTypes' /\ IssueKind(TRUE, FALSE, FALSE)
<1>1. /\ mlmat' = c /\ mldma' \in GoType /\ ~mldma'.go /\ mlwb' \in GoType /\ ~mlwb'.go
      /\ mlstrip' \in StripT /\ ~mlstrip'.start
      /\ ml_err_we' \in BOOLEAN /\ busy_seen' = FALSE /\ ml_st' = next
  BY DEF MlTypes, MlOutTypes, IssueMat, NoDma, NoWb, NoStrip, NoErrWe, GoType, StripT, Goto
<1> QED BY <1>1 DEF MlRegTypes, MlOutTypes, IssueKind

LEMMA IssueDmaStep ==
    ASSUME MlTypes, NEW src \in Nat, NEW dst \in Nat, NEW len \in Nat, NEW next,
           IssueDma(src, dst, len, next),
           next \in MlStates, next = WaitOf(ml_st), job' \in JobType, Keeps, pf' \in PfType,
           Watches
    PROVE  MlRegTypes' /\ MlOutTypes' /\ IssueKind(FALSE, TRUE, FALSE)
<1>1. /\ mldma' \in GoType /\ mldma'.go /\ mlmat' \in MatCmdT /\ ~mlmat'.go
      /\ mlwb' \in GoType /\ ~mlwb'.go
      /\ mlstrip' \in StripT /\ ~mlstrip'.start
      /\ ml_err_we' \in BOOLEAN /\ busy_seen' = FALSE /\ ml_st' = next
  BY DEF MlTypes, MlOutTypes, IssueDma, NoMat, NoWb, NoStrip, NoErrWe, GoType, StripT, MatCmdT,
         Goto
<1> QED BY <1>1 DEF MlRegTypes, MlOutTypes, IssueKind

LEMMA IssueWbStep ==
    ASSUME MlTypes, NEW src \in Nat, NEW dst \in Nat, NEW next,
           IssueWb(src, dst, next),
           next \in MlStates, next = WaitOf(ml_st), job' \in JobType, Keeps, pf' \in PfType,
           Watches
    PROVE  MlRegTypes' /\ MlOutTypes' /\ IssueKind(FALSE, FALSE, TRUE)
<1>1. /\ mlwb' \in GoType /\ mlwb'.go /\ mlmat' \in MatCmdT /\ ~mlmat'.go
      /\ mldma' \in GoType /\ ~mldma'.go
      /\ mlstrip' \in StripT /\ ~mlstrip'.start
      /\ ml_err_we' \in BOOLEAN /\ busy_seen' = FALSE /\ ml_st' = next
  BY MlAssumption
     DEF MlTypes, MlOutTypes, IssueWb, NoMat, NoDma, NoStrip, NoErrWe, GoType, StripT, MatCmdT,
         Goto
<1> QED BY <1>1 DEF MlRegTypes, MlOutTypes, IssueKind

\* The commands of the matrix engine.
LEMMA MatCommands ==
    ASSUME mlmat \in MatCmdT, NEW a \in PtrType, NEW b \in PtrType, NEW n \in Nat
    PROVE  /\ LoadAcc(a) \in MatCmdT /\ LoadAcc(a).go
           /\ OpCmd(a, b, n) \in MatCmdT /\ OpCmd(a, b, n).go
           /\ Rescale(a, n) \in MatCmdT /\ Rescale(a, n).go
  BY DEF MatCmdT, LoadAcc, OpCmd, Rescale

\* The wires the sequencer looks at.
EngineFlags ==
    /\ mat_done \in BOOLEAN /\ mat_err \in BOOLEAN /\ mode_write \in BOOLEAN
    /\ busy \in BOOLEAN /\ done \in BOOLEAN /\ err \in BOOLEAN
    /\ strip_busy \in BOOLEAN /\ strip_done \in BOOLEAN /\ strip_err \in BOOLEAN

LEMMA StripRun ==
    ASSUME MlTypes, EngineFlags, ml_st \in StripLive => ~StripKickIllegal /\ cfg.strip,
           StripStep(Engines, job, AfterMonitor(Engines))
    PROVE  MlRegTypes' /\ MlOutTypes' /\ RunKinds
<1> DEFINE e == Engines
           p == AfterMonitor(Engines)
<1>1. /\ p \in PfType /\ (p.pending <=> pf.pending /\ ~(pf.seen /\ strip_done))
      /\ (p.done <=> pf.done \/ (pf.pending /\ pf.seen /\ strip_done))
  BY Monitored DEF MlTypes, MlRegTypes, EngineFlags
<1>2. pf' = p => pf' \in PfType /\ Watches
  BY Watched DEF MlTypes, MlRegTypes, EngineFlags
<1>3. /\ e.mat_busy = MatBusy /\ e.mat_done = mat_done /\ e.mat_err = mat_err
      /\ e.dma_err = err /\ e.wb_busy = (busy /\ mode_write)
      /\ e.wb_done = (done /\ mode_write)
      /\ e.strip_busy = strip_busy /\ e.strip_done = strip_done /\ e.strip_err = strip_err
  BY Wired
<1>4. /\ cfg \in CfgType /\ job \in JobType /\ pf \in PfType /\ busy_seen \in BOOLEAN
      /\ ml_st \in MlStates /\ mlmat \in MatCmdT /\ mldma \in GoType /\ mlwb \in GoType
      /\ mlstrip \in StripT /\ ml_err_we \in BOOLEAN /\ MlRegTypes
  BY DEF MlTypes, MlRegTypes, MlOutTypes
<1>6. job' = job => Keeps /\ job' \in JobType
  BY <1>4 DEF Keeps
<1> HIDE DEF e, p
<1>10. CASE MlPrefill(job, p)
  <2>1. /\ ml_st = "STRIP_PREFILL" /\ ml_st' = "STRIP_PREFILL_W" /\ job' = job
        /\ pf' = [p EXCEPT !.seen = FALSE, !.pending = TRUE, !.done = FALSE]
        /\ IssueStrip(cfg.wbase, 0) /\ busy_seen' = busy_seen
    BY <1>10 DEF MlPrefill, Goto
  <2>2. pf' \in PfType /\ pf'.pending /\ ~pf'.seen /\ ~pf'.done
    BY <2>1, <1>1 DEF PfType
  <2>3. /\ mlstrip' \in StripT /\ mlstrip'.start
        /\ mlmat' \in MatCmdT /\ ~mlmat'.go /\ mldma' \in GoType /\ ~mldma'.go
        /\ mlwb' \in GoType /\ ~mlwb'.go /\ ml_err_we' \in BOOLEAN
    BY <2>1, <1>4 DEF IssueStrip, NoMat, NoDma, NoWb, NoErrWe, MatCmdT, GoType, StripT, CfgType
  <2> QED BY <2>1, <2>2, <2>3, <1>4, <1>6
          DEF MlRegTypes, MlOutTypes, RunKinds, PrefillKind, MlStates, StripStates
<1>11. CASE MlPrefillW(e, job, p)
  <2>1. ml_st = "STRIP_PREFILL_W" /\ job' = job /\ busy_seen' = busy_seen /\ Silent
    BY <1>11 DEF MlPrefillW
  <2>2. MlOutTypes' /\ Mute
    BY <2>1, SilentStep
  <2>3. \/ /\ strip_err
           /\ pf' = [p EXCEPT !.fault = TRUE] /\ ml_st' = "STRIP_DRAIN_ERR"
        \/ /\ ~strip_err /\ strip_busy
           /\ pf' = [p EXCEPT !.seen = TRUE] /\ ml_st' = ml_st
        \/ /\ ~strip_err /\ ~strip_busy /\ pf.seen /\ strip_done
           /\ pf' = [p EXCEPT !.pending = FALSE, !.done = TRUE, !.seen = FALSE]
           /\ ml_st' = "STRIP_BEGIN"
        \/ /\ ~strip_err /\ ~strip_busy /\ ~(pf.seen /\ strip_done)
           /\ pf' = p /\ ml_st' = ml_st
    BY <1>11, <1>3 DEF MlPrefillW, Goto
  <2>4. pf' \in PfType
    BY <2>3, <1>1 DEF PfType
  <2>5. strip_err /\ ml_st' = "STRIP_DRAIN_ERR" => Counts
    BY <2>1, <2>3, <1>1 DEF PfType, Counts
  <2>6. ASSUME ~strip_err, pf' = [p EXCEPT !.seen = TRUE] PROVE Watches
    <3>1. pf'.pending = p.pending /\ pf'.done = p.done /\ pf'.fault = p.fault
      BY <2>6, <1>1 DEF PfType
    <3>2. p.fault <=> pf.fault \/ (pf.pending /\ strip_err)
      BY <1>4, Monitored DEF p, EngineFlags
    <3> QED BY <3>1, <3>2, <1>1 DEF Watches, Counts
  <2>7. PrefillWaitKind
    <3>1. CASE strip_err /\ ml_st' = "STRIP_DRAIN_ERR"
      BY <3>1, <2>1, <2>2, <2>5, <1>6 DEF PrefillWaitKind
    <3>2. CASE ~strip_err /\ strip_busy /\ pf' = [p EXCEPT !.seen = TRUE] /\ ml_st' = ml_st
      BY <3>2, <2>1, <2>2, <2>6, <1>6 DEF PrefillWaitKind
    <3>3. CASE /\ ~strip_err /\ ~strip_busy /\ pf.seen /\ strip_done
               /\ pf' = [p EXCEPT !.pending = FALSE, !.done = TRUE, !.seen = FALSE]
               /\ ml_st' = "STRIP_BEGIN"
      <4>1. ~pf'.pending
        BY <3>3, <1>1 DEF PfType
      <4> QED BY <4>1, <3>3, <2>1, <2>2, <1>6 DEF PrefillWaitKind
    <3>4. CASE /\ ~strip_err /\ ~strip_busy /\ ~(pf.seen /\ strip_done)
               /\ pf' = p /\ ml_st' = ml_st
      BY <3>4, <2>1, <2>2, <1>2, <1>6 DEF PrefillWaitKind
    <3> QED BY <2>3, <3>1, <3>2, <3>3, <3>4
  <2>8. ml_st' \in MlStates
    BY <2>3, <1>4 DEF MlStates, StripStates
  <2> QED BY <2>1, <2>2, <2>4, <2>7, <2>8, <1>4, <1>6 DEF MlRegTypes, RunKinds
<1>12. CASE MlBegin(job, p)
  <2>1. /\ ml_st = "STRIP_BEGIN" /\ ml_st' = "STRIP_TILE" /\ job' = [job EXCEPT !.sub = 0]
        /\ busy_seen' = busy_seen
    BY <1>12 DEF MlBegin, Goto
  <2>2. job' \in JobType /\ Keeps
    BY <2>1, <1>4, MlAssumption DEF JobType, Keeps
  <2>3. OtherBank \in {0, 1} /\ cfg.wbase + (job.strip + 1) * cfg.sbytes \in Nat
    BY <1>4, Operands DEF OtherBank, JobType
  <2>4. CASE StripLast
    <3>1. pf' = [p EXCEPT !.pending = FALSE, !.done = TRUE, !.seen = FALSE] /\ Silent
      BY <1>12, <2>4 DEF MlBegin
    <3>2. pf' \in PfType /\ ~pf'.pending
      BY <3>1, <1>1 DEF PfType
    <3>3. MlOutTypes' /\ Mute
      BY <3>1, SilentStep
    <3> QED BY <2>1, <2>2, <3>2, <3>3, <1>4
            DEF MlRegTypes, RunKinds, BeginKind, Mute, MlStates, StripStates
  <2>5. CASE ~StripLast
    <3>1. /\ pf' = [p EXCEPT !.pending = TRUE, !.done = FALSE, !.seen = FALSE]
          /\ IssueStrip(cfg.wbase + (job.strip + 1) * cfg.sbytes, OtherBank)
      BY <1>12, <2>5 DEF MlBegin
    <3>2. pf' \in PfType /\ pf'.pending /\ ~pf'.seen /\ ~pf'.done
      BY <3>1, <1>1 DEF PfType
    <3>3. /\ mlstrip' \in StripT /\ mlstrip'.start /\ mlstrip'.bank = 1 - job.bank
          /\ mlmat' \in MatCmdT /\ ~mlmat'.go /\ mldma' \in GoType /\ ~mldma'.go
          /\ mlwb' \in GoType /\ ~mlwb'.go /\ ml_err_we' \in BOOLEAN
      <4>1. mlstrip' = [start |-> TRUE, addr |-> cfg.wbase + (job.strip + 1) * cfg.sbytes,
                        bytes |-> cfg.sbytes, bank |-> OtherBank, clear |-> FALSE]
        BY <3>1 DEF IssueStrip
      <4>2. mlstrip' \in StripT /\ mlstrip'.start /\ mlstrip'.bank = OtherBank
        BY <4>1, <2>3, <1>4 DEF StripT, CfgType
      <4> QED BY <4>2, <3>1, <1>4
              DEF IssueStrip, NoMat, NoDma, NoWb, NoErrWe, MatCmdT, GoType, OtherBank
    <3> QED BY <2>1, <2>2, <3>2, <3>3, <1>4
            DEF MlRegTypes, MlOutTypes, RunKinds, BeginKind, MlStates, StripStates
  <2> QED BY <2>4, <2>5
<1>13. CASE MlTile(job, p)
  <2>1. /\ ml_st = "STRIP_TILE" /\ job' = [job EXCEPT !.chunk = 0] /\ pf' = p
        /\ IssueMat(LoadAcc(Ptr("fold", GlobalSub)), "STRIP_CLR_W")
    BY <1>13 DEF MlTile
  <2>2. job' \in JobType /\ Keeps
    BY <2>1, <1>4 DEF JobType, Keeps
  <2>3. Ptr("fold", GlobalSub) \in PtrType
    BY <1>4, Operands DEF Ptr, PtrType
  <2>4. /\ LoadAcc(Ptr("fold", GlobalSub)) \in MatCmdT
        /\ LoadAcc(Ptr("fold", GlobalSub)).go
    BY <2>3, <1>4, MatCommands
  <2>5. WaitOf(ml_st) = "STRIP_CLR_W" /\ "STRIP_CLR_W" \in MlStates
    BY <2>1 DEF WaitOf, MlStates, StripStates
  <2>6. MlRegTypes' /\ MlOutTypes' /\ IssueKind(TRUE, FALSE, FALSE)
    BY <2>1, <2>2, <2>4, <2>5, <1>2, IssueMatStep
  <2> QED BY <2>1, <2>6 DEF RunKinds, MatIssues
<1>14. CASE MlOp(job, p)
  <2> DEFINE c == OpCmd(Ptr("act", job.chunk * Reps), Ptr("strip", 0),
                        IF ChunkLast THEN cfg.ktail ELSE Reps)
  <2>1. /\ ml_st = "STRIP_OP" /\ pf' = p /\ IssueMat(c, "STRIP_OP_W")
        /\ job' = [job EXCEPT !.wbase = StripWeightBase]
    BY <1>14 DEF MlOp
  <2>2. job' \in JobType /\ Keeps
    BY <2>1, <1>4, Operands DEF JobType, Keeps
  <2>3. /\ Ptr("act", job.chunk * Reps) \in PtrType /\ Ptr("strip", 0) \in PtrType
        /\ (IF ChunkLast THEN cfg.ktail ELSE Reps) \in Nat
    BY <1>4, Operands, MlAssumption DEF Ptr, PtrType, CfgType
  <2>4. c \in MatCmdT /\ c.go
    BY <2>3, <1>4, MatCommands
  <2>5. WaitOf(ml_st) = "STRIP_OP_W" /\ "STRIP_OP_W" \in MlStates
    BY <2>1 DEF WaitOf, MlStates, StripStates
  <2> HIDE DEF c
  <2>6. MlRegTypes' /\ MlOutTypes' /\ IssueKind(TRUE, FALSE, FALSE)
    BY <2>1, <2>2, <2>4, <2>5, <1>2, IssueMatStep
  <2> QED BY <2>1, <2>6 DEF RunKinds, MatIssues
<1>15. CASE MlRsc(job, p)
  <2>1. /\ ml_st = "STRIP_RSC" /\ job' = job /\ pf' = p
        /\ IssueMat(Rescale(Ptr("param", GlobalSub), MatOut), "STRIP_RSC_W")
    BY <1>15 DEF MlRsc
  <2>2. Ptr("param", GlobalSub) \in PtrType /\ MatOut \in Nat /\ Ptr("tcm", 0) \in PtrType
    BY <1>4, Operands DEF Ptr, PtrType
  <2>3. /\ Rescale(Ptr("param", GlobalSub), MatOut) \in MatCmdT
        /\ Rescale(Ptr("param", GlobalSub), MatOut).go
    BY <2>2, <1>4, MatCommands
  <2>4. WaitOf(ml_st) = "STRIP_RSC_W" /\ "STRIP_RSC_W" \in MlStates
    BY <2>1 DEF WaitOf, MlStates, StripStates
  <2>5. MlRegTypes' /\ MlOutTypes' /\ IssueKind(TRUE, FALSE, FALSE)
    BY <2>1, <2>3, <2>4, <1>2, <1>6, IssueMatStep
  <2> QED BY <2>1, <2>5 DEF RunKinds, MatIssues
<1>16. CASE MlClrW(e, job, p)
  <2>1. Wait("STRIP_CLR_W", mat_err, MatBusy, mat_done, job, "STRIP_OP", job) /\ pf' = p
    BY <1>16, <1>3 DEF MlClrW, MatWait
  <2>2. "STRIP_OP" \in MlStates /\ "STRIP_OP" \in After("STRIP_CLR_W")
    BY DEF MlStates, StripStates, After
  <2>3. /\ MlRegTypes' /\ MlOutTypes' /\ ml_st = "STRIP_CLR_W"
        /\ WaitKind(mat_err, MatBusy, mat_done)
    BY <2>1, <2>2, <1>2, <1>4, WaitStep
  <2> QED BY <2>3 DEF RunKinds, MatWaits
<1>17. CASE MlOpW(e, job, p)
  <2> DEFINE next == IF ChunkLast THEN "STRIP_RSC" ELSE "STRIP_OP"
             jn   == IF ChunkLast THEN job ELSE [job EXCEPT !.chunk = job.chunk + 1]
  <2>1. Wait("STRIP_OP_W", mat_err, MatBusy, mat_done, job, next, jn) /\ pf' = p
    BY <1>17, <1>3 DEF MlOpW
  <2>2. next \in MlStates /\ next \in After("STRIP_OP_W")
    BY DEF MlStates, StripStates, After
  <2>3. /\ jn \in JobType /\ jn.busy = job.busy /\ jn.done = job.done /\ jn.err = job.err
        /\ jn.bank = job.bank
    BY <1>4 DEF JobType
  <2> HIDE DEF next, jn
  <2>4. /\ MlRegTypes' /\ MlOutTypes' /\ ml_st = "STRIP_OP_W"
        /\ WaitKind(mat_err, MatBusy, mat_done)
    BY <2>1, <2>2, <2>3, <1>2, <1>4, WaitStep
  <2> QED BY <2>4 DEF RunKinds, MatWaits
<1>18. CASE MlRscW(e, job, p)
  <2>1. /\ Wait("STRIP_RSC_W", mat_err, MatBusy, mat_done, job, "STRIP_STO_WAIT", job)
        /\ pf' = p
    BY <1>18, <1>3 DEF MlRscW, MatWait
  <2>2. "STRIP_STO_WAIT" \in MlStates /\ "STRIP_STO_WAIT" \in After("STRIP_RSC_W")
    BY DEF MlStates, StripStates, After
  <2>3. /\ MlRegTypes' /\ MlOutTypes' /\ ml_st = "STRIP_RSC_W"
        /\ WaitKind(mat_err, MatBusy, mat_done)
    BY <2>1, <2>2, <1>2, <1>4, WaitStep
  <2> QED BY <2>3 DEF RunKinds, MatWaits
<1>19. CASE MlStoWait(job, p)
  <2>1. /\ ml_st = "STRIP_STO_WAIT" /\ job' = job /\ pf' = p /\ Silent
        /\ busy_seen' = busy_seen
        /\ \/ pf.done /\ ml_st' = "STRIP_STO"
           \/ ml_st' = ml_st
    BY <1>19 DEF MlStoWait, Goto
  <2>2. MlOutTypes' /\ Mute
    BY <2>1, SilentStep
  <2>3. ml_st' \in MlStates
    BY <2>1, <1>4 DEF MlStates, StripStates
  <2> QED BY <2>1, <2>2, <2>3, <1>2, <1>4, <1>6 DEF MlRegTypes, RunKinds, PassKind
<1>20. CASE MlSto(job, p)
  <2>1. /\ ml_st = "STRIP_STO" /\ job' = job /\ pf' = p
        /\ IssueWb(MatOut, cfg.outbase + GlobalSub * DstStride, "STRIP_STO_W")
    BY <1>20 DEF MlSto
  <2>2. MatOut \in Nat /\ cfg.outbase + GlobalSub * DstStride \in Nat
    BY <1>4, Operands
  <2>3. WaitOf(ml_st) = "STRIP_STO_W" /\ "STRIP_STO_W" \in MlStates
    BY <2>1 DEF WaitOf, MlStates, StripStates
  <2>4. MlRegTypes' /\ MlOutTypes' /\ IssueKind(FALSE, FALSE, TRUE)
    BY <2>1, <2>2, <2>3, <1>2, <1>6, IssueWbStep
  <2> QED BY <2>1, <2>4 DEF RunKinds, StoreIssues
<1>21. CASE MlStoW(e, job, p)
  <2> DEFINE next == IF SubtileLast THEN "STRIP_RV" ELSE "STRIP_TILE"
             jn   == IF SubtileLast THEN job ELSE [job EXCEPT !.sub = job.sub + 1]
  <2>1. /\ Wait("STRIP_STO_W", err, busy /\ mode_write, done /\ mode_write, job, next, jn)
        /\ pf' = p
    BY <1>21, <1>3 DEF MlStoW
  <2>2. next \in MlStates /\ next \in After("STRIP_STO_W")
    BY DEF MlStates, StripStates, After
  <2>3. ml_st = "STRIP_STO_W" /\ ml_st \in StripLive
    BY <2>1 DEF Wait, StripLive, StripStates
  <2>4. ~SubtileLast => job.sub + 1 \in 0 .. SubTiles - 1
    <3>3. cfg.ntail \in Nat /\ ~StripKickIllegal /\ cfg.strip
      BY <2>3, <1>4 DEF CfgType
    <3>4. ~(cfg.ntail > SubTiles)
      BY <3>3, Zenon DEF StripKickIllegal
    <3>1. cfg.ntail <= SubTiles /\ cfg.ntail \in Nat
      BY <3>3, <3>4, MlAssumption
    <3>2. job.sub \in 0 .. SubTiles - 1 /\ SubTiles \in Nat
      BY <1>4, MlAssumption DEF JobType
    <3> QED BY <3>1, <3>2, MlAssumption DEF SubtileLast
  <2>5. /\ jn \in JobType /\ jn.busy = job.busy /\ jn.done = job.done /\ jn.err = job.err
        /\ jn.bank = job.bank
    BY <1>4, <2>4 DEF JobType
  <2> HIDE DEF next, jn
  <2>6. MlRegTypes' /\ MlOutTypes' /\ WaitKind(err, busy /\ mode_write, done /\ mode_write)
    BY <2>1, <2>2, <2>5, <1>2, <1>4, WaitStep
  <2> QED BY <2>3, <2>6 DEF RunKinds, StoreWaits
<1>22. CASE MlRv(job, p)
  <2>1. /\ ml_st = "STRIP_RV" /\ job' = job /\ pf' = p /\ Silent
        /\ busy_seen' = busy_seen /\ ml_st' \in {"STRIP_RV", "STRIP_ADV", "DONE"}
    BY <1>22 DEF MlRv, Goto
  <2>2. MlOutTypes' /\ Mute
    BY <2>1, SilentStep
  <2>3. ml_st' \in MlStates
    BY <2>1 DEF MlStates, StripStates
  <2> QED BY <2>1, <2>2, <2>3, <1>2, <1>4, <1>6 DEF MlRegTypes, RunKinds, PassKind
<1>23. CASE MlAdv(job, p)
  <2>1. /\ ml_st = "STRIP_ADV" /\ ml_st' = "STRIP_BEGIN" /\ Silent /\ busy_seen' = busy_seen
        /\ job' = [job EXCEPT !.strip = job.strip + 1, !.bank = OtherBank]
        /\ pf' = [p EXCEPT !.done = FALSE, !.pending = FALSE, !.seen = FALSE]
    BY <1>23 DEF MlAdv, Goto
  <2>2. MlOutTypes' /\ Mute
    BY <2>1, SilentStep
  <2>3. pf' \in PfType /\ ~pf'.pending /\ ~pf'.done
    BY <2>1, <1>1 DEF PfType
  <2>4. job.bank \in {0, 1} /\ job.strip \in Nat /\ OtherBank \in {0, 1}
    BY <1>4 DEF JobType, OtherBank
  <2>5. /\ job' \in JobType /\ job'.busy = job.busy /\ job'.done = job.done
        /\ job'.err = job.err
    <3>1. ASSUME NEW n \in Nat, NEW k \in {0, 1}
          PROVE  LET j == [job EXCEPT !.strip = n, !.bank = k]
                 IN  j \in JobType /\ j.busy = job.busy /\ j.done = job.done /\ j.err = job.err
      BY <1>4 DEF JobType
    <3>2. job.strip + 1 \in Nat
      BY <2>4
    <3> QED BY <2>1, <2>4, <3>1, <3>2
  <2>6. ml_st' \in MlStates
    BY <2>1 DEF MlStates, StripStates
  <2> QED BY <2>1, <2>2, <2>3, <2>5, <2>6, <1>4 DEF MlRegTypes, RunKinds, SwapKind
<1>24. StripStep(e, job, p)
  BY DEF e, p
<1> QED BY <1>24, <1>10, <1>11, <1>12, <1>13, <1>14, <1>15, <1>16, <1>17, <1>18, <1>19, <1>20,
           <1>21, <1>22, <1>23
        DEF StripStep

LEMMA LegacyRun ==
    ASSUME MlTypes, EngineFlags, LegacyStep(Engines, job, AfterMonitor(Engines))
    PROVE  MlRegTypes' /\ MlOutTypes' /\ RunKinds
<1> DEFINE e == Engines
           p == AfterMonitor(Engines)
<1>1. pf' = p => pf' \in PfType /\ Watches
  BY Watched DEF MlTypes, MlRegTypes, EngineFlags
<1>2. /\ e.mat_busy = MatBusy /\ e.mat_done = mat_done /\ e.mat_err = mat_err
      /\ e.dma_err = err /\ e.wb_busy = (busy /\ mode_write)
      /\ e.wb_done = (done /\ mode_write) /\ e.dma_busy = (busy /\ ~mode_write)
      /\ e.dma_done = (done /\ ~mode_write)
  BY Wired
<1>3. /\ cfg \in CfgType /\ job \in JobType /\ pf \in PfType /\ busy_seen \in BOOLEAN
      /\ ml_st \in MlStates /\ mlmat \in MatCmdT /\ MlRegTypes
  BY DEF MlTypes, MlRegTypes, MlOutTypes
<1>4. job' = job => Keeps /\ job' \in JobType
  BY <1>3 DEF Keeps
<1> HIDE DEF e, p
<1>10. CASE MlLoadA(job, p)
  <2>1. /\ ml_st = "LOADA" /\ job' = job /\ pf' = p
        /\ IssueDma(ActSrc, ActSlot, ActLen, "LOADA_W")
    BY <1>10 DEF MlLoadA
  <2>2. ActSrc \in Nat /\ ActSlot \in Nat /\ ActLen \in Nat
    BY <1>3, Operands, MlAssumption
  <2>3. WaitOf(ml_st) = "LOADA_W" /\ "LOADA_W" \in MlStates
    BY <2>1 DEF WaitOf, MlStates, LegacyStates
  <2>4. MlRegTypes' /\ MlOutTypes' /\ IssueKind(FALSE, TRUE, FALSE)
    BY <2>1, <2>2, <2>3, <1>1, <1>4, IssueDmaStep
  <2> QED BY <2>1, <2>4 DEF RunKinds, LoadIssues
<1>11. CASE MlLoadAW(e, job, p)
  <2>1. Wait("LOADA_W", err, busy /\ ~mode_write, done /\ ~mode_write, job, "LDW", job)
        /\ pf' = p
    BY <1>11, <1>2 DEF MlLoadAW
  <2>2. "LDW" \in MlStates /\ "LDW" \in After("LOADA_W")
    BY DEF MlStates, LegacyStates, After
  <2>3. /\ MlRegTypes' /\ MlOutTypes' /\ ml_st = "LOADA_W"
        /\ WaitKind(err, busy /\ ~mode_write, done /\ ~mode_write)
    BY <2>1, <2>2, <1>1, <1>3, WaitStep
  <2> QED BY <2>3 DEF RunKinds, LoadWaits
<1>12. CASE MlLdw(job, p)
  <2>1. /\ ml_st = "LDW" /\ job' = job /\ pf' = p
        /\ IssueDma(BlobBase + job.tile * JobStride, FoldPtr, LoadLen, "LDW_W")
    BY <1>12 DEF MlLdw
  <2>2. BlobBase + job.tile * JobStride \in Nat /\ FoldPtr \in Nat /\ LoadLen \in Nat
    BY <1>3, Operands, MlAssumption
  <2>3. WaitOf(ml_st) = "LDW_W" /\ "LDW_W" \in MlStates
    BY <2>1 DEF WaitOf, MlStates, LegacyStates
  <2>4. MlRegTypes' /\ MlOutTypes' /\ IssueKind(FALSE, TRUE, FALSE)
    BY <2>1, <2>2, <2>3, <1>1, <1>4, IssueDmaStep
  <2> QED BY <2>1, <2>4 DEF RunKinds, LoadIssues
<1>13. CASE MlLdwW(e, job, p)
  <2>1. Wait("LDW_W", err, busy /\ ~mode_write, done /\ ~mode_write, job, "CLR", job)
        /\ pf' = p
    BY <1>13, <1>2 DEF MlLdwW
  <2>2. "CLR" \in MlStates /\ "CLR" \in After("LDW_W")
    BY DEF MlStates, LegacyStates, After
  <2>3. /\ MlRegTypes' /\ MlOutTypes' /\ ml_st = "LDW_W"
        /\ WaitKind(err, busy /\ ~mode_write, done /\ ~mode_write)
    BY <2>1, <2>2, <1>1, <1>3, WaitStep
  <2> QED BY <2>3 DEF RunKinds, LoadWaits
<1>14. CASE MlClr(job, p)
  <2> DEFINE c == LoadAcc(Ptr("tcm", FoldPtr))
  <2>1. ml_st = "CLR" /\ job' = job /\ pf' = p /\ IssueMat(c, "CLR_W")
    BY <1>14 DEF MlClr
  <2>2. Ptr("tcm", FoldPtr) \in PtrType
    BY <1>3, Operands, MlAssumption DEF Ptr, PtrType
  <2>3. c \in MatCmdT /\ c.go
    BY <2>2, <1>3, MatCommands
  <2>4. WaitOf(ml_st) = "CLR_W" /\ "CLR_W" \in MlStates
    BY <2>1 DEF WaitOf, MlStates, LegacyStates
  <2> HIDE DEF c
  <2>5. MlRegTypes' /\ MlOutTypes' /\ IssueKind(TRUE, FALSE, FALSE)
    BY <2>1, <2>3, <2>4, <1>1, <1>4, IssueMatStep
  <2> QED BY <2>1, <2>5 DEF RunKinds, MatIssues
<1>15. CASE MlLegacyClrW(e, job, p)
  <2>1. Wait("CLR_W", mat_err, MatBusy, mat_done, job, "OP", job)
        /\ pf' = p
    BY <1>15, <1>2 DEF MlLegacyClrW, MatWait
  <2>2. "OP" \in MlStates /\ "OP" \in After("CLR_W")
    BY DEF MlStates, LegacyStates, After
  <2>3. /\ MlRegTypes' /\ MlOutTypes' /\ ml_st = "CLR_W"
        /\ WaitKind(mat_err, MatBusy, mat_done)
    BY <2>1, <2>2, <1>1, <1>3, WaitStep
  <2> QED BY <2>3 DEF RunKinds, MatWaits
<1>16. CASE MlLegacyOp(job, p)
  <2> DEFINE c == OpCmd(Ptr("tcm", OpA), Ptr("tcm", OpB), Reps)
  <2>1. ml_st = "OP" /\ job' = job /\ pf' = p /\ IssueMat(c, "OP_W")
    BY <1>16 DEF MlLegacyOp
  <2>2. Ptr("tcm", OpA) \in PtrType /\ Ptr("tcm", OpB) \in PtrType /\ Reps \in Nat
    BY <1>3, Operands, MlAssumption DEF Ptr, PtrType
  <2>3. c \in MatCmdT /\ c.go
    BY <2>2, <1>3, MatCommands
  <2>4. WaitOf(ml_st) = "OP_W" /\ "OP_W" \in MlStates
    BY <2>1 DEF WaitOf, MlStates, LegacyStates
  <2> HIDE DEF c
  <2>5. MlRegTypes' /\ MlOutTypes' /\ IssueKind(TRUE, FALSE, FALSE)
    BY <2>1, <2>3, <2>4, <1>1, <1>4, IssueMatStep
  <2> QED BY <2>1, <2>5 DEF RunKinds, MatIssues
<1>17. CASE MlLegacyOpW(e, job, p)
  <2>1. Wait("OP_W", mat_err, MatBusy, mat_done, job, "RSC", job)
        /\ pf' = p
    BY <1>17, <1>2 DEF MlLegacyOpW, MatWait
  <2>2. "RSC" \in MlStates /\ "RSC" \in After("OP_W")
    BY DEF MlStates, LegacyStates, After
  <2>3. /\ MlRegTypes' /\ MlOutTypes' /\ ml_st = "OP_W"
        /\ WaitKind(mat_err, MatBusy, mat_done)
    BY <2>1, <2>2, <1>1, <1>3, WaitStep
  <2> QED BY <2>3 DEF RunKinds, MatWaits
<1>18. CASE MlLegacyRsc(job, p)
  <2> DEFINE c == Rescale(Ptr("tcm", ParamPtr), LegacyOut)
  <2>1. ml_st = "RSC" /\ job' = job /\ pf' = p /\ IssueMat(c, "RSC_W")
    BY <1>18 DEF MlLegacyRsc
  <2>2. Ptr("tcm", ParamPtr) \in PtrType /\ LegacyOut \in Nat
    BY <1>3, Operands, MlAssumption DEF Ptr, PtrType
  <2>3. c \in MatCmdT /\ c.go
    BY <2>2, <1>3, MatCommands
  <2>4. WaitOf(ml_st) = "RSC_W" /\ "RSC_W" \in MlStates
    BY <2>1 DEF WaitOf, MlStates, LegacyStates
  <2> HIDE DEF c
  <2>5. MlRegTypes' /\ MlOutTypes' /\ IssueKind(TRUE, FALSE, FALSE)
    BY <2>1, <2>3, <2>4, <1>1, <1>4, IssueMatStep
  <2> QED BY <2>1, <2>5 DEF RunKinds, MatIssues
<1>19. CASE MlLegacyRscW(e, job, p)
  <2>1. Wait("RSC_W", mat_err, MatBusy, mat_done, job, "STO", job)
        /\ pf' = p
    BY <1>19, <1>2 DEF MlLegacyRscW, MatWait
  <2>2. "STO" \in MlStates /\ "STO" \in After("RSC_W")
    BY DEF MlStates, LegacyStates, After
  <2>3. /\ MlRegTypes' /\ MlOutTypes' /\ ml_st = "RSC_W"
        /\ WaitKind(mat_err, MatBusy, mat_done)
    BY <2>1, <2>2, <1>1, <1>3, WaitStep
  <2> QED BY <2>3 DEF RunKinds, MatWaits
<1>20. CASE MlLegacySto(job, p)
  <2>1. /\ ml_st = "STO" /\ job' = job /\ pf' = p
        /\ IssueWb(LegacyOut, DstBase + job.tile * DstStride, "STO_W")
    BY <1>20 DEF MlLegacySto
  <2>2. LegacyOut \in Nat /\ DstBase + job.tile * DstStride \in Nat
    BY <1>3, Operands, MlAssumption
  <2>3. WaitOf(ml_st) = "STO_W" /\ "STO_W" \in MlStates
    BY <2>1 DEF WaitOf, MlStates, LegacyStates
  <2>4. MlRegTypes' /\ MlOutTypes' /\ IssueKind(FALSE, FALSE, TRUE)
    BY <2>1, <2>2, <2>3, <1>1, <1>4, IssueWbStep
  <2> QED BY <2>1, <2>4 DEF RunKinds, StoreIssues
<1>21. CASE MlLegacyStoW(e, job, p)
  <2>1. Wait("STO_W", err, busy /\ mode_write, done /\ mode_write, job, "NEXT", job)
        /\ pf' = p
    BY <1>21, <1>2 DEF MlLegacyStoW
  <2>2. "NEXT" \in MlStates /\ "NEXT" \in After("STO_W")
    BY DEF MlStates, LegacyStates, After
  <2>3. /\ MlRegTypes' /\ MlOutTypes' /\ ml_st = "STO_W"
        /\ WaitKind(err, busy /\ mode_write, done /\ mode_write)
    BY <2>1, <2>2, <1>1, <1>3, WaitStep
  <2> QED BY <2>3 DEF RunKinds, StoreWaits
<1>22. CASE MlNext(job, p)
  <2>1. /\ ml_st = "NEXT" /\ pf' = p /\ Silent /\ busy_seen' = busy_seen
        /\ \/ job' = job /\ ml_st' = "DONE"
           \/ job' = [job EXCEPT !.tile = job.tile + 1] /\ ml_st' = "LDW"
    BY <1>22 DEF MlNext, Goto
  <2>2. MlOutTypes' /\ Mute
    BY <2>1, SilentStep
  <2>3. ml_st' \in MlStates
    BY <2>1 DEF MlStates, LegacyStates
  <2>4. job' \in JobType /\ Keeps
    BY <2>1, <1>3 DEF JobType, Keeps
  <2> QED BY <2>1, <2>2, <2>3, <2>4, <1>1, <1>3 DEF MlRegTypes, RunKinds, PassKind
<1>50. LegacyStep(e, job, p)
  BY DEF e, p
<1> QED BY <1>50, <1>10, <1>11, <1>12, <1>13, <1>14, <1>15, <1>16, <1>17, <1>18,
           <1>19, <1>20, <1>21, <1>22
        DEF LegacyStep

\* The step of a sequencer that is at its end, in error or idle.
LEMMA StatesOf ==
    ASSUME NEW e, NEW j, NEW p
    PROVE  /\ StripStep(e, j, p) => ml_st \in StripLive
           /\ LegacyStep(e, j, p) => ml_st \in LegacyStates
<1>1. StripStep(e, j, p) => ml_st \in StripLive
  BY DEF StripStep, StripLive, StripStates, MlPrefill, MlPrefillW, MlBegin, MlTile, MlClrW,
         MlOp, MlOpW, MlRsc, MlRscW, MlStoWait, MlSto, MlStoW, MlRv, MlAdv, MatWait, Wait
<1>2. LegacyStep(e, j, p) => ml_st \in LegacyStates
  BY DEF LegacyStep, LegacyStates, MlLoadA, MlLoadAW, MlLdw, MlLdwW, MlClr, MlLegacyClrW,
         MlLegacyOp, MlLegacyOpW, MlLegacyRsc, MlLegacyRscW, MlLegacySto, MlLegacyStoW, MlNext,
         MatWait, Wait
<1> QED BY <1>1, <1>2

\* The registers of the command outputs when no engine is commanded.
LEMMA MuteStep ==
    ASSUME MlTypes, NEW clear \in BOOLEAN, NoMat, NoDma, NoWb, NoStrip(clear),
           ml_err_we' \in BOOLEAN
    PROVE  MlOutTypes' /\ Mute
<1>1. /\ mlmat' \in MatCmdT /\ ~mlmat'.go
      /\ mldma' \in GoType /\ ~mldma'.go
      /\ mlwb' \in GoType /\ ~mlwb'.go
      /\ mlstrip' \in StripT /\ ~mlstrip'.start
  BY DEF MlTypes, MlOutTypes, NoMat, NoDma, NoWb, NoStrip, MatCmdT, GoType, StripT
<1> QED BY <1>1 DEF MlOutTypes, Mute

AnyKind == \/ job.busy /\ ~FaultNow /\ RunKinds
           \/ FaultKind \/ DrainKind \/ IdleKind

\* A step on which no job is started.
LEMMA PlainStep ==
    ASSUME MlTypes, EngineFlags, TurnInv, NEW w, ~GoTaken(w, FALSE), MlClk(w, FALSE, Engines)
    PROVE  MlRegTypes' /\ MlOutTypes' /\ AnyKind
<1> DEFINE p == AfterMonitor(Engines)
<1>1. /\ AfterCsrJob(w, FALSE) = job /\ AfterCsrPf(w, FALSE, Engines) = p
      /\ AfterCsrSeen(w, FALSE) = busy_seen /\ AfterCsrSt(w, FALSE) = ml_st
  BY DEF AfterCsrJob, AfterCsrPf, AfterCsrSeen, AfterCsrSt
<1>2. \/ FaultNow /\ MlFault(GoTaken(w, FALSE), job, p, busy_seen)
      \/ MlIdle(GoTaken(w, FALSE), job, p, busy_seen, ml_st)
      \/ MlDrainErr(GoTaken(w, FALSE), Engines, job, p, busy_seen, ml_st)
      \/ ~FaultNow /\ StripStep(Engines, job, p)
      \/ ~FaultNow /\ LegacyStep(Engines, job, p)
      \/ MlAbortDrain(Engines, job, p)
      \/ ~FaultNow /\ MlDone(job, p)
  BY <1>1, Zenon DEF MlClk
<1>3. pf' = p => pf' \in PfType /\ Watches
  BY Watched DEF MlTypes, MlRegTypes, EngineFlags
<1>4. /\ cfg \in CfgType /\ job \in JobType /\ pf \in PfType /\ busy_seen \in BOOLEAN
      /\ ml_st \in MlStates /\ GoTaken(w, FALSE) \in BOOLEAN
  BY DEF MlTypes, MlRegTypes, GoTaken
<1>5. job' = job => Keeps /\ job' \in JobType
  BY <1>4 DEF Keeps
<1> HIDE DEF p
<1>10. CASE FaultNow /\ MlFault(GoTaken(w, FALSE), job, p, busy_seen)
  <2>1. /\ job' = job /\ pf' = p /\ busy_seen' = busy_seen /\ ml_st' = "STRIP_DRAIN_ERR"
        /\ cfg.strip /\ pf.fault
    BY <1>10 DEF FaultNow, MlFault, Goto
  <2>2. MlOutTypes' /\ Mute
    BY <1>10, <1>4, MuteStep DEF MlFault, NoErrWe
  <2>3. ml_st' \in MlStates
    BY <2>1 DEF MlStates, StripStates
  <2> QED BY <2>1, <2>2, <2>3, <1>3, <1>4, <1>5 DEF MlRegTypes, AnyKind, FaultKind
<1>11. CASE MlIdle(GoTaken(w, FALSE), job, p, busy_seen, ml_st)
  <2>1. /\ ml_st = "IDLE" /\ job' = job /\ pf' = p /\ busy_seen' = busy_seen
        /\ ml_st' = ml_st
    BY <1>11 DEF MlIdle, Goto
  <2>2. MlOutTypes' /\ Mute
    BY <1>11, <1>4, MuteStep DEF MlIdle, NoErrWe
  <2> QED BY <2>1, <2>2, <1>3, <1>4, <1>5 DEF MlRegTypes, AnyKind, IdleKind
<1>12. CASE MlDrainErr(GoTaken(w, FALSE), Engines, job, p, busy_seen, ml_st)
  <2>1. /\ ml_st = "STRIP_DRAIN_ERR" /\ busy_seen' = busy_seen
        /\ \/ ~MatBusy /\ job' = Retired(job) /\ pf' = NoPf /\ ml_st' = "IDLE"
           \/ MatBusy /\ job' = job /\ pf' = p /\ ml_st' = ml_st
    BY <1>12, Wired DEF MlDrainErr, Goto
  <2>2. /\ \/ ml_err_we' = TRUE /\ NoStrip(TRUE)
           \/ ml_err_we' = FALSE /\ NoStrip(GoTaken(w, FALSE))
        /\ NoMat /\ NoDma /\ NoWb
    BY <1>12 DEF MlDrainErr, NoErrWe
  <2>3. MlOutTypes' /\ Mute
    BY <2>2, <1>4, MuteStep
  <2>4. CASE ~MatBusy /\ job' = Retired(job) /\ pf' = NoPf /\ ml_st' = "IDLE"
    <3>1. job' \in JobType /\ Retires
      BY <2>4, <1>4 DEF Retired, JobType, Retires
    <3>2. pf' \in PfType /\ ~pf'.pending /\ ~pf'.done /\ ~pf'.fault
      BY <2>4 DEF NoPf, PfType
    <3>3. ml_st' \in MlStates
      BY <2>4 DEF MlStates
    <3> QED BY <2>1, <2>3, <2>4, <3>1, <3>2, <3>3, <1>4 DEF MlRegTypes, AnyKind, DrainKind
  <2>5. CASE MatBusy /\ job' = job /\ pf' = p /\ ml_st' = ml_st
    BY <2>1, <2>3, <2>5, <1>3, <1>4, <1>5 DEF MlRegTypes, AnyKind, DrainKind
  <2> QED BY <2>1, <2>4, <2>5
<1>13. CASE ~FaultNow /\ StripStep(Engines, job, p)
  <2>1. ml_st \in StripLive
    BY <1>13, StatesOf
  <2>2. job.busy /\ cfg.strip /\ ~StripKickIllegal
    BY <2>1 DEF TurnInv, StripLive, StripStates
  <2> QED BY <1>13, <2>2, StripRun DEF AnyKind, p
<1>14. CASE ~FaultNow /\ LegacyStep(Engines, job, p)
  <2>1. ml_st \in LegacyStates
    BY <1>14, StatesOf
  <2>2. job.busy
    BY <2>1 DEF TurnInv, LegacyStates
  <2> QED BY <1>14, <2>2, LegacyRun DEF AnyKind, p
<1>15. CASE MlAbortDrain(Engines, job, p)
  BY <1>15 DEF MlAbortDrain, TurnInv
<1>16. CASE ~FaultNow /\ MlDone(job, p)
  <2>1. /\ ml_st = "DONE" /\ job' = [job EXCEPT !.busy = FALSE, !.done = TRUE]
        /\ ml_st' = "IDLE" /\ pf' = p /\ busy_seen' = busy_seen /\ Silent
    BY <1>16 DEF MlDone, Goto
  <2>2. MlOutTypes' /\ Mute
    BY <2>1, SilentStep
  <2>3. job' \in JobType /\ ~job'.busy /\ job'.done /\ job'.err = job.err
    BY <2>1, <1>4 DEF JobType
  <2>4. job.busy /\ ml_st' \in MlStates
    BY <2>1 DEF TurnInv, MlStates
  <2> QED BY <2>1, <2>2, <2>3, <2>4, <1>3, <1>4, <1>16
          DEF MlRegTypes, AnyKind, RunKinds, DoneKind
<1> QED BY <1>2, <1>10, <1>11, <1>12, <1>13, <1>14, <1>15, <1>16

\* The step that starts a job.
LEMMA GoStep ==
    ASSUME MlTypes, TurnInv, ~job.err, NEW w, GoTaken(w, FALSE), MlClk(w, FALSE, Engines)
    PROVE  MlRegTypes' /\ MlOutTypes' /\ StartKind
<1>1. ~job.busy /\ ~cfg.bypass
  BY DEF GoTaken
<1>2. ml_st = "IDLE"
  BY <1>1 DEF TurnInv
<1>3. ~FaultNow
  BY <1>1 DEF TurnInv, FaultNow
<1> DEFINE j  == AfterCsrJob(w, FALSE)
           p  == AfterCsrPf(w, FALSE, Engines)
           sn == AfterCsrSeen(w, FALSE)
           st == AfterCsrSt(w, FALSE)
<1>4. MlIdle(GoTaken(w, FALSE), j, p, sn, st)
  <2>1. /\ ~StripStep(Engines, j, p) /\ ~LegacyStep(Engines, j, p)
    BY <1>2, StatesOf DEF StripLive, StripStates, LegacyStates
  <2>2. ~MlDrainErr(GoTaken(w, FALSE), Engines, j, p, sn, st)
    BY <1>2 DEF MlDrainErr
  <2>3. ~MlAbortDrain(Engines, j, p) /\ ~MlDone(j, p)
    BY <1>2 DEF MlAbortDrain, MlDone
  <2> QED BY <2>1, <2>2, <2>3, <1>3, Zenon DEF MlClk
<1>5. /\ ml_st' = st /\ job' = j /\ pf' = p /\ busy_seen' = sn
  BY <1>4 DEF MlIdle, Goto
<1>6. MlOutTypes' /\ Mute
  BY <1>4, MuteStep DEF MlIdle, NoErrWe
<1>7. pf' = NoPf
  BY <1>5 DEF AfterCsrPf
<1>8. pf' \in PfType /\ ~pf'.pending /\ ~pf'.done /\ ~pf'.fault
  BY <1>7 DEF NoPf, PfType
<1>9. StripKickIllegal \in BOOLEAN
  BY DEF StripKickIllegal
<1>10. job' = [busy |-> ~StripKickIllegal, done |-> FALSE, err |-> StripKickIllegal, tile |-> 0,
               strip |-> 0, chunk |-> 0, sub |-> 0, bank |-> 0, wbase |-> 0]
  BY <1>5 DEF AfterCsrJob
<1>11. /\ job' \in JobType /\ (job'.busy <=> ~StripKickIllegal) /\ ~job'.done
       /\ (job'.err <=> StripKickIllegal)
  <2>1. CASE StripKickIllegal
    <3>1. job' = [busy |-> FALSE, done |-> FALSE, err |-> TRUE, tile |-> 0,
                  strip |-> 0, chunk |-> 0, sub |-> 0, bank |-> 0, wbase |-> 0]
      BY <2>1, <1>9, <1>10
    <3> QED BY <2>1, <3>1, MlAssumption DEF JobType
  <2>2. CASE ~StripKickIllegal
    <3>1. job' = [busy |-> TRUE, done |-> FALSE, err |-> FALSE, tile |-> 0,
                  strip |-> 0, chunk |-> 0, sub |-> 0, bank |-> 0, wbase |-> 0]
      BY <2>2, <1>9, <1>10
    <3> QED BY <2>2, <3>1, MlAssumption DEF JobType
  <2> QED BY <2>1, <2>2
<1>12. busy_seen' \in BOOLEAN
  BY <1>5 DEF AfterCsrSeen, MlTypes, MlRegTypes
<1>13. \/ StripKickIllegal /\ ml_st' = "IDLE"
       \/ ~StripKickIllegal /\ cfg.strip /\ ml_st' = "STRIP_PREFILL"
       \/ ~StripKickIllegal /\ ~cfg.strip /\ ml_st' \in {"LOADA", "LDW"}
  BY <1>5, <1>9 DEF AfterCsrSt
<1>14. ml_st' \in MlStates
  BY <1>13 DEF MlStates, StripStates, LegacyStates
<1> QED BY <1>1, <1>2, <1>6, <1>8, <1>11, <1>12, <1>13, <1>14 DEF MlRegTypes, StartKind

-----------------------------------------------------------------------------
(* The engines on one edge of the whole NPU.                                *)

\* What sequencer and firmware rely on in a step of the engines.
Surroundings(r, b) ==
    /\ dma_st' \in XferStates => dma_st \in XferStates \/ mldma.go \/ mlwb.go \/ dma_go
    /\ dma_st' \in StripChain => dma_st \in StripChain \/ mlstrip.start
    /\ dma_st = "IDLE" /\ ~mldma.go /\ ~mlwb.go /\ ~dma_go /\ ~mlstrip.start
           => dma_st' = "IDLE"
    /\ strip_bank_l' = IF mlstrip.start THEN mlstrip.bank ELSE strip_bank_l
    /\ err /\ ~mldma.go /\ ~mlwb.go /\ ~dma_go => err'
    /\ strip_err /\ ~mlstrip.start => strip_err'
    /\ BusErr(r, b) => \/ dma_st \in XferStates /\ err'
                       \/ dma_st = "STRIP_R" /\ strip_err'
    /\ mldma.go => ~mode_write'
    /\ mlwb.go => mode_write'
    /\ dma_st \in XferStates => mode_write' = mode_write
    /\ mat_st' # "IDLE" => ~mat_done' /\ (mat_st # "IDLE" \/ mlmat.go)

\* What the slave may choose is an answer.
LEMMA Chosen ==
    ASSUME DmaTypes, bowed \in BOOLEAN, NEW ar \in Late("ar"), NEW r \in RChoices,
           NEW aw \in Late("aw"), NEW w \in Late("w"), NEW b \in BChoices
    PROVE  Answers(ar, r, aw, w, b)
<1>1. ar \in BOOLEAN /\ aw \in BOOLEAN /\ w \in BOOLEAN
  BY DEF Late
<1>2. rleft \in Nat
  BY DEF DmaTypes, SlaveTypes
<1>3. /\ r.valid \in BOOLEAN /\ r.last \in BOOLEAN /\ r.err \in BOOLEAN
      /\ (r.valid => rleft > 0) /\ (r.last <=> r.valid /\ rleft = 1) /\ (r.err => r.valid)
  <2>1. CASE rleft = 0
    <3>1. r = [valid |-> FALSE, last |-> FALSE, err |-> FALSE]
      BY <2>1 DEF RChoices
    <3> QED BY <3>1
  <2>2. CASE rleft # 0
    <3>1. PICK v \in Late("r"), x \in MayErr :
              r = [valid |-> v, last |-> (v /\ rleft = 1), err |-> (v /\ x)]
      BY <2>2 DEF RChoices
    <3>2. v \in BOOLEAN /\ x \in BOOLEAN
      BY DEF Late, MayErr
    <3>3. r.valid = v /\ r.last = (v /\ rleft = 1) /\ r.err = (v /\ x)
      BY <3>1
    <3>4. r.last \in BOOLEAN /\ r.err \in BOOLEAN
      BY <3>3, Zenon
    <3>5. (r.last <=> r.valid /\ rleft = 1) /\ (r.err => r.valid)
      BY <3>3, Zenon
    <3>6. r.valid \in BOOLEAN /\ rleft > 0
      BY <2>2, <3>2, <3>3, <1>2
    <3> QED BY <3>4, <3>5, <3>6
  <2> QED BY <2>1, <2>2
<1>4. b.valid \in BOOLEAN /\ b.err \in BOOLEAN /\ (b.err => b.valid)
  <2>1. CASE ~bowed
    <3>1. b = [valid |-> FALSE, err |-> FALSE]
      BY <2>1 DEF BChoices
    <3> QED BY <3>1
  <2>2. CASE bowed
    <3>1. PICK v \in Late("b"), x \in MayErr : b = [valid |-> v, err |-> (v /\ x)]
      BY <2>2 DEF BChoices
    <3>2. v \in BOOLEAN /\ x \in BOOLEAN
      BY DEF Late, MayErr
    <3>3. b.valid = v /\ b.err = (v /\ x)
      BY <3>1
    <3>4. b.err \in BOOLEAN /\ (b.err => b.valid)
      BY <3>3, Zenon
    <3> QED BY <3>2, <3>3, <3>4
  <2> QED BY <2>1, <2>2
<1> QED BY <1>1, <1>3, <1>4 DEF Answers

\* Who commands the DMA engine: the sequencer during a job, else the firmware.
LEMMA Owned ==
    ASSUME Types, FirmwareInv, TurnInv, PulseInv
    PROVE  /\ ~soft_rst /\ (MlActive <=> job.busy)
           /\ DmaStart \in BOOLEAN /\ mlstrip.start \in BOOLEAN
           /\ DmaStart <=> mldma.go \/ mlwb.go \/ dma_go
           /\ mldma.go => ReadGo /\ ~StartWrite
           /\ mlwb.go => StartWrite
           /\ MatGoWire => mlmat.go
           /\ DmaStart \/ mlstrip.start => dma_st = "IDLE"
           /\ ~(DmaStart /\ mlstrip.start) /\ ~(ReadGo /\ WriteGo)
           /\ MatGoWire => mat_st = "IDLE"
<1>1. /\ job.busy \in BOOLEAN /\ mldma.go \in BOOLEAN /\ mlwb.go \in BOOLEAN
      /\ mlstrip.start \in BOOLEAN /\ mlmat.go \in BOOLEAN /\ dma_go \in BOOLEAN
      /\ wb_go = FALSE /\ mat_go = FALSE /\ ~soft_rst
  BY DEF Types, MlTypes, MlRegTypes, MlOutTypes, JobType, GoType, StripT, MatCmdT, TopTypes,
         FirmwareInv
<1>2. MlActive <=> job.busy
  BY DEF MlActive, TurnInv
<1>3. /\ mldma.go => job.busy /\ ml_st \in LoadWaits /\ dma_st = "IDLE"
      /\ mlwb.go => job.busy /\ ml_st \in StoreWaits /\ dma_st = "IDLE"
      /\ mlmat.go => job.busy /\ mat_st = "IDLE"
      /\ mlstrip.start => job.busy /\ ml_st \in {"STRIP_PREFILL_W", "STRIP_TILE"}
                          /\ dma_st = "IDLE"
      /\ dma_go => ~job.busy /\ dma_st = "IDLE"
  BY DEF PulseInv, TurnInv, FirmwareInv, LoadWaits, StoreWaits, MatWaits
<1>4. ReadGo = (mldma.go \/ dma_go)
  BY <1>1, <1>2, <1>3 DEF ReadGo
<1>5. WriteGo = mlwb.go
  BY <1>1, <1>2, <1>3 DEF WriteGo
<1>6. /\ ~(mldma.go /\ mlwb.go) /\ ~(dma_go /\ mlwb.go)
      /\ ~(mldma.go /\ mlstrip.start) /\ ~(mlwb.go /\ mlstrip.start)
      /\ ~(dma_go /\ mlstrip.start)
  BY <1>3 DEF LoadWaits, StoreWaits
<1>7. DmaStart <=> mldma.go \/ mlwb.go \/ dma_go
  BY <1>4, <1>5 DEF DmaStart
<1>8. MatGoWire => mlmat.go
  BY <1>1 DEF MatGoWire
<1> QED BY <1>1, <1>2, <1>3, <1>4, <1>5, <1>6, <1>7, <1>8 DEF StartWrite, DmaStart

LEMMA EngineStep ==
    ASSUME Types, Wire, FirmwareInv, TurnInv, PulseInv, EngineInv,
           NEW ar, NEW r, NEW aw, NEW w, NEW b,
           Answers(ar, r, aw, w, b), SlaveClk(ar, r, aw, w, b),
           MatClk(soft_rst, MatGoWire, mlmat, Ports),
           DmaClk(soft_rst, DmaStart, Wires, mlstrip.start, StripWires, ar, r, aw, w, b),
           ModeClk
    PROVE  DmaTypes' /\ Wire' /\ MatTypes' /\ Surroundings(r, b) /\ mode_write' \in BOOLEAN
<1>1. /\ ~soft_rst /\ DmaStart \in BOOLEAN /\ mlstrip.start \in BOOLEAN
      /\ (DmaStart <=> mldma.go \/ mlwb.go \/ dma_go)
      /\ (mldma.go => ReadGo /\ ~StartWrite) /\ (mlwb.go => StartWrite)
      /\ (MatGoWire => mlmat.go)
      /\ (DmaStart \/ mlstrip.start => dma_st = "IDLE")
      /\ ~(DmaStart /\ mlstrip.start)
  BY Owned
<1>2. soft_rst = FALSE
  BY <1>1 DEF Types, TopTypes
<1>3. Wires \in DescType
  <2>1. /\ mldma.src \in Nat /\ mldma.dst \in Nat /\ mldma.len \in Nat
        /\ mlwb.src \in Nat /\ mlwb.dst \in Nat /\ mlwb.len \in Nat
        /\ dma_desc.src \in Nat /\ dma_desc.dst \in Nat /\ dma_desc.len \in Nat
        /\ wb_desc.src \in Nat /\ wb_desc.dst \in Nat /\ wb_desc.len \in Nat
    BY DEF Types, MlTypes, MlOutTypes, GoType, TopTypes, DescT
  <2>2. StartWrite \in BOOLEAN /\ (~MlActive) \in BOOLEAN
    <3>1. StartWrite \in BOOLEAN
      BY Zenon DEF StartWrite
    <3>2. MlActive \in BOOLEAN
      BY Zenon DEF MlActive
    <3>3. (~MlActive) \in BOOLEAN
      BY <3>2
    <3> QED BY <3>1, <3>3
  <2>3. CASE MlActive
    <3>1. Wires = [write |-> StartWrite, narrow |-> ~MlActive,
                   src  |-> IF StartWrite THEN mlwb.dst ELSE mldma.src,
                   word |-> IF StartWrite THEN mlwb.src ELSE mldma.dst,
                   len  |-> IF StartWrite THEN mlwb.len ELSE mldma.len]
      BY <2>3 DEF Wires
    <3> QED BY <3>1, <2>1, <2>2 DEF DescType
  <2>4. CASE ~MlActive
    <3>1. Wires = [write |-> StartWrite, narrow |-> ~MlActive,
                   src  |-> IF StartWrite THEN wb_desc.dst ELSE dma_desc.src,
                   word |-> IF StartWrite THEN wb_desc.src ELSE dma_desc.dst,
                   len  |-> IF StartWrite THEN wb_desc.len ELSE dma_desc.len]
      BY <2>4 DEF Wires
    <3> QED BY <3>1, <2>1, <2>2 DEF DescType
  <2> QED BY <2>3, <2>4
<1>4. StripWires \in StripType /\ StripWires.bank = mlstrip.bank
  BY DEF Types, MlTypes, MlOutTypes, StripT, StripWires, StripType
<1>5. DmaGood(DmaStart, mlstrip.start, StripWires, r, b)
  <2>1. DmaEdge(DmaStart, Wires, mlstrip.start, StripWires, ar, r, aw, w, b)
    BY <1>1, <1>3, <1>4 DEF DmaEdge, Commands
  <2>2. DmaClk(FALSE, DmaStart, Wires, mlstrip.start, StripWires, ar, r, aw, w, b)
    BY <1>2
  <2> QED BY <2>1, <2>2, DmaStep DEF Types
<1>6. MatTypes' /\ MatSeen(MatGoWire)
  <2>1. MatClk(FALSE, MatGoWire, mlmat, Ports)
    BY <1>2
  <2> QED BY <2>1, MatStep DEF Types, EngineInv
<1>7. /\ mldma.go => ~mode_write'
      /\ mlwb.go => mode_write'
      /\ dma_st \in XferStates => mode_write' = mode_write
      /\ mode_write' \in BOOLEAN
  <2>1. busy <=> dma_st \in XferStates
    BY DEF Wire, Handshake
  <2>2. StartWrite \in BOOLEAN /\ mode_write \in BOOLEAN
    BY DEF StartWrite, Types, TopTypes
  <2>3. mldma.go \/ mlwb.go => DmaStart /\ ~busy
    BY <1>1, <2>1 DEF XferStates
  <2> QED BY <1>1, <2>1, <2>2, <2>3 DEF ModeClk
<1>8. dma_st \in DmaStates
  BY DEF Types, DmaTypes, FlagTypes
<1>9. Surroundings(r, b)
  BY <1>1, <1>4, <1>5, <1>6, <1>7, <1>8
     DEF Surroundings, DmaGood, DmaSeen, MatSeen, DmaStates, XferStates, StripChain
<1> QED BY <1>5, <1>6, <1>7, <1>9 DEF DmaGood

-----------------------------------------------------------------------------
(* Host, firmware and registers.                                            *)

LEMMA HostStep ==
    ASSUME Bounds, NEW h \in HostMoves, Host(h)
    PROVE  /\ Bounds'
           /\ Calm' => Calm /\ h # "soft" /\ (h = "stop" => Program = "job")
           /\ h = "stop" => Finished /\ host = "watch"
           /\ host' \in {"enable", "start", "tail", "watch", "quiesce", "disable"}
<1>1. /\ h = "soft" => host = "watch"
      /\ h = "stop" => host = "watch" /\ Finished /\ acks < MaxAcks
      /\ h \in {"stall", "soft", "stop", "quiesced", "enable", "start", "tail", "disable"}
  BY DEF HostMoves, Bounds
<1>2. /\ softs' = IF h = "soft" THEN softs + 1 ELSE softs
      /\ acks'  = IF h = "stop" THEN acks + 1 ELSE acks
  BY DEF Host
<1>3. host' \in {"enable", "start", "tail", "watch", "quiesce", "disable"}
  BY <1>1 DEF Host, Bounds
<1>4. MaxAcks \in Nat
  BY StripAssumption
<1>5. Bounds'
  BY <1>1, <1>2, <1>3, <1>4 DEF Bounds
<1>6. Calm' => Calm /\ h # "soft" /\ (h = "stop" => Program = "job")
  BY <1>2, <1>4 DEF Bounds, Calm
<1> QED BY <1>1, <1>3, <1>5, <1>6

\* The moves of the host before it resets or restarts.
LEMMA CalmHost ==
    ASSUME host \in {"enable", "start", "tail", "watch"}, NEW h \in HostMoves, Host(h),
           h # "soft", h = "stop" => Program = "job"
    PROVE  /\ h \in {"stall", "enable", "start", "tail", "stop"}
           /\ host' \in {"enable", "start", "tail", "watch"}
<1>1. h \in {"stall", "enable", "start", "tail", "stop"}
  BY DEF HostMoves
<1>2. host' \in {"enable", "start", "tail", "watch"}
  BY <1>1 DEF Host
<1> QED BY <1>1, <1>2

\* What the two writers write.
LEMMA HostWrites ==
    ASSUME NEW h \in {"stall", "enable", "start", "tail", "stop"}
    PROVE  /\ ~SoftWrite(HostWrite(h)) /\ ~HardWrite(HostWrite(h))
           /\ CtrlWrite(HostWrite(h)) <=> h \in {"start", "stop"}
           /\ h = "start" => HostWrite(h).val.start = TRUE
           /\ h = "stop" => HostWrite(h).val.start = FALSE
           /\ CtrlWrite(HostWrite(h)) => HostWrite(h).val.irq_en = TRUE
           /\ HostWrite(h).reg \in {"none", "CQ_TAIL", "CQ_CTRL", "CTRL"}
           /\ HostWrite(h).reg = "CQ_TAIL" => HostWrite(h).val = Len(Jobs)
           /\ HostWrite(h).reg = "CQ_CTRL" => HostWrite(h).val = TRUE
<1>1. CASE h = "stall"
  BY <1>1 DEF HostWrite, NoWrite, SoftWrite, HardWrite, CtrlWrite
<1>2. CASE h = "enable"
  BY <1>2 DEF HostWrite, Write, SoftWrite, HardWrite, CtrlWrite
<1>3. CASE h = "start"
  BY <1>3 DEF HostWrite, Write, Ctrl, SoftWrite, HardWrite, CtrlWrite
<1>4. CASE h = "tail"
  BY <1>4 DEF HostWrite, Write, SoftWrite, HardWrite, CtrlWrite
<1>5. CASE h = "stop"
  BY <1>5 DEF HostWrite, Write, Ctrl, SoftWrite, HardWrite, CtrlWrite
<1> QED BY <1>1, <1>2, <1>3, <1>4, <1>5

LEMMA CoreWrites ==
    ASSUME NEW m
    PROVE  /\ CorePort(m).reg \in {"none", "CQ_EVENT", "DMA_DESC", "DMA_GO", "ERR_CAUSE",
                                   "CQ_HEAD"}
           /\ CorePort(m).reg = "DMA_DESC" => CorePort(m).val = FetchDesc
           /\ CorePort(m).reg = "DMA_GO" => m = "dgo"
           /\ CorePort(m).reg = "CQ_HEAD" => m = "head" /\ CorePort(m).val = NextJob
<1>1. CASE ml_err_we
  BY <1>1 DEF CorePort, Write
<1>2. CASE ~ml_err_we
  BY <1>2 DEF CorePort, CoreWrite, Write, NoWrite
<1> QED BY <1>1, <1>2

\* The registers as the rest of the proof needs them.
LEMMA RegsStep ==
    ASSUME TopTypes, ~soft_rst, NEW h \in {"stall", "enable", "start", "tail", "stop"}, NEW m,
           NEW quiet, NEW now, RegsClk(HostWrite(h), CorePort(m), quiet, now)
    PROVE  /\ soft_rst' = FALSE /\ wb_go' = FALSE /\ mat_go' = FALSE
           /\ dma_go' \in BOOLEAN /\ (dma_go' => m = "dgo")
           /\ ctrl' \in [start : BOOLEAN, irq_en : BOOLEAN]
           /\ ctrl'.start <=> h = "start" \/ (h # "stop" /\ ctrl.start)
           /\ dma_desc' \in DescT /\ wb_desc' \in DescT
           /\ cq'.head = cq.head \/ (m = "head" /\ cq'.head = NextJob)
           /\ cq'.tail = cq.tail \/ cq'.tail = Len(Jobs)
           /\ DOMAIN cq' = {"head", "tail", "enable", "busy", "err"}
           /\ cq' = [head |-> cq'.head, tail |-> cq'.tail, enable |-> cq'.enable,
                     busy |-> cq'.busy, err |-> cq'.err]
           /\ cq'.enable \in BOOLEAN /\ cq'.busy \in BOOLEAN /\ cq'.err \in BOOLEAN
<1> DEFINE hw == HostWrite(h)
           cw == CorePort(m)
<1>1. /\ ~SoftWrite(hw)
      /\ (CtrlWrite(hw) <=> h \in {"start", "stop"})
      /\ (h = "start" => hw.val.start = TRUE) /\ (h = "stop" => hw.val.start = FALSE)
      /\ (CtrlWrite(hw) => hw.val.irq_en = TRUE)
      /\ hw.reg \in {"none", "CQ_TAIL", "CQ_CTRL", "CTRL"}
      /\ (hw.reg = "CQ_TAIL" => hw.val = Len(Jobs))
      /\ (hw.reg = "CQ_CTRL" => hw.val = TRUE)
  BY HostWrites
<1>2. /\ cw.reg \in {"none", "CQ_EVENT", "DMA_DESC", "DMA_GO", "ERR_CAUSE", "CQ_HEAD"}
      /\ (cw.reg = "DMA_DESC" => cw.val = FetchDesc)
      /\ (cw.reg = "DMA_GO" => m = "dgo")
      /\ (cw.reg = "CQ_HEAD" => m = "head" /\ cw.val = NextJob)
  BY CoreWrites
<1>3. ResetBits(hw, quiet) /\ QueueRegs(hw, cw, quiet) /\ Pulses(hw, cw)
  BY DEF RegsClk, RegsCoreClk
<1>4. soft_rst = FALSE
  BY DEF TopTypes
<1> HIDE DEF hw, cw
<1>5. soft_rst' = FALSE
  BY <1>1, <1>3, <1>4 DEF ResetBits
<1>6. wb_go' = FALSE /\ mat_go' = FALSE
  BY <1>1, <1>2, <1>3 DEF Pulses
<1>7. dma_go' \in BOOLEAN /\ (dma_go' => m = "dgo")
  <2>1. dma_go' = ((hw.reg = "DMA_GO" \/ cw.reg = "DMA_GO") /\ ~soft_rst)
    BY <1>3 DEF Pulses
  <2>2. dma_go' \in BOOLEAN
    BY <2>1, Zenon
  <2>3. dma_go' => hw.reg = "DMA_GO" \/ cw.reg = "DMA_GO"
    BY <2>1, Zenon
  <2> QED BY <2>2, <2>3, <1>1, <1>2
<1>8. /\ ctrl' \in [start : BOOLEAN, irq_en : BOOLEAN]
      /\ ctrl'.start <=> h = "start" \/ (h # "stop" /\ ctrl.start)
  <2>1. CASE CtrlWrite(hw)
    <3>1. ctrl' = [start |-> hw.val.start /\ ~SoftWrite(hw), irq_en |-> hw.val.irq_en]
      BY <2>1, <1>3 DEF ResetBits
    <3>2. CASE h = "start"
      <4>1. ctrl' = [start |-> TRUE, irq_en |-> TRUE]
        BY <3>1, <3>2, <2>1, <1>1
      <4> QED BY <4>1, <3>2
    <3>3. CASE h = "stop"
      <4>1. ctrl' = [start |-> FALSE, irq_en |-> TRUE]
        BY <3>1, <3>3, <2>1, <1>1
      <4> QED BY <4>1, <3>3
    <3> QED BY <2>1, <3>2, <3>3, <1>1
  <2>2. CASE ~CtrlWrite(hw)
    BY <2>2, <1>1, <1>3 DEF ResetBits, TopTypes
  <2> QED BY <2>1, <2>2
<1>9. dma_desc' \in DescT /\ wb_desc' \in DescT
  BY <1>1, <1>2, <1>3, StripAssumption DEF Pulses, TopTypes, DescT
<1>10. cq' = [head   |-> IF cw.reg = "CQ_HEAD" THEN cw.val ELSE cq.head,
              tail   |-> IF hw.reg = "CQ_TAIL" THEN hw.val ELSE cq.tail,
              enable |-> IF hw.reg = "CQ_CTRL" THEN hw.val ELSE cq.enable,
              busy   |-> IF cw.reg = "CQ_EVENT" /\ cw.val.idle THEN FALSE
                         ELSE IF cw.reg = "CQ_EVENT" /\ cw.val.busy THEN TRUE
                         ELSE cq.busy /\ ~Quiesced(quiet),
              err    |-> IF CoreCause(cw) THEN TRUE
                         ELSE IF Ack(hw) THEN FALSE ELSE cq.err \/ Latched(quiet)]
  BY <1>3 DEF QueueRegs
<1>11. /\ cq'.head = cq.head \/ (m = "head" /\ cq'.head = NextJob)
       /\ cq'.tail = cq.tail \/ cq'.tail = Len(Jobs)
       /\ cq'.enable \in BOOLEAN
  BY <1>1, <1>2, <1>10 DEF TopTypes
<1>12. cq'.busy \in BOOLEAN
  <2>1. cq'.busy = IF cw.reg = "CQ_EVENT" /\ cw.val.idle THEN FALSE
                   ELSE IF cw.reg = "CQ_EVENT" /\ cw.val.busy THEN TRUE
                   ELSE cq.busy /\ ~Quiesced(quiet)
    BY <1>10
  <2>2. (cq.busy /\ ~Quiesced(quiet)) \in BOOLEAN
    BY Zenon
  <2> QED BY <2>1, <2>2, Zenon
<1>13. cq'.err \in BOOLEAN
  <2>1. cq'.err = IF CoreCause(cw) THEN TRUE
                  ELSE IF Ack(hw) THEN FALSE ELSE cq.err \/ Latched(quiet)
    BY <1>10
  <2>2. (cq.err \/ Latched(quiet)) \in BOOLEAN
    BY Zenon
  <2> QED BY <2>1, <2>2, Zenon
<1>14. /\ DOMAIN cq' = {"head", "tail", "enable", "busy", "err"}
       /\ cq' = [head |-> cq'.head, tail |-> cq'.tail, enable |-> cq'.enable,
                 busy |-> cq'.busy, err |-> cq'.err]
  BY <1>10
<1> QED BY <1>5, <1>6, <1>7, <1>8, <1>9, <1>11, <1>12, <1>13, <1>14

\* What the firmware does on an edge: nothing, its next access, or a reset.
FwRuns(m) ==
    /\ ctrl.start
    /\ \/ m = "stall" /\ fw \notin {"off", "loop", "halt"} /\ fw' = fw /\ batch' = batch
       \/ /\ m = fw /\ fw' = FwNext(fw)
          /\ batch' = CASE fw = "loop" -> LesserOf(cq.tail - cq.head, BatchN)
                        [] fw = "head" -> batch - 1
                        [] OTHER       -> batch

LEMMA FwMoved ==
    ASSUME fw \in FwStates, NEW m \in FwMoves, Firmware(m)
    PROVE  \/ ~ctrl.start /\ m = "reset" /\ fw' = "off" /\ batch' = 0
           \/ FwRuns(m)
<1>1. CASE ~ctrl.start
  BY <1>1 DEF FwMoves, Firmware
<1>2. CASE ctrl.start /\ m = "stall"
  <2>1. fw \notin {"off", "loop", "halt"}
    BY <1>2 DEF FwMoves, FwStates
  <2> QED BY <1>2, <2>1 DEF Firmware, FwRuns
<1>3. CASE ctrl.start /\ m # "stall"
  <2>1. m = fw
    BY <1>3 DEF FwMoves
  <2>2. fw \notin {"reset", "stall"}
    BY DEF FwStates
  <2> QED BY <1>3, <2>1, <2>2 DEF Firmware, FwRuns
<1> QED BY <1>1, <1>2, <1>3

\* Where the firmware goes from a state.
LEMMA FwGoes ==
    ASSUME fw \in FwStates
    PROVE  /\ FwNext(fw) \in FwStates
           /\ Program = "job" /\ fw \in DriverStates => FwNext(fw) \in DriverStates
           /\ Program = "cq" /\ fw \notin {"jcfg", "jgo", "jpoll"}
                  => FwNext(fw) \notin {"jcfg", "jgo", "jpoll"}
           /\ fw = "dgo" <=> FwNext(fw) = "dret"
           /\ FwNext(fw) \in {"go", "jgo"} <=> fw \in {"cfg", "jcfg"}
           /\ FwNext(fw) \in BatchStates /\ fw \notin BatchStates
                  => fw = "loop" /\ cq.head # cq.tail
           /\ fw = "head" /\ FwNext(fw) \in BatchStates => batch > 1
<1>1. CASE fw \in {"off", "jcfg", "jgo", "jpoll", "boot", "exit"}
  <2>1. /\ Program \in {"cq", "job"}
        /\ fw = "off" => FwNext(fw) = IF Program = "cq" THEN "boot" ELSE "jcfg"
        /\ fw = "jcfg" => FwNext(fw) = "jgo"
        /\ fw = "jgo" => FwNext(fw) = "jpoll"
        /\ fw = "jpoll" => FwNext(fw) \in {"exit", "jpoll"}
        /\ fw = "boot" => FwNext(fw) \in {"loop", "exit"}
        /\ fw = "exit" => FwNext(fw) = "halt"
    BY StripAssumption DEF FwNext
  <2> QED BY <1>1, <2>1 DEF FwStates, DriverStates, BatchStates
<1>2. CASE fw \in {"halt", "loop", "busy", "desc", "dgo", "dret", "dwait"}
  BY <1>2 DEF FwNext, FwStates, DriverStates, BatchStates
<1>3. CASE fw \in {"dfault", "cfg", "go", "poll", "mode_err", "mode_ok", "cause", "head"}
  BY <1>3 DEF FwNext, FwStates, DriverStates, BatchStates
<1> QED BY <1>1, <1>2, <1>3 DEF FwStates

\* The firmware is where it started or programmed the job, and has a fetch under way.
FwFetch == fw \in {"dret", "dwait", "dfault"} \/ (fw = "halt" /\ Program = "cq")

\* What the sequencer relies on in a step of the firmware.
FwSeen(m) ==
    /\ job.busy => fw' = fw /\ cfg' = cfg /\ ~GoTaken(MlWrite(m), FALSE)
    /\ GoTaken(MlWrite(m), FALSE) =>
           /\ ~job.err /\ cfg' = cfg /\ fw' \in {"poll", "jpoll"}
           /\ Program = "job" => fw' = "jpoll"
    /\ job.err => /\ fw' \in {"poll", "jpoll", "mode_err", "cause", "halt"}
                  /\ Program = "job" => fw' = "jpoll"
    /\ FwFetch /\ dma_st \in XferStates => FwFetch'
    /\ dma_go => FwFetch'

LEMMA MlWrites ==
    ASSUME NEW m
    PROVE  /\ MlWrite(m).reg = "cfg" <=> m \in {"cfg", "jcfg", "mode_err", "mode_ok"}
           /\ MlWrite(m).reg = "go" <=> m \in {"go", "jgo"}
           /\ m \in {"cfg", "jcfg"} => MlWrite(m).val = Jobs[NextJob]
           /\ m \in {"mode_err", "mode_ok"} => MlWrite(m).val = [cfg EXCEPT !.strip = FALSE]
<1>1. CASE m \in {"cfg", "jcfg"}
  BY <1>1 DEF MlWrite, Write
<1>2. CASE m \in {"go", "jgo"}
  BY <1>2 DEF MlWrite
<1>3. CASE m \in {"mode_err", "mode_ok"}
  BY <1>3 DEF MlWrite, Write, StripOff
<1>4. CASE m \notin {"cfg", "jcfg", "go", "jgo", "mode_err", "mode_ok"}
  BY <1>4 DEF MlWrite, NoMl
<1> QED BY <1>1, <1>2, <1>3, <1>4

\* The number of the next job is that of a job.
LEMMA NextInRange ==
    ASSUME TopTypes, FirmwareInv, Bounds,
           fw \in {"cfg", "go", "head", "jcfg", "jgo"}
    PROVE  NextJob \in 1 .. Len(Jobs)
<1>1. Len(Jobs) \in Nat /\ MaxAcks \in Nat /\ Program \in {"cq", "job"}
  BY StripAssumption
<1>2. CASE Program = "cq"
  <2>1. fw \in BatchStates
    BY <1>2 DEF FirmwareInv, BatchStates, FwStates, DriverStates
  <2>2. batch \in Nat /\ cq.head \in 0 .. Len(Jobs) /\ cq.tail \in {0, Len(Jobs)}
    BY DEF TopTypes
  <2>3. batch > 0 /\ cq.head + batch <= cq.tail
    BY <2>1 DEF FirmwareInv
  <2> QED BY <1>1, <1>2, <2>2, <2>3 DEF NextJob
<1>3. CASE Program = "job"
  <2>1. fw \in {"jcfg", "jgo"}
    BY <1>3 DEF FirmwareInv, DriverStates
  <2>2. acks < Len(Jobs) /\ acks \in Nat
    BY <1>1, <1>3, <2>1 DEF FirmwareInv, Bounds
  <2> QED BY <1>1, <1>3, <2>2 DEF NextJob
<1> QED BY <1>1, <1>2, <1>3

\* Firmware and job registers.
LEMMA FirmwareStep ==
    ASSUME Types, Wire, FirmwareInv, TurnInv, Bounds,
           NEW m \in FwMoves, Firmware(m), CsrCfg(MlWrite(m))
    PROVE  FwSeen(m) /\ cfg' \in CfgType /\ fw' \in FwStates
<1>1. fw \in FwStates /\ cfg \in CfgType /\ job \in JobType /\ TopTypes
  BY DEF Types, TopTypes, MlTypes, MlRegTypes
<1>2. \/ ~ctrl.start /\ m = "reset" /\ fw' = "off" /\ batch' = 0
      \/ FwRuns(m)
  BY <1>1, FwMoved
<1>3. cfg' = IF m \in {"cfg", "jcfg"} THEN Jobs[NextJob]
             ELSE IF m \in {"mode_err", "mode_ok"} THEN [cfg EXCEPT !.strip = FALSE]
             ELSE cfg
  BY MlWrites DEF CsrCfg
<1>4. GoTaken(MlWrite(m), FALSE) => ~job.busy /\ m \in {"go", "jgo"}
  BY MlWrites DEF GoTaken
<1>5. cfg' \in CfgType
  <2>1. CASE m \in {"cfg", "jcfg"}
    <3>1. m = fw
      BY <2>1, <1>2 DEF FwRuns
    <3>2. NextJob \in 1 .. Len(Jobs)
      BY <3>1, <2>1, <1>1, NextInRange
    <3>3. Jobs \in Seq(CfgType)
      BY StripAssumption
    <3> QED BY <2>1, <3>2, <3>3, <1>3
  <2>2. CASE m \in {"mode_err", "mode_ok"}
    BY <2>2, <1>1, <1>3 DEF CfgType
  <2>3. CASE m \notin {"cfg", "jcfg", "mode_err", "mode_ok"}
    BY <2>3, <1>1, <1>3
  <2> QED BY <2>1, <2>2, <2>3
<1>6. CASE ~ctrl.start /\ m = "reset" /\ fw' = "off"
  <2>1. ~job.busy /\ ~job.err
    BY <1>6 DEF FirmwareInv, TurnInv
  <2>2. ~FwFetch /\ ~dma_go
    BY <1>6 DEF FirmwareInv, FwFetch
  <2> QED BY <2>1, <2>2, <1>4, <1>5, <1>6 DEF FwSeen, FwStates
<1>7. CASE FwRuns(m)
  <2>1. FwNext(fw) \in FwStates
    BY <1>1, FwGoes
  <2>2. fw' \in FwStates
    BY <1>1, <1>7, <2>1 DEF FwRuns
  <2>3. ASSUME job.busy
        PROVE  fw' = fw /\ cfg' = cfg /\ ~GoTaken(MlWrite(m), FALSE)
    <3>1. fw \in {"poll", "jpoll"} /\ ~job.done /\ ~job.err
      BY <2>3 DEF TurnInv
    <3>2. FwNext(fw) = fw
      BY <3>1 DEF FwNext
    <3>3. m \in {"stall", "poll", "jpoll"} /\ fw' = fw
      BY <1>7, <3>1, <3>2 DEF FwRuns
    <3> QED BY <3>3, <1>3, <1>4
  <2>4. ASSUME GoTaken(MlWrite(m), FALSE)
        PROVE  /\ ~job.err /\ cfg' = cfg /\ fw' \in {"poll", "jpoll"}
               /\ Program = "job" => fw' = "jpoll"
    <3>1. m \in {"go", "jgo"} /\ m = fw /\ fw' = FwNext(fw)
      BY <2>4, <1>4, <1>7 DEF FwRuns
    <3>2. ~job.err
      BY <3>1 DEF TurnInv
    <3>3. cfg' = cfg
      BY <3>1, <1>3
    <3>4. fw' \in {"poll", "jpoll"}
      BY <3>1 DEF FwNext
    <3>5. Program = "job" => fw' = "jpoll"
      BY <3>1 DEF FwNext, FirmwareInv, DriverStates
    <3> QED BY <3>2, <3>3, <3>4, <3>5
  <2>5. ASSUME job.err
        PROVE  /\ fw' \in {"poll", "jpoll", "mode_err", "cause", "halt"}
               /\ Program = "job" => fw' = "jpoll"
    <3>1. /\ fw \in {"poll", "jpoll", "mode_err", "cause", "halt"} /\ ~job.done
          /\ Program = "job" => fw = "jpoll"
      BY <2>5 DEF TurnInv
    <3>2. /\ FwNext(fw) \in {"poll", "jpoll", "mode_err", "cause", "halt"}
          /\ fw = "jpoll" => FwNext(fw) = "jpoll"
      BY <3>1, <2>5 DEF FwNext
    <3> QED BY <3>1, <3>2, <1>7 DEF FwRuns
  <2>6. ASSUME FwFetch, dma_st \in XferStates PROVE FwFetch'
    <3>1. busy /\ ~done
      BY <2>6 DEF Wire, Handshake
    <3>2. fw = "dfault" => Program = "cq"
      BY StripAssumption DEF FirmwareInv, DriverStates
    <3>3. fw \in {"dret", "dwait", "dfault", "halt"}
      BY <2>6 DEF FwFetch
    <3>4. /\ fw = "dret" => FwNext(fw) = "dwait"
          /\ fw = "dwait" => FwNext(fw) \in {"dwait", "dfault"}
          /\ fw \in {"dfault", "halt"} => FwNext(fw) = "halt"
      BY <3>1 DEF FwNext
    <3> QED BY <3>2, <3>3, <3>4, <1>7, <2>6 DEF FwRuns, FwFetch
  <2>7. ASSUME dma_go PROVE FwFetch'
    <3>1. fw = "dret"
      BY <2>7 DEF FirmwareInv
    <3>2. FwNext(fw) = "dwait"
      BY <3>1 DEF FwNext
    <3> QED BY <3>1, <3>2, <1>7 DEF FwRuns, FwFetch
  <2> QED BY <2>2, <2>3, <2>4, <2>5, <2>6, <2>7, <1>5 DEF FwSeen
<1> QED BY <1>2, <1>6, <1>7

\* The registers of the top and the state of the firmware.
LEMMA TopStep ==
    ASSUME Types, Wire, FirmwareInv, TurnInv, PulseInv, EngineInv, Bounds, Bounds',
           NEW h \in {"stall", "enable", "start", "tail", "stop"},
           h = "stop" => Finished /\ Program = "job",
           host' \in {"enable", "start", "tail", "watch"},
           NEW m \in FwMoves, NEW ar, NEW r, NEW aw, NEW w, NEW b, NEW quiet, NEW now,
           Firmware(m), RegsClk(HostWrite(h), CorePort(m), quiet, now),
           StripBufClk(mlstrip.clear, StripWe(r), strip_bank_l, strip_waddr, raddr, strip_done),
           done_latch' = (ctrl.start /\ (done_latch \/ m = "exit")),
           SlaveClk(ar, r, aw, w, b),
           kicked' = IF GoTaken(MlWrite(m), soft_rst) THEN NextJob ELSE kicked,
           bus_erred' = IF GoTaken(MlWrite(m), soft_rst) THEN FALSE
                        ELSE bus_erred \/ (job.busy /\ BusErr(r, b)),
           mode_write' \in BOOLEAN, Surroundings(r, b)
    PROVE  TopTypes' /\ FirmwareInv'
<1>1. /\ TopTypes /\ ~soft_rst /\ fw \in FwStates /\ batch \in Nat
      /\ cq.head \in 0 .. Len(Jobs) /\ cq.tail \in {0, Len(Jobs)} /\ cq.head <= cq.tail
      /\ ctrl.start \in BOOLEAN /\ done_latch \in BOOLEAN
      /\ Len(Jobs) \in Nat /\ BatchN \in Nat \ {0} /\ Program \in {"cq", "job"}
  BY StripAssumption DEF Types, TopTypes, FirmwareInv
<1>2. /\ soft_rst' = FALSE /\ wb_go' = FALSE /\ mat_go' = FALSE
      /\ dma_go' \in BOOLEAN /\ (dma_go' => m = "dgo")
      /\ ctrl' \in [start : BOOLEAN, irq_en : BOOLEAN]
      /\ (ctrl'.start <=> h = "start" \/ (h # "stop" /\ ctrl.start))
      /\ dma_desc' \in DescT /\ wb_desc' \in DescT
      /\ (cq'.head = cq.head \/ (m = "head" /\ cq'.head = NextJob))
      /\ (cq'.tail = cq.tail \/ cq'.tail = Len(Jobs))
      /\ cq' = [head |-> cq'.head, tail |-> cq'.tail, enable |-> cq'.enable,
                busy |-> cq'.busy, err |-> cq'.err]
      /\ cq'.enable \in BOOLEAN /\ cq'.busy \in BOOLEAN /\ cq'.err \in BOOLEAN
  BY <1>1, RegsStep
<1>3. \/ ~ctrl.start /\ m = "reset" /\ fw' = "off" /\ batch' = 0
      \/ FwRuns(m)
  BY <1>1, FwMoved
<1>4. ASSUME m \in {"head", "go", "jgo"} PROVE m = fw /\ NextJob \in 1 .. Len(Jobs)
  <2>1. m = fw
    BY <1>3, <1>4 DEF FwRuns
  <2> QED BY <2>1, <1>1, <1>4, NextInRange
<1>5. ASSUME m = "head"
      PROVE  batch > 0 /\ cq.head + batch <= cq.tail /\ NextJob = cq.head + 1
  <2>1. fw = "head"
    BY <1>4, <1>5
  <2>2. fw \in BatchStates /\ Program = "cq"
    BY <2>1, <1>1 DEF BatchStates, FwStates, DriverStates, FirmwareInv
  <2> QED BY <2>2 DEF FirmwareInv, NextJob
<1>6. cq'.head \in 0 .. Len(Jobs) /\ cq'.tail \in {0, Len(Jobs)} /\ cq'.head <= cq'.tail
      /\ cq'.tail >= cq.tail
  BY <1>1, <1>2, <1>4, <1>5
<1>7. cq' \in [head : 0 .. Len(Jobs), tail : {0, Len(Jobs)}, enable : BOOLEAN,
               busy : BOOLEAN, err : BOOLEAN]
  BY <1>2, <1>6
<1>8. done_latch' \in BOOLEAN /\ (done_latch' => ctrl.start /\ (done_latch \/ m = "exit"))
  BY Zenon
<1>9. bowed' \in BOOLEAN
  <2>1. bowed' = IF WFire(w) /\ MWlast THEN TRUE ELSE bowed /\ ~(b.valid /\ dma_st = "B")
    BY DEF SlaveClk
  <2>2. (bowed /\ ~(b.valid /\ dma_st = "B")) \in BOOLEAN
    BY Zenon
  <2> QED BY <2>1, <2>2, Zenon
<1>10. bus_erred' \in BOOLEAN
  <2>1. (bus_erred \/ (job.busy /\ BusErr(r, b))) \in BOOLEAN
    BY Zenon
  <2> QED BY <2>1, Zenon
<1>11. kicked' \in 0 .. Len(Jobs)
  <2>1. CASE GoTaken(MlWrite(m), soft_rst)
    <3>1. m \in {"go", "jgo"}
      BY <2>1, MlWrites DEF GoTaken
    <3> QED BY <2>1, <3>1, <1>1, <1>4
  <2>2. CASE ~GoTaken(MlWrite(m), soft_rst)
    BY <2>2 DEF Types, TopTypes
  <2> QED BY <2>1, <2>2
<1>12. bank_valid' \subseteq {0, 1}
  <2>1. strip_bank_l \in {0, 1} /\ bank_valid \subseteq {0, 1}
    BY DEF Types, TopTypes, DmaTypes, ChainTypes
  <2> QED BY <2>1 DEF StripBufClk
<1>13. fw' \in FwStates
  <2>1. FwNext(fw) \in FwStates
    BY <1>1, FwGoes
  <2> QED BY <2>1, <1>1, <1>3 DEF FwRuns, FwStates
<1>14. fw' \in BatchStates => batch' > 0 /\ cq'.head + batch' <= cq'.tail
  <2>1. CASE fw' = "off"
    BY <2>1 DEF BatchStates, DriverStates
  <2>2. CASE FwRuns(m) /\ m = "stall"
    <3>1. fw' = fw /\ batch' = batch /\ cq'.head = cq.head
      BY <2>2, <1>2, <1>1 DEF FwRuns, FwStates
    <3> QED BY <3>1, <1>1, <1>6 DEF FirmwareInv
  <2>3. CASE FwRuns(m) /\ m = fw
    <3>1. /\ fw' = FwNext(fw)
          /\ batch' = CASE fw = "loop" -> LesserOf(cq.tail - cq.head, BatchN)
                        [] fw = "head" -> batch - 1
                        [] OTHER       -> batch
      BY <2>3, <1>1 DEF FwRuns, FwStates
    <3>2. CASE fw = "head"
      <4>1. fw' \in BatchStates => batch > 1
        BY <3>1, <3>2, <1>1, FwGoes
      <4>2. batch' = batch - 1
        BY <3>1, <3>2
      <4>3. cq'.head <= cq.head + 1 /\ cq.head + batch <= cq.tail
        BY <2>3, <3>2, <1>1, <1>2, <1>5
      <4> QED BY <4>1, <4>2, <4>3, <1>1, <1>6
    <3>3. CASE fw = "loop"
      <4>1. fw' \in BatchStates => cq.head # cq.tail
        BY <3>1, <3>3, <1>1, FwGoes DEF BatchStates
      <4>2. batch' = LesserOf(cq.tail - cq.head, BatchN)
        BY <3>1, <3>3
      <4>3. cq'.head = cq.head
        BY <2>3, <3>3, <1>2
      <4> QED BY <4>1, <4>2, <4>3, <1>1, <1>6 DEF LesserOf
    <3>4. CASE fw \notin {"head", "loop"}
      <4>1. batch' = batch /\ cq'.head = cq.head
        BY <2>3, <3>1, <3>4, <1>2
      <4>2. fw' \in BatchStates => fw \in BatchStates
        BY <3>1, <3>4, <1>1, FwGoes
      <4> QED BY <4>1, <4>2, <1>1, <1>6 DEF FirmwareInv
    <3> QED BY <3>2, <3>3, <3>4
  <2> QED BY <1>3, <2>1, <2>2, <2>3 DEF FwRuns
<1>15. batch' \in Nat
  <2>1. FwRuns(m) /\ fw = "head" => batch > 0
    BY <1>1 DEF FirmwareInv, BatchStates, FwStates, DriverStates
  <2>2. LesserOf(cq.tail - cq.head, BatchN) \in Nat /\ (batch > 0 => batch - 1 \in Nat)
    BY <1>1 DEF LesserOf
  <2> QED BY <2>1, <2>2, <1>1, <1>3 DEF FwRuns
<1>16. TopTypes'
  BY <1>2, <1>7, <1>8, <1>9, <1>10, <1>11, <1>12, <1>13, <1>15 DEF TopTypes
<1>17. dma_go' => fw' = "dret" /\ dma_st' = "IDLE"
  <2> SUFFICES ASSUME dma_go' PROVE fw' = "dret" /\ dma_st' = "IDLE"
    OBVIOUS
  <2>1. fw = "dgo" /\ fw' = FwNext(fw)
    BY <1>2, <1>3 DEF FwRuns
  <2>2. fw' = "dret"
    BY <2>1 DEF FwNext
  <2>3. ~job.busy /\ ~job.err
    BY <2>1 DEF TurnInv
  <2>4. ml_st = "IDLE"
    BY <2>3 DEF TurnInv
  <2>5. dma_st = "IDLE"
    BY <2>1, <2>3, <2>4
       DEF EngineInv, LoadWaits, StoreWaits, ComputePart, XferStates, StripChain,
           Types, DmaTypes, FlagTypes, DmaStates
  <2>6. ~mldma.go /\ ~mlwb.go /\ ~mlstrip.start /\ ~dma_go
    BY <2>1, <2>4 DEF PulseInv, FirmwareInv, LoadWaits, StoreWaits
  <2> QED BY <2>2, <2>5, <2>6 DEF Surroundings
<1>18. done_latch /\ Program = "job" => fw = "halt"
  BY DEF FirmwareInv
<1>19. ~ctrl'.start => fw' = "off" \/ (fw' = "halt" /\ Program = "job")
  <2> SUFFICES ASSUME ~ctrl'.start PROVE fw' = "off" \/ (fw' = "halt" /\ Program = "job")
    OBVIOUS
  <2>1. CASE ~ctrl.start
    BY <2>1, <1>3 DEF FwRuns
  <2>2. CASE ctrl.start
    <3>1. h = "stop"
      BY <2>2, <1>2
    <3>2. Program = "job" /\ fw = "halt"
      BY <3>1, <1>18 DEF Finished
    <3>3. FwNext(fw) = "halt"
      BY <3>2 DEF FwNext
    <3> QED BY <2>2, <3>2, <3>3, <1>3 DEF FwRuns
  <2> QED BY <2>1, <2>2, <1>1
<1>20. Program = "job" => fw' \in DriverStates
  BY <1>1, <1>3, FwGoes DEF FirmwareInv, FwRuns, DriverStates
<1>21. Program = "cq" => fw' \notin {"jcfg", "jgo", "jpoll"}
  BY <1>1, <1>3, FwGoes DEF FirmwareInv, FwRuns
<1>22. done_latch' /\ Program = "job" => fw' = "halt"
  <2> SUFFICES ASSUME done_latch', Program = "job" PROVE fw' = "halt"
    OBVIOUS
  <2>1. ctrl.start /\ (done_latch \/ m = "exit")
    BY <1>8
  <2>2. FwRuns(m)
    BY <2>1, <1>3
  <2>3. fw \in {"halt", "exit"}
    BY <2>1, <2>2, <1>18 DEF FwRuns
  <2>4. FwNext(fw) = "halt"
    BY <2>3 DEF FwNext
  <2>5. fw = "exit" => m = "exit"
    BY <2>1, <2>3, <1>18
  <2> QED BY <2>2, <2>3, <2>4, <2>5 DEF FwRuns
<1>23. Program = "job" /\ fw' \in {"jcfg", "jgo"} => acks' < Len(Jobs)
  BY <1>1, StripAssumption DEF Bounds
<1> QED BY <1>2, <1>6, <1>14, <1>16, <1>17, <1>19, <1>20, <1>21, <1>22, <1>23 DEF FirmwareInv

-----------------------------------------------------------------------------
(* Firmware, sequencer and engines together.                                *)

\* What the control part of the invariant reads as Boolean.
Flags == /\ job.busy \in BOOLEAN /\ job.done \in BOOLEAN /\ job.err \in BOOLEAN
         /\ pf.pending \in BOOLEAN /\ pf.done \in BOOLEAN /\ pf.seen \in BOOLEAN
         /\ pf.fault \in BOOLEAN /\ job.bank \in {0, 1} /\ strip_bank_l \in {0, 1}
         /\ mlstrip.bank \in {0, 1} /\ dma_st \in DmaStates /\ mode_write \in BOOLEAN
         /\ err \in BOOLEAN /\ strip_err \in BOOLEAN /\ strip_done \in BOOLEAN
         /\ bus_erred \in BOOLEAN /\ mat_err \in BOOLEAN

LEMMA Flagged ==
    ASSUME Types PROVE Flags
  BY DEF Types, MlTypes, MlRegTypes, MlOutTypes, JobType, PfType, StripT, DmaTypes, FlagTypes,
         ChainTypes, TopTypes, MatTypes, Flags

Control == TurnInv /\ PrefetchInv /\ PulseInv /\ EngineInv /\ BankInv /\ FaultInv

\* A step of the firmware and of the engines.
Around(m, r, b) ==
    /\ Flags /\ Flags' /\ Handshake /\ FirmwareInv /\ Control
    /\ Surroundings(r, b) /\ FwSeen(m)

\* The engines during a job: only the one that the sequencer waits for moves.
JobEngines(r, b) ==
    /\ ml_st \notin MatWaits \cup {"STRIP_DRAIN_ERR"} => mat_st = "IDLE" /\ mat_st' = "IDLE"
    /\ ml_st \notin LoadWaits \cup StoreWaits \cup {"STRIP_DRAIN_ERR"}
           => dma_st \notin XferStates /\ dma_st' \notin XferStates
    /\ ml_st \notin ComputePart \cup {"STRIP_PREFILL_W", "STRIP_DRAIN_ERR"}
           => dma_st \notin StripChain /\ dma_st' \notin StripChain
    /\ ml_st \notin LoadWaits \cup StoreWaits \cup ComputePart
                    \cup {"STRIP_PREFILL_W", "STRIP_DRAIN_ERR"}
           => dma_st = "IDLE" /\ dma_st' = "IDLE" /\ ~BusErr(r, b)
    /\ ml_st \in LoadWaits /\ dma_st' \in XferStates => ~mode_write'
    /\ ml_st \in StoreWaits /\ dma_st' \in XferStates => mode_write'
    /\ ml_st # "STRIP_DRAIN_ERR" /\ dma_st' \in StripChain
           => pf.pending /\ ~(pf.seen /\ strip_done)
    /\ mat_st' # "IDLE" => ~mat_done'
    /\ ~dma_go

LEMMA JobTurn ==
    ASSUME job.busy, NEW m, NEW r, NEW b, Around(m, r, b)
    PROVE  /\ fw \in {"poll", "jpoll"} /\ ~job.done /\ ~job.err
           /\ JobEngines(r, b)
<1>1. fw \in {"poll", "jpoll"} /\ ~job.done /\ ~job.err /\ ~dma_go
  BY DEF Around, Control, TurnInv, FirmwareInv
<1>2. /\ mat_st # "IDLE" => ml_st \in MatWaits \cup {"STRIP_DRAIN_ERR"}
      /\ dma_st \in XferStates => \/ ml_st \in LoadWaits /\ ~mode_write
                                  \/ ml_st \in StoreWaits /\ mode_write
                                  \/ ml_st = "STRIP_DRAIN_ERR"
      /\ dma_st \in StripChain =>
             \/ ml_st \in ComputePart \cup {"STRIP_PREFILL_W"} /\ pf.pending
             \/ ml_st = "STRIP_DRAIN_ERR"
  BY <1>1 DEF Around, Control, EngineInv
<1>3. /\ mlmat.go => ml_st \in MatWaits
      /\ mldma.go => ml_st \in LoadWaits
      /\ mlwb.go => ml_st \in StoreWaits
      /\ mlstrip.start => ml_st \in {"STRIP_PREFILL_W", "STRIP_TILE"} /\ pf.pending /\ ~pf.seen
  BY DEF Around, Control, PulseInv
<1>4. /\ dma_st' \in XferStates => dma_st \in XferStates \/ mldma.go \/ mlwb.go
      /\ dma_st' \in StripChain => dma_st \in StripChain \/ mlstrip.start
      /\ mat_st' # "IDLE" => ~mat_done' /\ (mat_st # "IDLE" \/ mlmat.go)
      /\ mldma.go => ~mode_write'
      /\ mlwb.go => mode_write'
      /\ dma_st \in XferStates => mode_write' = mode_write
      /\ BusErr(r, b) => dma_st # "IDLE"
  BY <1>1 DEF Around, Surroundings, XferStates
<1>5. dma_st \in DmaStates /\ dma_st' \in DmaStates
  BY DEF Around, Flags
<1>6. strip_done => dma_st = "IDLE"
  BY DEF Around, Handshake
<1>7. /\ ml_st \notin MatWaits \cup {"STRIP_DRAIN_ERR"} => mat_st = "IDLE" /\ mat_st' = "IDLE"
      /\ ml_st \notin LoadWaits \cup StoreWaits \cup {"STRIP_DRAIN_ERR"}
             => dma_st \notin XferStates /\ dma_st' \notin XferStates
  BY <1>2, <1>3, <1>4
<1>8. ml_st \notin ComputePart \cup {"STRIP_PREFILL_W", "STRIP_DRAIN_ERR"}
          => dma_st \notin StripChain /\ dma_st' \notin StripChain
  BY <1>2, <1>3, <1>4 DEF ComputePart
<1>9. ml_st \notin LoadWaits \cup StoreWaits \cup ComputePart
                   \cup {"STRIP_PREFILL_W", "STRIP_DRAIN_ERR"}
          => dma_st = "IDLE" /\ dma_st' = "IDLE" /\ ~BusErr(r, b)
  BY <1>4, <1>5, <1>7, <1>8 DEF DmaStates, XferStates, StripChain
<1>10. /\ ml_st \in LoadWaits /\ dma_st' \in XferStates => ~mode_write'
       /\ ml_st \in StoreWaits /\ dma_st' \in XferStates => mode_write'
  BY <1>2, <1>3, <1>4 DEF LoadWaits, StoreWaits
<1>11. ml_st # "STRIP_DRAIN_ERR" /\ dma_st' \in StripChain
           => pf.pending /\ ~(pf.seen /\ strip_done)
  BY <1>2, <1>3, <1>4, <1>6 DEF StripChain
<1> QED BY <1>1, <1>4, <1>7, <1>8, <1>9, <1>10, <1>11 DEF JobEngines

\* The bus errors of a job that goes on.
JobErrors(r, b) ==
    BusErr(r, b) =>
        \/ err' /\ dma_st \in XferStates /\ ml_st \in LoadWaits \cup StoreWaits
        \/ /\ strip_err' /\ dma_st \in StripChain /\ pf.pending /\ ~strip_done
           /\ ~mlstrip.start /\ ml_st \in ComputePart \cup {"STRIP_PREFILL_W"}
        \/ ml_st = "STRIP_DRAIN_ERR"

LEMMA JobErred ==
    ASSUME job.busy, NEW m, NEW r, NEW b, Around(m, r, b)
    PROVE  JobErrors(r, b)
<1>1. ~job.err /\ fw \in {"poll", "jpoll"}
  BY DEF Around, Control, TurnInv
<1>2. BusErr(r, b) => \/ dma_st \in XferStates /\ err'
                      \/ dma_st = "STRIP_R" /\ strip_err'
  BY DEF Around, Surroundings
<1>3. dma_st = "STRIP_R" => dma_st \in StripChain /\ ~strip_done /\ ~mlstrip.start
  BY DEF Around, Handshake, Control, PulseInv, StripChain
<1>4. /\ dma_st \in XferStates => ml_st \in LoadWaits \cup StoreWaits \cup {"STRIP_DRAIN_ERR"}
      /\ dma_st \in StripChain =>
             \/ ml_st \in ComputePart \cup {"STRIP_PREFILL_W"} /\ pf.pending
             \/ ml_st = "STRIP_DRAIN_ERR"
  BY <1>1 DEF Around, Control, EngineInv
<1> QED BY <1>2, <1>3, <1>4 DEF JobErrors

\* A step during a job.
Running(r, b) ==
    /\ job.busy /\ fw \in {"poll", "jpoll"} /\ ~job.done /\ ~job.err /\ ~cfg.bypass
    /\ Program = "job" => fw = "jpoll"
    /\ fw' = fw /\ cfg' = cfg /\ (StripKickIllegal' <=> StripKickIllegal)
    /\ JobEngines(r, b) /\ JobErrors(r, b)
    /\ bus_erred' <=> bus_erred \/ BusErr(r, b)

LEMMA JobRuns ==
    ASSUME job.busy, NEW m, NEW r, NEW b, Around(m, r, b),
           bus_erred' <=> bus_erred \/ (job.busy /\ BusErr(r, b))
    PROVE  Running(r, b)
<1>1. fw' = fw /\ cfg' = cfg
  BY DEF Around, FwSeen
<1>2. StripKickIllegal' <=> StripKickIllegal
  BY <1>1 DEF StripKickIllegal
<1>3. ~cfg.bypass
  BY DEF Around, Control, TurnInv
<1>4. Program = "job" => fw = "jpoll"
  BY DEF Around, Control, TurnInv, FirmwareInv, DriverStates
<1> QED BY <1>1, <1>2, <1>3, <1>4, JobTurn, JobErred DEF Running

\* The job waits for the matrix engine.
LEMMA MatWaitTurn ==
    ASSUME NEW m, NEW r, NEW b, Around(m, r, b), Running(r, b), ~FaultNow,
           ml_st \in MatWaits, WaitKind(mat_err, MatBusy, mat_done)
    PROVE  Control'
<1>1. ml_st' \in After(ml_st) =>
          /\ ml_st' \in {"STRIP_OP", "STRIP_RSC", "STRIP_STO_WAIT", "OP", "RSC", "STO"}
          /\ ml_st \in StripLive <=> ml_st' \in StripLive
          /\ ml_st \in ComputePart <=> ml_st' \in ComputePart
  BY DEF MatWaits, After, StripLive, StripStates, ComputePart
<1>2. /\ ml_st \in {"STRIP_CLR_W", "STRIP_OP_W", "STRIP_RSC_W", "CLR_W", "OP_W", "RSC_W"}
      /\ \/ mat_err /\ Retires
         \/ Keeps /\ ml_st' = ml_st
         \/ mat_st = "IDLE" /\ busy_seen /\ Keeps /\ ml_st' \in After(ml_st)
      /\ Mute /\ Watches
  BY DEF WaitKind, MatWaits, MatBusy
<1>3. TurnInv'
  BY <1>1, <1>2 DEF Around, Control, TurnInv, Running, Keeps, Retires, Watches, Counts,
     StripLive, StripStates, LegacyStates, FaultNow
<1>4. PrefetchInv'
  BY <1>1, <1>2 DEF Around, Control, PrefetchInv, Keeps, Retires, Watches, Counts, StorePart
<1>5. PulseInv'
  BY <1>2 DEF Mute, PulseInv
<1>6. EngineInv'
  <2>1. mat_st' # "IDLE" => ~mat_done' /\ (job'.err \/ ml_st' \in MatWaits)
    BY <1>2 DEF Around, Control, Surroundings, PulseInv, Retires, MatWaits
  <2>2. dma_st' \notin XferStates
    BY <1>2 DEF Running, JobEngines, LoadWaits, StoreWaits
  <2>3. dma_st' \in StripChain => job'.err \/ (ml_st' \in ComputePart /\ pf'.pending)
    BY <1>1, <1>2 DEF Running, JobEngines, Retires, Watches, Counts
  <2> QED BY <2>1, <2>2, <2>3 DEF EngineInv
<1>7. BankInv'
  BY <1>1, <1>2 DEF Around, Control, BankInv, PulseInv, Running, JobEngines, Surroundings, Keeps,
     Retires, Mute, ComputePart, StripChain
<1>8. FaultInv'
  BY <1>1, <1>2 DEF Around, Control, FaultInv, TurnInv, PulseInv, Running, JobErrors,
     Surroundings, Keeps, Retires, Watches, Counts, Mute, LoadWaits, StoreWaits, MatWaits,
     ComputePart, Flags, Handshake, LegacyStates
<1> QED BY <1>3, <1>4, <1>5, <1>6, <1>7, <1>8 DEF Control

\* The job waits for a load.
LEMMA LoadWaitTurn ==
    ASSUME NEW m, NEW r, NEW b, Around(m, r, b), Running(r, b), ~FaultNow,
           ml_st \in LoadWaits,
           WaitKind(err, busy /\ ~mode_write, done /\ ~mode_write)
    PROVE  Control'
<1>1. ml_st' \in After(ml_st) => ml_st' \in {"LDW", "CLR"}
  BY DEF LoadWaits, After
<1>2. /\ ml_st \in {"LOADA_W", "LDW_W"}
      /\ \/ err /\ Retires
         \/ ~err /\ Keeps /\ ml_st' = ml_st
         \/ ~err /\ busy_seen /\ done /\ Keeps /\ ml_st' \in After(ml_st)
      /\ Mute /\ Watches
  BY DEF WaitKind, LoadWaits
<1>3. TurnInv'
  BY <1>1, <1>2 DEF Around, Control, TurnInv, Running, Keeps, Retires, Watches, Counts,
     StripLive, StripStates, LegacyStates, FaultNow
<1>4. PrefetchInv'
  BY <1>1, <1>2 DEF Around, Control, PrefetchInv, Keeps, Retires, Watches, Counts, StorePart
<1>5. PulseInv'
  BY <1>2 DEF Mute, PulseInv
<1>6. done => dma_st \notin XferStates
  BY DEF Around, Handshake
<1>7. EngineInv'
  <2>1. mat_st' = "IDLE"
    BY <1>2 DEF Running, JobEngines, MatWaits
  <2>2. dma_st' \in XferStates => job'.err \/ (ml_st' \in LoadWaits /\ ~mode_write')
    BY <1>2, <1>6 DEF Running, JobEngines, LoadWaits, StoreWaits, Retires, Around, Control,
       Surroundings, PulseInv
  <2>3. dma_st' \notin StripChain
    BY <1>2 DEF Running, JobEngines, ComputePart
  <2> QED BY <2>1, <2>2, <2>3 DEF EngineInv
<1>8. BankInv'
  BY <1>2 DEF BankInv, Running, JobEngines, Mute, ComputePart
<1>9. FaultInv'
  <2>1. bus_erred' => ~job'.done
    BY <1>2 DEF Running, Keeps, Retires
  <2>2. BusErr(r, b) => err' /\ ~done
    BY <1>2, <1>6 DEF Running, JobErrors, LoadWaits, StoreWaits, ComputePart
  <2>3. ASSUME bus_erred, ~err PROVE FALSE
    BY <1>2, <2>3 DEF Around, Control, FaultInv, TurnInv, Running, FaultNow, LegacyStates
  <2>4. bus_erred' /\ job'.busy => err' /\ ml_st' \in LoadWaits /\ ~mldma'.go
    BY <1>2, <2>2, <2>3 DEF Running, Retires, LoadWaits, Mute, Keeps
  <2> QED BY <2>1, <2>4 DEF FaultInv
<1> QED BY <1>3, <1>4, <1>5, <1>7, <1>8, <1>9 DEF Control

\* The job waits for a store.
LEMMA StoreWaitTurn ==
    ASSUME NEW m, NEW r, NEW b, Around(m, r, b), Running(r, b), ~FaultNow,
           ml_st \in StoreWaits,
           WaitKind(err, busy /\ mode_write, done /\ mode_write)
    PROVE  Control'
<1>1. ml_st' \in After(ml_st) =>
          \/ ml_st = "STRIP_STO_W" /\ ml_st' \in {"STRIP_RV", "STRIP_TILE"}
          \/ ml_st = "STO_W" /\ ml_st' = "NEXT"
  BY DEF StoreWaits, After
<1>2. /\ ml_st \in {"STRIP_STO_W", "STO_W"}
      /\ \/ err /\ Retires
         \/ ~err /\ Keeps /\ ml_st' = ml_st
         \/ ~err /\ busy_seen /\ done /\ Keeps /\ ml_st' \in After(ml_st)
      /\ Mute /\ Watches
  BY DEF WaitKind, StoreWaits
<1>3. TurnInv'
  BY <1>1, <1>2 DEF Around, Control, TurnInv, Running, Keeps, Retires, Watches, Counts,
     StripLive, StripStates, LegacyStates, FaultNow
<1>4. PrefetchInv'
  BY <1>1, <1>2 DEF Around, Control, PrefetchInv, Keeps, Retires, Watches, Counts, StorePart
<1>5. PulseInv'
  BY <1>2 DEF Mute, PulseInv
<1>6. done => dma_st \notin XferStates
  BY DEF Around, Handshake
<1>7. EngineInv'
  <2>1. mat_st' = "IDLE"
    BY <1>2 DEF Running, JobEngines, MatWaits
  <2>2. dma_st' \in XferStates => job'.err \/ (ml_st' \in StoreWaits /\ mode_write')
    BY <1>2, <1>6 DEF Running, JobEngines, LoadWaits, StoreWaits, Retires, Around, Control,
       Surroundings, PulseInv
  <2>3. dma_st' \notin StripChain
    BY <1>2 DEF Running, JobEngines, ComputePart
  <2> QED BY <2>1, <2>2, <2>3 DEF EngineInv
<1>8. BankInv'
  BY <1>2 DEF BankInv, Running, JobEngines, Mute, ComputePart
<1>9. FaultInv'
  <2>1. bus_erred' => ~job'.done
    BY <1>2 DEF Running, Keeps, Retires
  <2>2. BusErr(r, b) => err' /\ ~done
    BY <1>2, <1>6 DEF Running, JobErrors, LoadWaits, StoreWaits, ComputePart
  <2>3. ASSUME bus_erred, ~err PROVE FALSE
    BY <1>2, <2>3 DEF Around, Control, FaultInv, TurnInv, PrefetchInv, StorePart, Running,
       FaultNow, LegacyStates
  <2>4. bus_erred' /\ job'.busy => err' /\ ml_st' \in StoreWaits /\ ~mlwb'.go
    BY <1>2, <2>2, <2>3 DEF Running, Retires, StoreWaits, Mute, Keeps
  <2> QED BY <2>1, <2>4 DEF FaultInv
<1> QED BY <1>3, <1>4, <1>5, <1>7, <1>8, <1>9 DEF Control

\* The job starts an engine.  The engine is idle, for the job has not waited for it.
LEMMA MatIssueTurn ==
    ASSUME NEW m, NEW r, NEW b, Around(m, r, b), Running(r, b), ~FaultNow,
           ml_st \in MatIssues, IssueKind(TRUE, FALSE, FALSE)
    PROVE  Control'
<1>1. /\ ml_st' \in MatWaits
      /\ ml_st \in StripLive <=> ml_st' \in StripLive
      /\ ml_st \in ComputePart <=> ml_st' \in ComputePart
  BY DEF IssueKind, MatIssues, WaitOf, StripLive, StripStates, ComputePart, MatWaits
<1>2. /\ ml_st \in {"STRIP_TILE", "STRIP_OP", "STRIP_RSC", "CLR", "OP", "RSC"}
      /\ Keeps /\ Watches /\ ~busy_seen' /\ ~mlstrip'.start
      /\ mlmat'.go /\ ~mldma'.go /\ ~mlwb'.go
      /\ ml_st' \in {"STRIP_CLR_W", "STRIP_OP_W", "STRIP_RSC_W", "CLR_W", "OP_W", "RSC_W"}
  BY <1>1 DEF IssueKind, MatIssues, MatWaits
<1>3. TurnInv'
  BY <1>1, <1>2 DEF Around, Control, TurnInv, Running, Keeps, Watches, Counts,
     StripLive, StripStates, LegacyStates, FaultNow
<1>4. PrefetchInv'
  BY <1>2 DEF Around, Control, PrefetchInv, Keeps, Watches, Counts, StorePart
<1>5. mat_st' = "IDLE" /\ dma_st' \notin XferStates
  BY <1>2 DEF Running, JobEngines, MatWaits, LoadWaits, StoreWaits
<1>6. PulseInv'
  BY <1>1, <1>2, <1>5 DEF PulseInv
<1>7. EngineInv'
  <2>1. dma_st' \in StripChain => ml_st' \in ComputePart /\ pf'.pending
    BY <1>1, <1>2 DEF Running, JobEngines, Watches, Counts
  <2> QED BY <1>5, <2>1 DEF EngineInv
<1>8. BankInv'
  BY <1>1, <1>2, <1>5 DEF Around, Control, BankInv, PulseInv, Running, JobEngines, Surroundings,
     Keeps, ComputePart, StripChain
<1>9. FaultInv'
  BY <1>2 DEF Around, Control, FaultInv, TurnInv, PulseInv, Running, JobErrors,
     Surroundings, Keeps, Watches, Counts, LoadWaits, StoreWaits, MatWaits,
     ComputePart, Flags, Handshake, FaultNow
<1> QED BY <1>3, <1>4, <1>6, <1>7, <1>8, <1>9 DEF Control

LEMMA LoadIssueTurn ==
    ASSUME NEW m, NEW r, NEW b, Around(m, r, b), Running(r, b), ~FaultNow,
           ml_st \in LoadIssues, IssueKind(FALSE, TRUE, FALSE)
    PROVE  Control'
<1>1. /\ ml_st \in {"LOADA", "LDW"} /\ ml_st' \in {"LOADA_W", "LDW_W"}
      /\ Keeps /\ Watches /\ ~busy_seen' /\ ~mlstrip'.start
      /\ ~mlmat'.go /\ mldma'.go /\ ~mlwb'.go
  BY DEF IssueKind, LoadIssues, WaitOf
<1>2. mat_st' = "IDLE" /\ dma_st' = "IDLE" /\ ~BusErr(r, b)
  BY <1>1 DEF Running, JobEngines, MatWaits, LoadWaits, StoreWaits, ComputePart
<1>3. TurnInv'
  BY <1>1 DEF Around, Control, TurnInv, Running, Keeps, Watches, Counts,
     StripLive, StripStates, LegacyStates
<1>4. PrefetchInv'
  BY <1>1 DEF Around, Control, PrefetchInv, Keeps, Watches, Counts, StorePart
<1>5. PulseInv'
  BY <1>1, <1>2 DEF PulseInv, LoadWaits
<1>6. EngineInv' /\ BankInv'
  BY <1>1, <1>2 DEF EngineInv, BankInv, XferStates, StripChain
<1>7. FaultInv'
  BY <1>1, <1>2 DEF Around, Control, FaultInv, TurnInv, Running, Keeps, LegacyStates,
     LoadWaits, StoreWaits
<1> QED BY <1>3, <1>4, <1>5, <1>6, <1>7 DEF Control

LEMMA StoreIssueTurn ==
    ASSUME NEW m, NEW r, NEW b, Around(m, r, b), Running(r, b), ~FaultNow,
           ml_st \in StoreIssues, IssueKind(FALSE, FALSE, TRUE)
    PROVE  Control'
<1>1. /\ \/ ml_st = "STRIP_STO" /\ ml_st' = "STRIP_STO_W"
         \/ ml_st = "STO" /\ ml_st' = "STO_W"
      /\ Keeps /\ Watches /\ ~busy_seen' /\ ~mlstrip'.start
      /\ ~mlmat'.go /\ ~mldma'.go /\ mlwb'.go
  BY DEF IssueKind, StoreIssues, WaitOf
<1>2. mat_st' = "IDLE" /\ dma_st' = "IDLE" /\ ~BusErr(r, b)
  BY <1>1 DEF Running, JobEngines, MatWaits, LoadWaits, StoreWaits, ComputePart
<1>3. TurnInv'
  BY <1>1 DEF Around, Control, TurnInv, Running, Keeps, Watches, Counts,
     StripLive, StripStates, LegacyStates, PrefetchInv, StorePart, FaultNow
<1>4. PrefetchInv'
  BY <1>1 DEF Around, Control, PrefetchInv, Keeps, Watches, Counts, StorePart
<1>5. PulseInv'
  BY <1>1, <1>2 DEF PulseInv, StoreWaits
<1>6. EngineInv' /\ BankInv'
  BY <1>1, <1>2 DEF EngineInv, BankInv, XferStates, StripChain
<1>7. FaultInv'
  BY <1>1, <1>2 DEF Around, Control, FaultInv, TurnInv, Running, Keeps, LegacyStates,
     LoadWaits, StoreWaits, PrefetchInv, StorePart, FaultNow
<1> QED BY <1>3, <1>4, <1>5, <1>6, <1>7 DEF Control

\* The first prefetch of a strip job.
LEMMA PrefillTurn ==
    ASSUME NEW m, NEW r, NEW b, Around(m, r, b), Running(r, b), ~FaultNow, PrefillKind
    PROVE  Control'
<1>1. /\ ml_st = "STRIP_PREFILL" /\ ml_st' = "STRIP_PREFILL_W"
      /\ Keeps /\ ~mlmat'.go /\ ~mldma'.go /\ ~mlwb'.go
      /\ pf'.pending /\ ~pf'.seen /\ ~pf'.done
  BY DEF PrefillKind
<1>2. mat_st' = "IDLE" /\ dma_st' = "IDLE" /\ ~BusErr(r, b)
  BY <1>1 DEF Running, JobEngines, MatWaits, LoadWaits, StoreWaits, ComputePart
<1>3. TurnInv'
  BY <1>1 DEF Around, Control, TurnInv, Running, Keeps, StripLive, StripStates, LegacyStates
<1>4. PrefetchInv'
  BY <1>1 DEF PrefetchInv, StorePart
<1>5. PulseInv'
  BY <1>1, <1>2 DEF PulseInv
<1>6. EngineInv' /\ BankInv'
  BY <1>1, <1>2 DEF EngineInv, BankInv, XferStates, StripChain
<1>7. FaultInv'
  BY <1>1, <1>2 DEF Around, Control, FaultInv, PrefetchInv, Running, Keeps,
     LoadWaits, StoreWaits, FaultNow
<1> QED BY <1>3, <1>4, <1>5, <1>6, <1>7 DEF Control

\* The job waits for its first strip.
LEMMA PrefillWaitTurn ==
    ASSUME NEW m, NEW r, NEW b, Around(m, r, b), Running(r, b), ~FaultNow, PrefillWaitKind
    PROVE  Control'
<1>1. /\ ml_st = "STRIP_PREFILL_W" /\ Keeps /\ Mute
      /\ \/ strip_err /\ ml_st' = "STRIP_DRAIN_ERR" /\ Counts
         \/ /\ ~strip_err
            /\ strip_busy \/ ~(pf.seen /\ strip_done)
            /\ ml_st' = "STRIP_PREFILL_W" /\ Watches
         \/ ~strip_err /\ pf.seen /\ strip_done /\ ml_st' = "STRIP_BEGIN" /\ ~pf'.pending
  BY Zenon DEF PrefillWaitKind
<1>2. /\ mat_st' = "IDLE" /\ dma_st' \notin XferStates
      /\ dma_st' \in StripChain => pf.pending /\ ~(pf.seen /\ strip_done)
  BY <1>1 DEF Running, JobEngines, MatWaits, LoadWaits, StoreWaits
<1>3. TurnInv'
  BY <1>1 DEF Around, Control, TurnInv, Running, Keeps, StripLive, StripStates, LegacyStates
<1>4. PrefetchInv'
  <2>1. strip_busy => ~strip_done
    BY DEF Around, Handshake, StripChain
  <2> QED BY <1>1, <2>1 DEF Around, Control, PrefetchInv, Counts, Watches, StorePart
<1>5. PulseInv'
  BY <1>1 DEF PulseInv, Mute
<1>6. EngineInv'
  BY <1>1, <1>2 DEF EngineInv, Watches, Counts
<1>7. BankInv'
  BY <1>1, <1>2 DEF BankInv, Mute, ComputePart
<1>8. FaultInv'
  <2>1. bus_erred' => ~job'.done
    BY <1>1 DEF Running, Keeps
  <2>2. bus_erred => strip_err
    BY <1>1 DEF Around, Control, FaultInv, Running, FaultNow, LoadWaits, StoreWaits
  <2>3. BusErr(r, b) => strip_err' /\ pf.pending /\ ~strip_done
    BY <1>1 DEF Running, JobErrors, LoadWaits, StoreWaits
  <2>4. bus_erred' =>
            \/ ml_st' = "STRIP_DRAIN_ERR"
            \/ strip_err' /\ pf'.pending /\ ~mlstrip'.start
    BY <1>1, <2>2, <2>3 DEF Running, Watches, Counts, Mute
  <2> QED BY <2>1, <2>4 DEF FaultInv
<1> QED BY <1>3, <1>4, <1>5, <1>6, <1>7, <1>8 DEF Control

\* A strip begins: the next one is prefetched into the other bank.
LEMMA BeginTurn ==
    ASSUME NEW m, NEW r, NEW b, Around(m, r, b), Running(r, b), ~FaultNow, BeginKind
    PROVE  Control'
<1>1. /\ ml_st = "STRIP_BEGIN" /\ ml_st' = "STRIP_TILE"
      /\ Keeps /\ ~mlmat'.go /\ ~mldma'.go /\ ~mlwb'.go
      /\ \/ /\ mlstrip'.start /\ mlstrip'.bank = 1 - job.bank
            /\ pf'.pending /\ ~pf'.done /\ ~pf'.seen
         \/ ~mlstrip'.start /\ ~pf'.pending
  BY DEF BeginKind
<1>2. mat_st' = "IDLE" /\ dma_st' = "IDLE" /\ ~BusErr(r, b)
  BY <1>1 DEF Running, JobEngines, MatWaits, LoadWaits, StoreWaits, ComputePart
<1>3. TurnInv'
  BY <1>1 DEF Around, Control, TurnInv, Running, Keeps, StripLive, StripStates, LegacyStates
<1>4. PrefetchInv'
  BY <1>1 DEF PrefetchInv, StorePart
<1>5. PulseInv'
  BY <1>1, <1>2 DEF PulseInv
<1>6. EngineInv'
  BY <1>1, <1>2 DEF EngineInv, XferStates, StripChain
<1>7. BankInv'
  BY <1>1, <1>2 DEF BankInv, StripChain, Keeps, Around, Flags
<1>8. FaultInv'
  BY <1>1, <1>2 DEF Around, Control, FaultInv, PrefetchInv, Running, Keeps,
     LoadWaits, StoreWaits, FaultNow
<1> QED BY <1>3, <1>4, <1>5, <1>6, <1>7, <1>8 DEF Control

\* The job waits for the end of the prefetch, or goes on to its next tile.
LEMMA PassTurn ==
    ASSUME NEW m, NEW r, NEW b, Around(m, r, b), Running(r, b), ~FaultNow, PassKind
    PROVE  Control'
<1>1. /\ Keeps /\ Mute /\ Watches
      /\ \/ ml_st = "STRIP_STO_WAIT" /\ ml_st' = "STRIP_STO_WAIT"
         \/ ml_st = "STRIP_STO_WAIT" /\ pf.done /\ ml_st' = "STRIP_STO"
         \/ ml_st = "STRIP_RV" /\ ml_st' \in {"STRIP_RV", "STRIP_ADV", "DONE"}
         \/ ml_st = "NEXT" /\ ml_st' \in {"LDW", "DONE"}
  BY Zenon DEF PassKind
<1>2. /\ mat_st' = "IDLE" /\ dma_st' \notin XferStates
      /\ dma_st' \in StripChain => /\ ml_st = "STRIP_STO_WAIT" /\ pf.pending
                                   /\ ~(pf.seen /\ strip_done)
  BY <1>1 DEF Running, JobEngines, MatWaits, LoadWaits, StoreWaits, ComputePart
<1>3. pf.done => ~pf.pending
  BY DEF Around, Control, PrefetchInv
<1>4. TurnInv'
  BY <1>1 DEF Around, Control, TurnInv, Running, Keeps, Watches, Counts, StripLive, StripStates,
     LegacyStates
<1>5. PrefetchInv'
  BY <1>1 DEF Around, Control, PrefetchInv, TurnInv, Running, Watches, Counts, StorePart,
     LegacyStates
<1>6. PulseInv'
  BY <1>1 DEF PulseInv, Mute
<1>7. EngineInv'
  BY <1>1, <1>2, <1>3 DEF EngineInv, Watches, Counts, ComputePart
<1>8. BankInv'
  BY <1>1, <1>2 DEF Around, Control, BankInv, PulseInv, Surroundings, Running, Keeps, Mute,
     ComputePart, StripChain
<1>9. FaultInv'
  <2>1. bus_erred' => ~job'.done
    BY <1>1 DEF Running, Keeps
  <2>2. bus_erred => cfg.strip /\ strip_err /\ pf.pending
    BY <1>1 DEF Around, Control, FaultInv, TurnInv, Running, FaultNow, LoadWaits, StoreWaits,
       LegacyStates
  <2>3. BusErr(r, b) => strip_err' /\ pf.pending /\ ~strip_done
    BY <1>1 DEF Running, JobErrors, LoadWaits, StoreWaits, ComputePart
  <2>4. bus_erred' => \/ cfg'.strip /\ pf'.fault
                      \/ strip_err' /\ pf'.pending /\ ~mlstrip'.start
    BY <1>1, <2>2, <2>3 DEF Running, Watches, Counts, Mute
  <2> QED BY <2>1, <2>4 DEF FaultInv
<1> QED BY <1>4, <1>5, <1>6, <1>7, <1>8, <1>9 DEF Control

\* The banks are swapped, and the job ends.
LEMMA SwapTurn ==
    ASSUME NEW m, NEW r, NEW b, Around(m, r, b), Running(r, b), ~FaultNow, SwapKind
    PROVE  Control'
<1>1. /\ ml_st = "STRIP_ADV" /\ ml_st' = "STRIP_BEGIN" /\ Mute
      /\ job'.busy = job.busy /\ job'.done = job.done /\ job'.err = job.err
      /\ ~pf'.pending
  BY DEF SwapKind
<1>2. mat_st' = "IDLE" /\ dma_st' = "IDLE" /\ ~BusErr(r, b)
  BY <1>1 DEF Running, JobEngines, MatWaits, LoadWaits, StoreWaits, ComputePart
<1>3. TurnInv'
  BY <1>1 DEF Around, Control, TurnInv, Running, StripLive, StripStates, LegacyStates
<1>4. PrefetchInv' /\ PulseInv'
  BY <1>1 DEF PrefetchInv, StorePart, PulseInv, Mute
<1>5. EngineInv' /\ BankInv'
  BY <1>1, <1>2 DEF EngineInv, BankInv, Mute, XferStates, StripChain
<1>6. FaultInv'
  BY <1>1, <1>2 DEF Around, Control, FaultInv, PrefetchInv, Running, StorePart,
     LoadWaits, StoreWaits, FaultNow
<1> QED BY <1>3, <1>4, <1>5, <1>6 DEF Control

LEMMA DoneTurn ==
    ASSUME NEW m, NEW r, NEW b, Around(m, r, b), Running(r, b), ~FaultNow, DoneKind
    PROVE  Control'
<1>1. /\ ml_st = "DONE" /\ ml_st' = "IDLE" /\ Mute /\ Watches
      /\ ~job'.busy /\ job'.done /\ job'.err = job.err
  BY DEF DoneKind
<1>2. mat_st' = "IDLE" /\ dma_st' = "IDLE" /\ ~BusErr(r, b)
  BY <1>1 DEF Running, JobEngines, MatWaits, LoadWaits, StoreWaits, ComputePart
<1>3. ~pf.pending /\ ~pf.fault
  BY <1>1 DEF Around, Control, PrefetchInv, TurnInv, Running, FaultNow
<1>4. ~pf'.pending /\ ~pf'.fault
  BY <1>1, <1>3 DEF Watches, Counts
<1>5. TurnInv'
  BY <1>1, <1>4 DEF TurnInv, Running, StripLive, StripStates, LegacyStates
<1>6. PrefetchInv' /\ PulseInv'
  BY <1>1, <1>4 DEF PrefetchInv, StorePart, PulseInv, Mute
<1>7. EngineInv' /\ BankInv'
  BY <1>1, <1>2 DEF EngineInv, BankInv, Mute, XferStates, StripChain
<1>8. FaultInv'
  BY <1>1, <1>2, <1>3 DEF Around, Control, FaultInv, Running, LoadWaits, StoreWaits
<1> QED BY <1>5, <1>6, <1>7, <1>8 DEF Control

\* A fault stops the job, and the job drains.
LEMMA StopTurn ==
    ASSUME NEW m, NEW r, NEW b, Around(m, r, b), Running(r, b), FaultKind \/ DrainKind
    PROVE  Control'
<1>1. /\ Mute
      /\ \/ Keeps /\ Counts /\ ml_st' = "STRIP_DRAIN_ERR"
         \/ Retires /\ ~pf'.pending
  BY DEF FaultKind, DrainKind, Watches
<1>2. TurnInv'
  <2>1. job'.busy /\ ~cfg.strip => ~pf'.pending /\ ~pf'.fault
    BY DEF Around, Control, TurnInv, Running, DrainKind, FaultKind, Watches, Counts, Retires
  <2> QED BY <1>1, <2>1 DEF TurnInv, Running, Keeps, Retires, StripLive, StripStates,
             LegacyStates
<1>3. PrefetchInv'
  BY <1>1 DEF Around, Control, PrefetchInv, Counts, Retires, StorePart
<1>4. PulseInv'
  BY <1>1 DEF PulseInv, Mute
<1>5. EngineInv'
  BY <1>1 DEF EngineInv, Retires, Running, JobEngines
<1>6. BankInv'
  <2>1. ASSUME job'.busy, dma_st' \in StripChain, mat_st' # "IDLE"
        PROVE  strip_bank_l' # job'.bank
    <3>1. Keeps
      BY <1>1, <2>1 DEF Retires
    <3>2. mat_st # "IDLE" \/ mlmat.go
      BY <2>1 DEF Around, Surroundings
    <3>3. dma_st \in StripChain \/ mlstrip.start
      BY <2>1 DEF Around, Surroundings
    <3> QED BY <3>1, <3>2, <3>3 DEF Around, Control, BankInv, PulseInv, EngineInv, Running,
               Surroundings, Keeps, ComputePart, MatWaits, StripChain
  <2> QED BY <1>1, <2>1 DEF BankInv, Mute, Retires, ComputePart
<1>7. FaultInv'
  BY <1>1 DEF FaultInv, Keeps, Retires, Running
<1> QED BY <1>2, <1>3, <1>4, <1>5, <1>6, <1>7 DEF Control

\* No job runs: whatever engine is busy belongs to the firmware or to a failed job.
LEMMA RestTurn ==
    ASSUME ~job.busy, NEW m, NEW r, NEW b, Around(m, r, b), bus_erred' <=> bus_erred,
           FaultKind \/ DrainKind \/ IdleKind
    PROVE  Control'
<1>1. /\ Mute /\ ~job'.busy /\ job'.done = job.done
      /\ ml_st' \in {"IDLE", "STRIP_DRAIN_ERR"}
      /\ Counts \/ (~pf'.pending /\ ~pf'.fault /\ ~pf'.done)
      /\ job.err => job'.err
      /\ ~job.err => /\ ml_st = "IDLE" /\ ml_st' = "IDLE" /\ ~job'.err
                     /\ ~pf'.pending /\ ~pf'.fault
  <2>1. ~job.err => ~pf.pending /\ ~pf.fault /\ ml_st # "STRIP_DRAIN_ERR"
    BY DEF Around, Control, TurnInv
  <2> QED BY <2>1 DEF FaultKind, DrainKind, IdleKind, Keeps, Retires, Watches, Counts
<1>2. ml_st \in {"IDLE", "STRIP_DRAIN_ERR"}
  BY DEF Around, Control, TurnInv
<1>3. ~mlmat.go /\ ~mldma.go /\ ~mlwb.go /\ ~mlstrip.start
  BY <1>2 DEF Around, Control, PulseInv, MatWaits, LoadWaits, StoreWaits
<1>4. TurnInv'
  BY <1>1 DEF Around, Control, TurnInv, FwSeen, StripLive, StripStates, LegacyStates
<1>5. PrefetchInv'
  BY <1>1 DEF Around, Control, PrefetchInv, Counts, StorePart
<1>6. PulseInv'
  BY <1>1 DEF PulseInv, Mute
<1>7. EngineInv'
  <2>1. ml_st = "STRIP_DRAIN_ERR" => job.err
    BY DEF Around, Control, TurnInv
  <2>2. mat_st' # "IDLE" => ~mat_done' /\ job'.err
    BY <1>1, <1>2, <1>3, <2>1 DEF Around, Control, EngineInv, Surroundings, MatWaits
  <2>3. dma_st' \in StripChain => job'.err
    BY <1>1, <1>2, <1>3, <2>1 DEF Around, Control, EngineInv, Surroundings, ComputePart
  <2>4. dma_st' \in XferStates => FwFetch' \/ job'.err
    <3>1. dma_st \in XferStates => FwFetch \/ job.err
      BY <1>2, <2>1 DEF Around, Control, EngineInv, FwFetch, LoadWaits, StoreWaits
    <3> QED BY <1>1, <1>3, <3>1 DEF Around, Surroundings, FwSeen
  <2> QED BY <2>2, <2>3, <2>4 DEF EngineInv, FwFetch
<1>8. BankInv'
  BY <1>1 DEF BankInv, Mute
<1>9. FaultInv'
  BY <1>1 DEF Around, Control, FaultInv
<1> QED BY <1>4, <1>5, <1>6, <1>7, <1>8, <1>9 DEF Control

\* A job starts: every engine is idle.
LEMMA StartTurn ==
    ASSUME NEW m, NEW r, NEW b, Around(m, r, b), GoTaken(MlWrite(m), FALSE), ~bus_erred',
           StartKind
    PROVE  Control'
<1>1. /\ ~job.err /\ cfg' = cfg /\ fw' \in {"poll", "jpoll"}
      /\ Program = "job" => fw' = "jpoll"
      /\ FwFetch /\ dma_st \in XferStates => FwFetch'
      /\ dma_go => FwFetch'
  BY DEF Around, FwSeen
<1>2. /\ ml_st = "IDLE" /\ ~job.busy /\ ~cfg.bypass /\ Mute
      /\ ~job'.done /\ ~pf'.pending /\ ~pf'.done /\ ~pf'.fault
      /\ \/ ~job'.busy /\ job'.err /\ ml_st' = "IDLE"
         \/ job'.busy /\ ~job'.err /\ cfg.strip /\ ~StripKickIllegal /\ ml_st' = "STRIP_PREFILL"
         \/ job'.busy /\ ~job'.err /\ ~cfg.strip /\ ml_st' \in {"LOADA", "LDW"}
  BY DEF StartKind
<1>3. StripKickIllegal' <=> StripKickIllegal
  BY <1>1 DEF StripKickIllegal
<1>4. ~FwFetch'
  BY <1>1 DEF FwFetch
<1>5. ~mlmat.go /\ ~mldma.go /\ ~mlwb.go /\ ~mlstrip.start /\ ~dma_go
  BY <1>1, <1>2, <1>4 DEF Around, Control, PulseInv, MatWaits, LoadWaits, StoreWaits
<1>6. mat_st = "IDLE" /\ dma_st \notin XferStates /\ dma_st \notin StripChain
  BY <1>1, <1>2, <1>4 DEF Around, Control, EngineInv, FwFetch, MatWaits, LoadWaits, StoreWaits,
     ComputePart
<1>7. mat_st' = "IDLE" /\ dma_st' \notin XferStates /\ dma_st' \notin StripChain
  BY <1>5, <1>6 DEF Around, Surroundings
<1>8. TurnInv'
  BY <1>1, <1>2, <1>3 DEF TurnInv, StripLive, StripStates, LegacyStates
<1>9. PrefetchInv' /\ PulseInv'
  BY <1>2 DEF PrefetchInv, StorePart, PulseInv, Mute
<1>10. EngineInv' /\ BankInv' /\ FaultInv'
  BY <1>2, <1>7 DEF EngineInv, BankInv, FaultInv, Mute
<1> QED BY <1>8, <1>9, <1>10 DEF Control

\* Every step of the sequencer keeps the control part of the invariant.
LEMMA ControlStep ==
    ASSUME NEW m, NEW r, NEW b, Around(m, r, b),
           bus_erred' <=> ~GoTaken(MlWrite(m), FALSE)
                          /\ (bus_erred \/ (job.busy /\ BusErr(r, b))),
           IF GoTaken(MlWrite(m), FALSE) THEN StartKind ELSE AnyKind
    PROVE  Control'
<1>1. CASE GoTaken(MlWrite(m), FALSE)
  BY <1>1, StartTurn
<1>2. CASE ~GoTaken(MlWrite(m), FALSE) /\ ~job.busy
  BY <1>2, RestTurn DEF AnyKind
<1>3. CASE ~GoTaken(MlWrite(m), FALSE) /\ job.busy
  <2>1. Running(r, b)
    BY <1>3, JobRuns
  <2>2. ~IdleKind
    BY <1>3 DEF IdleKind, Around, Control, TurnInv
  <2>3. CASE FaultKind \/ DrainKind
    BY <2>1, <2>3, StopTurn
  <2>4. CASE ~FaultNow /\ RunKinds
    BY <2>1, <2>4, MatWaitTurn, LoadWaitTurn, StoreWaitTurn, MatIssueTurn, LoadIssueTurn,
       StoreIssueTurn, PrefillTurn, PrefillWaitTurn, BeginTurn, PassTurn, SwapTurn, DoneTurn,
       Zenon DEF RunKinds
  <2> QED BY <1>3, <2>2, <2>3, <2>4 DEF AnyKind
<1> QED BY <1>1, <1>2, <1>3

-----------------------------------------------------------------------------
(* The invariant is inductive.                                              *)

LEMMA InitInv ==
    ASSUME Init PROVE SInv
<1> USE DEF Init, DmaInit, MatInit, MlInit, StripBufInit, RegsInit
<1>1. Len(Jobs) \in Nat /\ SubTiles \in Nat \ {0} /\ DstBase \in Nat
      /\ Program \in {"cq", "job"} /\ MaxAcks \in Nat
  BY MlAssumption, StripAssumption
<1>2. Bounds
  BY <1>1 DEF Bounds
<1>3. MlTypes
  <2>1. cfg \in CfgType
    BY <1>1 DEF Cfg0, CfgType
  <2>2. job \in JobType
    BY <1>1 DEF JobType
  <2>5. MlRegTypes
    BY <2>2 DEF MlRegTypes, PfType, NoPf, MlStates
  <2>3. mlmat \in MatCmdT
    BY DEF MatCmdT, PtrType, Ptr
  <2>4. mldma \in GoType /\ mlwb \in GoType /\ mlstrip \in StripT /\ ml_err_we \in BOOLEAN
    BY DEF GoType, StripT
  <2> QED BY <2>1, <2>3, <2>4, <2>5 DEF MlTypes, MlOutTypes
<1>4. MatTypes
  BY DEF MatTypes, MatStates
<1>5. DmaTypes
  BY DEF DmaTypes, FlagTypes, MoveTypes, ChainTypes, SlaveTypes, DmaStates
<1>6. TopTypes
  <2>1. ctrl \in [start : BOOLEAN, irq_en : BOOLEAN] /\ dma_desc \in DescT /\ wb_desc \in DescT
    BY DEF NoDesc, DescT
  <2>2. cq \in [head : 0 .. Len(Jobs), tail : {0, Len(Jobs)}, enable : BOOLEAN,
                busy : BOOLEAN, err : BOOLEAN]
    BY <1>1
  <2>3. kicked \in 0 .. Len(Jobs) /\ fw \in FwStates /\ batch \in Nat
        /\ host \in {"enable", "start", "tail", "watch"} /\ bank_valid \subseteq {0, 1}
    BY <1>1 DEF FwStates
  <2> QED BY <2>1, <2>2, <2>3 DEF TopTypes
<1>7. Wire
  BY DEF Wire, Handshake, Bursts, StripRoom, XferStates, StripChain
<1>8. FirmwareInv
  BY <1>1 DEF FirmwareInv, DriverStates, BatchStates, FwStates
<1>9. TurnInv /\ PrefetchInv
  BY DEF TurnInv, PrefetchInv, NoPf, Cfg0, StripLive, StripStates, LegacyStates, StorePart
<1>10. PulseInv /\ EngineInv /\ BankInv /\ FaultInv
  BY DEF PulseInv, EngineInv, BankInv, FaultInv, XferStates, StripChain
<1> QED BY <1>2, <1>3, <1>4, <1>5, <1>6, <1>7, <1>8, <1>9, <1>10 DEF SInv, Core, Types

LEMMA ClockInv ==
    ASSUME Bounds, Core, NEW h \in HostMoves, NEW m \in FwMoves, NEW ar \in Late("ar"),
           NEW r \in RChoices, NEW aw \in Late("aw"), NEW w \in Late("w"), NEW b \in BChoices,
           Clock(h, m, ar, r, aw, w, b), Bounds', h # "soft", h = "stop" => Program = "job"
    PROVE  Core'
<1>1. /\ Types /\ Wire /\ FirmwareInv /\ TurnInv /\ PrefetchInv /\ PulseInv /\ EngineInv
      /\ BankInv /\ FaultInv
  BY DEF Core
<1>2. /\ Host(h) /\ Firmware(m)
      /\ RegsClk(HostWrite(h), CorePort(m), ~busy /\ ~MatBusy,
                 [dma_done |-> Engines.dma_done, wb_done |-> Engines.wb_done,
                  dma_err |-> err, npu_done |-> done_latch])
      /\ MlClk(MlWrite(m), soft_rst, Engines)
      /\ MatClk(soft_rst, MatGoWire, mlmat, Ports)
      /\ DmaClk(soft_rst, DmaStart, Wires, mlstrip.start, StripWires, ar, r, aw, w, b)
      /\ StripBufClk(mlstrip.clear, StripWe(r), strip_bank_l, strip_waddr, raddr, strip_done)
      /\ ModeClk
      /\ done_latch' = (ctrl.start /\ (done_latch \/ m = "exit"))
      /\ SlaveClk(ar, r, aw, w, b)
      /\ kicked' = IF GoTaken(MlWrite(m), soft_rst) THEN NextJob ELSE kicked
      /\ bus_erred' = IF GoTaken(MlWrite(m), soft_rst) THEN FALSE
                      ELSE bus_erred \/ (job.busy /\ BusErr(r, b))
  BY DEF Clock
<1>3. soft_rst = FALSE /\ host \in {"enable", "start", "tail", "watch"} /\ bowed \in BOOLEAN
      /\ DmaTypes /\ MlTypes
  BY <1>1 DEF Types, TopTypes, FirmwareInv
<1>4. /\ h \in {"stall", "enable", "start", "tail", "stop"}
      /\ host' \in {"enable", "start", "tail", "watch"}
      /\ h = "stop" => Finished
  <2>1. h = "stop" => Finished
    BY <1>2, HostStep
  <2> QED BY <2>1, <1>2, <1>3, CalmHost
<1>5. Answers(ar, r, aw, w, b)
  BY <1>3, Chosen
<1>6. DmaTypes' /\ Wire' /\ MatTypes' /\ Surroundings(r, b) /\ mode_write' \in BOOLEAN
  BY <1>1, <1>2, <1>5, EngineStep
<1>7. MlClk(MlWrite(m), FALSE, Engines)
  BY <1>2, <1>3
<1>8. FwSeen(m) /\ cfg' \in CfgType /\ fw' \in FwStates
  <2>1. CsrCfg(MlWrite(m))
    BY <1>7 DEF MlClk
  <2> QED BY <2>1, <1>1, <1>2, FirmwareStep
<1>9. TopTypes' /\ FirmwareInv'
  BY <1>1, <1>2, <1>4, <1>6, TopStep
<1>10. EngineFlags
  BY <1>1 DEF EngineFlags, Types, MatTypes, DmaTypes, FlagTypes, ChainTypes, TopTypes
<1>11. /\ MlRegTypes' /\ MlOutTypes'
       /\ IF GoTaken(MlWrite(m), FALSE) THEN StartKind ELSE AnyKind
  <2>1. CASE GoTaken(MlWrite(m), FALSE)
    <3>1. ~job.err
      BY <2>1, <1>8 DEF FwSeen
    <3> QED BY <2>1, <3>1, <1>1, <1>3, <1>7, GoStep
  <2>2. CASE ~GoTaken(MlWrite(m), FALSE)
    BY <2>2, <1>1, <1>3, <1>7, <1>10, PlainStep
  <2> QED BY <2>1, <2>2
<1>12. Types'
  BY <1>6, <1>8, <1>9, <1>11 DEF Types, MlTypes
<1>13. Flags /\ Flags'
  <2>1. Types' => Flags'
    BY Flagged, PTL
  <2> QED BY <2>1, <1>1, <1>12, Flagged
<1>14. Around(m, r, b)
  BY <1>1, <1>6, <1>8, <1>13 DEF Around, Control, Wire
<1>15. bus_erred' <=> ~GoTaken(MlWrite(m), FALSE)
                      /\ (bus_erred \/ (job.busy /\ BusErr(r, b)))
  <2>1. bus_erred' = IF GoTaken(MlWrite(m), FALSE) THEN FALSE
                     ELSE bus_erred \/ (job.busy /\ BusErr(r, b))
    BY <1>2, <1>3
  <2> QED BY <2>1, Zenon
<1>16. Control'
  BY <1>11, <1>14, <1>15, ControlStep
<1> QED BY <1>6, <1>9, <1>12, <1>16 DEF Core, Control

LEMMA NextInv ==
    ASSUME SInv, [Next]_vars PROVE SInv'
<1>1. CASE Next
  <2>1. PICK h \in HostMoves, m \in FwMoves :
            \E ar \in Late("ar"), r \in RChoices, aw \in Late("aw"), w \in Late("w"),
               b \in BChoices : Clock(h, m, ar, r, aw, w, b)
    BY <1>1 DEF Next
  <2>2. PICK ar \in Late("ar"), r \in RChoices, aw \in Late("aw"), w \in Late("w"),
             b \in BChoices : Clock(h, m, ar, r, aw, w, b)
    BY <2>1
  <2>3. Bounds /\ Host(h)
    BY <2>2 DEF SInv, Clock
  <2>4. /\ Bounds'
        /\ Calm' => Calm /\ h # "soft" /\ (h = "stop" => Program = "job")
    BY <2>3, HostStep
  <2> SUFFICES ASSUME Calm' PROVE Core'
    BY <2>4 DEF SInv
  <2>5. Core
    BY <2>4 DEF SInv
  <2> QED BY <2>2, <2>3, <2>4, <2>5, ClockInv
<1>2. CASE UNCHANGED vars
  <2>1. /\ UNCHANGED <<dmaVars, matVars, mlVars, stripBufVars, regVars, slaveVars>>
        /\ UNCHANGED topVars
    BY <1>2 DEF vars
  <2> USE <2>1 DEF dmaVars, flags, archan, wchans, xfer, beats, sflags, sxfer, sends, matVars,
                   mlVars, stripBufVars, regVars, slaveVars, topVars
  <2>2. Bounds' = Bounds /\ Calm' = Calm
    BY DEF Bounds, Calm
  <2>3. MlTypes' = MlTypes /\ MatTypes' = MatTypes
    BY DEF MlTypes, MlRegTypes, MlOutTypes, MatTypes
  <2>4. DmaTypes' = DmaTypes
    BY DEF DmaTypes, FlagTypes, MoveTypes, ChainTypes, SlaveTypes
  <2>5. TopTypes' = TopTypes
    BY DEF TopTypes
  <2>6. Handshake' = Handshake
    BY DEF Handshake
  <2>7. Bursts' = Bursts
    BY DEF Bursts, Aligned, Sized, WordsInBurst, ThisBurst, Dist4k, Step
  <2>8. StripRoom' = StripRoom
    BY DEF StripRoom, StripThisBurst, StripThisBytes
  <2>9. FirmwareInv' = FirmwareInv /\ TurnInv' = TurnInv /\ PrefetchInv' = PrefetchInv
    BY DEF FirmwareInv, TurnInv, StripKickIllegal, PrefetchInv
  <2>10. PulseInv' = PulseInv
    BY DEF PulseInv
  <2>11. EngineInv' = EngineInv
    BY DEF EngineInv
  <2>12. BankInv' = BankInv /\ FaultInv' = FaultInv
    BY DEF BankInv, FaultInv
  <2> QED BY <2>2, <2>3, <2>4, <2>5, <2>6, <2>7, <2>8, <2>9, <2>10, <2>11, <2>12
          DEF SInv, Core, Types, Wire
<1> QED BY <1>1, <1>2

\* The state of the NPU, its firmware and its host until the host resets the NPU
\* or restarts it after an error.
THEOREM StripInvariant == Spec => []SInv
<1>1. Init => SInv
  BY InitInv
<1>2. SInv /\ [Next]_vars => SInv'
  BY NextInv
<1> QED BY <1>1, <1>2, PTL DEF Spec

-----------------------------------------------------------------------------
(* What follows from it.                                                    *)

LEMMA CoreTypes ==
    ASSUME Bounds, Core PROVE TypeOK
<1>1. job \in JobType /\ ml_st \in MlStates /\ MatTypes /\ DmaTypes /\ TopTypes
  BY DEF Core, Types, MlTypes, MlRegTypes
<1>2. /\ job.bank \in {0, 1} /\ job.sub \in 0 .. SubTiles - 1
      /\ {job.tile, job.strip, job.chunk, job.wbase} \subseteq Nat
      /\ {job.busy, job.done, job.err} \subseteq BOOLEAN
  BY <1>1 DEF JobType
<1>3. /\ mat_st \in MatStates /\ {rep_i, el_iss, el_pack} \subseteq Nat
      /\ {mat_done, mat_err} \subseteq BOOLEAN
  BY <1>1 DEF MatTypes
<1>4. /\ dma_st \in DmaStates /\ {rleft, wleft, errs} \subseteq Nat
      /\ {busy, done, err, strip_busy, strip_done, strip_err} \subseteq BOOLEAN
  BY <1>1 DEF DmaTypes, FlagTypes, ChainTypes, SlaveTypes
<1>5. /\ cq.head \in 0 .. Len(Jobs) /\ cq.tail \in {0, Len(Jobs)} /\ kicked \in 0 .. Len(Jobs)
      /\ bank_valid \subseteq {0, 1}
      /\ {soft_rst, mode_write, done_latch, bowed, bus_erred} \subseteq BOOLEAN
  BY <1>1 DEF TopTypes
<1>6. {softs, acks} \subseteq Nat
  BY StripAssumption DEF Bounds
<1> QED BY <1>1, <1>2, <1>3, <1>4, <1>5, <1>6 DEF TypeOK

\* The fill of the other bank has room for every beat that is still to come.
LEMMA CoreBanks ==
    ASSUME Core PROVE NoBankCollision
<1> SUFFICES ASSUME dma_st = "STRIP_R", ~strip_error_seen
             PROVE  /\ ~(BReads /\ StripActive /\ strip_bank_l = job.bank)
                    /\ ~(strip_waddr + BeatBytes > StripMax)
                    /\ strip_waddr % BeatBytes = 0
  BY DEF NoBankCollision, BankCollision, WriteOutOfStrip, UnalignedWrite, Core, Types, DmaTypes,
     SlaveTypes
<1>1. BReads /\ StripActive => mat_st # "IDLE" /\ job.busy
  BY DEF BReads, StripActive, MlActive
<1>2. ~(BReads /\ StripActive /\ strip_bank_l = job.bank)
  BY <1>1 DEF Core, BankInv, StripChain
<1>3. /\ strip_waddr \in Nat /\ rleft \in Nat /\ strip_remaining \in Nat /\ strip_in_burst \in Nat
      /\ BeatBytes \in Nat /\ StripMax \in Nat
  BY ParamsAssumption, StepValue DEF Core, Types, DmaTypes, ChainTypes, SlaveTypes
<1>4. /\ rleft > 0 /\ strip_in_burst <= strip_remaining /\ strip_waddr % BeatBytes = 0
      /\ strip_waddr + BeatBytes * rleft + (strip_remaining - strip_in_burst) <= StripMax
  BY DEF Core, Wire, StripRoom
<1>5. BeatBytes * rleft \in Nat /\ BeatBytes * rleft >= BeatBytes
  BY <1>3, <1>4, LessOne
<1> QED BY <1>2, <1>3, <1>4, <1>5

\* Type correctness of the NPU, its firmware and its host, until the host resets
\* the NPU or restarts it after an error: every register of npu_top stays in its
\* range, and the counters of the GEMM loop never run past their loop.
THEOREM StripTypes == Spec => [](Calm => TypeOK)
<1>1. SInv => (Calm => TypeOK)
  BY CoreTypes DEF SInv
<1> QED BY <1>1, StripInvariant, PTL

\* No command is lost: whenever sequencer or firmware pulses an engine
\* (npu_ml_ctrl.v, npu_axil_regs.v), the engine is idle and takes it, and read,
\* write and prefetch are never commanded in the same cycle.
THEOREM PulsesArrive == Spec => [](Calm => NoLostPulse)
<1>1. SInv => (Calm => NoLostPulse)
  BY Owned DEF SInv, Core, NoLostPulse
<1> QED BY <1>1, StripInvariant, PTL

\* Compute and prefetch stay apart: the $fatal checks of npu_strip_buf.v cannot
\* fire, whatever the length of the strips and the delays of the bus.
THEOREM BanksApart == Spec => [](Calm => NoBankCollision)
<1>1. SInv => (Calm => NoBankCollision)
  BY CoreBanks DEF SInv
<1> QED BY <1>1, StripInvariant, PTL

\* A job that met a bus error, in a load, a store or a prefetch, is never
\* reported done: the error stays visible until the sequencer has looked at it.
THEOREM FaultsReported == Spec => [](Calm => NoSilentFault)
<1>1. SInv => (Calm => NoSilentFault)
  BY DEF SInv, Core, FaultInv, NoSilentFault
<1> QED BY <1>1, StripInvariant, PTL
=============================================================================
