------------------------------ MODULE NpuFabric ------------------------------
(***************************************************************************)
(* The host's way into the NPU and into shared memory, with the DMA engine  *)
(* as its rival: the host's bus bridge (axil_bridge.v), the write and read  *)
(* channels of the CSR block, the hard reset of npu_top.v, the DMA engine,  *)
(* the bridge axil_to_full.v, and the arbiter and SRAM of AxiFabric.        *)
(*                                                                         *)
(* The build is that of soc_m3v_top: no ML controller, so the CSR path owns *)
(* the engines and every transfer is narrow.  The core runs one read and    *)
(* one write-back after the other and may refuse what it has read; it may   *)
(* stall for any number of cycles between two accesses, and so may the host.*)
(***************************************************************************)
EXTENDS NpuDma, NpuAxilRegs, AxiFabric

CONSTANTS
    Accesses,          \* what the host may ask for: reads and writes of words of
                       \* shared memory and of registers
    ReadJob, WriteJob, \* DMA_SRC/DST/LEN and WB_SRC/DST/LEN of the core
    TcmWords           \* words of the local memory

VARIABLES
    host,        \* the bridge's data side: [st, acc, aw, w] (aw_done, w_done)
    csr,         \* AXI-Lite channels of the CSR block: aw_seen, w_seen, b and rvalid
    route,       \* [w, r]: w_busy and r_busy of npu_top's decoder
    hard,        \* [pending, cnt]: hard_pending, hard_rst_cnt
    mode_write,  \* dma_mode_write_l
    core,        \* the core's next access
    tcm,         \* its local memory
    hostval,     \* history: what the host last wrote, per word
    owed         \* history: a soft reset has been asked for and not been
                 \* followed by an acknowledgement or a hard reset

topVars == <<host, csr, route, hard, mode_write, core, tcm, hostval, owed>>
vars == <<dmaVars, regVars, fabricVars, topVars>>

HostWords == {a.word : a \in {x \in Accesses : x.to = "mem" /\ x.write}}
NoAccess  == [to |-> "none", write |-> FALSE, word |-> 0, val |-> 0, op |-> ""]

JobType    == [src : Nat, dst : Nat, len : Nat]
AccessType == [to : {"csr", "mem"}, write : BOOLEAN, word : 0 .. Words - 1,
               val : Nat, op : STRING]

ASSUME AccessAssumption == Accesses \subseteq AccessType

\* The words of shared memory that the two jobs read and write.  Both jobs lie inside
\* the memories, and the host keeps its own words apart from both.
ReadWords  == {(ReadJob.src \div 4) + i : i \in 0 .. ReadJob.len - 1}
WriteWords == {(WriteJob.dst \div 4) + i : i \in 0 .. WriteJob.len - 1}

ASSUME JobAssumption ==
    /\ TcmWords \in Nat /\ {ReadJob, WriteJob} \subseteq JobType
    /\ ReadJob.dst + ReadJob.len <= TcmWords /\ WriteJob.src + WriteJob.len <= TcmWords
    /\ (ReadJob.src \div 4) + ReadJob.len <= Words /\ (WriteJob.dst \div 4) + WriteJob.len <= Words
    /\ ReadWords \cap WriteWords = {} /\ (ReadWords \cup WriteWords) \cap HostWords = {}

Init ==
    /\ DmaInit /\ RegsInit /\ FabricInit
    /\ host = [st |-> "IDLE", acc |-> NoAccess, aw |-> FALSE, w |-> FALSE]
    /\ csr = [aw |-> FALSE, w |-> FALSE, b |-> FALSE, r |-> FALSE]
    /\ route = [w |-> FALSE, r |-> FALSE]
    /\ hard = [pending |-> FALSE, cnt |-> 0]
    /\ mode_write = FALSE /\ core = "off"
    /\ tcm = [i \in 0 .. TcmWords - 1 |-> -1]
    /\ hostval = [w \in HostWords |-> w] /\ owed = FALSE

-----------------------------------------------------------------------------
(* hard reset (ADR-0047): drain, freeze the host port, reset the registers. *)
HardQuiet == ~busy /\ ~strip_busy
Freeze == (hard.pending /\ HardQuiet) \/ hard.cnt # 0
DomainReset == hard.cnt # 0

\* Mutant: the pulse does not wait for the engines.
HardFiresEager == hard.pending /\ ~route.w /\ ~route.r
HardFires == hard.pending /\ HardQuiet /\ ~route.w /\ ~route.r

\* Mutant: the request is kept only when there is something to drain.
HardPendingBusy == hard.pending \/ (hard_req /\ ~HardQuiet)
HardPending == hard.pending \/ hard_req

HardClk ==
    hard' = IF hard.cnt # 0 THEN [pending |-> HardPending, cnt |-> hard.cnt - 1]
            ELSE IF HardFires THEN [pending |-> FALSE, cnt |-> 2]
            ELSE [pending |-> HardPending, cnt |-> 0]

-----------------------------------------------------------------------------
(* The wires between the host's bridge and its targets.                     *)
To(t) == host.acc.to = t
HostAr == host.st = "AR"
HostAw == host.st = "AW" /\ ~host.aw
HostW  == host.st = "AW" /\ ~host.w

\* axil_to_full: one beat of one word, on the lane of its address.
HostRead == [valid |-> HostAr /\ To("mem"), narrow |-> TRUE, beats |-> 1,
             word |-> host.acc.word]
HostWrite == [HostRead EXCEPT !.valid = HostAw /\ To("mem")]
HostLane  == HostRead.word % WPB
HostData  == [valid |-> HostW /\ To("mem"), last |-> TRUE,
              lanes |-> [j \in {HostLane} |-> host.acc.val]]

\* The DMA's channels; a narrow beat uses the lane of the burst's first word.
Word(a) == (a \div 4) % Words
DmaRq   == [valid |-> arvalid, word |-> Word(araddr), beats |-> arbeats, narrow |-> narrow_l]
DmaWq   == [valid |-> awvalid, word |-> Word(awaddr), beats |-> awbeats, narrow |-> narrow_l]
DmaLane == (cur_addr \div 4) % WPB
DmaLanes == IF narrow_l THEN {DmaLane} ELSE 0 .. WPB - 1
DmaData == [valid |-> wvalid, last |-> MWlast,
            lanes |-> IF wvalid THEN [j \in DmaLanes |-> tcm[buf_raddr + IF narrow_l THEN 0 ELSE j]]
                                ELSE <<>>]
RBeat   == [valid |-> RValid("M1"), last |-> RValid("M1") /\ RLast, err |-> FALSE]
BResp   == [valid |-> BValid("M1"), err |-> FALSE]

\* npu_top masks new requests while it is frozen, never an access in flight.
ArReady == IF To("mem") THEN ArReady0(DmaRq) ELSE ~Freeze /\ ~csr.r
AwReady == IF To("mem") THEN AwReady0(DmaWq) ELSE ~Freeze /\ ~csr.aw /\ ~csr.b
WOk     == ~Freeze \/ route.w
WRdy    == IF To("mem") THEN WReady("M0")
           ELSE WOk /\ (route.w \/ HostAw) /\ ~csr.w /\ ~csr.b
RVal    == IF To("mem") THEN RValid("M0") ELSE csr.r
BVal    == IF To("mem") THEN BValid("M0") ELSE csr.b

ArHs == HostAr /\ ArReady
RHs  == host.st = "R" /\ RVal
AwHs == HostAw /\ AwReady
WHs  == HostW /\ WRdy
BHs  == host.st = "AW" /\ BVal
Done == RHs \/ (BHs /\ (host.aw \/ AwHs) /\ (host.w \/ WHs))

\* The native bus of the host core: any access, at any time, one after the other.
HostMoves == IF host.st = "IDLE" THEN Accesses \cup {NoAccess} ELSE {NoAccess}

HostClk(a) ==
    host' =
        IF host.st = "IDLE"
        THEN IF a = NoAccess THEN host
             ELSE [st |-> IF a.write THEN "AW" ELSE "AR", acc |-> a, aw |-> FALSE, w |-> FALSE]
        ELSE IF Done THEN [st |-> "IDLE", acc |-> NoAccess, aw |-> FALSE, w |-> FALSE]
        ELSE [host EXCEPT !.st = IF ArHs THEN "R" ELSE @, !.aw = @ \/ AwHs, !.w = @ \/ WHs]

\* Mutant: the read route outlives the read.
RouteLate ==
    route' = [w |-> (route.w \/ (AwHs /\ To("csr"))) /\ ~(BHs /\ To("csr")),
              r |-> ArHs \/ (route.r /\ ~RHs)]

RouteClk ==
    route' = [w |-> (route.w \/ (AwHs /\ To("csr"))) /\ ~(BHs /\ To("csr")),
              r |-> (route.r \/ (ArHs /\ To("csr"))) /\ ~(RHs /\ To("csr"))]

WrFire == csr.aw /\ csr.w /\ ~csr.b
CsrRValid == (ArHs /\ To("csr")) \/ (csr.r /\ ~RHs)
CsrClk ==
    csr' = [aw |-> (csr.aw \/ (AwHs /\ To("csr"))) /\ ~WrFire,
            w  |-> (csr.w \/ (WHs /\ To("csr"))) /\ ~WrFire,
            b  |-> (csr.b \/ WrFire) /\ ~(BHs /\ To("csr")),
            r  |-> CsrRValid]
CsrReset == csr' = [aw |-> FALSE, w |-> FALSE, b |-> FALSE, r |-> FALSE]

CsrWrite(op) ==
    CASE op = "enable"  -> [reg |-> "CQ_CTRL", val |-> TRUE]
      [] op = "disable" -> [reg |-> "CQ_CTRL", val |-> FALSE]
      [] OTHER          -> [reg |-> "CTRL",
                            val |-> [start |-> op = "start", irq_clear |-> FALSE, irq_en |-> FALSE,
                                     soft |-> op = "soft", hard |-> op = "hard"]]
Hw == IF WrFire THEN CsrWrite(host.acc.op) ELSE NoWrite

-----------------------------------------------------------------------------
(* The core: dma_read, dma_writeback and cq_halt of cq_sequencer.c.         *)
CoreWrite(m) ==
    CASE m = "rdesc" -> [reg |-> "DMA_DESC", val |-> ReadJob]
      [] m = "rgo"   -> [reg |-> "DMA_GO", val |-> 1]
      [] m = "wdesc" -> [reg |-> "WB_DESC", val |-> WriteJob]
      [] m = "wgo"   -> [reg |-> "WB_GO", val |-> 1]
      [] m = "fault" -> [reg |-> "ERR_CAUSE", val |-> 2]
      [] OTHER       -> NoWrite

CoreNext(m) ==
    CASE m = "off"   -> {"rdesc"}
      [] m = "rdesc" -> {"rgo"}
      [] m = "rgo"   -> {"rret"}        \* the return from the GO store
      [] m = "rret"  -> {"rwait"}
      [] m = "rwait" -> IF done /\ ~mode_write THEN {"wdesc", "fault"} ELSE {"rwait"}
      [] m = "wdesc" -> {"wgo"}
      [] m = "wgo"   -> {"wret"}
      [] m = "wret"  -> {"wwait"}
      [] m = "wwait" -> IF done /\ mode_write THEN {"rdesc"} ELSE {"wwait"}
      [] m = "fault" -> {"halt"}
      [] OTHER       -> {m}             \* "halt", or a stall

CoreMoves == IF ~ctrl.start THEN {"reset"}
             ELSE IF core \in {"rwait", "wwait", "halt"} THEN {core} ELSE {core, "stall"}
CoreClk(m) == core' \in CASE m = "reset" -> {"off"}
                          [] m = "stall" -> {core}
                          [] OTHER       -> CoreNext(m)

-----------------------------------------------------------------------------
(* DMA engine and local memory in npu_top.                                  *)
StartWrite == wb_go /\ ~dma_go
DmaStart   == dma_go \/ wb_go
DmaDesc ==
    [write |-> StartWrite, narrow |-> TRUE,
     src  |-> IF StartWrite THEN wb_desc.dst ELSE dma_desc.src,
     word |-> IF StartWrite THEN wb_desc.src ELSE dma_desc.dst,
     len  |-> IF StartWrite THEN wb_desc.len ELSE dma_desc.len]
NoStrip == [addr |-> 0, bytes |-> 0, bank |-> 0]

EngineClk ==
    /\ IF DomainReset THEN DmaReset
       ELSE DmaClk(soft_rst, DmaStart, DmaDesc, FALSE, NoStrip,
                   ArReady1(DmaRq), RBeat, AwReady1(DmaWq), WReady("M1"), BResp)
    /\ mode_write' = IF ~busy /\ DmaStart THEN StartWrite ELSE mode_write
    /\ tcm' = IF BufWe(RBeat) THEN [tcm EXCEPT ![buf_addr] = rdata[DmaLane]] ELSE tcm

CsrBlockClk(m) ==
    IF DomainReset THEN RegsReset /\ CsrReset
    ELSE /\ CsrClk
         /\ RegsCoreClk(Hw, CoreWrite(m), ~busy)
         /\ UNCHANGED <<irq_pending, edge>>   \* the interrupt only listens

MemoryClk ==
    /\ ReadClk(HostRead, DmaRq, host.st = "R", MRready)
    /\ WriteClk(HostWrite, DmaWq, HostData, DmaData, host.st = "AW", dma_st = "B")

Acknowledged == Ack(Hw) /\ ~DomainReset
History ==
    /\ hostval' = IF host.st = "AW" /\ To("mem") /\ WHs
                  THEN [hostval EXCEPT ![host.acc.word] = host.acc.val] ELSE hostval
    /\ owed' = IF DomainReset \/ HardWrite(Hw) \/ Acknowledged THEN FALSE
               ELSE owed \/ (SoftWrite(Hw) /\ ~hard_q)

(* One clock edge. *)
Clock(a, m) ==
    /\ HostClk(a) /\ RouteClk /\ CsrBlockClk(m) /\ CoreClk(m)
    /\ HardClk /\ EngineClk /\ MemoryClk /\ History

Next == \E a \in HostMoves, m \in CoreMoves : Clock(a, m)

\* The clock never stops; nothing is assumed of the host or of the core.
Spec == Init /\ [][Next]_vars /\ WF_vars(Next)
-----------------------------------------------------------------------------
\* Type invariant.
TypeOK ==
    /\ dma_st \in DmaStates /\ remaining \in 0 .. ReadJob.len + WriteJob.len
    /\ rgrant \in {"IDLE", "M0", "M1"} /\ wgrant \in {"IDLE", "M0", "M1"}
    /\ rptr \in 0 .. Words - 1 /\ wptr \in 0 .. Words - 1
    /\ rbeats_left \in 0 .. MaxBeats /\ DOMAIN rdata = 0 .. WPB - 1
    /\ host.st \in {"IDLE", "AR", "R", "AW"} /\ host.acc \in Accesses \cup {NoAccess}
    /\ hard.cnt \in 0 .. 2 /\ hard.pending \in BOOLEAN
    /\ route.w => To("csr") /\ host.acc.write
    /\ route.r => To("csr") /\ ~host.acc.write

\* A grant always has its master behind it, waiting for what the SRAM still
\* owes: neither a soft nor a hard reset cuts a burst, and no answer is left
\* over for the next master.
BurstsUncut ==
    /\ rgrant = "M1" <=> dma_st = "R"
    /\ rgrant = "M1" => rstate = "DATA" /\ rbeats_left \in 1 .. beats_in_burst
    /\ rgrant = "M0" <=> host.st = "R" /\ To("mem")
    /\ wgrant = "M1" <=> dma_st \in {"W", "B"}
    /\ wgrant = "M1" => (wstate = "DATA" <=> dma_st = "W")
    /\ wgrant = "M0" <=> host.st = "AW" /\ To("mem") /\ host.aw
    /\ rgrant = "IDLE" <=> rstate = "IDLE"
    /\ wgrant = "IDLE" <=> wstate = "IDLE"

\* Every word of shared memory is what its owner last wrote into it, every word
\* read into the local memory is the one its address names, and the host is
\* answered with the word it asked for: lanes, strides and strobes of the four
\* blocks on the way fit together, for transfers that start inside a beat.
Stored(w) ==
    IF w \in HostWords THEN {hostval[w]}
    ELSE IF w - Word(WriteJob.dst) \in 0 .. WriteJob.len - 1
    THEN {w, tcm[WriteJob.src + w - Word(WriteJob.dst)]}
    ELSE {w}
WordsInPlace ==
    /\ \A w \in 0 .. Words - 1 : mem[w] \in Stored(w)
    /\ \A i \in 0 .. TcmWords - 1 :
          tcm[i] \in {-1} \cup IF i - ReadJob.dst \in 0 .. ReadJob.len - 1
                               THEN {Word(ReadJob.src) + i - ReadJob.dst} ELSE {}
    /\ RValid("M0") => rdata[HostLane] \in Stored(host.acc.word)
    /\ done /\ mode_write =>
          \A i \in 0 .. WriteJob.len - 1 :
              mem[Word(WriteJob.dst) + i] = tcm[WriteJob.src + i]

\* Fault evidence outlives a soft reset: once the abort is over it is there to
\* be read until it is acknowledged, the first cause is kept, and an
\* acknowledgement is never undone by an abort that ends in the same cycle.
EvidenceKept ==
    [][/\ owed' /\ ~soft_rst' => cq'.err /\ err_cause' # NoCause
       /\ err_cause # NoCause /\ err_cause' # err_cause => Acknowledged \/ DomainReset
       /\ Acknowledged /\ core # "fault" => ~cq'.err /\ err_cause' = NoCause]_vars

\* Every access of the host ends, whatever the DMA engine does on the shared
\* memory and whenever a reset falls.
AccessEnds == host.st # "IDLE" ~> host.st = "IDLE"

\* A hard reset completes, however often the host polls.
HardResetEnds == hard_q ~> ~hard_q
=============================================================================
