------------------------------ MODULE NpuDmaBus ------------------------------
(***************************************************************************)
(* The DMA engine of NpuDma between its command drivers and an AXI slave.  *)
(*                                                                         *)
(* Every clock edge the environment chooses the command pulse, the abort   *)
(* level and the answers of the slave.  The slave is any AXI slave that    *)
(* owes, for an accepted read burst, exactly its number of beats with RLAST*)
(* on the last one, and one write response after WLAST; when it answers,   *)
(* and with which response, is open.                                       *)
(***************************************************************************)
EXTENDS NpuDma

CONSTANTS
    Descs,      \* descriptors that come with a go pulse
    StripCmds   \* commands that come with a strip_start pulse

ASSUME BusAssumption == Descs \subseteq DescType /\ StripCmds \subseteq StripType

VARIABLES
    abort,      \* abort_req of the CSR block
    rleft,      \* read beats the slave still owes
    wleft,      \* write beats the slave still expects
    bowed,      \* the slave owes a write response
    cmd,        \* history: the accepted transfer descriptor
    scmd,       \* history: the accepted strip command
    late_bursts \* history: bursts accepted by the slave since abort rose

busVars == <<abort, rleft, wleft, bowed, cmd, scmd, late_bursts>>
vars == <<dmaVars, busVars>>

(* The command wires: no pulse, a transfer (dma_go or wb_go), or a strip start.
   npu_top never raises both kinds in one cycle. *)
NoKick    == [go |-> FALSE, d |-> cmd, ss |-> FALSE, c |-> scmd]
GoKicks   == {[NoKick EXCEPT !.go = TRUE, !.d = d] : d \in Descs}
SsKicks   == {[NoKick EXCEPT !.ss = TRUE, !.c = c] : c \in StripCmds}
Kicks     == {NoKick} \cup GoKicks \cup SsKicks

RBeats   == [valid : BOOLEAN, last : BOOLEAN, err : BOOLEAN]
RChoices == {r \in RBeats :
                /\ r.valid => rleft > 0 /\ (rleft = 1 => r.last)
                /\ r.last => r.valid /\ rleft = 1
                /\ r.err => r.valid}
BResps   == [valid : BOOLEAN, err : BOOLEAN]
BChoices == {b \in BResps : (b.valid => bowed) /\ (b.err => b.valid)}

BusInit ==
    /\ abort = FALSE
    /\ rleft = 0 /\ wleft = 0 /\ bowed = FALSE
    /\ cmd = [write |-> FALSE, narrow |-> FALSE, src |-> 0, word |-> 0, len |-> 0]
    /\ scmd = [addr |-> 0, bytes |-> 0, bank |-> 0]
    /\ late_bursts = 0

Init == DmaInit /\ BusInit

ArFire(ready) == arvalid /\ ready
AwFire(ready) == awvalid /\ ready
WFire(ready)  == wvalid /\ ready

(* What the slave and the history variables do on the same edge. *)
Slave(ready, r, b) ==
    /\ rleft' = IF ArFire(ready) THEN arbeats
                ELSE IF r.valid /\ MRready THEN rleft - 1 ELSE rleft
    /\ wleft' = IF AwFire(ready) THEN awbeats
                ELSE IF WFire(ready) THEN wleft - 1 ELSE wleft
    /\ bowed' = IF WFire(ready) /\ MWlast THEN TRUE
                ELSE bowed /\ ~(b.valid /\ dma_st = "B")

History(k, ready) ==
    /\ cmd'  = IF k.go /\ dma_st = "IDLE" /\ ~abort THEN k.d ELSE cmd
    /\ scmd' = IF k.ss /\ dma_st = "IDLE" /\ ~abort THEN k.c ELSE scmd
    /\ late_bursts' = IF ~abort THEN 0
                      ELSE IF ArFire(ready) \/ AwFire(ready) THEN late_bursts + 1
                      ELSE late_bursts

(* The CSR block keeps abort up at least until the engine is not busy. *)
AbortLevel == abort' \in IF abort /\ busy THEN {TRUE} ELSE BOOLEAN

Clock(k, ready, r, b) ==
    /\ DmaClk(abort, k.go, k.d, k.ss, k.c, ready, r, ready, ready, b)
    /\ Slave(ready, r, b) /\ History(k, ready)
    /\ AbortLevel

Next == \E k \in Kicks, ready \in BOOLEAN, r \in RChoices, b \in BChoices :
            Clock(k, ready, r, b)

(* A cycle in which the slave accepts what is offered and answers what it
   owes.  Every slave on the NPU's AXI port (arbiter, SRAM) does so again and
   again; nothing is assumed about the command pulses or about abort. *)
Responsive == \E k \in Kicks, r \in RChoices, b \in BChoices :
                 /\ r.valid = (rleft > 0) /\ b.valid = bowed
                 /\ Clock(k, TRUE, r, b)

Spec == Init /\ [][Next]_vars /\ WF_vars(Responsive)
-----------------------------------------------------------------------------
Base == (cmd.src \div 4) * 4     \* first byte of the accepted transfer

ControlTypes ==
    /\ dma_st \in DmaStates
    /\ busy \in BOOLEAN /\ done \in BOOLEAN /\ err \in BOOLEAN
    /\ arvalid \in BOOLEAN /\ awvalid \in BOOLEAN /\ wvalid \in BOOLEAN
    /\ done_ok \in BOOLEAN /\ narrow_l \in BOOLEAN
TransferTypes ==
    /\ araddr \in Nat /\ arbeats \in Nat /\ awaddr \in Nat /\ awbeats \in Nat
    /\ cur_addr \in Nat /\ remaining \in Nat /\ buf_addr \in Nat /\ buf_raddr \in Nat
    /\ beats_in_burst \in Nat /\ beats_done \in Nat
StripTypes ==
    /\ strip_busy \in BOOLEAN /\ strip_done \in BOOLEAN /\ strip_err \in BOOLEAN
    /\ strip_error_seen \in BOOLEAN /\ strip_done_ok \in BOOLEAN
    /\ strip_waddr \in Nat /\ strip_bank_l \in {0, 1} /\ strip_cur_addr \in Nat
    /\ strip_remaining \in Nat /\ strip_in_burst \in Nat
BusTypes ==
    /\ abort \in BOOLEAN /\ bowed \in BOOLEAN
    /\ rleft \in Nat /\ wleft \in Nat /\ late_bursts \in Nat
    /\ cmd \in DescType /\ scmd \in StripType

\* Type invariant of the engine's registers and of the slave.
TypeOK == ControlTypes /\ TransferTypes /\ StripTypes /\ BusTypes

\* Every burst on the bus is a legal AXI burst (1..MaxBeats beats, inside one
\* page) and stays inside the buffer of the command it belongs to
\* (dist4k, cap256 and the strip chain's aligned chunks, npu_dma.v:199-229).
BurstLegal ==
    /\ arvalid =>
        LET size == IF dma_st = "AR" THEN 4 * Step ELSE BeatBytes
            end  == araddr + arbeats * size
        IN  /\ arbeats \in 1..MaxBeats
            /\ (araddr % PageBytes) + arbeats * size <= PageBytes
            /\ dma_st = "AR" => araddr >= Base /\ end <= Base + 4 * cmd.len
            /\ dma_st # "AR" => araddr >= scmd.addr /\ end <= scmd.addr + scmd.bytes
    /\ awvalid =>
        /\ awbeats \in 1..MaxBeats
        /\ (awaddr % PageBytes) + awbeats * 4 * Step <= PageBytes
        /\ awaddr >= Base /\ awaddr + awbeats * 4 * Step <= Base + 4 * cmd.len

\* While a read burst is answered, the beat the slave sends next goes to the
\* local word at the same distance from the start of the buffer as the beat's
\* shared-memory address: no word is skipped, repeated or displaced, whatever
\* the burst split (buf_addr against cur_addr, npu_dma.v:300-314).
ReadLandsInPlace ==
    dma_st = "R" =>
        /\ rleft \in 1..beats_in_burst
        /\ 4 * (buf_addr - cmd.word) =
              (cur_addr - Base) + 4 * Step * (beats_in_burst - rleft)
        /\ 4 * (cmd.len - remaining) = cur_addr - Base

\* The same for the write direction, and WLAST falls on the last beat the slave
\* expects and on no other (buf_raddr, beats_done and m_wlast, npu_dma.v:328-338).
WriteTakesInPlace ==
    dma_st = "W" =>
        /\ 4 * (buf_raddr - cmd.word) = (cur_addr - Base) + 4 * Step * beats_done
        /\ 4 * (cmd.len - remaining) = cur_addr - Base
        /\ wleft = beats_in_burst - beats_done
        /\ MWlast = (wvalid /\ wleft = 1)

\* A strip beat is written at its own offset of the strip, inside the strip and
\* so inside the bank: the out-of-strip $fatal of npu_strip_buf.v cannot fire.
\* The chain always uses full-width beats, although ARSIZE is taken from
\* narrow_l (m_arsize, npu_dma.v:183): no narrow transfer leaves it set.
StripInPlace ==
    dma_st = "STRIP_R" =>
        /\ ~narrow_l
        /\ ~strip_error_seen =>
            /\ strip_waddr = (strip_cur_addr - scmd.addr)
                             + BeatBytes * (beats_in_burst - rleft)
            /\ strip_waddr + BeatBytes <= scmd.bytes
            /\ scmd.bytes <= StripMax
        /\ strip_bank_l = scmd.bank

\* done without err: every word of the descriptor has been moved, so wait_done
\* of the firmware may use the data.
DoneMeansWhole ==
    (done /\ ~err) =>
        /\ remaining = 0
        /\ cur_addr = Base + 4 * cmd.len
        /\ cmd.write => buf_raddr = cmd.word + cmd.len
        /\ ~cmd.write => buf_addr = cmd.word + cmd.len

\* The strip_done pulse, which makes npu_strip_buf mark the bank valid, means
\* that the whole strip was written without a bus error.
StripDoneMeansWhole ==
    strip_done => ~strip_err /\ strip_waddr = scmd.bytes /\ strip_remaining = 0

\* While abort is up at most the burst that was already on the bus is accepted
\* (ADR-0038: the engine finishes the current AXI burst, then idles).
OneBurstAfterAbort == late_bursts <= 1

\* An address, once offered, stays offered unchanged until the slave takes it,
\* abort or not (the AXI rule the !m_arvalid and !m_awvalid guards protect).
Held ==
    /\ arvalid => \/ arvalid' /\ UNCHANGED <<araddr, arbeats>>
                  \/ rleft' = arbeats /\ ~arvalid'
    /\ awvalid => \/ awvalid' /\ UNCHANGED <<awaddr, awbeats>>
                  \/ wleft' = awbeats /\ ~awvalid'
AddressHolds == [][Held]_vars

\* Every accepted transfer and every strip prefetch ends, with an error or not,
\* aborted or not.
TransferEnds == busy ~> ~busy
StripEnds    == strip_busy ~> ~strip_busy

\* The engine implements the contract its users rely on.
Contract == INSTANCE DmaContract WITH
                active <- busy,
                len    <- cmd.len,
                moved  <- cmd.len - remaining
ImplementsContract == Contract!ContractSpec
=============================================================================
