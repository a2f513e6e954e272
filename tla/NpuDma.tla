------------------------------- MODULE NpuDma -------------------------------
(***************************************************************************)
(* Registers and clock step of the NPU's DMA engine (npu_dma.v).           *)
(*                                                                         *)
(* The engine is one state machine with three uses: it reads shared memory *)
(* into the local TCM, writes the TCM back to shared memory, and prefetches*)
(* one weight strip into a bank of the strip buffer.  Each use is a chain  *)
(* of AXI INCR bursts, one outstanding at a time.                          *)
(*                                                                         *)
(* DmaClk is one rising edge of the clock.  Its parameters are the input   *)
(* wires, so that the same step can be driven by a free environment        *)
(* (NpuDmaBus) and by the other blocks of the NPU (NpuStrip).              *)
(* Addresses of shared memory are byte addresses, local addresses and      *)
(* lengths are counted in 32-bit words, as in the RTL.                     *)
(***************************************************************************)
EXTENDS NpuParams

CONSTANT MaxBeats    \* longest AXI burst in beats (256)

\* The pointer registers are modelled as naturals: a transfer whose last local
\* word or shared byte lies beyond its address register is refused by the
\* firmware's bound checks before it gets here.
DescType  == [write : BOOLEAN, narrow : BOOLEAN, src : Nat, word : Nat, len : Nat]
StripType == [addr : Nat, bytes : Nat, bank : {0, 1}]

StripCap  == IF PageBytes <= MaxBeats * BeatBytes THEN PageBytes
                                                  ELSE MaxBeats * BeatBytes

\* The strip chain has no page arithmetic of its own: it relies on a page being
\* a whole number of full bursts (256 beats of 4, 8, 16 or 32 bytes and 4096).
ASSUME DmaAssumption == /\ MaxBeats \in Nat \ {0}
                        /\ PageBytes % StripCap = 0

VARIABLES
    dma_st,          \* state
    busy, done, err, \* done and err are sticky until the next accepted go
    arvalid, araddr, arbeats,           \* read address channel (arbeats = ARLEN + 1)
    awvalid, awaddr, awbeats, wvalid,   \* write address and data channels
    cur_addr, remaining,                \* next burst's byte address, words left
    buf_addr, buf_raddr,                \* local pointers of the two directions
    beats_in_burst, beats_done,
    done_ok, narrow_l,
    strip_busy, strip_done, strip_err,
    strip_waddr, strip_bank_l,
    strip_cur_addr, strip_remaining, strip_in_burst,
    strip_error_seen, strip_done_ok

flags  == <<busy, done, err>>
archan == <<arvalid, araddr, arbeats>>
wchans == <<awvalid, awaddr, awbeats, wvalid>>
xfer   == <<cur_addr, remaining, buf_addr, buf_raddr, done_ok, narrow_l>>
beats  == <<beats_in_burst, beats_done>>
sflags == <<strip_busy, strip_err>>
sxfer  == <<strip_waddr, strip_bank_l, strip_cur_addr, strip_remaining,
            strip_in_burst>>
sends  == <<strip_error_seen, strip_done_ok>>
dmaVars == <<dma_st, flags, archan, wchans, xfer, beats, sflags, strip_done,
             sxfer, sends>>

DmaStates == {"IDLE", "AR", "R", "AW", "W", "B", "DONE",
              "STRIP_AR", "STRIP_R", "STRIP_DONE"}

\* The data registers are not reset; each is written before it is read.
DmaInit ==
    /\ dma_st = "IDLE"
    /\ busy = FALSE /\ done = FALSE /\ err = FALSE
    /\ arvalid = FALSE /\ araddr = 0 /\ arbeats = 0
    /\ awvalid = FALSE /\ awaddr = 0 /\ awbeats = 0 /\ wvalid = FALSE
    /\ cur_addr = 0 /\ remaining = 0 /\ buf_addr = 0 /\ buf_raddr = 0
    /\ beats_in_burst = 0 /\ beats_done = 0
    /\ done_ok = FALSE /\ narrow_l = FALSE
    /\ strip_busy = FALSE /\ strip_done = FALSE /\ strip_err = FALSE
    /\ strip_waddr = 0 /\ strip_bank_l = 0
    /\ strip_cur_addr = 0 /\ strip_remaining = 0 /\ strip_in_burst = 0
    /\ strip_error_seen = FALSE /\ strip_done_ok = FALSE

-----------------------------------------------------------------------------
(* The size of the next burst: the distance to the page end, the longest   *)
(* AXI burst and the words left, whichever is least.                       *)
LesserOf(a, b) == IF a < b THEN a ELSE b

Step           == IF narrow_l THEN 1 ELSE WPB    \* words per beat (buf_step)
\* Mutant: the distance to the page end is that of a page start.
Dist4kWhole    == PageBytes \div (4 * Step)
Dist4k         == (PageBytes - (cur_addr % PageBytes)) \div (4 * Step)
\* Mutant: the burst may run past the end of the buffer.
ThisBurstLong  == LesserOf(Dist4k, MaxBeats)
ThisBurst      == LesserOf(Dist4k, LesserOf(MaxBeats, remaining \div Step))
WordsInBurst   == beats_in_burst * Step
StripThisBytes == LesserOf(StripCap, strip_remaining)
StripThisBurst == StripThisBytes \div BeatBytes

\* Mutant: the length of a wide transfer is not checked.
AlignErrNoLen(d) == /\ ~d.narrow /\ WPB # 1
                    /\ d.src % BeatBytes # 0 \/ d.word % WPB # 0

(* A wide transfer must start and end on beat boundaries on both sides. *)
AlignErr(d) == /\ ~d.narrow /\ WPB # 1
               /\ \/ d.src % BeatBytes # 0
                  \/ d.word % WPB # 0
                  \/ d.len % WPB # 0

\* Mutant: a strip may end inside a beat.
StripKickErrLoose(c) == c.addr % PageBytes # 0 \/ c.bytes = 0 \/ c.bytes > StripMax

StripKickErr(c) == \/ c.addr % PageBytes # 0
                   \/ c.bytes = 0 \/ c.bytes > StripMax
                   \/ c.bytes % BeatBytes # 0

(* Combinational outputs. *)
MRready     == dma_st \in {"R", "STRIP_R"}
\* Mutant: one beat too many.
FinalWBeatLate == beats_done = beats_in_burst
FinalWBeat  == beats_done = beats_in_burst - 1
MWlast      == wvalid /\ dma_st = "W" /\ FinalWBeat
BufWe(r)    == dma_st = "R" /\ r.valid
StripWe(r)  == dma_st = "STRIP_R" /\ r.valid /\ ~strip_error_seen /\ ~r.err
-----------------------------------------------------------------------------
(* S_IDLE.  abort beats go, go beats strip_start. *)
DmaIdleAbort(abort) ==
    /\ dma_st = "IDLE" /\ abort
    /\ done' = FALSE /\ err' = FALSE /\ narrow_l' = FALSE
    /\ strip_busy' = FALSE /\ strip_err' = FALSE /\ strip_done' = FALSE
    /\ strip_error_seen' = FALSE /\ strip_done_ok' = FALSE
    /\ UNCHANGED <<dma_st, busy, archan, wchans, cur_addr, remaining, buf_addr,
                   buf_raddr, done_ok, beats, sxfer>>

DmaIdleGo(abort, go, d) ==
    /\ dma_st = "IDLE" /\ ~abort /\ go
    /\ cur_addr' = (d.src \div 4) * 4
    /\ remaining' = d.len
    /\ buf_addr' = d.word /\ buf_raddr' = d.word
    /\ narrow_l' = d.narrow /\ done_ok' = TRUE
    /\ busy' = TRUE /\ done' = FALSE
    /\ err' = (d.len # 0 /\ AlignErr(d))
    /\ dma_st' = IF d.len = 0 \/ AlignErr(d) THEN "DONE"
                 ELSE IF d.write THEN "AW" ELSE "AR"
    /\ strip_done' = FALSE
    /\ UNCHANGED <<archan, wchans, beats, sflags, sxfer, sends>>

DmaIdleStrip(abort, go, ss, c) ==
    /\ dma_st = "IDLE" /\ ~abort /\ ~go /\ ss
    /\ strip_done' = FALSE /\ strip_error_seen' = FALSE /\ strip_done_ok' = FALSE
    /\ strip_bank_l' = c.bank /\ strip_waddr' = 0
    /\ \/ /\ StripKickErr(c)
          /\ strip_busy' = FALSE /\ strip_err' = TRUE
          /\ UNCHANGED <<dma_st, strip_cur_addr, strip_remaining>>
       \/ /\ ~StripKickErr(c)
          /\ strip_busy' = TRUE /\ strip_err' = FALSE
          /\ strip_cur_addr' = c.addr /\ strip_remaining' = c.bytes
          /\ dma_st' = "STRIP_AR"
    /\ UNCHANGED <<flags, archan, wchans, xfer, beats, strip_in_burst>>

DmaIdleStay(abort, go, ss) ==
    /\ dma_st = "IDLE" /\ ~abort /\ ~go /\ ~ss
    /\ strip_done' = FALSE
    /\ UNCHANGED <<dma_st, flags, archan, wchans, xfer, beats, sflags, sxfer, sends>>

-----------------------------------------------------------------------------
(* Shared memory -> TCM. *)
\* Mutant: the burst is withdrawn although it is on the bus.
DmaArWithdraw(abort) ==
    /\ dma_st = "AR" /\ abort
    /\ done_ok' = FALSE /\ dma_st' = "DONE" /\ arvalid' = FALSE
    /\ strip_done' = FALSE
    /\ UNCHANGED <<flags, araddr, arbeats, wchans, cur_addr, remaining, buf_addr,
                   buf_raddr, narrow_l, beats, sflags, sxfer, sends>>

DmaArDrop(abort) ==              \* the burst has not been presented yet
    /\ dma_st = "AR" /\ abort /\ ~arvalid
    /\ done_ok' = FALSE /\ dma_st' = "DONE"
    /\ strip_done' = FALSE
    /\ UNCHANGED <<flags, archan, wchans, cur_addr, remaining, buf_addr,
                   buf_raddr, narrow_l, beats, sflags, sxfer, sends>>

DmaAr(abort, arready) ==
    /\ dma_st = "AR" /\ (arvalid \/ ~abort)
    /\ araddr' = cur_addr /\ arbeats' = ThisBurst
    /\ beats_in_burst' = ThisBurst
    /\ arvalid' = ~(arvalid /\ arready)
    /\ dma_st' = IF arvalid /\ arready THEN "R" ELSE "AR"
    /\ strip_done' = FALSE
    /\ UNCHANGED <<flags, wchans, xfer, beats_done, sflags, sxfer, sends>>

\* Mutant: the local pointer of a narrow read moves a whole beat.
DmaRWide(abort, r) ==
    /\ dma_st = "R" /\ r.valid
    /\ err' = (err \/ r.err)
    /\ buf_addr' = buf_addr + WPB
    /\ remaining' = IF r.last THEN remaining - WordsInBurst ELSE remaining
    /\ cur_addr' = IF r.last THEN cur_addr + 4 * WordsInBurst ELSE cur_addr
    /\ done_ok' = (done_ok /\ ~(r.last /\ abort))
    /\ dma_st' = IF ~r.last THEN "R"
                 ELSE IF abort \/ remaining' = 0 THEN "DONE" ELSE "AR"
    /\ strip_done' = FALSE
    /\ UNCHANGED <<busy, done, archan, wchans, buf_raddr, narrow_l, beats,
                   sflags, sxfer, sends>>

DmaR(abort, r) ==
    /\ dma_st = "R" /\ r.valid
    /\ err' = (err \/ r.err)            \* latched; the burst is still drained
    /\ buf_addr' = buf_addr + Step
    /\ \/ /\ ~r.last
          /\ UNCHANGED <<dma_st, remaining, cur_addr, done_ok>>
       \/ /\ r.last
          /\ remaining' = remaining - WordsInBurst
          /\ cur_addr' = cur_addr + 4 * WordsInBurst
          /\ done_ok' = (done_ok /\ ~abort)
          /\ dma_st' = IF abort \/ remaining' = 0 THEN "DONE" ELSE "AR"
    /\ strip_done' = FALSE
    /\ UNCHANGED <<busy, done, archan, wchans, buf_raddr, narrow_l, beats,
                   sflags, sxfer, sends>>

DmaRWait(r) ==
    /\ dma_st = "R" /\ ~r.valid
    /\ strip_done' = FALSE
    /\ UNCHANGED <<dma_st, flags, archan, wchans, xfer, beats, sflags, sxfer, sends>>
-----------------------------------------------------------------------------
(* TCM -> shared memory. *)
DmaAwDrop(abort) ==
    /\ dma_st = "AW" /\ abort /\ ~awvalid
    /\ done_ok' = FALSE /\ dma_st' = "DONE"
    /\ strip_done' = FALSE
    /\ UNCHANGED <<flags, archan, wchans, cur_addr, remaining, buf_addr,
                   buf_raddr, narrow_l, beats, sflags, sxfer, sends>>

DmaAw(abort, awready) ==
    /\ dma_st = "AW" /\ (awvalid \/ ~abort)
    /\ awaddr' = cur_addr /\ awbeats' = ThisBurst
    /\ beats_in_burst' = ThisBurst
    /\ awvalid' = ~(awvalid /\ awready)
    /\ beats_done' = IF awvalid /\ awready THEN 0 ELSE beats_done
    /\ dma_st' = IF awvalid /\ awready THEN "W" ELSE "AW"
    /\ strip_done' = FALSE
    /\ UNCHANGED <<flags, archan, wvalid, xfer, sflags, sxfer, sends>>

DmaW(wready) ==
    /\ dma_st = "W"
    /\ \/ /\ wvalid /\ wready
          /\ beats_done' = beats_done + 1
          /\ buf_raddr' = buf_raddr + Step
          /\ wvalid' = ~FinalWBeat
          /\ dma_st' = IF FinalWBeat THEN "B" ELSE "W"
       \/ /\ ~(wvalid /\ wready)
          /\ wvalid' = TRUE
          /\ UNCHANGED <<dma_st, beats_done, buf_raddr>>
    /\ strip_done' = FALSE
    /\ UNCHANGED <<flags, archan, awvalid, awaddr, awbeats, cur_addr, remaining,
                   buf_addr, done_ok, narrow_l, beats_in_burst, sflags, sxfer, sends>>

DmaB(abort, b) ==
    /\ dma_st = "B" /\ b.valid
    /\ \/ /\ b.err                      \* the transfer ends, without done
          /\ err' = TRUE /\ done_ok' = FALSE /\ dma_st' = "DONE"
          /\ UNCHANGED <<remaining, cur_addr>>
       \/ /\ ~b.err
          /\ remaining' = remaining - WordsInBurst
          /\ cur_addr' = cur_addr + 4 * WordsInBurst
          /\ done_ok' = (done_ok /\ ~abort)
          /\ dma_st' = IF abort \/ remaining' = 0 THEN "DONE" ELSE "AW"
          /\ err' = err
    /\ strip_done' = FALSE
    /\ UNCHANGED <<busy, done, archan, wchans, buf_addr, buf_raddr, narrow_l,
                   beats, sflags, sxfer, sends>>

DmaBWait(b) ==
    /\ dma_st = "B" /\ ~b.valid
    /\ strip_done' = FALSE
    /\ UNCHANGED <<dma_st, flags, archan, wchans, xfer, beats, sflags, sxfer, sends>>

\* Mutant: the narrow mode outlives its transfer.
DmaDoneNarrow(abort) ==
    /\ dma_st = "DONE"
    /\ busy' = FALSE /\ done' = (done_ok /\ ~abort)
    /\ dma_st' = "IDLE"
    /\ strip_done' = FALSE
    /\ UNCHANGED <<err, archan, wchans, xfer, beats, sflags, sxfer, sends>>
\* Mutant: an aborted transfer is reported done.
DmaDoneAlways(abort) ==
    /\ dma_st = "DONE"
    /\ busy' = FALSE /\ done' = TRUE /\ narrow_l' = FALSE
    /\ dma_st' = "IDLE"
    /\ strip_done' = FALSE
    /\ UNCHANGED <<err, archan, wchans, cur_addr, remaining, buf_addr, buf_raddr,
                   done_ok, beats, sflags, sxfer, sends>>

DmaDone(abort) ==
    /\ dma_st = "DONE"
    /\ busy' = FALSE /\ done' = (done_ok /\ ~abort) /\ narrow_l' = FALSE
    /\ dma_st' = "IDLE"
    /\ strip_done' = FALSE
    /\ UNCHANGED <<err, archan, wchans, cur_addr, remaining, buf_addr, buf_raddr,
                   done_ok, beats, sflags, sxfer, sends>>

-----------------------------------------------------------------------------
(* Strip prefetch: shared memory -> one strip-buffer bank. *)
DmaStripArDrop(abort) ==
    /\ dma_st = "STRIP_AR" /\ abort /\ ~arvalid
    /\ strip_done_ok' = FALSE /\ dma_st' = "STRIP_DONE"
    /\ strip_done' = FALSE
    /\ UNCHANGED <<flags, archan, wchans, xfer, beats, sflags, sxfer, strip_error_seen>>

DmaStripAr(abort, arready) ==
    /\ dma_st = "STRIP_AR" /\ (arvalid \/ ~abort)
    /\ araddr' = strip_cur_addr /\ arbeats' = StripThisBurst
    /\ beats_in_burst' = StripThisBurst
    /\ strip_in_burst' = StripThisBytes
    /\ arvalid' = ~(arvalid /\ arready)
    /\ dma_st' = IF arvalid /\ arready THEN "STRIP_R" ELSE "STRIP_AR"
    /\ strip_done' = FALSE
    /\ UNCHANGED <<flags, wchans, xfer, beats_done, sflags, strip_waddr,
                   strip_bank_l, strip_cur_addr, strip_remaining, sends>>

DmaStripR(abort, r) ==
    /\ dma_st = "STRIP_R" /\ r.valid
    /\ strip_err' = (strip_err \/ r.err)
    /\ strip_error_seen' = (strip_error_seen \/ r.err)
    /\ strip_waddr' = IF strip_error_seen' THEN strip_waddr ELSE strip_waddr + BeatBytes
    /\ \/ /\ ~r.last
          /\ UNCHANGED <<dma_st, strip_remaining, strip_cur_addr, strip_done_ok>>
       \/ /\ r.last
          /\ strip_remaining' = strip_remaining - strip_in_burst
          /\ strip_cur_addr' = strip_cur_addr + strip_in_burst
          /\ LET stop == abort \/ strip_error_seen'
             IN  /\ strip_done_ok' = IF stop THEN FALSE
                                     ELSE (strip_remaining' = 0 \/ strip_done_ok)
                 /\ dma_st' = IF stop \/ strip_remaining' = 0 THEN "STRIP_DONE"
                              ELSE "STRIP_AR"
    /\ strip_done' = FALSE
    /\ UNCHANGED <<flags, archan, wchans, xfer, beats, strip_busy, strip_bank_l,
                   strip_in_burst>>

DmaStripRWait(r) ==
    /\ dma_st = "STRIP_R" /\ ~r.valid
    /\ strip_done' = FALSE
    /\ UNCHANGED <<dma_st, flags, archan, wchans, xfer, beats, sflags, sxfer, sends>>

\* Mutant: every strip is reported done.
DmaStripDoneAlways(abort) ==
    /\ dma_st = "STRIP_DONE"
    /\ strip_busy' = FALSE
    /\ strip_done' = TRUE
    /\ strip_error_seen' = FALSE /\ strip_done_ok' = FALSE
    /\ dma_st' = "IDLE"
    /\ UNCHANGED <<flags, archan, wchans, xfer, beats, strip_err, sxfer>>

DmaStripDone(abort) ==
    /\ dma_st = "STRIP_DONE"
    /\ strip_busy' = FALSE
    /\ strip_done' = (strip_done_ok /\ ~abort)
    /\ strip_error_seen' = FALSE /\ strip_done_ok' = FALSE
    /\ dma_st' = "IDLE"
    /\ UNCHANGED <<flags, archan, wchans, xfer, beats, strip_err, sxfer>>

-----------------------------------------------------------------------------
(* One rising clock edge. *)
DmaIdle(abort, go, d, ss, c) ==
    \/ DmaIdleAbort(abort)
    \/ DmaIdleGo(abort, go, d)
    \/ DmaIdleStrip(abort, go, ss, c)
    \/ DmaIdleStay(abort, go, ss)

\* Mutant: a read does not look at the abort.
DmaReadDeaf(abort, arready, r) ==
    DmaArDrop(FALSE) \/ DmaAr(FALSE, arready) \/ DmaR(FALSE, r) \/ DmaRWait(r)

DmaRead(abort, arready, r) ==
    DmaArDrop(abort) \/ DmaAr(abort, arready) \/ DmaR(abort, r) \/ DmaRWait(r)

DmaWrite(abort, awready, wready, b) ==
    \/ DmaAwDrop(abort) \/ DmaAw(abort, awready) \/ DmaW(wready)
    \/ DmaB(abort, b) \/ DmaBWait(b)

DmaStrip(abort, arready, r) ==
    \/ DmaStripArDrop(abort) \/ DmaStripAr(abort, arready)
    \/ DmaStripR(abort, r) \/ DmaStripRWait(r) \/ DmaStripDone(abort)

DmaClk(abort, go, d, ss, c, arready, r, awready, wready, b) ==
    \/ DmaIdle(abort, go, d, ss, c)
    \/ DmaRead(abort, arready, r)
    \/ DmaWrite(abort, awready, wready, b)
    \/ DmaDone(abort)
    \/ DmaStrip(abort, arready, r)
-----------------------------------------------------------------------------
(* The domain reset of a hard reset: back to DmaInit, data registers (which  *)
(* are written before they are read) included.                             *)
DmaReset ==
    /\ dma_st' = "IDLE"
    /\ busy' = FALSE /\ done' = FALSE /\ err' = FALSE
    /\ arvalid' = FALSE /\ araddr' = 0 /\ arbeats' = 0
    /\ awvalid' = FALSE /\ awaddr' = 0 /\ awbeats' = 0 /\ wvalid' = FALSE
    /\ cur_addr' = 0 /\ remaining' = 0 /\ buf_addr' = 0 /\ buf_raddr' = 0
    /\ beats_in_burst' = 0 /\ beats_done' = 0
    /\ done_ok' = FALSE /\ narrow_l' = FALSE
    /\ strip_busy' = FALSE /\ strip_done' = FALSE /\ strip_err' = FALSE
    /\ strip_waddr' = 0 /\ strip_bank_l' = 0
    /\ strip_cur_addr' = 0 /\ strip_remaining' = 0 /\ strip_in_burst' = 0
    /\ strip_error_seen' = FALSE /\ strip_done_ok' = FALSE
=============================================================================
