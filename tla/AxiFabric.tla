------------------------------ MODULE AxiFabric ------------------------------
(***************************************************************************)
(* The shared memory of the SoC and the way to it: the arbiter of its two   *)
(* masters (axi_full_arbiter_2x1.v; m0 the host, m1 the NPU's DMA) and the  *)
(* SRAM behind it (axi_full_sram.v).  FabricClk is one rising clock edge.   *)
(*                                                                         *)
(* An address request is [valid, word, beats, narrow]: narrow is a beat     *)
(* size of one 32-bit word.  Write data is [valid, last, lanes]: lanes maps *)
(* the strobed 32-bit lanes of the bus to values.                          *)
(***************************************************************************)
EXTENDS NpuParams

CONSTANT Words     \* 32-bit words of the SRAM

ASSUME FabricAssumption == Words \in Nat \ {0} /\ Words % WPB = 0

VARIABLES
    rgrant, wgrant,                         \* the arbiter
    rstate, rptr, rstride, rbeats_left, rdata,  \* the SRAM's read channel
    wstate, wptr, wstride,                  \* its write channel
    mem

fabricVars == <<rgrant, wgrant, rstate, rptr, rstride, rbeats_left, rdata,
                wstate, wptr, wstride, mem>>

\* Pointers and data mean nothing between two bursts; they are shown as zero.
NoData == [j \in 0 .. WPB - 1 |-> 0]
FabricInit ==
    /\ rgrant = "IDLE" /\ wgrant = "IDLE"
    /\ rstate = "IDLE" /\ rptr = 0 /\ rstride = 1 /\ rbeats_left = 0
    /\ rdata = NoData
    /\ wstate = "IDLE" /\ wptr = 0 /\ wstride = 1
    /\ mem = [w \in 0 .. Words - 1 |-> w]

-----------------------------------------------------------------------------
(* The arbiter: m1 has priority while nothing is granted; a grant is held   *)
(* until the last beat or the write response is taken.                     *)
Sel1(grant, q1) == grant = "M1" \/ (grant = "IDLE" /\ q1.valid)
Offered(grant, q0, q1) == IF Sel1(grant, q1) THEN q1 ELSE q0
Owner(grant, x0, x1)   == IF grant = "M1" THEN x1 ELSE x0

ArReady0(q1) == ~Sel1(rgrant, q1) /\ rstate = "IDLE"
ArReady1(q1) == Sel1(rgrant, q1) /\ rstate = "IDLE"
AwReady0(q1) == ~Sel1(wgrant, q1) /\ wstate = "IDLE"
AwReady1(q1) == Sel1(wgrant, q1) /\ wstate = "IDLE"
RLast        == rbeats_left = 1
RValid(m)    == rgrant = m /\ rstate = "DATA"
WReady(m)    == wgrant = m /\ wstate = "DATA"
BValid(m)    == wgrant = m /\ wstate = "RESP"

\* Mutant: the grant stays with the DMA until the host asks for nothing.
GrantSticky(grant, q0, q1, over) ==
    IF grant = "IDLE"
    THEN IF q1.valid THEN "M1" ELSE IF q0.valid THEN "M0" ELSE "IDLE"
    ELSE IF over /\ ~(grant = "M1" /\ q0.valid) THEN "IDLE" ELSE grant

Grant(grant, q0, q1, over) ==
    IF grant = "IDLE"
    THEN IF q1.valid THEN "M1" ELSE IF q0.valid THEN "M0" ELSE "IDLE"
    ELSE IF over THEN "IDLE" ELSE grant

-----------------------------------------------------------------------------
(* The SRAM.  A narrow burst starts at the beat that holds its first word   *)
(* and moves one word per beat, so that the lane of its first word is the   *)
(* lane of all of them.                                                    *)
\* Mutant: a narrow burst starts at its own word.
BeatBaseWord(q) == q.word

BeatBase(q)   == IF q.narrow THEN q.word - (q.word % WPB) ELSE q.word
BeatStride(q) == IF q.narrow THEN 1 ELSE WPB
WideRead(b)   == [j \in 0 .. WPB - 1 |-> mem[(b + j) % Words]]

ReadClk(q0, q1, ready0, ready1) ==
    LET q    == Offered(rgrant, q0, q1)
        fire == rstate = "DATA" /\ Owner(rgrant, ready0, ready1)
    IN  /\ rgrant' = Grant(rgrant, q0, q1, fire /\ RLast)
        /\ \/ /\ rstate = "IDLE" /\ q.valid
              /\ rstate' = "DATA"
              /\ rptr' = BeatBase(q) /\ rstride' = BeatStride(q)
              /\ rbeats_left' = q.beats
              /\ rdata' = WideRead(BeatBase(q))
           \/ /\ fire /\ RLast
              /\ rstate' = "IDLE"
              /\ rptr' = 0 /\ rstride' = 1 /\ rbeats_left' = 0
              /\ rdata' = NoData
           \/ /\ fire /\ ~RLast
              /\ rptr' = (rptr + rstride) % Words
              /\ rbeats_left' = rbeats_left - 1
              /\ rdata' = WideRead(rptr + rstride)
              /\ UNCHANGED <<rstate, rstride>>
           \/ /\ ~fire /\ ~(rstate = "IDLE" /\ q.valid)
              /\ UNCHANGED <<rstate, rptr, rstride, rbeats_left, rdata>>

Strobed(d) == [w \in 0 .. Words - 1 |->
                  IF (w - wptr) % Words \in DOMAIN d.lanes
                  THEN d.lanes[(w - wptr) % Words] ELSE mem[w]]

WriteClk(q0, q1, d0, d1, ready0, ready1) ==
    LET q    == Offered(wgrant, q0, q1)
        d    == Owner(wgrant, d0, d1)
        resp == wstate = "RESP" /\ Owner(wgrant, ready0, ready1)
    IN  /\ wgrant' = Grant(wgrant, q0, q1, resp)
        /\ \/ /\ wstate = "IDLE" /\ q.valid
              /\ wstate' = "DATA"
              /\ wptr' = BeatBase(q) /\ wstride' = BeatStride(q)
              /\ mem' = mem
           \/ /\ wstate = "DATA" /\ d.valid
              /\ mem' = Strobed(d)
              /\ wptr' = (wptr + wstride) % Words
              /\ wstate' = IF d.last THEN "RESP" ELSE "DATA"
              /\ wstride' = wstride
           \/ /\ resp
              /\ wstate' = "IDLE"
              /\ wptr' = 0 /\ wstride' = 1
              /\ mem' = mem
           \/ /\ ~(wstate = "IDLE" /\ q.valid) /\ ~(wstate = "DATA" /\ d.valid) /\ ~resp
              /\ UNCHANGED <<wstate, wptr, wstride, mem>>
=============================================================================
