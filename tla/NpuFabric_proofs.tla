--------------------------- MODULE NpuFabric_proofs ---------------------------
(***************************************************************************)
(* The host, the DMA engine and the shared memory, for every set of host    *)
(* accesses, every pair of jobs and every size of bus, page and memory:     *)
(*                                                                         *)
(*  - no burst is cut and no answer is left over for the next master, and   *)
(*    the types (BurstsUncut, TypeOK).  FInv is the inductive invariant:    *)
(*    what the engine has latched (Engine), that the pulse of a hard reset  *)
(*    falls on an engine with nothing on its bus (Reset), which access the  *)
(*    host's bridge and the decoder hold (Port), and who owns each channel  *)
(*    of the memory (ReadChannel, WriteChannel).  A step of one party is    *)
(*    reduced to what the other parties see of it (EngineEdge, PortEdge);   *)
(*    the channels need no more.                                           *)
(*                                                                         *)
(*  - the fault evidence of a soft reset is kept (EvidenceKept): the        *)
(*    engines decide only when an abort is over, and the argument does not  *)
(*    depend on when that is.                                              *)
(*                                                                         *)
(*  - the words that pass through are in their places (WordsInPlace), which *)
(*    says nothing of a transfer in progress.  DInv, its inductive          *)
(*    strengthening, does: Places gives for every state of the engine the   *)
(*    bus address, the local pointer and the words already delivered as     *)
(*    functions of the words moved; Lanes, that the pointer of the memory   *)
(*    and the lane of the master add up to the word meant; Claims, whose    *)
(*    transfer it is and what is true once it reports done; Orders, which   *)
(*    job the core has set up and that it writes back only what it has      *)
(*    read; Memories, what each word may be.  Both channels are first       *)
(*    reduced to what one edge does to them (ReadEdge, WriteEdge), then the *)
(*    memories (TcmEdge, MemEdge) and the engine (EngineDataStep); each     *)
(*    part of DInv is proved from these.                                    *)
(***************************************************************************)
EXTENDS NpuFabric, Residues

-----------------------------------------------------------------------------
(* The inductive invariant.                                                 *)

\* States in which a transfer of the core is under way.
Moving == dma_st \in {"AR", "R", "AW", "W", "B"}

\* The registers of the engine and of its two jobs.
EngineTypes ==
    /\ dma_st \in {"IDLE", "AR", "R", "AW", "W", "B", "DONE"}
    /\ {busy, arvalid, awvalid, wvalid, soft_rst} \subseteq BOOLEAN
    /\ {araddr, awaddr, cur_addr, remaining, buf_addr, buf_raddr, beats_in_burst,
        beats_done} \subseteq Nat
    /\ cur_addr % 4 = 0
    /\ dma_desc \in {NoDesc, ReadJob} /\ wb_desc \in {NoDesc, WriteJob}

\* The engine: a request shows the burst it will be, every burst lies in what is
\* left of the transfer, and there is no strip prefetch in this build.
Engine ==
    /\ EngineTypes
    /\ busy <=> dma_st # "IDLE"
    /\ ~strip_busy
    /\ arvalid => dma_st = "AR" /\ arbeats = ThisBurst
    /\ awvalid => dma_st = "AW" /\ awbeats = ThisBurst
    /\ wvalid => dma_st = "W"
    /\ dma_st # "IDLE" => narrow_l
    /\ Moving => remaining # 0
    /\ remaining <= ReadJob.len + WriteJob.len
    /\ dma_st \in {"R", "W", "B"} => beats_in_burst \in 1 .. remaining
    /\ dma_st = "W" => beats_done \in 0 .. beats_in_burst - 1

\* The pulse finds nothing of the engine on its bus.
Reset ==
    /\ hard \in [pending : BOOLEAN, cnt : 0 .. 2] /\ hard_req \in BOOLEAN
    /\ DomainReset => dma_st \in {"IDLE", "AR", "AW", "DONE"} /\ ~arvalid /\ ~awvalid

\* The bridge holds one access, and the route of the decoder is that access.
Port ==
    /\ host \in [st : {"IDLE", "AR", "R", "AW"}, acc : Accesses \cup {NoAccess},
                 aw : BOOLEAN, w : BOOLEAN]
    /\ host.st # "IDLE" => host.acc \in Accesses /\ (host.acc.write <=> host.st = "AW")
    /\ host.st = "IDLE" => host.acc = NoAccess
    /\ host.st # "AW" => ~host.aw /\ ~host.w
    /\ To("mem") /\ ~host.aw => ~host.w
    /\ route.w => To("csr") /\ host.acc.write
    /\ route.r => To("csr") /\ ~host.acc.write

\* The read channel: a grant is held by the master that waits for its beats.
ReadChannel ==
    /\ rgrant \in {"IDLE", "M0", "M1"} /\ rstate \in {"IDLE", "DATA"}
    /\ rgrant = "IDLE" <=> rstate = "IDLE"
    /\ rgrant = "M1" <=> dma_st = "R"
    /\ rgrant = "M1" => rbeats_left \in 1 .. beats_in_burst /\ beats_in_burst <= MaxBeats
    /\ rgrant = "M0" <=> host.st = "R" /\ To("mem")
    /\ rgrant = "M0" => rbeats_left = 1
    /\ rgrant = "IDLE" => rbeats_left = 0

\* The write channel: a grant is held until the response is taken.
WriteChannel ==
    /\ wgrant \in {"IDLE", "M0", "M1"} /\ wstate \in {"IDLE", "DATA", "RESP"}
    /\ wgrant = "IDLE" <=> wstate = "IDLE"
    /\ wgrant = "M1" <=> dma_st \in {"W", "B"}
    /\ wgrant = "M1" => (wstate = "DATA" <=> dma_st = "W")
    /\ wgrant = "M0" <=> host.st = "AW" /\ To("mem") /\ host.aw
    /\ wgrant = "M0" => (wstate = "DATA" <=> ~host.w)

\* The pointers and the data register of the memory.
ReadData == rptr \in 0 .. Words - 1 /\ rstride \in 1 .. WPB /\ DOMAIN rdata = 0 .. WPB - 1
WriteData == wptr \in 0 .. Words - 1 /\ wstride \in 1 .. WPB

FInv == Engine /\ Reset /\ Port /\ ReadChannel /\ ReadData /\ WriteChannel /\ WriteData

-----------------------------------------------------------------------------
(* The engine. *)

\* A transfer that moves has a next burst of at least one beat.
LEMMA BurstSize ==
    ASSUME Engine, Moving
    PROVE  Step = 1 /\ ThisBurst \in 1 .. remaining /\ ThisBurst <= MaxBeats
<1>1. Step = 1
  BY DEF Engine, Moving, Step
<1>2. cur_addr \in Nat /\ cur_addr % 4 = 0 /\ remaining \in Nat /\ remaining # 0
  BY DEF Engine, EngineTypes
<1>3. PageBytes \in Nat \ {0} /\ PageBytes % 4 = 0 /\ MaxBeats \in Nat \ {0}
  BY ParamsAssumption, DmaAssumption
<1>4. cur_addr % PageBytes \in 0 .. PageBytes - 1 /\ (cur_addr % PageBytes) + 4 <= PageBytes
  BY ONLY <1>2, <1>3, 4 \in Nat \ {0}, PageRoom
<1>5. Dist4k \in Nat \ {0}
  BY <1>1, <1>3, <1>4 DEF Dist4k
<1>6. remaining \div Step = remaining
  BY <1>1, <1>2
<1> QED BY <1>1, <1>2, <1>3, <1>5, <1>6 DEF ThisBurst, LesserOf

\* What the engine asks of its bus and what it makes of the answers.
EngineMoves(ar, r, aw, w, b) ==
    /\ dma_st = "IDLE" => dma_st' \in {"IDLE", "DONE", "AR", "AW"} /\ ~arvalid' /\ ~awvalid'
    /\ dma_st = "DONE" => dma_st' = "IDLE"
    /\ dma_st = "AR" =>
          IF arvalid /\ ar
          THEN dma_st' = "R" /\ beats_in_burst' = arbeats /\ arbeats \in 1 .. MaxBeats
          ELSE dma_st' \in {"AR", "DONE"}
    /\ dma_st = "R" =>
          IF r.valid /\ r.last THEN dma_st' \in {"AR", "DONE"}
          ELSE dma_st' = "R" /\ beats_in_burst' = beats_in_burst
    /\ dma_st = "AW" => IF awvalid /\ aw THEN dma_st' = "W" ELSE dma_st' \in {"AW", "DONE"}
    /\ dma_st = "W" => IF wvalid /\ w /\ FinalWBeat THEN dma_st' = "B" ELSE dma_st' = "W"
    /\ dma_st = "B" => IF b.valid THEN dma_st' \in {"AW", "DONE"} ELSE dma_st' = "B"

\* The types of the wires into the engine.
Wires(go, d, ar, r, aw, w, b) ==
    /\ d.narrow = TRUE /\ d.src \in Nat /\ d.word \in Nat /\ d.len \in Nat
    /\ d.len <= ReadJob.len + WriteJob.len
    /\ soft_rst' \in BOOLEAN
    /\ dma_desc' \in {NoDesc, ReadJob} /\ wb_desc' \in {NoDesc, WriteJob}
    /\ ar \in BOOLEAN /\ aw \in BOOLEAN /\ w \in BOOLEAN
    /\ r.valid \in BOOLEAN /\ r.last \in BOOLEAN /\ b.valid \in BOOLEAN

JobLens == ReadJob.len \in Nat /\ WriteJob.len \in Nat

\* One clock edge of the engine, state by state.
LEMMA EngineStep ==
    ASSUME Engine, NEW go, NEW d, NEW ar, NEW r, NEW aw, NEW w, NEW b,
           Wires(go, d, ar, r, aw, w, b), JobLens,
           DmaClk(soft_rst, go, d, FALSE, NoStrip, ar, r, aw, w, b)
    PROVE  Engine' /\ EngineMoves(ar, r, aw, w, b)
<1>0. Moving => Step = 1 /\ ThisBurst \in 1 .. remaining /\ ThisBurst <= MaxBeats
  BY BurstSize
<1> USE DEF Wires, EngineTypes, Engine, Moving, JobLens
<1>1. CASE DmaIdleAbort(soft_rst)
  BY <1>1 DEF DmaIdleAbort, EngineMoves, archan, wchans, beats
<1>2. CASE DmaIdleGo(soft_rst, go, d)
  <2>1. ~AlignErr(d) /\ cur_addr' \in Nat /\ cur_addr' % 4 = 0
    BY <1>2 DEF DmaIdleGo, AlignErr
  <2> QED BY <1>2, <2>1 DEF DmaIdleGo, EngineMoves, archan, wchans, beats, sflags
<1>3. CASE DmaIdleStrip(soft_rst, go, FALSE, NoStrip)
  BY <1>3 DEF DmaIdleStrip
<1>4. CASE DmaIdleStay(soft_rst, go, FALSE)
  BY <1>4 DEF DmaIdleStay, EngineMoves, flags, archan, wchans, xfer, beats, sflags
<1>5. CASE DmaArDrop(soft_rst)
  BY <1>5 DEF DmaArDrop, EngineMoves, flags, archan, wchans, beats, sflags
<1>6. CASE DmaAr(soft_rst, ar)
  <2>1. ThisBurst' = ThisBurst
    BY <1>6 DEF DmaAr, xfer, ThisBurst, Dist4k, Step
  <2>2. CASE arvalid /\ ar
    BY <1>0, <1>6, <2>1, <2>2 DEF DmaAr, EngineMoves, flags, wchans, xfer, sflags
  <2>3. CASE ~(arvalid /\ ar)
    BY <1>0, <1>6, <2>1, <2>3 DEF DmaAr, EngineMoves, flags, wchans, xfer, sflags
  <2> QED BY <2>2, <2>3
<1>7. CASE DmaR(soft_rst, r)
  <2>1. beats_in_burst \in 1 .. remaining /\ WordsInBurst = beats_in_burst
    BY <1>0, <1>7 DEF DmaR, WordsInBurst
  <2>2. CASE r.last
    <3>1. remaining' \in Nat /\ remaining' = remaining - beats_in_burst
          /\ cur_addr' \in Nat /\ cur_addr' % 4 = 0 /\ buf_addr' \in Nat
      BY <1>0, <1>7, <2>1, <2>2 DEF DmaR
    <3> QED BY <1>7, <2>2, <3>1 DEF DmaR, EngineMoves, archan, wchans, beats, sflags
  <2>3. CASE ~r.last
    BY <1>0, <1>7, <2>3 DEF DmaR, EngineMoves, archan, wchans, beats, sflags
  <2> QED BY <2>2, <2>3
<1>8. CASE DmaRWait(r)
  BY <1>8 DEF DmaRWait, EngineMoves, flags, archan, wchans, xfer, beats, sflags
<1>9. CASE DmaAwDrop(soft_rst)
  BY <1>9 DEF DmaAwDrop, EngineMoves, flags, archan, wchans, beats, sflags
<1>10. CASE DmaAw(soft_rst, aw)
  <2>1. ThisBurst' = ThisBurst
    BY <1>10 DEF DmaAw, xfer, ThisBurst, Dist4k, Step
  <2>2. CASE awvalid /\ aw
    BY <1>0, <1>10, <2>1, <2>2 DEF DmaAw, EngineMoves, flags, archan, xfer, sflags
  <2>3. CASE ~(awvalid /\ aw)
    BY <1>0, <1>10, <2>1, <2>3 DEF DmaAw, EngineMoves, flags, archan, xfer, sflags
  <2> QED BY <2>2, <2>3
<1>11. CASE DmaW(w)
  <2>1. ThisBurst' = ThisBurst /\ Step = 1
    BY <1>0, <1>11 DEF DmaW, ThisBurst, Dist4k, Step
  <2>2. CASE wvalid /\ w
    BY <1>11, <2>1, <2>2 DEF DmaW, EngineMoves, FinalWBeat, flags, archan, sflags
  <2>3. CASE ~(wvalid /\ w)
    BY <1>11, <2>1, <2>3 DEF DmaW, EngineMoves, FinalWBeat, flags, archan, sflags
  <2> QED BY <2>2, <2>3
<1>12. CASE DmaB(soft_rst, b)
  <2>1. beats_in_burst \in 1 .. remaining /\ WordsInBurst = beats_in_burst
    BY <1>0, <1>12 DEF DmaB, WordsInBurst
  <2>2. CASE ~b.err
    <3>1. remaining' \in Nat /\ remaining' = remaining - beats_in_burst
          /\ cur_addr' \in Nat /\ cur_addr' % 4 = 0
      BY <1>0, <1>12, <2>1, <2>2 DEF DmaB
    <3>2. dma_st' = "DONE" \/ (dma_st' = "AW" /\ remaining' # 0)
      BY <1>12, <2>2, <3>1 DEF DmaB
    <3>3. CASE dma_st' = "DONE"
      <4>1. dma_st = "B" /\ b.valid
            /\ UNCHANGED <<busy, archan, wchans, buf_addr, buf_raddr, narrow_l, beats, sflags>>
        BY <1>12 DEF DmaB
      <4>2. EngineTypes'
        BY <3>1, <3>3, <4>1 DEF archan, wchans, beats
      <4>3. EngineMoves(ar, r, aw, w, b)
        BY <3>3, <4>1 DEF EngineMoves
      <4>4. ~arvalid' /\ ~awvalid' /\ ~wvalid' /\ busy' /\ ~strip_busy' /\ narrow_l'
        BY <4>1 DEF archan, wchans, sflags
      <4>5. remaining' <= ReadJob.len + WriteJob.len
        BY <2>1, <3>1
      <4>6. Engine'
        BY ONLY <3>3, <4>2, <4>4, <4>5 DEF Engine, Moving
      <4> QED BY <4>3, <4>6
    <3>4. CASE dma_st' = "AW" /\ remaining' # 0
      BY <1>12, <2>1, <3>1, <3>4 DEF DmaB, EngineMoves, archan, wchans, beats, sflags
    <3> QED BY <3>2, <3>3, <3>4
  <2>3. CASE b.err
    BY <1>0, <1>12, <2>3 DEF DmaB, EngineMoves, archan, wchans, beats, sflags
  <2> QED BY <2>2, <2>3
<1>13. CASE DmaBWait(b)
  BY <1>13 DEF DmaBWait, EngineMoves, flags, archan, wchans, xfer, beats, sflags
<1>14. CASE DmaDone(soft_rst)
  BY <1>14 DEF DmaDone, EngineMoves, archan, wchans, beats, sflags
<1>15. CASE DmaStrip(soft_rst, ar, r)
  BY <1>15 DEF DmaStrip, DmaStripArDrop, DmaStripAr, DmaStripR, DmaStripRWait, DmaStripDone
<1> QED BY <1>1, <1>2, <1>3, <1>4, <1>5, <1>6, <1>7, <1>8, <1>9, <1>10, <1>11, <1>12,
           <1>13, <1>14, <1>15 DEF DmaClk, DmaIdle, DmaRead, DmaWrite

-----------------------------------------------------------------------------
(* The host's port. *)

\* The accesses of the host and the absence of one.
LEMMA NoAccessIsNone ==
    /\ NoAccess.to = "none" /\ NoAccess.write = FALSE
    /\ \A a \in Accesses : a.to \in {"csr", "mem"} /\ a.write \in BOOLEAN
                           /\ a.word \in 0 .. Words - 1
BY AccessAssumption DEF NoAccess, AccessType

\* What one edge does to an access of the host, in the terms of its channels.
PortMoves ==
    /\ host.st = "IDLE" => host'.st # "R" /\ ~host'.aw /\ ~host'.w
    /\ host.st = "AR" => IF ArHs THEN host'.st = "R" ELSE host'.st = "AR"
    /\ host.st = "R"  => IF RHs THEN host'.st = "IDLE" ELSE host'.st = "R"
    /\ host.st = "AW" =>
          IF BHs /\ (host.aw \/ AwHs) /\ (host.w \/ WHs) THEN host'.st = "IDLE"
          ELSE host'.st = "AW" /\ host'.aw = (host.aw \/ AwHs) /\ host'.w = (host.w \/ WHs)
    /\ host'.st # "IDLE" /\ host.st # "IDLE" => host'.acc = host.acc

\* One clock edge of the bridge.
LEMMA PortStep ==
    ASSUME Port, NEW a \in HostMoves, HostClk(a)
    PROVE  /\ host' \in [st : {"IDLE", "AR", "R", "AW"}, acc : Accesses \cup {NoAccess},
                         aw : BOOLEAN, w : BOOLEAN]
           /\ host'.st # "IDLE" => host'.acc \in Accesses /\ (host'.acc.write <=> host'.st = "AW")
           /\ host'.st = "IDLE" => host'.acc = NoAccess
           /\ host'.st # "AW" => ~host'.aw /\ ~host'.w
           /\ PortMoves
<1>1. CASE host.st = "IDLE"
  <2>1. CASE a = NoAccess
    BY <1>1, <2>1 DEF Port, HostClk, PortMoves
  <2>2. CASE a # NoAccess
    <3>1. a \in Accesses /\ a.write \in BOOLEAN
      BY <1>1, <2>2, NoAccessIsNone DEF HostMoves
    <3>2. host' = [st |-> IF a.write THEN "AW" ELSE "AR", acc |-> a, aw |-> FALSE, w |-> FALSE]
      BY <1>1, <2>2 DEF HostClk
    <3> QED BY <1>1, <3>1, <3>2 DEF PortMoves
  <2> QED BY <2>1, <2>2
<1>2. CASE host.st # "IDLE" /\ Done
  <2>1. host' = [st |-> "IDLE", acc |-> NoAccess, aw |-> FALSE, w |-> FALSE]
    BY <1>2 DEF HostClk
  <2>2. RHs => host.st = "R"
    BY DEF RHs
  <2>3. BHs => host.st = "AW"
    BY DEF BHs
  <2>4. host'.st = "IDLE" /\ host'.acc = NoAccess /\ ~host'.aw /\ ~host'.w
    BY <2>1
  <2>5. host' \in [st : {"IDLE", "AR", "R", "AW"}, acc : Accesses \cup {NoAccess},
                   aw : BOOLEAN, w : BOOLEAN]
    BY <2>1
  <2>6. CASE RHs
    BY <2>2, <2>4, <2>5, <2>6 DEF PortMoves
  <2>7. CASE BHs /\ (host.aw \/ AwHs) /\ (host.w \/ WHs)
    BY <2>3, <2>4, <2>5, <2>7 DEF PortMoves
  <2> QED BY <1>2, <2>6, <2>7 DEF Done
<1>3. CASE host.st # "IDLE" /\ ~Done
  <2>1. host' = [host EXCEPT !.st = IF ArHs THEN "R" ELSE @, !.aw = @ \/ AwHs, !.w = @ \/ WHs]
    BY <1>3 DEF HostClk
  <2>2. ArHs => host.st = "AR"
    BY DEF ArHs, HostAr
  <2>3. AwHs \/ WHs => host.st = "AW"
    BY DEF AwHs, WHs, HostAw, HostW
  <2>4. /\ host.st = "R" => ~RHs
        /\ ~(BHs /\ (host.aw \/ AwHs) /\ (host.w \/ WHs))
    BY <1>3 DEF Done
  <2>5. host \in [st : {"IDLE", "AR", "R", "AW"}, acc : Accesses \cup {NoAccess},
                  aw : BOOLEAN, w : BOOLEAN]
    BY DEF Port
  <2>6. /\ host'.st = IF ArHs THEN "R" ELSE host.st
        /\ host'.acc = host.acc
        /\ host'.aw = (host.aw \/ AwHs) /\ host'.w = (host.w \/ WHs)
        /\ host' \in [st : {"IDLE", "AR", "R", "AW"}, acc : Accesses \cup {NoAccess},
                      aw : BOOLEAN, w : BOOLEAN]
    BY ONLY <2>1, <2>5
  <2> QED BY <1>3, <2>2, <2>3, <2>4, <2>6 DEF Port, PortMoves
<1> QED BY <1>1, <1>2, <1>3

-----------------------------------------------------------------------------
(* One edge of the engine and of the port, seen from the shared memory.     *)

\* The engine owns the read channel from the address handshake to the last beat,
\* and the write channel from the address handshake to the response.
EngineEdge ==
    /\ dma_st' = "R" <=> \/ dma_st = "AR" /\ arvalid /\ ArReady1(DmaRq)
                         \/ dma_st = "R" /\ ~(RValid("M1") /\ RLast)
    /\ dma_st = "AR" /\ arvalid /\ ArReady1(DmaRq) =>
          beats_in_burst' = arbeats /\ arbeats \in 1 .. MaxBeats
    /\ dma_st = "R" /\ dma_st' = "R" => beats_in_burst' = beats_in_burst
    /\ dma_st' = "W" <=> \/ dma_st = "AW" /\ awvalid /\ AwReady1(DmaWq)
                         \/ dma_st = "W" /\ ~(wvalid /\ WReady("M1") /\ FinalWBeat)
    /\ dma_st' = "B" <=> \/ dma_st = "W" /\ wvalid /\ WReady("M1") /\ FinalWBeat
                         \/ dma_st = "B" /\ ~BValid("M1")
    /\ ~busy => dma_st' \in {"IDLE", "DONE", "AR", "AW"} /\ ~arvalid' /\ ~awvalid'
    /\ DomainReset => dma_st' = "IDLE" /\ ~arvalid' /\ ~awvalid'


\* The core writes only its two jobs into the descriptors, and the host none.
LEMMA RegsStep ==
    ASSUME Engine, Reset, NEW m, CsrBlockClk(m)
    PROVE  /\ soft_rst' \in BOOLEAN /\ hard_req' \in BOOLEAN
           /\ dma_desc' \in {NoDesc, ReadJob} /\ wb_desc' \in {NoDesc, WriteJob}
<1>1. CASE DomainReset
  BY <1>1 DEF CsrBlockClk, RegsReset
<1>2. CASE ~DomainReset
  <2> DEFINE cw == CoreWrite(m)
  <2>1. Pulses(Hw, cw) /\ ResetBits(Hw, ~busy)
    BY <1>2 DEF CsrBlockClk, RegsCoreClk
  <2>2. Hw.reg # "DMA_DESC" /\ Hw.reg # "WB_DESC"
    <3>1. CASE WrFire /\ host.acc.op = "enable"
      BY <3>1 DEF Hw, CsrWrite
    <3>2. CASE WrFire /\ host.acc.op = "disable"
      BY <3>2 DEF Hw, CsrWrite
    <3>3. CASE WrFire /\ host.acc.op \notin {"enable", "disable"}
      BY <3>3 DEF Hw, CsrWrite
    <3>4. CASE ~WrFire
      BY <3>4 DEF Hw, NoWrite
    <3> QED BY <3>1, <3>2, <3>3, <3>4
  <2>3. /\ cw.reg = "DMA_DESC" => cw.val = ReadJob
        /\ cw.reg = "WB_DESC" => cw.val = WriteJob
    <3>1. CASE m = "rdesc"
      BY <3>1 DEF CoreWrite
    <3>2. CASE m = "wdesc"
      BY <3>2 DEF CoreWrite
    <3>3. CASE m \in {"rgo", "wgo", "fault"}
      BY <3>3 DEF CoreWrite
    <3>4. CASE m \notin {"rdesc", "wdesc", "rgo", "wgo", "fault"}
      BY <3>4 DEF CoreWrite, NoWrite
    <3> QED BY <3>1, <3>2, <3>3, <3>4
  <2> HIDE DEF cw
  <2>4. dma_desc' \in {NoDesc, ReadJob} /\ wb_desc' \in {NoDesc, WriteJob}
    BY <2>1, <2>2, <2>3 DEF Pulses, Engine, EngineTypes
  <2>5. soft_rst' \in BOOLEAN /\ hard_req' \in BOOLEAN
    BY <2>1 DEF ResetBits, HardWrite
  <2> QED BY <2>4, <2>5
<1> QED BY <1>1, <1>2

\* The lengths and pointers of the two jobs are natural numbers.
LEMMA JobTypes ==
    /\ JobLens
    /\ \A d \in {NoDesc, ReadJob, WriteJob} :
          d.src \in Nat /\ d.dst \in Nat /\ d.len \in 0 .. ReadJob.len + WriteJob.len
<1>1. ReadJob \in JobType /\ WriteJob \in JobType
  BY JobAssumption
<1>2. \A d \in JobType : d.src \in Nat /\ d.dst \in Nat /\ d.len \in Nat
  BY DEF JobType
<1>3. NoDesc.src = 0 /\ NoDesc.dst = 0 /\ NoDesc.len = 0
  BY DEF NoDesc
<1> QED BY <1>1, <1>2, <1>3 DEF JobLens

\* One clock edge of the engine keeps its invariant and is an edge as the memory
\* sees it, the reset pulse included.
LEMMA EngineEdgeStep ==
    ASSUME Engine, Reset, NEW m, CsrBlockClk(m), EngineClk
    PROVE  Engine' /\ EngineEdge
<1>0. /\ soft_rst' \in BOOLEAN /\ hard_req' \in BOOLEAN
      /\ dma_desc' \in {NoDesc, ReadJob} /\ wb_desc' \in {NoDesc, WriteJob}
  BY RegsStep
<1>1. CASE DomainReset
  <2>1. DmaReset
    BY <1>1 DEF EngineClk
  <2>2. Engine'
    <3>1. EngineTypes'
      <4>1. /\ dma_st' = "IDLE" /\ busy' = FALSE
            /\ arvalid' = FALSE /\ awvalid' = FALSE /\ wvalid' = FALSE
            /\ araddr' = 0 /\ awaddr' = 0 /\ cur_addr' = 0 /\ remaining' = 0
            /\ buf_addr' = 0 /\ buf_raddr' = 0 /\ beats_in_burst' = 0 /\ beats_done' = 0
        BY <2>1 DEF DmaReset
      <4>2. {araddr, awaddr, cur_addr, remaining, buf_addr, buf_raddr, beats_in_burst,
             beats_done}' \subseteq Nat
        BY ONLY <4>1
      <4>3. cur_addr' % 4 = 0
        BY ONLY <4>1
      <4>4. {busy, arvalid, awvalid, wvalid, soft_rst}' \subseteq BOOLEAN
        BY ONLY <1>0, <4>1
      <4> QED BY <1>0, <4>1, <4>2, <4>3, <4>4 DEF EngineTypes
    <3>2. /\ dma_st' = "IDLE" /\ ~busy' /\ ~strip_busy' /\ ~arvalid' /\ ~awvalid' /\ ~wvalid'
          /\ remaining' <= ReadJob.len + WriteJob.len
      BY <2>1, JobTypes DEF DmaReset, JobLens
    <3> QED BY ONLY <3>1, <3>2 DEF Engine, Moving
  <2>3. EngineEdge
    BY <1>1, <2>1 DEF DmaReset, EngineEdge, Reset
  <2> QED BY <2>2, <2>3
<1>2. CASE ~DomainReset
  <2> DEFINE rb == RBeat
             bb == BResp
             ar == ArReady1(DmaRq)
             aw == AwReady1(DmaWq)
             wr == WReady("M1")
  <2>1. DmaClk(soft_rst, DmaStart, DmaDesc, FALSE, NoStrip, ar, rb, aw, wr, bb)
    BY <1>2 DEF EngineClk
  <2>2. /\ rb.valid = RValid("M1") /\ rb.last = (RValid("M1") /\ RLast)
        /\ bb.valid = BValid("M1")
    BY DEF RBeat, BResp
  <2>3. /\ ar \in BOOLEAN /\ aw \in BOOLEAN /\ wr \in BOOLEAN
        /\ rb.valid \in BOOLEAN /\ rb.last \in BOOLEAN /\ bb.valid \in BOOLEAN
    BY <2>2 DEF ArReady1, AwReady1, WReady, RValid, BValid
  <2>4. /\ DmaDesc.narrow = TRUE /\ DmaDesc.src \in Nat /\ DmaDesc.word \in Nat
        /\ DmaDesc.len \in 0 .. ReadJob.len + WriteJob.len
    BY JobTypes DEF DmaDesc, Engine, EngineTypes
  <2>5. JobLens /\ Wires(DmaStart, DmaDesc, ar, rb, aw, wr, bb)
    BY <1>0, <2>3, <2>4, JobTypes DEF Wires, JobLens
  <2> HIDE DEF rb, bb, ar, aw, wr
  <2>6. Engine' /\ EngineMoves(ar, rb, aw, wr, bb)
    BY <2>1, <2>5, EngineStep
  <2>7. EngineEdge
    <3>1. dma_st \in {"IDLE", "AR", "R", "AW", "W", "B", "DONE"} /\ (~busy => dma_st = "IDLE")
      BY DEF Engine, EngineTypes
    <3> QED BY <1>2, <2>2, <2>6, <3>1 DEF EngineMoves, EngineEdge, ar, aw, wr
  <2> QED BY <2>6, <2>7
<1> QED BY <1>1, <1>2

\* The host owns the read channel from the address handshake to the beat, and
\* the write channel from the address handshake to the response.
PortEdge ==
    /\ (host.st = "R" /\ To("mem"))' <=>
          \/ HostRead.valid /\ ArReady0(DmaRq)
          \/ host.st = "R" /\ To("mem") /\ ~RValid("M0")
    /\ (host.st = "AW" /\ To("mem") /\ host.aw)' <=>
          \/ HostWrite.valid /\ AwReady0(DmaWq)
          \/ host.st = "AW" /\ To("mem") /\ host.aw /\ ~BValid("M0")
    /\ HostWrite.valid /\ AwReady0(DmaWq) => ~host'.w
    /\ host.st = "AW" /\ To("mem") /\ host.aw /\ host'.st = "AW" =>
          host'.w = (host.w \/ WReady("M0"))

\* The decoder's route is that of the access in flight.
LEMMA PortEdgeStep ==
    ASSUME Port, WriteChannel, NEW a \in HostMoves, HostClk(a), RouteClk
    PROVE  Port' /\ PortEdge
<1>1. /\ host' \in [st : {"IDLE", "AR", "R", "AW"}, acc : Accesses \cup {NoAccess},
                    aw : BOOLEAN, w : BOOLEAN]
      /\ host'.st # "IDLE" => host'.acc \in Accesses /\ (host'.acc.write <=> host'.st = "AW")
      /\ host'.st = "IDLE" => host'.acc = NoAccess
      /\ host'.st # "AW" => ~host'.aw /\ ~host'.w
      /\ PortMoves
  BY PortStep
<1>2. /\ ~To("mem") => host.acc.to # "mem"
      /\ To("mem") \/ To("csr") => host.st # "IDLE"
      /\ To("mem") => ~To("csr")
  BY NoAccessIsNone DEF Port, To
<1>3. /\ WHs /\ To("mem") => host.aw
      /\ BHs /\ To("mem") => host.aw /\ host.w /\ BValid("M0")
  BY DEF WHs, WRdy, BHs, BVal, WReady, BValid, WriteChannel
<1>4. (To("mem") /\ ~host.aw => ~host.w)'
  BY <1>1, <1>2, <1>3 DEF PortMoves, Port, To
<1>5. /\ AwHs \/ WHs \/ BHs => host.st = "AW"
      /\ ArHs => host.st = "AR"
      /\ RHs => host.st = "R"
  BY DEF AwHs, WHs, BHs, ArHs, RHs, HostAw, HostW, HostAr
<1>6. /\ route'.w = ((route.w \/ (AwHs /\ To("csr"))) /\ ~(BHs /\ To("csr")))
      /\ route'.r = ((route.r \/ (ArHs /\ To("csr"))) /\ ~(RHs /\ To("csr")))
  BY DEF RouteClk
<1>7. (route.w => To("csr") /\ host.acc.write)'
  <2> SUFFICES ASSUME route'.w PROVE host'.acc.to = "csr" /\ host'.acc.write
    BY DEF To
  <2>1. To("csr") /\ ~BHs /\ host.st = "AW" /\ host.acc.write
    BY <1>2, <1>5, <1>6 DEF Port
  <2>2. host'.st = "AW"
    BY <1>1, <2>1 DEF PortMoves
  <2>3. host'.acc = host.acc
    BY <1>1, <2>1, <2>2 DEF PortMoves
  <2> QED BY <2>1, <2>3 DEF To
<1>8. (route.r => To("csr") /\ ~host.acc.write)'
  <2> SUFFICES ASSUME route'.r PROVE host'.acc.to = "csr" /\ ~host'.acc.write
    BY DEF To
  <2>1. To("csr") /\ ~RHs /\ host.st \in {"AR", "R"} /\ ~host.acc.write
    BY <1>2, <1>5, <1>6 DEF Port
  <2>2. host'.st \in {"AR", "R"}
    BY <1>1, <2>1 DEF PortMoves
  <2>3. host'.acc = host.acc
    BY <1>1, <2>1, <2>2 DEF PortMoves
  <2> QED BY <2>1, <2>3 DEF To
<1>9. (host.st = "R" /\ To("mem"))' <=>
          \/ HostRead.valid /\ ArReady0(DmaRq)
          \/ host.st = "R" /\ To("mem") /\ ~RValid("M0")
  <2>1. HostRead.valid /\ ArReady0(DmaRq) <=> ArHs /\ To("mem")
    BY DEF HostRead, ArHs, ArReady
  <2>2. To("mem") => (RHs <=> host.st = "R" /\ RValid("M0"))
    BY DEF RHs, RVal
  <2>3. host'.st = "R" <=> ArHs \/ (host.st = "R" /\ ~RHs)
    BY <1>1, <1>5 DEF PortMoves, Port
  <2>4. host'.st = "R" => host'.acc = host.acc
    BY <1>1, <2>3, <1>5 DEF PortMoves
  <2> QED BY <2>1, <2>2, <2>3, <2>4 DEF To
<1> DEFINE own == host.st = "AW" /\ To("mem") /\ host.aw
<1>10. HostWrite.valid /\ AwReady0(DmaWq) <=> AwHs /\ To("mem")
  BY DEF HostWrite, HostRead, AwHs, AwReady
<1>11. AwHs => ~host.aw
  BY DEF AwHs, HostAw
<1>12. To("mem") => (BHs <=> host.st = "AW" /\ BValid("M0"))
  BY DEF BHs, BVal
<1>13. (host.st = "AW" /\ To("mem") /\ host.aw)' <=>
          \/ HostWrite.valid /\ AwReady0(DmaWq)
          \/ host.st = "AW" /\ To("mem") /\ host.aw /\ ~BValid("M0")
  <2>1. ASSUME own' PROVE (AwHs /\ To("mem")) \/ (own /\ ~BValid("M0"))
    <3>1. host'.st = "AW" /\ host'.acc.to = "mem" /\ host'.aw
      BY <2>1 DEF To
    <3>2. host.st = "AW" /\ host'.acc = host.acc /\ (host.aw \/ AwHs) /\ ~(BHs /\ host.aw /\ host.w)
      BY <1>1, <3>1 DEF PortMoves, Port
    <3> QED BY <1>3, <1>12, <3>1, <3>2 DEF To
  <2>2. ASSUME (AwHs /\ To("mem")) \/ (own /\ ~BValid("M0")) PROVE own'
    <3>1. host.st = "AW" /\ To("mem") /\ ~BHs /\ (host.aw \/ AwHs)
      BY <1>3, <1>5, <1>11, <1>12, <2>2
    <3>2. host'.st = "AW" /\ host'.acc = host.acc /\ host'.aw
      BY <1>1, <3>1 DEF PortMoves
    <3> QED BY <3>1, <3>2 DEF To
  <2> QED BY <1>10, <2>1, <2>2
<1>14. HostWrite.valid /\ AwReady0(DmaWq) => ~host'.w
  <2> SUFFICES ASSUME AwHs, To("mem") PROVE ~host'.w
    BY <1>10
  <2>1. host.st = "AW" /\ ~host.aw /\ ~BHs /\ ~host.w /\ ~WHs
    BY <1>3, <1>5, <1>11 DEF Port
  <2> QED BY <1>1, <2>1 DEF PortMoves
<1>15. host.st = "AW" /\ To("mem") /\ host.aw /\ host'.st = "AW" =>
          host'.w = (host.w \/ WReady("M0"))
  <2> SUFFICES ASSUME host.st = "AW", To("mem"), host.aw, host'.st = "AW"
               PROVE  host'.w = (host.w \/ WReady("M0"))
    OBVIOUS
  <2>1. host'.w = (host.w \/ WHs)
    BY <1>1 DEF PortMoves
  <2>2. host.w \/ WHs <=> host.w \/ WReady("M0")
    BY DEF WHs, HostW, WRdy
  <2>3. host.w \in BOOLEAN /\ WReady("M0") \in BOOLEAN
    BY DEF Port, WReady
  <2> QED BY <2>1, <2>2, <2>3
<1>16. PortEdge
  BY <1>9, <1>13, <1>14, <1>15 DEF PortEdge
<1> QED BY <1>1, <1>4, <1>7, <1>8, <1>16 DEF Port

-----------------------------------------------------------------------------
(* The shared memory's two channels.                                        *)


\* A request for a word of the memory starts at a beat of it.
LEMMA BeatTypes ==
    ASSUME NEW q, q.word \in 0 .. Words - 1
    PROVE  BeatBase(q) \in 0 .. Words - 1 /\ BeatStride(q) \in 1 .. WPB
<1>1. WPB \in Nat \ {0} /\ q.word \in Nat
  BY ParamsAssumption
<1>2. q.word % WPB \in 0 .. q.word
  <2> DEFINE x == q.word
  <2>1. x \in Nat
    BY <1>1
  <2> HIDE DEF x
  <2>2. x % WPB \in 0 .. WPB - 1 /\ x = WPB * (x \div WPB) + (x % WPB) /\ x \div WPB \in Nat
    BY <1>1, <2>1
  <2>3. WPB * (x \div WPB) \in Nat
    BY <1>1, <2>2
  <2>4. x % WPB \in 0 .. x
    BY <2>1, <2>2, <2>3
  <2> QED BY <2>4 DEF x
<1> QED BY <1>1, <1>2, FabricAssumption DEF BeatBase, BeatStride

\* The engine and the host ask for words of the memory.
LEMMA RequestTypes ==
    ASSUME Engine, Port
    PROVE  /\ DmaRq.word \in 0 .. Words - 1 /\ DmaWq.word \in 0 .. Words - 1
           /\ HostRead.valid => HostRead.word \in 0 .. Words - 1
           /\ HostWrite.valid => HostWrite.word \in 0 .. Words - 1
<1>1. \A x \in Nat : Word(x) \in 0 .. Words - 1
  <2> TAKE x \in Nat
  <2>1. x \div 4 \in Nat /\ Words \in Nat \ {0}
    BY FabricAssumption
  <2> QED BY <2>1 DEF Word
<1>2. To("mem") => host.acc.word \in 0 .. Words - 1
  BY NoAccessIsNone DEF Port, To
<1>3. HostRead.valid \/ HostWrite.valid => To("mem")
  BY DEF HostRead, HostWrite
<1>4. HostRead.word = host.acc.word /\ HostWrite.word = host.acc.word
  BY DEF HostRead, HostWrite
<1> QED BY <1>1, <1>2, <1>3, <1>4 DEF DmaRq, DmaWq, Engine, EngineTypes

\* A pointer moves inside the memory.
LEMMA PointerMoves ==
    ASSUME NEW p \in 0 .. Words - 1, NEW d \in 1 .. WPB
    PROVE  (p + d) % Words \in 0 .. Words - 1
BY FabricAssumption, ParamsAssumption

\* The pointers of the read channel stay inside the memory.
LEMMA ReadDataStep ==
    ASSUME Engine, Port, ReadData,
           ReadClk(HostRead, DmaRq, host.st = "R", MRready)
    PROVE  ReadData'
<1> DEFINE q == Offered(rgrant, HostRead, DmaRq)
           f == rstate = "DATA" /\ Owner(rgrant, host.st = "R", MRready)
<1>1. q.valid => q.word \in 0 .. Words - 1
  BY RequestTypes DEF Offered
<1>2. WPB \in Nat \ {0}
  BY ParamsAssumption
<1>3. \/ q.valid /\ rptr' = BeatBase(q) /\ rstride' = BeatStride(q) /\ rdata' = WideRead(BeatBase(q))
      \/ rptr' = 0 /\ rstride' = 1 /\ rdata' = NoData
      \/ /\ rptr' = (rptr + rstride) % Words /\ rstride' = rstride
         /\ rdata' = WideRead(rptr + rstride)
      \/ UNCHANGED <<rptr, rstride, rdata>>
  BY DEF ReadClk
<1> HIDE DEF q
<1>4. CASE q.valid /\ rptr' = BeatBase(q) /\ rstride' = BeatStride(q) /\ rdata' = WideRead(BeatBase(q))
  <2>1. rptr' \in 0 .. Words - 1 /\ rstride' \in 1 .. WPB
    BY <1>1, <1>4, BeatTypes
  <2> QED BY <1>4, <2>1 DEF ReadData, WideRead
<1>5. CASE rptr' = 0 /\ rstride' = 1 /\ rdata' = NoData
  BY <1>2, <1>5, FabricAssumption DEF ReadData, NoData
<1>6. CASE /\ rptr' = (rptr + rstride) % Words /\ rstride' = rstride
           /\ rdata' = WideRead(rptr + rstride)
  BY <1>6, PointerMoves DEF ReadData, WideRead
<1>7. CASE UNCHANGED <<rptr, rstride, rdata>>
  BY <1>7 DEF ReadData
<1> QED BY <1>3, <1>4, <1>5, <1>6, <1>7

\* The pointer of the write channel stays inside the memory.
LEMMA WriteDataStep ==
    ASSUME Engine, Port, WriteData,
           WriteClk(HostWrite, DmaWq, HostData, DmaData, host.st = "AW", dma_st = "B")
    PROVE  WriteData'
<1> DEFINE q == Offered(wgrant, HostWrite, DmaWq)
<1>1. q.valid => q.word \in 0 .. Words - 1
  BY RequestTypes DEF Offered
<1>2. WPB \in Nat \ {0}
  BY ParamsAssumption
<1>3. \/ q.valid /\ wptr' = BeatBase(q) /\ wstride' = BeatStride(q)
      \/ wptr' = 0 /\ wstride' = 1
      \/ wptr' = (wptr + wstride) % Words /\ wstride' = wstride
      \/ UNCHANGED <<wptr, wstride>>
  BY DEF WriteClk
<1> HIDE DEF q
<1>4. CASE q.valid /\ wptr' = BeatBase(q) /\ wstride' = BeatStride(q)
  BY <1>1, <1>4, BeatTypes DEF WriteData
<1>5. CASE wptr' = 0 /\ wstride' = 1
  BY <1>2, <1>5, FabricAssumption DEF WriteData
<1>6. CASE wptr' = (wptr + wstride) % Words /\ wstride' = wstride
  BY <1>6, PointerMoves DEF WriteData
<1>7. CASE UNCHANGED <<wptr, wstride>>
  BY <1>7 DEF WriteData
<1> QED BY <1>3, <1>4, <1>5, <1>6, <1>7

\* The read channel: who is granted is who waits for a beat.
LEMMA ReadStep ==
    ASSUME Engine, Port, ReadChannel, EngineEdge, PortEdge,
           ReadClk(HostRead, DmaRq, host.st = "R", MRready)
    PROVE  ReadChannel'
<1> USE DEF ReadChannel
<1> DEFINE q == Offered(rgrant, HostRead, DmaRq)
           f == rstate = "DATA" /\ Owner(rgrant, host.st = "R", MRready)
<1>0. /\ rgrant' = Grant(rgrant, HostRead, DmaRq, f /\ RLast)
      /\ \/ rstate = "IDLE" /\ q.valid /\ rstate' = "DATA" /\ rbeats_left' = q.beats
         \/ f /\ RLast /\ rstate' = "IDLE" /\ rbeats_left' = 0
         \/ f /\ ~RLast /\ rbeats_left' = rbeats_left - 1 /\ rstate' = rstate
         \/ /\ ~f /\ ~(rstate = "IDLE" /\ q.valid)
            /\ UNCHANGED <<rstate, rbeats_left>>
  BY DEF ReadClk
<1>1. HostRead.beats = 1 /\ DmaRq.beats = arbeats /\ DmaRq.valid = arvalid
  BY DEF HostRead, DmaRq
<1>2. HostRead.valid => host.st = "AR" /\ To("mem")
  BY DEF HostRead, HostAr
<1>3. arvalid => dma_st = "AR"
  BY DEF Engine
<1>4. dma_st = "R" => beats_in_burst \in Nat
  BY DEF Engine, EngineTypes
<1>5. CASE rgrant = "IDLE" /\ arvalid
  <2>1. q = DmaRq /\ ArReady1(DmaRq) /\ ~ArReady0(DmaRq)
    BY <1>1, <1>5 DEF Offered, Sel1, ArReady1, ArReady0
  <2>2. rgrant' = "M1" /\ rstate' = "DATA" /\ rbeats_left' = arbeats
    BY <1>0, <1>1, <1>5, <2>1 DEF Grant
  <2>3. dma_st' = "R" /\ beats_in_burst' = arbeats /\ arbeats \in 1 .. MaxBeats
    BY <1>3, <1>5, <2>1 DEF EngineEdge
  <2>4. ~(host.st = "R" /\ To("mem"))'
    BY <1>5, <2>1 DEF PortEdge
  <2> QED BY <2>2, <2>3, <2>4
<1>6. CASE rgrant = "IDLE" /\ ~arvalid
  <2>1. q = HostRead /\ (HostRead.valid => ArReady0(DmaRq))
    BY <1>1, <1>6 DEF Offered, Sel1, ArReady0
  <2>2. dma_st' # "R"
    BY <1>6 DEF EngineEdge
  <2>3. (host.st = "R" /\ To("mem"))' <=> HostRead.valid
    BY <1>6, <2>1 DEF PortEdge
  <2>4. CASE HostRead.valid
    BY <1>0, <1>1, <1>6, <2>1, <2>2, <2>3, <2>4 DEF Grant
  <2>5. CASE ~HostRead.valid
    BY <1>0, <1>1, <1>6, <2>1, <2>2, <2>3, <2>5 DEF Grant
  <2> QED BY <2>4, <2>5
<1>7. CASE rgrant = "M1"
  <2>1. f /\ RValid("M1") /\ ~ArReady0(DmaRq)
    BY <1>7 DEF Owner, MRready, RValid, ArReady0, Sel1
  <2>2. ~(host.st = "R" /\ To("mem"))'
    BY <1>7, <2>1 DEF PortEdge
  <2>3. dma_st' = "R" <=> ~RLast
    BY <1>7, <2>1 DEF EngineEdge
  <2>4. CASE RLast
    BY <1>0, <1>7, <2>1, <2>2, <2>3, <2>4 DEF Grant
  <2>5. CASE ~RLast
    <3>1. beats_in_burst' = beats_in_burst
      BY <1>7, <2>3, <2>5 DEF EngineEdge
    <3>2. rbeats_left \in 2 .. beats_in_burst
      BY <1>4, <1>7, <2>5 DEF RLast
    <3>3. rgrant' = "M1" /\ rstate' = "DATA" /\ rbeats_left' = rbeats_left - 1
      BY <1>0, <1>7, <2>1, <2>5 DEF Grant
    <3> QED BY <1>4, <1>7, <2>2, <2>3, <2>5, <3>1, <3>2, <3>3
  <2> QED BY <2>4, <2>5
<1>8. CASE rgrant = "M0"
  <2>1. f /\ RLast /\ RValid("M0") /\ ~ArReady1(DmaRq)
    BY <1>8 DEF Owner, RValid, RLast, ArReady1, Sel1
  <2>2. ~(host.st = "R" /\ To("mem"))'
    BY <1>2, <1>8, <2>1 DEF PortEdge
  <2>3. dma_st' # "R"
    BY <1>8, <2>1 DEF EngineEdge
  <2> QED BY <1>0, <1>8, <2>1, <2>2, <2>3 DEF Grant
<1> QED BY <1>5, <1>6, <1>7, <1>8

\* The write channel: who is granted is who waits for a word or a response to be
\* taken.
LEMMA WriteStep ==
    ASSUME Engine, Port, WriteChannel, EngineEdge, PortEdge, Port',
           WriteClk(HostWrite, DmaWq, HostData, DmaData, host.st = "AW", dma_st = "B")
    PROVE  WriteChannel'
<1> USE DEF WriteChannel
<1> DEFINE q == Offered(wgrant, HostWrite, DmaWq)
           d == Owner(wgrant, HostData, DmaData)
           p == wstate = "RESP" /\ Owner(wgrant, host.st = "AW", dma_st = "B")
           own == host.st = "AW" /\ To("mem") /\ host.aw
<1>0. /\ wgrant' = Grant(wgrant, HostWrite, DmaWq, p)
      /\ \/ wstate = "IDLE" /\ q.valid /\ wstate' = "DATA"
         \/ wstate = "DATA" /\ d.valid /\ wstate' = IF d.last THEN "RESP" ELSE "DATA"
         \/ p /\ wstate' = "IDLE"
         \/ /\ ~(wstate = "IDLE" /\ q.valid) /\ ~(wstate = "DATA" /\ d.valid) /\ ~p
            /\ wstate' = wstate
  BY DEF WriteClk
<1>1. /\ DmaWq.valid = awvalid
      /\ DmaData.valid = wvalid /\ DmaData.last = MWlast
      /\ HostData.valid = (HostW /\ To("mem")) /\ HostData.last = TRUE
  BY DEF DmaWq, DmaData, HostData
<1>2. HostWrite.valid => host.st = "AW" /\ To("mem") /\ ~host.aw
  BY DEF HostWrite, HostRead, HostAw
<1>3. awvalid => dma_st = "AW"
  BY DEF Engine
<1>4. CASE wgrant = "IDLE" /\ awvalid
  <2>1. q = DmaWq /\ AwReady1(DmaWq) /\ ~AwReady0(DmaWq)
    BY <1>1, <1>4 DEF Offered, Sel1, AwReady1, AwReady0
  <2>2. wgrant' = "M1" /\ wstate' = "DATA"
    BY <1>0, <1>1, <1>4, <2>1 DEF Grant
  <2>3. dma_st' = "W"
    BY <1>3, <1>4, <2>1 DEF EngineEdge
  <2>4. ~own'
    BY <1>4, <2>1 DEF PortEdge
  <2> QED BY <2>2, <2>3, <2>4
<1>5. CASE wgrant = "IDLE" /\ ~awvalid
  <2>1. q = HostWrite /\ (HostWrite.valid => AwReady0(DmaWq))
    BY <1>1, <1>5 DEF Offered, Sel1, AwReady0
  <2>2. dma_st' # "W" /\ dma_st' # "B"
    BY <1>5 DEF EngineEdge
  <2>3. own' <=> HostWrite.valid
    BY <1>5, <2>1 DEF PortEdge
  <2>4. HostWrite.valid => ~host'.w
    BY <2>1 DEF PortEdge
  <2>5. CASE HostWrite.valid
    <3>1. wgrant' = "M0" /\ wstate' = "DATA"
      BY <1>0, <1>1, <1>5, <2>1, <2>5 DEF Grant
    <3> QED BY <2>2, <2>3, <2>4, <2>5, <3>1
  <2>6. CASE ~HostWrite.valid
    <3>1. wgrant' = "IDLE" /\ wstate' = "IDLE"
      BY <1>0, <1>1, <1>5, <2>1, <2>6 DEF Grant
    <3> QED BY <2>2, <2>3, <2>6, <3>1
  <2> QED BY <2>5, <2>6
<1>6. CASE wgrant = "M1"
  <2>1. ~AwReady0(DmaWq) /\ ~own /\ d = DmaData
    BY <1>6 DEF AwReady0, Sel1, Owner
  <2>2. ~own'
    BY <2>1 DEF PortEdge
  <2>3. CASE dma_st = "W"
    <3>1. wstate = "DATA" /\ WReady("M1")
      BY <1>6, <2>3 DEF WReady
    <3>2. wgrant' = "M1"
      BY <1>0, <1>6, <3>1 DEF Grant
    <3>3. wstate' = IF wvalid /\ FinalWBeat THEN "RESP" ELSE "DATA"
      BY <1>0, <1>1, <2>1, <2>3, <3>1 DEF MWlast
    <3>4. dma_st' = IF wvalid /\ FinalWBeat THEN "B" ELSE "W"
      BY <2>3, <3>1 DEF EngineEdge
    <3> QED BY <2>2, <3>2, <3>3, <3>4
  <2>4. CASE dma_st = "B"
    <3>1. wstate = "RESP" /\ p /\ BValid("M1")
      BY <1>6, <2>4 DEF BValid, Owner
    <3>2. wgrant' = "IDLE" /\ wstate' = "IDLE"
      BY <1>0, <1>6, <3>1 DEF Grant
    <3>3. dma_st' # "W" /\ dma_st' # "B"
      BY <2>4, <3>1 DEF EngineEdge
    <3> QED BY <2>2, <3>2, <3>3
  <2> QED BY <1>6, <2>3, <2>4
<1>7. CASE wgrant = "M0"
  <2>1. own /\ ~AwReady1(DmaWq) /\ ~WReady("M1") /\ d = HostData
        /\ dma_st \notin {"W", "B"}
    BY <1>7 DEF AwReady1, Sel1, WReady, Owner
  <2>2. dma_st' # "W" /\ dma_st' # "B"
    BY <2>1 DEF EngineEdge
  <2>3. CASE wstate = "DATA"
    <3>1. ~host.w /\ HostData.valid /\ ~BValid("M0") /\ WReady("M0")
      BY <1>1, <1>7, <2>1, <2>3 DEF HostW, BValid, WReady
    <3>2. wgrant' = "M0" /\ wstate' = "RESP"
      BY <1>0, <1>1, <1>7, <2>1, <2>3, <3>1 DEF Grant
    <3>3. own'
      BY <2>1, <3>1 DEF PortEdge
    <3>4. host'.w
      BY <2>1, <3>1, <3>3 DEF PortEdge
    <3> QED BY <2>2, <3>2, <3>3, <3>4
  <2>4. CASE wstate = "RESP"
    <3>1. p /\ BValid("M0")
      BY <1>7, <2>1, <2>4 DEF BValid, Owner
    <3>2. wgrant' = "IDLE" /\ wstate' = "IDLE"
      BY <1>0, <1>7, <3>1 DEF Grant
    <3>3. ~own'
      BY <1>2, <2>1, <3>1 DEF PortEdge
    <3> QED BY <2>2, <3>2, <3>3
  <2> QED BY <1>7, <2>3, <2>4
<1> QED BY <1>4, <1>5, <1>6, <1>7

-----------------------------------------------------------------------------
(* The hard reset, and the whole clock edge.                                *)

\* The pulse of a hard reset starts on an idle engine and holds it idle.
LEMMA HardStep ==
    ASSUME Engine, Reset, EngineEdge, hard_req' \in BOOLEAN, HardClk
    PROVE  Reset'
<1>1. hard.pending \in BOOLEAN /\ hard.cnt \in 0 .. 2 /\ HardPending \in BOOLEAN
  BY DEF Reset, HardPending
<1>2. /\ hard.cnt # 0 => hard' = [pending |-> HardPending, cnt |-> hard.cnt - 1]
      /\ hard.cnt = 0 /\ HardFires => hard' = [pending |-> FALSE, cnt |-> 2]
      /\ hard.cnt = 0 /\ ~HardFires => hard' = [pending |-> HardPending, cnt |-> 0]
  BY DEF HardClk
<1>3. hard' \in [pending : BOOLEAN, cnt : 0 .. 2]
  <2>1. CASE hard.cnt # 0
    <3>1. hard.cnt - 1 \in 0 .. 2
      BY <1>1, <2>1
    <3> QED BY <1>1, <1>2, <2>1, <3>1
  <2>2. CASE hard.cnt = 0 /\ HardFires
    <3>1. hard' = [pending |-> FALSE, cnt |-> 2]
      BY <1>2, <2>2
    <3> QED BY ONLY <3>1
  <2>3. CASE hard.cnt = 0 /\ ~HardFires
    BY <1>1, <1>2, <2>3
  <2> QED BY <2>1, <2>2, <2>3
<1>4. hard'.cnt # 0 => DomainReset \/ ~busy
  BY <1>2 DEF DomainReset, HardFires, HardQuiet
<1>5. DomainReset' <=> hard'.cnt # 0
  BY DEF DomainReset
<1> QED BY <1>3, <1>4, <1>5 DEF Reset, EngineEdge

\* One clock edge of the whole keeps the invariant.
LEMMA ClockKeepsFInv ==
    ASSUME FInv, NEW a \in HostMoves, NEW m \in CoreMoves, Clock(a, m)
    PROVE  FInv'
<1> USE DEF FInv
<1>1. /\ HostClk(a) /\ RouteClk /\ CsrBlockClk(m) /\ HardClk /\ EngineClk
      /\ ReadClk(HostRead, DmaRq, host.st = "R", MRready)
      /\ WriteClk(HostWrite, DmaWq, HostData, DmaData, host.st = "AW", dma_st = "B")
  BY DEF Clock, MemoryClk
<1>2. Engine' /\ EngineEdge
  BY <1>1, EngineEdgeStep
<1>3. Port' /\ PortEdge
  BY <1>1, PortEdgeStep
<1>4. hard_req' \in BOOLEAN
  BY <1>1, RegsStep
<1>5. Reset'
  BY <1>1, <1>2, <1>4, HardStep
<1>6. ReadChannel' /\ ReadData'
  BY <1>1, <1>2, <1>3, ReadStep, ReadDataStep
<1>7. WriteChannel' /\ WriteData'
  BY <1>1, <1>2, <1>3, WriteStep, WriteDataStep
<1> QED BY <1>2, <1>3, <1>5, <1>6, <1>7

\* The invariant holds at first, is kept by every step, and so always holds.
LEMMA FInvInit == Init => FInv
<1> SUFFICES ASSUME Init PROVE FInv
  OBVIOUS
<1>1. WPB \in Nat \ {0} /\ Words \in Nat \ {0}
  BY ParamsAssumption, FabricAssumption
<1>2. Engine
  <2>1. /\ dma_st = "IDLE" /\ busy = FALSE
        /\ arvalid = FALSE /\ awvalid = FALSE /\ wvalid = FALSE /\ soft_rst = FALSE
        /\ araddr = 0 /\ awaddr = 0 /\ cur_addr = 0 /\ remaining = 0
        /\ buf_addr = 0 /\ buf_raddr = 0 /\ beats_in_burst = 0 /\ beats_done = 0
        /\ dma_desc = NoDesc /\ wb_desc = NoDesc /\ strip_busy = FALSE
    BY DEF Init, DmaInit, RegsInit
  <2>2. {araddr, awaddr, cur_addr, remaining, buf_addr, buf_raddr, beats_in_burst,
         beats_done} \subseteq Nat
    BY ONLY <2>1
  <2>3. cur_addr % 4 = 0
    BY ONLY <2>1
  <2>4. {busy, arvalid, awvalid, wvalid, soft_rst} \subseteq BOOLEAN
    BY ONLY <2>1
  <2>5. EngineTypes
    BY <2>1, <2>2, <2>3, <2>4 DEF EngineTypes
  <2>6. remaining <= ReadJob.len + WriteJob.len
    BY <2>1, JobTypes DEF JobLens
  <2> QED BY <2>1, <2>5, <2>6 DEF Engine, Moving
<1>3. Reset
  <2>1. hard = [pending |-> FALSE, cnt |-> 0] /\ hard_req = FALSE
    BY DEF Init, RegsInit
  <2>2. hard \in [pending : BOOLEAN, cnt : 0 .. 2] /\ hard.cnt = 0
    BY ONLY <2>1
  <2> QED BY <2>1, <2>2 DEF Reset, DomainReset
<1>4. Port
  BY NoAccessIsNone DEF Init, Port, To
<1>5. ReadChannel /\ WriteChannel
  <2>1. /\ rgrant = "IDLE" /\ rstate = "IDLE" /\ rbeats_left = 0
        /\ wgrant = "IDLE" /\ wstate = "IDLE" /\ dma_st = "IDLE" /\ host.st = "IDLE"
    BY DEF Init, FabricInit, DmaInit
  <2> QED BY <2>1 DEF ReadChannel, WriteChannel
<1>6. ReadData /\ WriteData
  BY <1>1 DEF Init, FabricInit, NoData, ReadData, WriteData
<1> QED BY <1>2, <1>3, <1>4, <1>5, <1>6 DEF FInv

\* Every step keeps it.
LEMMA FInvNext == FInv /\ [Next]_vars => FInv'
<1>1. ASSUME FInv, Next PROVE FInv'
  BY <1>1, ClockKeepsFInv DEF Next
<1>2. ASSUME FInv, UNCHANGED vars PROVE FInv'
  <2> USE <1>2 DEF vars, dmaVars, regVars, fabricVars, topVars, flags, archan, wchans, xfer,
                   beats, sflags
  <2>1. Engine'
    <3>1. ThisBurst' = ThisBurst
      BY DEF ThisBurst, Dist4k, Step
    <3>2. EngineTypes'
      BY DEF FInv, Engine, EngineTypes
    <3> QED BY <3>1, <3>2 DEF FInv, Engine, Moving
  <2>2. Reset'
    BY DEF FInv, Reset, DomainReset
  <2>3. Port'
    BY DEF FInv, Port, To
  <2>4. ReadChannel' /\ WriteChannel'
    BY DEF FInv, ReadChannel, WriteChannel, To
  <2>5. ReadData' /\ WriteData'
    BY DEF FInv, ReadData, WriteData
  <2> QED BY <2>1, <2>2, <2>3, <2>4, <2>5 DEF FInv
<1> QED BY <1>1, <1>2

\* It always holds.
LEMMA FInvAlways == Spec => []FInv
BY FInvInit, FInvNext, PTL DEF Spec

\* Every register of the path has its type, and the decoder's route belongs to the
\* access the bridge holds (npu_top.v, axil_bridge.v).
THEOREM FabricTypes == Spec => []TypeOK
<1>1. FInv => TypeOK
  <2> SUFFICES ASSUME FInv PROVE TypeOK
    OBVIOUS
  <2>1. MaxBeats \in Nat
    BY DmaAssumption
  <2>2. dma_st \in DmaStates /\ remaining \in 0 .. ReadJob.len + WriteJob.len
    BY JobTypes DEF FInv, Engine, EngineTypes, DmaStates, JobLens
  <2>3. rbeats_left \in 0 .. MaxBeats
    <3>1. dma_st = "R" => beats_in_burst \in Nat
      BY DEF FInv, Engine, EngineTypes
    <3> QED BY <2>1, <3>1, DmaAssumption DEF FInv, ReadChannel
  <2>4. /\ host.st \in {"IDLE", "AR", "R", "AW"} /\ host.acc \in Accesses \cup {NoAccess}
        /\ route.w => To("csr") /\ host.acc.write
        /\ route.r => To("csr") /\ ~host.acc.write
    BY DEF FInv, Port
  <2>5. hard.cnt \in 0 .. 2 /\ hard.pending \in BOOLEAN
    BY DEF FInv, Reset
  <2>6. /\ rgrant \in {"IDLE", "M0", "M1"} /\ wgrant \in {"IDLE", "M0", "M1"}
        /\ rptr \in 0 .. Words - 1 /\ wptr \in 0 .. Words - 1
        /\ DOMAIN rdata = 0 .. WPB - 1
    BY DEF FInv, ReadChannel, WriteChannel, ReadData, WriteData
  <2> QED BY <2>2, <2>3, <2>4, <2>5, <2>6 DEF TypeOK
<1> QED BY <1>1, FInvAlways, PTL

\* A grant of the arbiter always has its master behind it, waiting for what the
\* SRAM still owes: neither reset cuts a burst (axi_full_arbiter_2x1.v, npu_dma.v,
\* the hard reset of npu_top.v).
THEOREM BurstsAreUncut == Spec => []BurstsUncut
<1>1. FInv => BurstsUncut
  BY DEF FInv, ReadChannel, WriteChannel, BurstsUncut
<1> QED BY <1>1, FInvAlways, PTL

-----------------------------------------------------------------------------
(* The fault evidence.                                                      *)

\* While an abort is owed an answer, either it is still going on or its
\* evidence is there; and it is not part of a hard reset, which leaves none.
EvInv == owed => ~hard_q /\ (soft_rst \/ (cq.err /\ err_cause # NoCause))

-----------------------------------------------------------------------------
\* The write of the core at its mirror port is a fault report only in cq_halt.
LEMMA OnlyHaltReports ==
    ASSUME NEW m, m # "fault"
    PROVE  CoreWrite(m).reg # "ERR_CAUSE"
<1>1. CASE m = "rdesc" BY <1>1 DEF CoreWrite
<1>2. CASE m = "rgo" BY <1>2 DEF CoreWrite
<1>3. CASE m = "wdesc" BY <1>3 DEF CoreWrite
<1>4. CASE m = "wgo" BY <1>4 DEF CoreWrite
<1>5. CASE m \notin {"rdesc", "rgo", "wdesc", "wgo"}
  BY <1>5 DEF CoreWrite, NoWrite
<1> QED BY <1>1, <1>2, <1>3, <1>4, <1>5

\* What one clock edge of the registers does to the evidence: the core's report
\* beats the acknowledgement, and that beats the end of the abort.
LEMMA EvidenceStep ==
    ASSUME NEW hw, NEW cw, NEW quiet,
           Evidence(hw, cw, quiet), QueueRegs(hw, cw, quiet)
    PROVE  /\ Latched(quiet) /\ ~Ack(hw) => cq'.err /\ err_cause' # NoCause
           /\ cq.err /\ err_cause # NoCause /\ ~Ack(hw) => cq'.err /\ err_cause' # NoCause
           /\ err_cause # NoCause /\ err_cause' # err_cause => Ack(hw)
           /\ Ack(hw) /\ cw.reg # "ERR_CAUSE" => ~cq'.err /\ err_cause' = NoCause
<1> DEFINE err2 == IF CoreCause(cw) THEN TRUE
                   ELSE IF Ack(hw) THEN FALSE ELSE cq.err \/ Latched(quiet)
<1>1. cq'.err = err2
  BY DEF QueueRegs
<1>2. err_cause' = IF CoreCause(cw) THEN cw.val
                   ELSE IF Ack(hw) THEN NoCause
                   ELSE IF Latched(quiet) /\ err_cause = NoCause THEN Aborted
                   ELSE err_cause
  BY DEF Evidence
<1>3. CoreCause(cw) => cw.val # NoCause /\ err_cause = NoCause /\ cw.reg = "ERR_CAUSE"
  BY DEF CoreCause
<1> QED BY <1>1, <1>2, <1>3, CauseAssumption

\* The reset bits: an abort that is neither asked for nor over goes on.
LEMMA ResetStep ==
    ASSUME NEW hw, NEW quiet, ResetBits(hw, quiet)
    PROVE  /\ SoftWrite(hw) => soft_rst'
           /\ soft_rst /\ ~hard_q /\ ~soft_rst' => Latched(quiet)
           /\ ~hard_q /\ ~HardWrite(hw) => ~hard_q'
BY DEF ResetBits, Latched, Quiesced

-----------------------------------------------------------------------------
\* One clock edge: the invariant is kept, and the evidence with it.
LEMMA ClockKeeps ==
    ASSUME EvInv, NEW a \in HostMoves, NEW m \in CoreMoves, Clock(a, m)
    PROVE  /\ EvInv'
           /\ owed' /\ ~soft_rst' => cq'.err /\ err_cause' # NoCause
           /\ err_cause # NoCause /\ err_cause' # err_cause => Acknowledged \/ DomainReset
           /\ Acknowledged /\ core # "fault" => ~cq'.err /\ err_cause' = NoCause
<1>1. CASE DomainReset
  <2>1. ~owed'
    BY <1>1 DEF Clock, History
  <2>2. ~Acknowledged
    BY <1>1 DEF Acknowledged
  <2> QED BY <1>1, <2>1, <2>2 DEF EvInv
<1>2. CASE ~DomainReset
  <2> DEFINE cw == CoreWrite(m)
             quiet == ~busy
  <2>1. RegsCoreClk(Hw, cw, quiet)
    BY <1>2 DEF Clock, CsrBlockClk
  <2>2. Evidence(Hw, cw, quiet) /\ QueueRegs(Hw, cw, quiet) /\ ResetBits(Hw, quiet)
    BY <2>1 DEF RegsCoreClk
  <2>3. /\ Latched(quiet) /\ ~Ack(Hw) => cq'.err /\ err_cause' # NoCause
        /\ cq.err /\ err_cause # NoCause /\ ~Ack(Hw) => cq'.err /\ err_cause' # NoCause
        /\ err_cause # NoCause /\ err_cause' # err_cause => Ack(Hw)
        /\ Ack(Hw) /\ cw.reg # "ERR_CAUSE" => ~cq'.err /\ err_cause' = NoCause
    BY ONLY <2>2, EvidenceStep
  <2>4. /\ SoftWrite(Hw) => soft_rst'
        /\ soft_rst /\ ~hard_q /\ ~soft_rst' => Latched(quiet)
        /\ ~hard_q /\ ~HardWrite(Hw) => ~hard_q'
    BY ONLY <2>2, ResetStep
  <2>5. Acknowledged <=> Ack(Hw)
    BY <1>2 DEF Acknowledged
  <2>6. owed' => ~HardWrite(Hw) /\ ~Ack(Hw) /\ (owed \/ (SoftWrite(Hw) /\ ~hard_q))
    BY <1>2, <2>5 DEF Clock, History
  <2>7. core # "fault" => cw.reg # "ERR_CAUSE"
    <3>1. core # "fault" => m # "fault"
      BY DEF CoreMoves
    <3> QED BY <3>1, OnlyHaltReports
  <2>8. owed' => ~hard_q' /\ (soft_rst' \/ (cq'.err /\ err_cause' # NoCause))
    BY <2>3, <2>4, <2>6 DEF EvInv
  <2>9. EvInv'
    BY <2>8 DEF EvInv
  <2> QED BY <2>3, <2>5, <2>7, <2>8, <2>9
<1> QED BY <1>1, <1>2

\* A soft reset that is over has left its evidence, the first cause stays, and
\* an acknowledgement is not undone by an abort that ends in the same cycle
\* (npu_axil_regs.v, the last writer of the clocked block).
THEOREM EvidenceSurvives == Spec => EvidenceKept
<1>1. Init => EvInv
  BY DEF Init, EvInv
<1>2. EvInv /\ [Next]_vars => EvInv'
  <2>1. ASSUME EvInv, Next PROVE EvInv'
    BY <2>1, ClockKeeps DEF Next
  <2>2. ASSUME EvInv, UNCHANGED vars PROVE EvInv'
    BY <2>2 DEF EvInv, vars, topVars, regVars
  <2> QED BY <2>1, <2>2
<1>3. EvInv /\ [Next]_vars =>
        [/\ owed' /\ ~soft_rst' => cq'.err /\ err_cause' # NoCause
         /\ err_cause # NoCause /\ err_cause' # err_cause => Acknowledged \/ DomainReset
         /\ Acknowledged /\ core # "fault" => ~cq'.err /\ err_cause' = NoCause]_vars
  BY ClockKeeps DEF Next
<1> QED BY <1>1, <1>2, <1>3, PTL DEF Spec, EvidenceKept

-----------------------------------------------------------------------------
(* The invariant of the data.                                               *)

Moved    == ReadJob.len - remaining
Sent     == WriteJob.len - remaining
SrcWord  == ReadJob.src \div 4
DstWord  == WriteJob.dst \div 4

\* The first p words of the read have arrived in the local memory; the first p
\* of the write-back in shared memory.
LoadedIn(t, p)     == \A i \in 0 .. p - 1 : t[ReadJob.dst + i] = SrcWord + i
WrittenIn(s, t, p) == \A i \in 0 .. p - 1 : s[DstWord + i] = t[WriteJob.src + i]
Loaded(p)  == LoadedIn(tcm, p)
Written(p) == WrittenIn(mem, tcm, p)
AllLoaded  == Loaded(ReadJob.len)

\* What may be in a word of shared memory, and what in one of the local memory.
Holds(w, v) ==
    IF w \in HostWords THEN v = hostval[w]
    ELSE v = w \/ (w \in WriteWords /\ AllLoaded /\ v = tcm[WriteJob.src + w - DstWord])
Memories ==
    /\ mem \in [0 .. Words - 1 -> Int] /\ tcm \in [0 .. TcmWords - 1 -> Int]
    /\ hostval \in [HostWords -> Int]
    /\ \A w \in 0 .. Words - 1 : Holds(w, mem[w])
    /\ \A i \in 0 .. TcmWords - 1 :
          tcm[i] = -1 \/ (i - ReadJob.dst \in 0 .. ReadJob.len - 1
                          /\ tcm[i] = SrcWord + i - ReadJob.dst)

\* What the core has set up, and that it writes back only what it has read.
Orders ==
    /\ ctrl.start /\ core = "rgo" => dma_desc = ReadJob
    /\ ctrl.start /\ core = "wgo" => wb_desc = WriteJob
    /\ core \in {"wdesc", "wgo"} => AllLoaded
    /\ dma_go => dma_desc = ReadJob
    /\ wb_go => wb_desc = WriteJob /\ AllLoaded
    /\ mode_write \in BOOLEAN /\ done \in BOOLEAN /\ done_ok \in BOOLEAN

\* Whose transfer the engine makes and what it claims about it.
Claims ==
    /\ dma_st \in {"AR", "R"} => ~mode_write /\ remaining <= ReadJob.len
    /\ dma_st \in {"AW", "W", "B"} => mode_write /\ remaining <= WriteJob.len /\ AllLoaded
    /\ done => dma_st = "IDLE"
    /\ done \/ (dma_st = "DONE" /\ done_ok) =>
          AllLoaded /\ (mode_write => Written(WriteJob.len))

\* Where it is: the bus address and the local pointer count the same words.
Arrived == beats_in_burst - rbeats_left
Places ==
    /\ arvalid => araddr = cur_addr
    /\ awvalid => awaddr = cur_addr
    /\ dma_st \in {"AR", "R"} => cur_addr = 4 * (SrcWord + Moved)
    /\ dma_st \in {"AW", "W", "B"} => cur_addr = 4 * (DstWord + Sent)
    /\ dma_st = "AR" => buf_addr = ReadJob.dst + Moved /\ Loaded(Moved)
    /\ dma_st = "R" => buf_addr = ReadJob.dst + Moved + Arrived /\ Loaded(Moved + Arrived)
    /\ dma_st = "AW" => buf_raddr = WriteJob.src + Sent /\ Written(Sent)
    /\ dma_st = "W" => buf_raddr = WriteJob.src + Sent + beats_done /\ Written(Sent + beats_done)
    /\ dma_st = "B" => buf_raddr = WriteJob.src + Sent + beats_in_burst
                       /\ Written(Sent + beats_in_burst)

\* The lanes: the pointer of the memory and the lane of the master make the word.
Lanes ==
    /\ rgrant = "M1" => /\ rstride = 1 /\ rptr + DmaLane = SrcWord + Moved + Arrived
                        /\ rdata[DmaLane] = SrcWord + Moved + Arrived
    /\ rgrant = "M0" => Holds(host.acc.word, rdata[HostLane])
    /\ wstate = "DATA" /\ wgrant = "M1" => wstride = 1 /\ wptr + DmaLane = DstWord + Sent + beats_done
    /\ wstate = "DATA" /\ wgrant = "M0" => wptr + HostLane = host.acc.word

DInv == Memories /\ Orders /\ Claims /\ Places /\ Lanes
-----------------------------------------------------------------------------
(* Words, beats and lanes.                                                  *)

\* A number below the modulus is its own residue.
LEMMA SmallMod ==
    ASSUME NEW n \in Nat \ {0}, NEW x \in 0 .. n - 1
    PROVE  x % n = x
OBVIOUS

\* Going round the memory from a pointer, a word inside it is met at its distance
\* and at no other.
LEMMA RoundTrip ==
    ASSUME NEW n \in Nat \ {0}, NEW p \in 0 .. n - 1, NEW l \in Nat, p + l < n,
           NEW w \in 0 .. n - 1
    PROVE  (w - p) % n = l <=> w = p + l
<1>1. CASE w >= p
  <2>1. w - p \in 0 .. n - 1
    BY <1>1
  <2>2. (w - p) % n = w - p
    BY ONLY <2>1, n \in Nat \ {0}, SmallMod
  <2> QED BY <2>2
<1>2. CASE w < p
  <2>1. (w - p) % n = w - p + n
    BY <1>2
  <2> QED BY <1>2, <2>1
<1> QED BY <1>1, <1>2

\* The beat of a word and its lane make the word, and both fit the memory.
LEMMA BeatAndLane ==
    ASSUME NEW w \in 0 .. Words - 1
    PROVE  /\ w % WPB \in 0 .. WPB - 1
           /\ w - (w % WPB) \in 0 .. Words - 1
           /\ (w - (w % WPB)) + (w % WPB) = w
<1>1. WPB \in Nat \ {0} /\ Words \in Nat \ {0}
  BY ParamsAssumption, FabricAssumption
<1>2. w % WPB \in 0 .. WPB - 1 /\ w = WPB * (w \div WPB) + (w % WPB) /\ w \div WPB \in Nat
  BY <1>1
<1>3. WPB * (w \div WPB) \in Nat
  BY <1>1, <1>2
<1> QED BY <1>1, <1>2, <1>3

\* The two jobs lie inside their memories, and share no word of shared memory with
\* each other or with the host.
LEMMA Layout ==
    /\ Words \in Nat \ {0} /\ WPB \in Nat \ {0} /\ TcmWords \in Nat
    /\ {ReadJob.len, ReadJob.dst, WriteJob.len, WriteJob.src, SrcWord, DstWord} \subseteq Nat
    /\ ReadJob.dst + ReadJob.len <= TcmWords /\ WriteJob.src + WriteJob.len <= TcmWords
    /\ SrcWord + ReadJob.len <= Words /\ DstWord + WriteJob.len <= Words
    /\ \A i \in 0 .. ReadJob.len - 1 : SrcWord + i \notin HostWords \cup WriteWords
    /\ \A i \in 0 .. WriteJob.len - 1 : DstWord + i \in WriteWords \ HostWords
    /\ \A w \in WriteWords : w - DstWord \in 0 .. WriteJob.len - 1
    /\ HostWords \subseteq 0 .. Words - 1
<1>1. ReadJob \in JobType /\ WriteJob \in JobType
  BY JobAssumption
<1>2. \A d \in JobType : d.src \in Nat /\ d.dst \in Nat /\ d.len \in Nat
  BY DEF JobType
<1>3. {ReadJob.src, ReadJob.len, ReadJob.dst, WriteJob.len, WriteJob.src, WriteJob.dst} \subseteq Nat
  BY <1>1, <1>2
<1>4. SrcWord \in Nat /\ DstWord \in Nat
  BY <1>3 DEF SrcWord, DstWord
<1>5. Words \in Nat \ {0} /\ WPB \in Nat \ {0} /\ TcmWords \in Nat
  BY ParamsAssumption, FabricAssumption, JobAssumption
<1>6. /\ ReadJob.dst + ReadJob.len <= TcmWords /\ WriteJob.src + WriteJob.len <= TcmWords
      /\ SrcWord + ReadJob.len <= Words /\ DstWord + WriteJob.len <= Words
      /\ ReadWords \cap WriteWords = {} /\ (ReadWords \cup WriteWords) \cap HostWords = {}
  BY JobAssumption DEF SrcWord, DstWord
<1>7. \A i \in 0 .. ReadJob.len - 1 : SrcWord + i \in ReadWords
  BY DEF ReadWords, SrcWord
<1>8. \A i \in 0 .. WriteJob.len - 1 : DstWord + i \in WriteWords
  BY DEF WriteWords, DstWord
<1>9. \A w \in WriteWords : w - DstWord \in 0 .. WriteJob.len - 1
  <2> TAKE w \in WriteWords
  <2>1. PICK i \in 0 .. WriteJob.len - 1 : w = DstWord + i
    BY DEF WriteWords, DstWord
  <2> QED BY <1>3, <1>4, <2>1
<1>10. HostWords \subseteq 0 .. Words - 1
  BY NoAccessIsNone DEF HostWords
<1> QED BY <1>3, <1>4, <1>5, <1>6, <1>7, <1>8, <1>9, <1>10

\* The word and the lane of an address of four times a word.
LEMMA AddressWord ==
    ASSUME NEW k \in 0 .. Words - 1
    PROVE  (4 * k) \div 4 = k /\ Word(4 * k) = k
<1>1. (4 * k) \div 4 = k
  OBVIOUS
<1> QED BY <1>1, SmallMod, Layout DEF Word
-----------------------------------------------------------------------------
(* What one clock edge does to the two channels of the shared memory.       *)

\* A clock edge from a state in which the invariants hold.
Edge(a, m) ==
    /\ FInv /\ FInv' /\ DInv
    /\ a \in HostMoves /\ m \in CoreMoves /\ Clock(a, m)
    /\ EngineEdge /\ PortEdge /\ PortMoves

\* The read channel, owner by owner.
LEMMA ReadEdge ==
    ASSUME NEW a, NEW m, Edge(a, m)
    PROVE  /\ rgrant = "IDLE" /\ arvalid =>
                 /\ rgrant' = "M1" /\ rstride' = 1 /\ rbeats_left' = arbeats
                 /\ rptr' = BeatBase(DmaRq) /\ rdata' = WideRead(BeatBase(DmaRq))
           /\ rgrant = "IDLE" /\ ~arvalid /\ HostRead.valid =>
                 rgrant' = "M0" /\ rdata' = WideRead(BeatBase(HostRead))
           /\ rgrant = "IDLE" /\ ~arvalid /\ ~HostRead.valid => rgrant' = "IDLE"
           /\ rgrant = "M1" /\ ~RLast =>
                 /\ rgrant' = "M1" /\ rstride' = rstride /\ rbeats_left' = rbeats_left - 1
                 /\ rptr' = (rptr + rstride) % Words /\ rdata' = WideRead(rptr + rstride)
           /\ rgrant = "M1" /\ RLast => rgrant' = "IDLE"
           /\ rgrant = "M0" => rgrant' = "IDLE"
<1> DEFINE q == Offered(rgrant, HostRead, DmaRq)
           f == rstate = "DATA" /\ Owner(rgrant, host.st = "R", MRready)
<1>0. Engine /\ ReadChannel
  BY DEF Edge, FInv
<1>1. ReadClk(HostRead, DmaRq, host.st = "R", MRready)
  BY DEF Edge, Clock, MemoryClk
<1>2. /\ rgrant' = Grant(rgrant, HostRead, DmaRq, f /\ RLast)
      /\ \/ /\ rstate = "IDLE" /\ q.valid
            /\ rptr' = BeatBase(q) /\ rstride' = BeatStride(q)
            /\ rbeats_left' = q.beats /\ rdata' = WideRead(BeatBase(q))
         \/ f /\ RLast
         \/ /\ f /\ ~RLast
            /\ rptr' = (rptr + rstride) % Words /\ rbeats_left' = rbeats_left - 1
            /\ rdata' = WideRead(rptr + rstride) /\ rstride' = rstride
         \/ ~f /\ ~(rstate = "IDLE" /\ q.valid)
  BY <1>1 DEF ReadClk
<1>3. DmaRq.valid = arvalid /\ DmaRq.beats = arbeats /\ DmaRq.narrow = narrow_l
  BY DEF DmaRq
<1>4. CASE rgrant = "IDLE" /\ arvalid
  <2>1. q = DmaRq
    BY <1>3, <1>4 DEF Offered, Sel1
  <2>2. rgrant' = "M1"
    BY <1>2, <1>3, <1>4 DEF Grant
  <2>3. rstate = "IDLE" /\ ~f
    BY <1>0, <1>4 DEF ReadChannel
  <2>4. rptr' = BeatBase(DmaRq) /\ rstride' = BeatStride(DmaRq)
        /\ rbeats_left' = arbeats /\ rdata' = WideRead(BeatBase(DmaRq))
    BY <1>2, <1>3, <1>4, <2>1, <2>3
  <2>5. DmaRq.narrow
    BY <1>0, <1>3, <1>4 DEF Engine
  <2>6. BeatStride(DmaRq) = 1
    BY <2>5 DEF BeatStride
  <2> QED BY <1>4, <2>2, <2>4, <2>6
<1>5. CASE rgrant = "IDLE" /\ ~arvalid
  <2>1. q = HostRead
    BY <1>3, <1>5 DEF Offered, Sel1
  <2>2. rstate = "IDLE" /\ ~f
    BY <1>0, <1>5 DEF ReadChannel
  <2>3. CASE HostRead.valid
    <3>1. rgrant' = "M0"
      BY <1>2, <1>3, <1>5, <2>3 DEF Grant
    <3>2. rdata' = WideRead(BeatBase(HostRead))
      BY <1>2, <2>1, <2>2, <2>3
    <3> QED BY <1>5, <2>3, <3>1, <3>2
  <2>4. CASE ~HostRead.valid
    BY <1>2, <1>3, <1>5, <2>4 DEF Grant
  <2> QED BY <2>3, <2>4
<1>6. CASE rgrant = "M1"
  <2>1. rstate = "DATA" /\ f
    BY <1>0, <1>6 DEF ReadChannel, Owner, MRready
  <2> QED BY <1>2, <1>6, <2>1 DEF Grant
<1>7. CASE rgrant = "M0"
  <2>1. rstate = "DATA" /\ f /\ RLast
    BY <1>0, <1>7 DEF ReadChannel, Owner, RLast
  <2> QED BY <1>2, <1>7, <2>1 DEF Grant
<1>8. rgrant \in {"IDLE", "M0", "M1"}
  BY <1>0 DEF ReadChannel
<1> QED BY <1>4, <1>5, <1>6, <1>7, <1>8

\* The write channel, owner by owner.
LEMMA WriteEdge ==
    ASSUME NEW a, NEW m, Edge(a, m)
    PROVE  /\ wgrant = "IDLE" /\ awvalid =>
                 wgrant' = "M1" /\ wstride' = 1 /\ wptr' = BeatBase(DmaWq) /\ mem' = mem
           /\ wgrant = "IDLE" /\ ~awvalid /\ HostWrite.valid =>
                 wgrant' = "M0" /\ wptr' = BeatBase(HostWrite) /\ mem' = mem
           /\ wgrant = "IDLE" /\ ~awvalid /\ ~HostWrite.valid => wgrant' = "IDLE" /\ mem' = mem
           /\ dma_st = "W" /\ wvalid =>
                 /\ mem' = Strobed(DmaData)
                 /\ wptr' = (wptr + wstride) % Words /\ wstride' = wstride
           /\ dma_st = "W" /\ ~wvalid => UNCHANGED <<mem, wptr, wstride>>
           /\ dma_st = "B" => wgrant' = "IDLE" /\ mem' = mem
           /\ wgrant = "M0" /\ ~host.w => wstate' = "RESP" /\ mem' = Strobed(HostData)
           /\ wgrant = "M0" /\ host.w => wgrant' = "IDLE" /\ mem' = mem
           /\ wgrant = "M0" => wgrant' \in {"M0", "IDLE"}
<1> DEFINE q == Offered(wgrant, HostWrite, DmaWq)
           d == Owner(wgrant, HostData, DmaData)
           p == wstate = "RESP" /\ Owner(wgrant, host.st = "AW", dma_st = "B")
<1>0. Engine /\ WriteChannel
  BY DEF Edge, FInv
<1>1. WriteClk(HostWrite, DmaWq, HostData, DmaData, host.st = "AW", dma_st = "B")
  BY DEF Edge, Clock, MemoryClk
<1>2. /\ wgrant' = Grant(wgrant, HostWrite, DmaWq, p)
      /\ \/ /\ wstate = "IDLE" /\ q.valid
            /\ wptr' = BeatBase(q) /\ wstride' = BeatStride(q) /\ mem' = mem
         \/ /\ wstate = "DATA" /\ d.valid
            /\ mem' = Strobed(d) /\ wptr' = (wptr + wstride) % Words
            /\ wstate' = IF d.last THEN "RESP" ELSE "DATA"
            /\ wstride' = wstride
         \/ p /\ mem' = mem
         \/ /\ ~(wstate = "IDLE" /\ q.valid) /\ ~(wstate = "DATA" /\ d.valid) /\ ~p
            /\ UNCHANGED <<wstate, wptr, wstride, mem>>
  BY <1>1 DEF WriteClk
<1>3. /\ DmaWq.valid = awvalid /\ DmaWq.narrow = narrow_l
      /\ DmaData.valid = wvalid
      /\ HostData.valid = (HostW /\ To("mem")) /\ HostData.last = TRUE
  BY DEF DmaWq, DmaData, HostData
<1>4. CASE wgrant = "IDLE" /\ awvalid
  <2>1. q = DmaWq
    BY <1>3, <1>4 DEF Offered, Sel1
  <2>2. wgrant' = "M1"
    BY <1>2, <1>3, <1>4 DEF Grant
  <2>3. wstate = "IDLE" /\ ~p /\ dma_st = "AW"
    BY <1>0, <1>4 DEF WriteChannel, Engine
  <2>4. wptr' = BeatBase(DmaWq) /\ wstride' = BeatStride(DmaWq) /\ mem' = mem
    BY <1>2, <1>3, <1>4, <2>1, <2>3
  <2>5. DmaWq.narrow
    BY <1>0, <1>3, <2>3 DEF Engine
  <2>6. BeatStride(DmaWq) = 1
    BY <2>5 DEF BeatStride
  <2> QED BY <1>4, <2>2, <2>3, <2>4, <2>6
<1>5. CASE wgrant = "IDLE" /\ ~awvalid
  <2>1. q = HostWrite
    BY <1>3, <1>5 DEF Offered, Sel1
  <2>2. wstate = "IDLE" /\ ~p /\ dma_st \notin {"W", "B"}
    BY <1>0, <1>5 DEF WriteChannel
  <2>3. CASE HostWrite.valid
    <3>1. wgrant' = "M0"
      BY <1>2, <1>3, <1>5, <2>3 DEF Grant
    <3>2. wptr' = BeatBase(HostWrite) /\ mem' = mem
      BY <1>2, <2>1, <2>2, <2>3
    <3> QED BY <1>5, <2>2, <2>3, <3>1, <3>2
  <2>4. CASE ~HostWrite.valid
    <3>1. wgrant' = "IDLE"
      BY <1>2, <1>3, <1>5, <2>4 DEF Grant
    <3>2. mem' = mem
      BY <1>2, <2>1, <2>2, <2>4
    <3> QED BY <1>5, <2>2, <2>4, <3>1, <3>2
  <2> QED BY <2>3, <2>4
<1>6. CASE wgrant = "M1"
  <2>1. d = DmaData /\ dma_st \in {"W", "B"} /\ (wstate = "DATA" <=> dma_st = "W")
        /\ wstate \in {"DATA", "RESP"}
    BY <1>0, <1>6 DEF WriteChannel, Owner
  <2>2. CASE dma_st = "W"
    <3>1. wstate = "DATA" /\ ~p
      BY <2>1, <2>2
    <3> QED BY <1>2, <1>3, <1>6, <2>1, <2>2, <3>1
  <2>3. CASE dma_st = "B"
    <3>1. wstate = "RESP" /\ p
      BY <1>6, <2>1, <2>3 DEF Owner
    <3>2. wgrant' = "IDLE"
      BY <1>2, <1>6, <3>1 DEF Grant
    <3> QED BY <1>2, <1>6, <2>3, <3>1, <3>2
  <2> QED BY <2>1, <2>2, <2>3
<1>7. CASE wgrant = "M0"
  <2>1. d = HostData /\ host.st = "AW" /\ To("mem") /\ dma_st \notin {"W", "B"}
        /\ (wstate = "DATA" <=> ~host.w) /\ wstate \in {"DATA", "RESP"}
    BY <1>0, <1>7 DEF WriteChannel, Owner
  <2>2. wgrant' \in {"M0", "IDLE"}
    BY <1>2, <1>7 DEF Grant
  <2>3. CASE host.w
    <3>1. wstate = "RESP" /\ p
      BY <1>7, <2>1, <2>3 DEF Owner
    <3>2. wgrant' = "IDLE"
      BY <1>2, <1>7, <3>1 DEF Grant
    <3> QED BY <1>2, <1>7, <2>1, <2>3, <3>1, <3>2
  <2>4. CASE ~host.w
    <3>1. wstate = "DATA" /\ ~p /\ d.valid /\ d.last
      BY <1>3, <2>1, <2>4 DEF HostW
    <3> QED BY <1>2, <1>7, <2>1, <2>2, <2>4, <3>1
  <2> QED BY <2>3, <2>4
<1>8. wgrant \in {"IDLE", "M0", "M1"} /\ (dma_st \in {"W", "B"} => wgrant = "M1")
  BY <1>0 DEF WriteChannel
<1> QED BY <1>4, <1>5, <1>6, <1>7, <1>8

\* One word strobed into the memory is that word and no other.
LEMMA OneWord ==
    ASSUME NEW d, NEW l \in Nat, NEW v, DOMAIN d.lanes = {l}, d.lanes[l] = v,
           mem \in [0 .. Words - 1 -> Int], wptr \in 0 .. Words - 1, wptr + l < Words
    PROVE  Strobed(d) = [mem EXCEPT ![wptr + l] = v]
<1>1. \A w \in 0 .. Words - 1 : (w - wptr) % Words = l <=> w = wptr + l
  BY RoundTrip, Layout
<1>3. \A w \in 0 .. Words - 1 : Strobed(d)[w] = IF w = wptr + l THEN v ELSE mem[w]
  BY <1>1 DEF Strobed
<1>4. Strobed(d) = [w \in 0 .. Words - 1 |-> Strobed(d)[w]]
  BY DEF Strobed
<1> HIDE DEF Strobed
<1>5. [mem EXCEPT ![wptr + l] = v] = [w \in 0 .. Words - 1 |-> IF w = wptr + l THEN v ELSE mem[w]]
  OBVIOUS
<1> QED BY <1>3, <1>4, <1>5
-----------------------------------------------------------------------------
(* What one clock edge does to the contents of the two memories.            *)

\* Where the engine is in its jobs.
LEMMA Bounds ==
    ASSUME FInv, DInv
    PROVE  /\ dma_st \in {"AR", "R"} => Moved \in 0 .. ReadJob.len - 1
           /\ dma_st = "R" => Arrived \in 0 .. beats_in_burst - 1
                              /\ Moved + Arrived \in 0 .. ReadJob.len - 1
           /\ dma_st \in {"AW", "W", "B"} => Sent \in 0 .. WriteJob.len - 1
           /\ dma_st = "W" => Sent + beats_done \in 0 .. WriteJob.len - 1
           /\ dma_st = "B" => Sent + beats_in_burst \in 0 .. WriteJob.len
<1>1. Engine /\ ReadChannel /\ Claims
  BY DEF FInv, DInv
<1>2. /\ remaining \in Nat /\ beats_in_burst \in Nat /\ beats_done \in Nat
      /\ ReadJob.len \in Nat /\ WriteJob.len \in Nat
      /\ dma_st \in {"AR", "R", "AW", "W", "B"} => remaining # 0
      /\ dma_st \in {"R", "W", "B"} => beats_in_burst \in 1 .. remaining
      /\ dma_st = "W" => beats_done \in 0 .. beats_in_burst - 1
      /\ dma_st = "R" => rbeats_left \in 1 .. beats_in_burst
      /\ dma_st \in {"AR", "R"} => remaining <= ReadJob.len
      /\ dma_st \in {"AW", "W", "B"} => remaining <= WriteJob.len
  BY <1>1, Layout DEF Engine, EngineTypes, Moving, ReadChannel, Claims
<1> QED BY <1>2 DEF Moved, Arrived, Sent

\* A beat of the read puts the next word of its job into the local memory, and
\* nothing else writes there.
LEMMA TcmEdge ==
    ASSUME NEW a, NEW m, Edge(a, m)
    PROVE  /\ dma_st # "R" => tcm' = tcm
           /\ dma_st = "R" =>
                 tcm' = [tcm EXCEPT ![ReadJob.dst + (Moved + Arrived)] = SrcWord + (Moved + Arrived)]
<1>1. tcm' = IF BufWe(RBeat) THEN [tcm EXCEPT ![buf_addr] = rdata[DmaLane]] ELSE tcm
  BY DEF Edge, Clock, EngineClk
<1>2. ReadChannel /\ Places /\ Lanes /\ FInv /\ DInv
  BY DEF Edge, FInv, DInv
<1>3. BufWe(RBeat) <=> dma_st = "R"
  BY <1>2 DEF BufWe, RBeat, RValid, ReadChannel
<1>4. dma_st = "R" => /\ rdata[DmaLane] = SrcWord + Moved + Arrived
                      /\ buf_addr = ReadJob.dst + Moved + Arrived
  BY <1>2 DEF ReadChannel, Places, Lanes
<1>5. dma_st = "R" => /\ SrcWord + Moved + Arrived = SrcWord + (Moved + Arrived)
                      /\ ReadJob.dst + Moved + Arrived = ReadJob.dst + (Moved + Arrived)
  <2>1. dma_st = "R" => Moved \in Int /\ Arrived \in Int
    BY <1>2, Bounds
  <2>2. SrcWord \in Nat /\ ReadJob.dst \in Nat
    BY Layout
  <2> QED BY <2>1, <2>2
<1> QED BY <1>1, <1>3, <1>4, <1>5

\* The local memory keeps what it holds, and what it holds are words of the read.
LEMMA TcmKeeps ==
    ASSUME NEW a, NEW m, Edge(a, m)
    PROVE  /\ tcm' \in [0 .. TcmWords - 1 -> Int]
           /\ \A i \in 0 .. TcmWords - 1 :
                 tcm'[i] = -1 \/ (i - ReadJob.dst \in 0 .. ReadJob.len - 1
                                  /\ tcm'[i] = SrcWord + i - ReadJob.dst)
           /\ AllLoaded => tcm' = tcm
           /\ \A p \in 0 .. ReadJob.len : Loaded(p) => LoadedIn(tcm', p)
           /\ dma_st = "R" => LoadedIn(tcm', Moved + Arrived + 1)
<1>1. /\ tcm \in [0 .. TcmWords - 1 -> Int]
      /\ \A i \in 0 .. TcmWords - 1 :
            tcm[i] = -1 \/ (i - ReadJob.dst \in 0 .. ReadJob.len - 1
                            /\ tcm[i] = SrcWord + i - ReadJob.dst)
      /\ dma_st = "R" => Loaded(Moved + Arrived)
  BY DEF Edge, DInv, Memories, Places
<1>2. /\ {ReadJob.len, ReadJob.dst, SrcWord, TcmWords} \subseteq Nat
      /\ ReadJob.dst + ReadJob.len <= TcmWords
  BY Layout
<1>3. CASE dma_st # "R"
  <2>1. tcm' = tcm
    BY <1>3, TcmEdge
  <2> QED BY <1>1, <1>3, <2>1 DEF Loaded
<1>4. CASE dma_st = "R"
  <2> DEFINE k == Moved + Arrived
  <2>1. k \in 0 .. ReadJob.len - 1
    BY <1>4, Bounds DEF Edge
  <2>2. tcm' = [tcm EXCEPT ![ReadJob.dst + k] = SrcWord + k]
    BY <1>4, TcmEdge
  <2>3. Loaded(k)
    BY <1>1, <1>4
  <2> HIDE DEF k
  <2>4. ReadJob.dst + k \in 0 .. TcmWords - 1 /\ SrcWord + k \in Int
        /\ (ReadJob.dst + k) - ReadJob.dst = k /\ SrcWord + (ReadJob.dst + k) - ReadJob.dst = SrcWord + k
    BY <1>2, <2>1
  <2>5. tcm' \in [0 .. TcmWords - 1 -> Int] /\ tcm'[ReadJob.dst + k] = SrcWord + k
        /\ \A i \in 0 .. TcmWords - 1 : i # ReadJob.dst + k => tcm'[i] = tcm[i]
    BY <1>1, <2>2, <2>4
  <2>6. \A i \in 0 .. TcmWords - 1 :
           tcm'[i] = -1 \/ (i - ReadJob.dst \in 0 .. ReadJob.len - 1
                            /\ tcm'[i] = SrcWord + i - ReadJob.dst)
    BY <1>1, <2>1, <2>4, <2>5
  <2>7. \A i \in 0 .. ReadJob.len - 1 : ReadJob.dst + i \in 0 .. TcmWords - 1
                                         /\ (ReadJob.dst + i = ReadJob.dst + k <=> i = k)
    BY <1>2, <2>1
  <2>8. \A p \in 0 .. ReadJob.len : Loaded(p) => LoadedIn(tcm', p)
    <3> SUFFICES ASSUME NEW p \in 0 .. ReadJob.len, Loaded(p), NEW i \in 0 .. p - 1
                 PROVE  tcm'[ReadJob.dst + i] = SrcWord + i
      BY DEF LoadedIn
    <3>1. tcm[ReadJob.dst + i] = SrcWord + i
      BY DEF Loaded, LoadedIn
    <3>2. i \in 0 .. ReadJob.len - 1
      BY <1>2
    <3> QED BY <2>5, <2>7, <3>1, <3>2
  <2>9. LoadedIn(tcm', k + 1)
    <3> SUFFICES ASSUME NEW i \in 0 .. k PROVE tcm'[ReadJob.dst + i] = SrcWord + i
      BY <2>1 DEF LoadedIn
    <3>1. i \in 0 .. ReadJob.len - 1 /\ (i = k \/ i \in 0 .. k - 1)
      BY <1>2, <2>1
    <3>2. CASE i = k
      BY <2>5, <3>2
    <3>3. CASE i \in 0 .. k - 1
      <4>1. tcm[ReadJob.dst + i] = SrcWord + i
        BY <2>3, <3>3 DEF Loaded, LoadedIn
      <4>2. i # k
        BY <2>1, <3>3
      <4> QED BY <2>5, <2>7, <3>1, <4>1, <4>2
    <3> QED BY <3>1, <3>2, <3>3
  <2>10. AllLoaded => tcm' = tcm
    <3> SUFFICES ASSUME AllLoaded PROVE tcm' = tcm
      OBVIOUS
    <3>1. tcm[ReadJob.dst + k] = SrcWord + k
      BY <2>1 DEF AllLoaded, Loaded, LoadedIn
    <3>2. \A i \in 0 .. TcmWords - 1 : tcm'[i] = tcm[i]
      BY <2>5, <3>1
    <3>3. /\ tcm = [i \in 0 .. TcmWords - 1 |-> tcm[i]]
          /\ tcm' = [i \in 0 .. TcmWords - 1 |-> tcm'[i]]
      BY <1>1, <2>5
    <3>4. [i \in 0 .. TcmWords - 1 |-> tcm'[i]] = [i \in 0 .. TcmWords - 1 |-> tcm[i]]
      BY ONLY <3>2
    <3> QED BY ONLY <3>3, <3>4
  <2> QED BY <2>5, <2>6, <2>8, <2>9, <2>10 DEF k
<1> QED BY <1>3, <1>4

\* A beat of the write-back puts the next word of its job into the shared memory,
\* the host puts there what it writes, and nothing else does.
LEMMA MemEdge ==
    ASSUME NEW a, NEW m, Edge(a, m)
    PROVE  /\ ~(dma_st = "W" /\ wvalid) /\ ~(wgrant = "M0" /\ ~host.w) => mem' = mem
           /\ dma_st = "W" /\ wvalid =>
                 mem' = [mem EXCEPT ![DstWord + (Sent + beats_done)] =
                                        tcm[WriteJob.src + (Sent + beats_done)]]
           /\ wgrant = "M0" /\ ~host.w =>
                 /\ host.acc.word \in HostWords /\ host.acc.val \in Nat
                 /\ mem' = [mem EXCEPT ![host.acc.word] = host.acc.val]
                 /\ hostval' = [hostval EXCEPT ![host.acc.word] = host.acc.val]
           /\ ~(wgrant = "M0" /\ ~host.w) => hostval' = hostval
<1>0. /\ Engine /\ Port /\ WriteChannel /\ WriteData /\ Memories /\ Places /\ Lanes
      /\ FInv /\ DInv
  BY DEF Edge, FInv, DInv
<1>1. hostval' = IF host.st = "AW" /\ To("mem") /\ WHs
                 THEN [hostval EXCEPT ![host.acc.word] = host.acc.val] ELSE hostval
  BY DEF Edge, Clock, History
<1>2. host.st = "AW" /\ To("mem") /\ WHs <=> wgrant = "M0" /\ ~host.w
  BY <1>0 DEF WHs, HostW, WRdy, WReady, WriteChannel
<1>3. wgrant \in {"IDLE", "M0", "M1"} /\ (wgrant = "M1" <=> dma_st \in {"W", "B"})
  BY <1>0 DEF WriteChannel
<1>4. ~(dma_st = "W" /\ wvalid) /\ ~(wgrant = "M0" /\ ~host.w) => mem' = mem
  BY <1>3, WriteEdge
<1>5. ASSUME dma_st = "W", wvalid
      PROVE  mem' = [mem EXCEPT ![DstWord + (Sent + beats_done)] =
                                    tcm[WriteJob.src + (Sent + beats_done)]]
  <2>1. mem' = Strobed(DmaData)
    BY <1>5, WriteEdge
  <2>2. narrow_l /\ buf_raddr = WriteJob.src + Sent + beats_done
        /\ wptr + DmaLane = DstWord + Sent + beats_done
    BY <1>0, <1>5 DEF Engine, Places, Lanes, WriteChannel
  <2>3. Sent + beats_done \in 0 .. WriteJob.len - 1 /\ Sent \in Nat /\ beats_done \in Nat
    BY <1>0, <1>5, Bounds DEF Engine, EngineTypes
  <2>4. WriteJob.src \in Nat /\ DstWord \in Nat /\ DstWord + WriteJob.len <= Words
        /\ Words \in Nat /\ WriteJob.len \in Nat
    BY Layout
  <2>5. buf_raddr + 0 = WriteJob.src + (Sent + beats_done)
        /\ wptr + DmaLane = DstWord + (Sent + beats_done) /\ wptr + DmaLane < Words
    BY <2>2, <2>3, <2>4
  <2>6. DmaLane \in Nat
    <3>1. cur_addr \in Nat
      BY <1>0 DEF Engine, EngineTypes
    <3> QED BY <3>1, Layout DEF DmaLane
  <2>7. DOMAIN DmaData.lanes = {DmaLane}
        /\ DmaData.lanes[DmaLane] = tcm[WriteJob.src + (Sent + beats_done)]
    BY <1>5, <2>2, <2>5 DEF DmaData, DmaLanes
  <2>8. Strobed(DmaData) = [mem EXCEPT ![wptr + DmaLane] = tcm[WriteJob.src + (Sent + beats_done)]]
    <3> HIDE DEF DmaData, DmaLane
    <3>1. mem \in [0 .. Words - 1 -> Int] /\ wptr \in 0 .. Words - 1
      BY <1>0 DEF Memories, WriteData
    <3> QED BY <2>5, <2>6, <2>7, <3>1, OneWord
  <2> QED BY <2>1, <2>5, <2>8
<1>6. ASSUME wgrant = "M0", ~host.w
      PROVE  /\ host.acc.word \in HostWords /\ host.acc.val \in Nat
             /\ mem' = [mem EXCEPT ![host.acc.word] = host.acc.val]
  <2>1. mem' = Strobed(HostData)
    BY <1>6, WriteEdge
  <2>2. host.st = "AW" /\ To("mem") /\ wstate = "DATA"
    BY <1>0, <1>6 DEF WriteChannel
  <2>3. host.acc \in Accesses /\ host.acc.write /\ host.acc.to = "mem"
    BY <1>0, <2>2 DEF Port, To
  <2>4. host.acc.word \in HostWords /\ host.acc.val \in Nat
    BY <2>3, AccessAssumption DEF HostWords, AccessType
  <2>5. wptr + HostLane = host.acc.word
    BY <1>0, <1>6, <2>2 DEF Lanes
  <2>6. host.acc.word \in 0 .. Words - 1 /\ HostLane = host.acc.word % WPB
    BY <2>4, Layout DEF HostLane, HostRead
  <2>7. HostLane \in Nat /\ wptr + HostLane < Words
    BY <2>5, <2>6, BeatAndLane, Layout
  <2>8. DOMAIN HostData.lanes = {HostLane} /\ HostData.lanes[HostLane] = host.acc.val
    BY DEF HostData
  <2>9. Strobed(HostData) = [mem EXCEPT ![wptr + HostLane] = host.acc.val]
    <3> HIDE DEF HostData, HostLane
    <3>1. mem \in [0 .. Words - 1 -> Int] /\ wptr \in 0 .. Words - 1
      BY <1>0 DEF Memories, WriteData
    <3> QED BY <2>7, <2>8, <3>1, OneWord
  <2> QED BY <2>1, <2>4, <2>5, <2>9
<1> QED BY <1>1, <1>2, <1>4, <1>5, <1>6

\* The shared memory keeps what was written back, and every word stays its owner's.
LEMMA MemKeeps ==
    ASSUME NEW a, NEW m, Edge(a, m)
    PROVE  /\ Memories'
           /\ AllLoaded => AllLoaded'
           /\ AllLoaded => \A p \in 0 .. WriteJob.len : Written(p) => WrittenIn(mem', tcm', p)
           /\ dma_st = "W" /\ wvalid => WrittenIn(mem', tcm', Sent + beats_done + 1)
<1>1. /\ mem \in [0 .. Words - 1 -> Int] /\ tcm \in [0 .. TcmWords - 1 -> Int]
      /\ hostval \in [HostWords -> Int]
      /\ \A w \in 0 .. Words - 1 : Holds(w, mem[w])
      /\ dma_st = "W" => AllLoaded /\ Written(Sent + beats_done)
      /\ (wgrant = "M1" <=> dma_st \in {"W", "B"}) /\ FInv /\ DInv
  BY DEF Edge, FInv, WriteChannel, DInv, Memories, Claims, Places
<1>2. /\ {WriteJob.len, WriteJob.src, DstWord, Words, TcmWords} \subseteq Nat
      /\ WriteJob.src + WriteJob.len <= TcmWords /\ DstWord + WriteJob.len <= Words
      /\ \A i \in 0 .. WriteJob.len - 1 : DstWord + i \in WriteWords \ HostWords
      /\ \A w \in WriteWords : w - DstWord \in 0 .. WriteJob.len - 1
      /\ HostWords \subseteq 0 .. Words - 1
  BY Layout
<1>3. AllLoaded => AllLoaded' /\ tcm' = tcm
  BY TcmKeeps DEF AllLoaded, Loaded
<1>4. \A w, v : Holds(w, v) <=>
         IF w \in HostWords THEN v = hostval[w]
         ELSE v = w \/ (w \in WriteWords /\ AllLoaded /\ v = tcm[WriteJob.src + w - DstWord])
  BY DEF Holds
<1>5. \A w \in 0 .. Words - 1 : Holds(w, mem[w])' <=>
         IF w \in HostWords THEN mem'[w] = hostval'[w]
         ELSE \/ mem'[w] = w
              \/ w \in WriteWords /\ AllLoaded' /\ mem'[w] = tcm'[WriteJob.src + w - DstWord]
  BY DEF Holds
<1>6. SUFFICES /\ mem' \in [0 .. Words - 1 -> Int] /\ hostval' \in [HostWords -> Int]
               /\ \A w \in 0 .. Words - 1 : Holds(w, mem[w])'
               /\ AllLoaded => \A p \in 0 .. WriteJob.len : Written(p) => WrittenIn(mem', tcm', p)
               /\ dma_st = "W" /\ wvalid => WrittenIn(mem', tcm', Sent + beats_done + 1)
  BY <1>3, TcmKeeps DEF Memories
<1>7. CASE ~(dma_st = "W" /\ wvalid) /\ ~(wgrant = "M0" /\ ~host.w)
  <2>1. mem' = mem /\ hostval' = hostval
    BY <1>7, MemEdge
  <2>2. \A w \in 0 .. Words - 1 : Holds(w, mem[w])'
    BY <1>1, <1>3, <1>4, <1>5, <2>1
  <2>3. AllLoaded => \A p \in 0 .. WriteJob.len : Written(p) => WrittenIn(mem', tcm', p)
    BY <1>3, <2>1 DEF Written
  <2> QED BY <1>1, <1>7, <2>1, <2>2, <2>3
<1>8. CASE dma_st = "W" /\ wvalid
  <2> DEFINE k == Sent + beats_done
  <2>1. /\ mem' = [mem EXCEPT ![DstWord + k] = tcm[WriteJob.src + k]]
        /\ hostval' = hostval /\ tcm' = tcm /\ AllLoaded /\ AllLoaded' /\ Written(k)
    BY <1>1, <1>3, <1>8, MemEdge
  <2>2. k \in 0 .. WriteJob.len - 1
    BY <1>1, <1>8, Bounds
  <2> HIDE DEF k
  <2>3. DstWord + k \in WriteWords /\ DstWord + k \notin HostWords
        /\ DstWord + k \in 0 .. Words - 1 /\ WriteJob.src + k \in 0 .. TcmWords - 1
        /\ WriteJob.src + (DstWord + k) - DstWord = WriteJob.src + k
    BY <1>2, <2>2
  <2>4. mem' \in [0 .. Words - 1 -> Int] /\ mem'[DstWord + k] = tcm[WriteJob.src + k]
        /\ \A w \in 0 .. Words - 1 : w # DstWord + k => mem'[w] = mem[w]
    BY <1>1, <2>1, <2>3
  <2>5. \A w \in 0 .. Words - 1 : Holds(w, mem[w])'
    BY <1>1, <1>4, <1>5, <2>1, <2>3, <2>4
  <2>6. ASSUME NEW i \in 0 .. WriteJob.len - 1, mem[DstWord + i] = tcm[WriteJob.src + i] \/ i = k
        PROVE  mem'[DstWord + i] = tcm'[WriteJob.src + i]
    <3>1. DstWord + i \in 0 .. Words - 1 /\ (DstWord + i = DstWord + k <=> i = k)
      BY <1>2, <2>2
    <3> QED BY <2>1, <2>4, <2>6, <3>1
  <2>7. \A p \in 0 .. WriteJob.len : Written(p) => WrittenIn(mem', tcm', p)
    <3> SUFFICES ASSUME NEW p \in 0 .. WriteJob.len, Written(p), NEW i \in 0 .. p - 1
                 PROVE  mem'[DstWord + i] = tcm'[WriteJob.src + i]
      BY DEF WrittenIn
    <3>1. i \in 0 .. WriteJob.len - 1
      BY <1>2
    <3> QED BY <2>6, <3>1 DEF Written, WrittenIn
  <2>8. WrittenIn(mem', tcm', k + 1)
    <3> SUFFICES ASSUME NEW i \in 0 .. k PROVE mem'[DstWord + i] = tcm'[WriteJob.src + i]
      BY <2>2 DEF WrittenIn
    <3>1. i \in 0 .. WriteJob.len - 1 /\ (i = k \/ i \in 0 .. k - 1)
      BY <1>2, <2>2
    <3> QED BY <2>1, <2>6, <3>1 DEF Written, WrittenIn
  <2> QED BY <1>1, <2>1, <2>4, <2>5, <2>7, <2>8 DEF k
<1>9. CASE wgrant = "M0" /\ ~host.w
  <2> DEFINE x == host.acc.word
             y == host.acc.val
  <2>1. /\ x \in HostWords /\ y \in Nat /\ mem' = [mem EXCEPT ![x] = y]
        /\ hostval' = [hostval EXCEPT ![x] = y]
    BY <1>9, MemEdge
  <2> HIDE DEF x, y
  <2>2. x \in 0 .. Words - 1
    BY <1>2, <2>1
  <2>3. /\ mem' \in [0 .. Words - 1 -> Int] /\ mem'[x] = y
        /\ \A w \in 0 .. Words - 1 : w # x => mem'[w] = mem[w]
        /\ hostval' \in [HostWords -> Int] /\ hostval'[x] = y
        /\ \A w \in HostWords : w # x => hostval'[w] = hostval[w]
    BY <1>1, <2>1, <2>2
  <2>4. \A w \in 0 .. Words - 1 : Holds(w, mem[w])'
    BY <1>1, <1>3, <1>4, <1>5, <2>1, <2>3
  <2>5. AllLoaded => \A p \in 0 .. WriteJob.len : Written(p) => WrittenIn(mem', tcm', p)
    <3> SUFFICES ASSUME AllLoaded, NEW p \in 0 .. WriteJob.len, Written(p), NEW i \in 0 .. p - 1
                 PROVE  mem'[DstWord + i] = tcm'[WriteJob.src + i]
      BY DEF WrittenIn
    <3>1. i \in 0 .. WriteJob.len - 1
      BY <1>2
    <3>2. DstWord + i \in 0 .. Words - 1 /\ DstWord + i \notin HostWords
      BY <1>2, <3>1
    <3>3. mem[DstWord + i] = tcm[WriteJob.src + i]
      BY DEF Written, WrittenIn
    <3> QED BY <1>3, <2>1, <2>3, <3>2, <3>3
  <2>6. ~(dma_st = "W")
    BY <1>1, <1>9
  <2> QED BY <2>3, <2>4, <2>5, <2>6
<1> QED BY <1>7, <1>8, <1>9

-----------------------------------------------------------------------------
(* What one clock edge does to the engine's place in its transfer.          *)

EngineData ==
    /\ dma_st' = "DONE" /\ dma_st \in {"AR", "AW"} => ~done_ok'
    /\ dma_st = "IDLE" /\ dma_st' # "IDLE" =>
          /\ DmaStart /\ ~done' /\ remaining' = DmaDesc.len
          /\ cur_addr' = 4 * (DmaDesc.src \div 4)
          /\ buf_addr' = DmaDesc.word /\ buf_raddr' = DmaDesc.word
          /\ dma_st' = IF DmaDesc.len = 0 THEN "DONE" ELSE IF StartWrite THEN "AW" ELSE "AR"
    /\ dma_st = "IDLE" /\ dma_st' = "IDLE" => ~done' \/ (done' = done /\ ~DmaStart)
    /\ dma_st = "AR" /\ dma_st' # "DONE" =>
          /\ dma_st' \in {"AR", "R"} /\ UNCHANGED <<cur_addr, remaining, buf_addr>>
          /\ araddr' = cur_addr
    /\ dma_st = "R" /\ ~RLast =>
          /\ dma_st' = "R" /\ UNCHANGED <<cur_addr, remaining, beats_in_burst>>
          /\ buf_addr' = buf_addr + 1
    /\ dma_st = "R" /\ RLast =>
          /\ remaining' = remaining - beats_in_burst /\ cur_addr' = cur_addr + 4 * beats_in_burst
          /\ buf_addr' = buf_addr + 1
          /\ dma_st' = "AR" \/ (dma_st' = "DONE" /\ (done_ok' => remaining' = 0))
    /\ dma_st = "AW" /\ dma_st' # "DONE" =>
          /\ dma_st' \in {"AW", "W"} /\ UNCHANGED <<cur_addr, remaining, buf_raddr>>
          /\ awaddr' = cur_addr /\ (dma_st' = "W" => beats_done' = 0)
    /\ dma_st = "W" =>
          /\ UNCHANGED <<cur_addr, remaining, beats_in_burst>>
          /\ IF wvalid
             THEN /\ beats_done' = beats_done + 1 /\ buf_raddr' = buf_raddr + 1
                  /\ dma_st' = IF beats_done = beats_in_burst - 1 THEN "B" ELSE "W"
             ELSE UNCHANGED <<beats_done, buf_raddr, dma_st>>
    /\ dma_st = "B" =>
          /\ remaining' = remaining - beats_in_burst /\ cur_addr' = cur_addr + 4 * beats_in_burst
          /\ buf_raddr' = buf_raddr
          /\ dma_st' = "AW" \/ (dma_st' = "DONE" /\ (done_ok' => remaining' = 0))
    /\ dma_st = "DONE" => dma_st' = "IDLE" /\ (done' => done_ok)
    /\ dma_st \notin {"IDLE", "DONE"} => done' = done
    /\ arvalid' => dma_st = "AR"
    /\ awvalid' => dma_st = "AW"
    /\ done' \in BOOLEAN /\ done_ok' \in BOOLEAN

\* State by state, with the answers the memory gives.
LEMMA EngineDataStep ==
    ASSUME NEW a, NEW m, Edge(a, m), ~DomainReset
    PROVE  EngineData
<1> DEFINE rb == RBeat
           bb == BResp
           ar == ArReady1(DmaRq)
           aw == AwReady1(DmaWq)
           wr == WReady("M1")
           d == DmaDesc
           go == DmaStart
<1>0. Engine /\ ReadChannel /\ WriteChannel /\ Orders
  BY DEF Edge, FInv, DInv
<1>1. DmaClk(soft_rst, go, d, FALSE, NoStrip, ar, rb, aw, wr, bb)
  BY DEF Edge, Clock, EngineClk
<1>2. /\ dma_st = "R" => rb.valid /\ rb.last = RLast
      /\ rb.err = FALSE /\ bb.err = FALSE
      /\ dma_st = "W" => wr
      /\ dma_st = "B" => bb.valid
  BY <1>0 DEF RBeat, BResp, RValid, BValid, WReady, RLast, ReadChannel, WriteChannel
<1>3. /\ d.narrow = TRUE /\ d.write = StartWrite
      /\ soft_rst \in BOOLEAN /\ done \in BOOLEAN /\ done_ok \in BOOLEAN
      /\ dma_st \in {"IDLE", "AR", "R", "AW", "W", "B", "DONE"}
      /\ dma_st # "IDLE" => narrow_l
      /\ beats_in_burst \in Nat
      /\ arvalid => dma_st = "AR"
      /\ awvalid => dma_st = "AW"
      /\ DmaDesc.src \in Nat
  <2>1. DmaDesc.src \in Nat
    BY <1>0, JobTypes DEF DmaDesc, Engine, EngineTypes
  <2> QED BY <1>0, <2>1 DEF DmaDesc, Engine, EngineTypes, Orders
<1>4. dma_st # "IDLE" => Step = 1 /\ WordsInBurst = beats_in_burst
  BY <1>3 DEF Step, WordsInBurst
<1> HIDE DEF rb, bb, ar, aw, wr, d, go
<1> USE DEF EngineData
<1>5. CASE DmaIdleAbort(soft_rst)
  BY <1>3, <1>5 DEF DmaIdleAbort, archan, wchans
<1>6. CASE DmaIdleGo(soft_rst, go, d)
  <2>1. ~AlignErr(d)
    BY <1>3 DEF AlignErr
  <2>2. cur_addr' = 4 * (DmaDesc.src \div 4)
    BY <1>3, <1>6 DEF DmaIdleGo, d
  <2> QED BY <1>3, <1>6, <2>1, <2>2 DEF DmaIdleGo, archan, wchans, d, go
<1>7. CASE DmaIdleStrip(soft_rst, go, FALSE, NoStrip)
  BY <1>7 DEF DmaIdleStrip
<1>8. CASE DmaIdleStay(soft_rst, go, FALSE)
  BY <1>3, <1>8 DEF DmaIdleStay, flags, archan, wchans, xfer, go
<1>9. CASE DmaArDrop(soft_rst)
  BY <1>3, <1>9 DEF DmaArDrop, flags, archan, wchans
<1>10. CASE DmaAr(soft_rst, ar)
  BY <1>3, <1>10 DEF DmaAr, flags, wchans, xfer
<1>11. CASE DmaR(soft_rst, rb)
  <2>1. /\ dma_st = "R" /\ buf_addr' = buf_addr + 1 /\ done' = done
        /\ UNCHANGED <<arvalid, awvalid, beats_in_burst>>
    BY <1>4, <1>11 DEF DmaR, archan, wchans, beats
  <2>2. CASE RLast
    BY <1>2, <1>3, <1>4, <1>11, <2>1, <2>2 DEF DmaR
  <2>3. CASE ~RLast
    BY <1>2, <1>3, <1>4, <1>11, <2>1, <2>3 DEF DmaR
  <2> QED BY <2>2, <2>3
<1>12. CASE DmaRWait(rb)
  BY <1>2, <1>12 DEF DmaRWait
<1>13. CASE DmaAwDrop(soft_rst)
  BY <1>3, <1>13 DEF DmaAwDrop, flags, archan, wchans
<1>14. CASE DmaAw(soft_rst, aw)
  BY <1>3, <1>14 DEF DmaAw, flags, archan, xfer
<1>15. CASE DmaW(wr)
  <2>1. CASE wvalid
    BY <1>2, <1>3, <1>4, <1>15, <2>1 DEF DmaW, FinalWBeat, flags, archan, wchans
  <2>2. CASE ~wvalid
    BY <1>2, <1>3, <1>4, <1>15, <2>2 DEF DmaW, flags, archan, wchans, beats
  <2> QED BY <2>1, <2>2
<1>16. CASE DmaB(soft_rst, bb)
  <2>1. /\ dma_st = "B" /\ done' = done /\ UNCHANGED <<arvalid, awvalid, buf_raddr>>
        /\ remaining' = remaining - beats_in_burst /\ cur_addr' = cur_addr + 4 * beats_in_burst
        /\ done_ok' = (done_ok /\ ~soft_rst)
        /\ dma_st' = IF soft_rst \/ remaining' = 0 THEN "DONE" ELSE "AW"
    BY <1>2, <1>4, <1>16 DEF DmaB, archan, wchans
  <2> QED BY <1>3, <2>1
<1>17. CASE DmaBWait(bb)
  BY <1>2, <1>17 DEF DmaBWait
<1>18. CASE DmaDone(soft_rst)
  BY <1>3, <1>18 DEF DmaDone, archan, wchans
<1>19. CASE DmaStrip(soft_rst, ar, rb)
  BY <1>3, <1>19 DEF DmaStrip, DmaStripArDrop, DmaStripAr, DmaStripR, DmaStripRWait, DmaStripDone
<1> QED BY <1>1, <1>5, <1>6, <1>7, <1>8, <1>9, <1>10, <1>11, <1>12, <1>13, <1>14, <1>15,
           <1>16, <1>17, <1>18, <1>19 DEF DmaClk, DmaIdle, DmaRead, DmaWrite

-----------------------------------------------------------------------------
(* What one clock edge does to the orders of the core.                      *)

\* Where the core goes, and which of its writes it makes there.
LEMMA CoreStep ==
    ASSUME NEW m \in CoreMoves, CoreClk(m)
    PROVE  /\ core' = "rgo" => m = "rdesc" \/ (m = "stall" /\ core = "rgo" /\ ctrl.start)
           /\ core' = "wgo" => m = "wdesc" \/ (m = "stall" /\ core = "wgo" /\ ctrl.start)
           /\ core' = "wdesc" => core = "wdesc" \/ (done /\ ~mode_write)
           /\ m \in {"rdesc", "rgo", "wdesc", "wgo"} => ctrl.start /\ core = m
<1>1. CASE ~ctrl.start
  <2>1. m = "reset"
    BY <1>1 DEF CoreMoves
  <2> QED BY <2>1 DEF CoreClk
<1>2. CASE ctrl.start
  <2>1. m \in {core, "stall"}
    BY <1>2 DEF CoreMoves
  <2>2. CASE m = "stall"
    BY <1>2, <2>2 DEF CoreClk
  <2>3. CASE m # "stall" /\ m # "reset"
    <3>1. m = core /\ core' \in CoreNext(m)
      BY <2>1, <2>3 DEF CoreClk
    <3>2. CASE m \in {"off", "rdesc", "rgo", "rret"}
      BY <1>2, <3>1, <3>2 DEF CoreNext
    <3>3. CASE m = "rwait"
      BY <1>2, <3>1, <3>3 DEF CoreNext
    <3>4. CASE m \in {"wdesc", "wgo", "wret", "fault"}
      BY <1>2, <3>1, <3>4 DEF CoreNext
    <3>5. CASE m = "wwait"
      BY <1>2, <3>1, <3>5 DEF CoreNext
    <3>6. CASE m \notin {"off", "rdesc", "rgo", "rret", "rwait", "wdesc", "wgo", "wret",
                         "fault", "wwait"}
      BY <1>2, <3>1, <3>6 DEF CoreNext
    <3> QED BY <3>2, <3>3, <3>4, <3>5, <3>6
  <2>4. CASE m = "reset"
    BY <2>4 DEF CoreClk
  <2> QED BY <2>2, <2>3, <2>4
<1> QED BY <1>1, <1>2

\* The registers follow the core's writes; the host writes none of them.
LEMMA GoStep ==
    ASSUME NEW m, CsrBlockClk(m)
    PROVE  /\ DomainReset => ~ctrl'.start /\ ~dma_go' /\ ~wb_go'
           /\ ~DomainReset =>
                 /\ dma_desc' = IF m = "rdesc" THEN ReadJob ELSE dma_desc
                 /\ wb_desc' = IF m = "wdesc" THEN WriteJob ELSE wb_desc
                 /\ dma_go' => m = "rgo"
                 /\ wb_go' => m = "wgo"
<1>1. CASE DomainReset
  BY <1>1 DEF CsrBlockClk, RegsReset
<1>2. CASE ~DomainReset
  <2> DEFINE cw == CoreWrite(m)
             hw == Hw
  <2>1. Pulses(hw, cw)
    BY <1>2 DEF CsrBlockClk, RegsCoreClk
  <2>2. hw.reg \notin {"DMA_DESC", "WB_DESC", "DMA_GO", "WB_GO"}
    <3>1. CASE WrFire /\ host.acc.op = "enable"
      BY <3>1 DEF Hw, CsrWrite
    <3>2. CASE WrFire /\ host.acc.op = "disable"
      BY <3>2 DEF Hw, CsrWrite
    <3>3. CASE WrFire /\ host.acc.op \notin {"enable", "disable"}
      BY <3>3 DEF Hw, CsrWrite
    <3>4. CASE ~WrFire
      BY <3>4 DEF Hw, NoWrite
    <3> QED BY <3>1, <3>2, <3>3, <3>4
  <2>3. /\ cw.reg = "DMA_DESC" <=> m = "rdesc"
        /\ cw.reg = "DMA_DESC" => cw.val = ReadJob
        /\ cw.reg = "WB_DESC" <=> m = "wdesc"
        /\ cw.reg = "WB_DESC" => cw.val = WriteJob
        /\ cw.reg = "DMA_GO" => m = "rgo"
        /\ cw.reg = "WB_GO" => m = "wgo"
    <3>1. CASE m \in {"rdesc", "rgo"}
      BY <3>1 DEF CoreWrite
    <3>2. CASE m \in {"wdesc", "wgo"}
      BY <3>2 DEF CoreWrite
    <3>3. CASE m = "fault"
      BY <3>3 DEF CoreWrite
    <3>4. CASE m \notin {"rdesc", "wdesc", "rgo", "wgo", "fault"}
      BY <3>4 DEF CoreWrite, NoWrite
    <3> QED BY <3>1, <3>2, <3>3, <3>4
  <2> HIDE DEF cw, hw
  <2> QED BY <1>2, <2>1, <2>2, <2>3 DEF Pulses
<1> QED BY <1>1, <1>2

\* The core orders its two jobs, and the write-back only of what it has read.
LEMMA OrdersStep ==
    ASSUME NEW a, NEW m, Edge(a, m)
    PROVE  Orders'
<1>1. CsrBlockClk(m) /\ m \in CoreMoves /\ CoreClk(m) /\ EngineClk /\ Orders /\ Claims
  BY DEF Edge, Clock, DInv
<1>2. /\ core' = "rgo" => m = "rdesc" \/ (m = "stall" /\ core = "rgo" /\ ctrl.start)
      /\ core' = "wgo" => m = "wdesc" \/ (m = "stall" /\ core = "wgo" /\ ctrl.start)
      /\ core' = "wdesc" => core = "wdesc" \/ (done /\ ~mode_write)
      /\ m \in {"rdesc", "rgo", "wdesc", "wgo"} => ctrl.start /\ core = m
  BY <1>1, CoreStep
<1>3. /\ DomainReset => ~ctrl'.start /\ ~dma_go' /\ ~wb_go'
      /\ ~DomainReset => /\ dma_desc' = IF m = "rdesc" THEN ReadJob ELSE dma_desc
                         /\ wb_desc' = IF m = "wdesc" THEN WriteJob ELSE wb_desc
                         /\ dma_go' => m = "rgo"
                         /\ wb_go' => m = "wgo"
  BY <1>1, GoStep
<1>4. (AllLoaded => AllLoaded') /\ (core \in {"wdesc", "wgo"} => AllLoaded)
      /\ (done /\ ~mode_write => AllLoaded)
  BY <1>1, MemKeeps DEF Orders, Claims
<1>5. core' \in {"wdesc", "wgo"} => AllLoaded'
  BY <1>2, <1>4
<1>6. /\ ctrl'.start /\ core' = "rgo" => dma_desc' = ReadJob
      /\ ctrl'.start /\ core' = "wgo" => wb_desc' = WriteJob
  BY <1>1, <1>2, <1>3 DEF Orders
<1>7. dma_go' => dma_desc' = ReadJob
  BY <1>1, <1>2, <1>3 DEF Orders
<1>8. wb_go' => wb_desc' = WriteJob /\ AllLoaded'
  BY <1>1, <1>2, <1>3, <1>4 DEF Orders
<1>9. mode_write' \in BOOLEAN
  BY <1>1 DEF EngineClk, Orders, StartWrite
<1>10. done' \in BOOLEAN /\ done_ok' \in BOOLEAN
  <2>1. CASE DomainReset
    BY <1>1, <2>1 DEF EngineClk, DmaReset
  <2>2. CASE ~DomainReset
    BY <2>2, EngineDataStep DEF EngineData
  <2> QED BY <2>1, <2>2
<1> QED BY <1>5, <1>6, <1>7, <1>8, <1>9, <1>10 DEF Orders

-----------------------------------------------------------------------------
(* State by state: the transfer stays where its addresses say it is.        *)

\* What has arrived stays there, and what has been written back too.
LEMMA DataKept ==
    ASSUME NEW a, NEW m, Edge(a, m)
    PROVE  /\ \A p \in 0 .. ReadJob.len : LoadedIn(tcm, p) => LoadedIn(tcm', p)
           /\ LoadedIn(tcm, ReadJob.len) =>
                 \A p \in 0 .. WriteJob.len : WrittenIn(mem, tcm, p) => WrittenIn(mem', tcm', p)
BY TcmKeeps, MemKeeps DEF Loaded, Written, AllLoaded

\* Nothing of an empty job is missing.
LEMMA NothingLeft == \A t, s : LoadedIn(t, 0) /\ WrittenIn(s, t, 0)
BY DEF LoadedIn, WrittenIn

\* The numbers of an edge.
LEMMA EdgeTypes ==
    ASSUME NEW a, NEW m, Edge(a, m)
    PROVE  /\ {SrcWord, DstWord, ReadJob.len, ReadJob.dst, WriteJob.len, WriteJob.src} \subseteq Nat
           /\ {cur_addr, remaining, buf_addr, buf_raddr, beats_in_burst, beats_done} \subseteq Nat
           /\ {cur_addr', remaining', buf_addr', buf_raddr', beats_in_burst', beats_done'} \subseteq Nat
           /\ dma_st = "R" => rbeats_left \in Nat
           /\ busy <=> dma_st # "IDLE"
           /\ arvalid' => dma_st' = "AR"
           /\ awvalid' => dma_st' = "AW"
<1>1. Engine /\ Engine' /\ ReadChannel
  BY DEF Edge, FInv
<1>2. /\ {cur_addr, remaining, buf_addr, buf_raddr, beats_in_burst, beats_done} \subseteq Nat
      /\ {cur_addr', remaining', buf_addr', buf_raddr', beats_in_burst', beats_done'} \subseteq Nat
  BY <1>1 DEF Engine, EngineTypes
<1>3. dma_st = "R" => rbeats_left \in Nat
  BY <1>1, <1>2 DEF ReadChannel
<1> QED BY <1>1, <1>2, <1>3, Layout DEF Engine

\* A new transfer is one of the core's two, from its first word.
LEMMA FromIdle ==
    ASSUME NEW a, NEW m, Edge(a, m), ~DomainReset, dma_st = "IDLE"
    PROVE  Claims' /\ Places'
<1>1. EngineData /\ Orders /\ Claims
  BY EngineDataStep DEF Edge, DInv
<1>2. mode_write' = IF DmaStart THEN StartWrite ELSE mode_write
  BY EdgeTypes DEF Edge, Clock, EngineClk
<1>3. ~arvalid' /\ ~awvalid'
  BY <1>1 DEF EngineData
<1>4. CASE dma_st' = "IDLE"
  <2>1. done' => done /\ ~DmaStart
    BY <1>1, <1>4 DEF EngineData
  <2>2. done' => AllLoaded /\ (mode_write' => Written(WriteJob.len))
    BY <1>1, <1>2, <2>1 DEF Claims
  <2>3. done' => LoadedIn(tcm', ReadJob.len) /\ (mode_write' => WrittenIn(mem', tcm', WriteJob.len))
    BY <2>2, DataKept, EdgeTypes DEF AllLoaded, Loaded, Written
  <2>4. Claims'
    BY <1>4, <2>3 DEF Claims, AllLoaded, Loaded, Written
  <2> QED BY <1>3, <1>4, <2>4 DEF Places
<1>5. CASE dma_st' # "IDLE"
  <2>1. /\ DmaStart /\ ~done' /\ remaining' = DmaDesc.len
        /\ cur_addr' = 4 * (DmaDesc.src \div 4)
        /\ buf_addr' = DmaDesc.word /\ buf_raddr' = DmaDesc.word
        /\ dma_st' = IF DmaDesc.len = 0 THEN "DONE" ELSE IF StartWrite THEN "AW" ELSE "AR"
    BY <1>1, <1>5 DEF EngineData
  <2>2. CASE StartWrite
    <3>1. wb_desc = WriteJob /\ LoadedIn(tcm', ReadJob.len)
      BY <1>1, <2>2, DataKept, EdgeTypes DEF Orders, StartWrite, AllLoaded, Loaded
    <3>2. /\ remaining' = WriteJob.len /\ cur_addr' = 4 * DstWord
          /\ buf_raddr' = WriteJob.src /\ mode_write'
          /\ dma_st' = IF WriteJob.len = 0 THEN "DONE" ELSE "AW"
      BY <1>2, <2>1, <2>2, <3>1 DEF DmaDesc, DstWord
    <3>3. Sent' = 0 /\ DstWord + Sent' = DstWord /\ WriteJob.src + Sent' = WriteJob.src
      BY <3>2, EdgeTypes DEF Sent
    <3>4. Claims'
      BY <2>1, <3>1, <3>2, NothingLeft, EdgeTypes DEF Claims, AllLoaded, Loaded, Written
    <3>5. Places'
      BY <1>3, <3>2, <3>3, NothingLeft DEF Places, Written
    <3> QED BY <3>4, <3>5
  <2>3. CASE ~StartWrite
    <3>1. dma_desc = ReadJob
      BY <1>1, <2>1, <2>3 DEF Orders, StartWrite, DmaStart
    <3>2. /\ remaining' = ReadJob.len /\ cur_addr' = 4 * SrcWord
          /\ buf_addr' = ReadJob.dst /\ ~mode_write'
          /\ dma_st' = IF ReadJob.len = 0 THEN "DONE" ELSE "AR"
      BY <1>2, <2>1, <2>3, <3>1 DEF DmaDesc, SrcWord
    <3>3. Moved' = 0 /\ SrcWord + Moved' = SrcWord /\ ReadJob.dst + Moved' = ReadJob.dst
      BY <3>2, EdgeTypes DEF Moved
    <3>4. Claims'
      BY <2>1, <3>2, NothingLeft, EdgeTypes DEF Claims, AllLoaded, Loaded, Written
    <3>5. Places'
      BY <1>3, <3>2, <3>3, NothingLeft DEF Places, Loaded
    <3> QED BY <3>4, <3>5
  <2> QED BY <2>2, <2>3
<1> QED BY <1>4, <1>5

\* A transfer that has ended claims what it has done.
LEMMA FromDone ==
    ASSUME NEW a, NEW m, Edge(a, m), ~DomainReset, dma_st = "DONE"
    PROVE  Claims' /\ Places'
<1>1. EngineData /\ Claims
  BY EngineDataStep DEF Edge, DInv
<1>2. mode_write' = mode_write
  BY EdgeTypes DEF Edge, Clock, EngineClk
<1>3. dma_st' = "IDLE" /\ (done' => done_ok) /\ ~arvalid' /\ ~awvalid'
  BY <1>1 DEF EngineData
<1>4. done' => AllLoaded /\ (mode_write' => Written(WriteJob.len))
  BY <1>1, <1>2, <1>3 DEF Claims
<1>5. done' => LoadedIn(tcm', ReadJob.len) /\ (mode_write' => WrittenIn(mem', tcm', WriteJob.len))
  BY <1>4, DataKept, EdgeTypes DEF AllLoaded, Loaded, Written
<1> QED BY <1>3, <1>5 DEF Claims, Places, AllLoaded, Loaded, Written

\* A transfer that moves keeps its direction, and is not yet done.
LEMMA MovingKeeps ==
    ASSUME NEW a, NEW m, Edge(a, m), ~DomainReset, dma_st \notin {"IDLE", "DONE"}
    PROVE  /\ mode_write' = mode_write /\ ~done'
           /\ arvalid' => dma_st = "AR"
           /\ awvalid' => dma_st = "AW"
           /\ dma_st \in {"AR", "R"} => ~mode_write /\ remaining <= ReadJob.len
           /\ dma_st \in {"AW", "W", "B"} =>
                 mode_write /\ remaining <= WriteJob.len /\ LoadedIn(tcm, ReadJob.len)
<1>1. EngineData /\ Claims
  BY EngineDataStep DEF Edge, DInv
<1>2. mode_write' = mode_write
  BY EdgeTypes DEF Edge, Clock, EngineClk
<1>3. ~done /\ done' = done
  BY <1>1 DEF EngineData, Claims
<1>4. ~done'
  BY <1>3
<1>5. (arvalid' => dma_st = "AR") /\ (awvalid' => dma_st = "AW")
  BY <1>1 DEF EngineData
<1> QED BY <1>1, <1>2, <1>4, <1>5 DEF Claims, AllLoaded, Loaded

\* A burst of the read is asked for where the job has got to.
LEMMA FromAr ==
    ASSUME NEW a, NEW m, Edge(a, m), ~DomainReset, dma_st = "AR"
    PROVE  Claims' /\ Places'
<1>1. EngineData /\ Claims /\ Places /\ FInv /\ DInv
  BY EngineDataStep DEF Edge, DInv
<1>2. mode_write' = mode_write /\ ~done' /\ ~awvalid' /\ ~mode_write
      /\ remaining <= ReadJob.len
  BY MovingKeeps
<1>3. CASE dma_st' = "DONE"
  <2>1. ~done_ok' /\ ~arvalid'
    BY <1>1, <1>3, EdgeTypes DEF EngineData
  <2> QED BY <1>2, <1>3, <2>1 DEF Claims, Places
<1>4. CASE dma_st' # "DONE"
  <2>1. /\ dma_st' \in {"AR", "R"} /\ UNCHANGED <<cur_addr, remaining, buf_addr>>
        /\ araddr' = cur_addr
    BY <1>1, <1>4 DEF EngineData
  <2>2. Claims'
    BY <1>2, <2>1 DEF Claims
  <2>3. Moved \in 0 .. ReadJob.len - 1 /\ Moved' = Moved
    BY <1>1, <2>1, Bounds DEF Moved
  <2>4. /\ cur_addr' = 4 * (SrcWord + Moved') /\ buf_addr' = ReadJob.dst + Moved'
        /\ LoadedIn(tcm', Moved')
    BY <1>1, <2>1, <2>3, DataKept, EdgeTypes DEF Places, Loaded
  <2>5. CASE dma_st' = "AR"
    BY <1>2, <2>1, <2>2, <2>4, <2>5 DEF Places, Loaded
  <2>6. CASE dma_st' = "R"
    <3>1. arvalid /\ ArReady1(DmaRq) /\ beats_in_burst' = arbeats
      BY <2>6 DEF Edge, EngineEdge
    <3>2. rgrant = "IDLE"
      BY <1>1, <3>1 DEF ArReady1, FInv, ReadChannel
    <3>3. rbeats_left' = arbeats
      BY <3>1, <3>2, ReadEdge
    <3>4. Arrived' = 0 /\ beats_in_burst' \in Nat
      BY <3>1, <3>3, EdgeTypes DEF Arrived
    <3>5. Moved' + Arrived' = Moved' /\ ReadJob.dst + Moved' + Arrived' = ReadJob.dst + Moved'
      BY <2>3, <3>4, EdgeTypes
    <3>6. ~arvalid'
      BY <2>6, EdgeTypes
    <3> QED BY <1>2, <2>2, <2>4, <2>6, <3>5, <3>6 DEF Places, Loaded
  <2> QED BY <2>1, <2>2, <2>5, <2>6
<1> QED BY <1>3, <1>4

\* A beat of the read moves the pointer one word on.
LEMMA FromR ==
    ASSUME NEW a, NEW m, Edge(a, m), ~DomainReset, dma_st = "R"
    PROVE  Claims' /\ Places'
<1>1. EngineData /\ Claims /\ Places /\ FInv /\ DInv
  BY EngineDataStep DEF Edge, DInv
<1>2. mode_write' = mode_write /\ ~done' /\ ~awvalid' /\ ~arvalid' /\ ~mode_write
      /\ remaining <= ReadJob.len
  BY MovingKeeps
<1>3. /\ Moved \in 0 .. ReadJob.len - 1 /\ Arrived \in 0 .. beats_in_burst - 1
      /\ Moved + Arrived \in 0 .. ReadJob.len - 1
      /\ LoadedIn(tcm', Moved + Arrived + 1)
  BY <1>1, Bounds, TcmKeeps
<1>4. buf_addr = ReadJob.dst + Moved + Arrived /\ cur_addr = 4 * (SrcWord + Moved)
  BY <1>1 DEF Places
<1>5. CASE ~RLast
  <2>1. /\ dma_st' = "R" /\ UNCHANGED <<cur_addr, remaining, beats_in_burst>>
        /\ buf_addr' = buf_addr + 1
    BY <1>1, <1>5 DEF EngineData
  <2>2. rgrant = "M1"
    BY <1>1 DEF FInv, ReadChannel
  <2>3. rbeats_left' = rbeats_left - 1
    BY <1>5, <2>2, ReadEdge
  <2>4. Moved' = Moved /\ Arrived' = Arrived + 1
    BY <2>1, <2>3, EdgeTypes DEF Moved, Arrived
  <2>5. /\ Moved' + Arrived' = Moved + Arrived + 1
        /\ buf_addr' = ReadJob.dst + Moved' + Arrived'
        /\ cur_addr' = 4 * (SrcWord + Moved')
    BY <1>3, <1>4, <2>1, <2>4, EdgeTypes
  <2>6. LoadedIn(tcm', Moved' + Arrived')
    BY <1>3, <2>5
  <2>7. Claims'
    BY <1>2, <2>1 DEF Claims
  <2>8. Places'
    BY <1>2, <2>1, <2>5, <2>6 DEF Places, Loaded
  <2> QED BY <2>7, <2>8
<1>6. CASE RLast
  <2>1. /\ remaining' = remaining - beats_in_burst /\ cur_addr' = cur_addr + 4 * beats_in_burst
        /\ buf_addr' = buf_addr + 1
        /\ dma_st' = "AR" \/ (dma_st' = "DONE" /\ (done_ok' => remaining' = 0))
    BY <1>1, <1>6 DEF EngineData
  <2>2. Arrived + 1 = beats_in_burst
    BY <1>6, EdgeTypes DEF RLast, Arrived
  <2>3. /\ Moved' = Moved + Arrived + 1 /\ remaining' <= ReadJob.len
        /\ remaining' = 0 => Moved' = ReadJob.len
    BY <1>2, <1>3, <2>1, <2>2, EdgeTypes DEF Moved
  <2>4. buf_addr' = ReadJob.dst + Moved'
    BY <1>3, <1>4, <2>1, <2>3, EdgeTypes
  <2>5. cur_addr' = 4 * (SrcWord + Moved')
    BY <1>3, <1>4, <2>1, <2>2, <2>3, EdgeTypes
  <2>6. LoadedIn(tcm', Moved')
    BY <1>3, <2>3
  <2>7. Claims'
    BY <1>2, <2>1, <2>3, <2>6 DEF Claims, AllLoaded, Loaded
  <2>8. Places'
    BY <1>2, <2>1, <2>4, <2>5, <2>6 DEF Places, Loaded
  <2> QED BY <2>7, <2>8
<1> QED BY <1>5, <1>6

\* A burst of the write-back is asked for where the job has got to.
LEMMA FromAw ==
    ASSUME NEW a, NEW m, Edge(a, m), ~DomainReset, dma_st = "AW"
    PROVE  Claims' /\ Places'
<1>1. EngineData /\ Claims /\ Places /\ FInv /\ DInv
  BY EngineDataStep DEF Edge, DInv
<1>2. mode_write' = mode_write /\ ~done' /\ ~arvalid' /\ mode_write
      /\ remaining <= WriteJob.len /\ LoadedIn(tcm, ReadJob.len)
  BY MovingKeeps
<1>3. LoadedIn(tcm', ReadJob.len)
  BY <1>2, DataKept, EdgeTypes
<1>4. CASE dma_st' = "DONE"
  <2>1. ~done_ok' /\ ~awvalid'
    BY <1>1, <1>4, EdgeTypes DEF EngineData
  <2> QED BY <1>2, <1>4, <2>1 DEF Claims, Places
<1>5. CASE dma_st' # "DONE"
  <2>1. /\ dma_st' \in {"AW", "W"} /\ UNCHANGED <<cur_addr, remaining, buf_raddr>>
        /\ awaddr' = cur_addr /\ (dma_st' = "W" => beats_done' = 0)
    BY <1>1, <1>5 DEF EngineData
  <2>2. Claims'
    BY <1>2, <1>3, <2>1 DEF Claims, AllLoaded, Loaded
  <2>3. Sent \in 0 .. WriteJob.len - 1 /\ Sent' = Sent
    BY <1>1, <2>1, Bounds DEF Sent
  <2>4. /\ cur_addr' = 4 * (DstWord + Sent') /\ buf_raddr' = WriteJob.src + Sent'
        /\ WrittenIn(mem', tcm', Sent')
    BY <1>1, <1>2, <2>1, <2>3, DataKept, EdgeTypes DEF Places, Written
  <2>5. dma_st' = "W" => /\ Sent' + beats_done' = Sent'
                         /\ WriteJob.src + Sent' + beats_done' = WriteJob.src + Sent'
    BY <2>1, <2>3, EdgeTypes
  <2>6. Places'
    BY <1>2, <2>1, <2>4, <2>5, EdgeTypes DEF Places, Written
  <2> QED BY <2>2, <2>6
<1> QED BY <1>4, <1>5

\* A beat of the write-back moves the pointer one word on.
LEMMA FromW ==
    ASSUME NEW a, NEW m, Edge(a, m), ~DomainReset, dma_st = "W"
    PROVE  Claims' /\ Places'
<1>1. EngineData /\ Claims /\ Places /\ FInv /\ DInv
  BY EngineDataStep DEF Edge, DInv
<1>2. mode_write' = mode_write /\ ~done' /\ ~arvalid' /\ ~awvalid' /\ mode_write
      /\ remaining <= WriteJob.len /\ LoadedIn(tcm, ReadJob.len)
  BY MovingKeeps
<1>3. LoadedIn(tcm', ReadJob.len)
  BY <1>2, DataKept, EdgeTypes
<1>4. UNCHANGED <<cur_addr, remaining, beats_in_burst>> /\ Sent' = Sent
      /\ Sent \in Nat /\ Sent + beats_done \in 0 .. WriteJob.len - 1
  BY <1>1, Bounds DEF EngineData, Sent
<1>5. cur_addr' = 4 * (DstWord + Sent')
  BY <1>1, <1>4 DEF Places
<1>6. CASE wvalid
  <2>1. /\ beats_done' = beats_done + 1 /\ buf_raddr' = buf_raddr + 1
        /\ dma_st' = IF beats_done = beats_in_burst - 1 THEN "B" ELSE "W"
    BY <1>1, <1>6 DEF EngineData
  <2>2. WrittenIn(mem', tcm', Sent + beats_done + 1)
    BY <1>6, MemKeeps
  <2>3. /\ Sent' + beats_done' = Sent + beats_done + 1
        /\ buf_raddr' = WriteJob.src + Sent' + beats_done'
    BY <1>1, <1>4, <2>1, EdgeTypes DEF Places
  <2>4. dma_st' = "B" => beats_in_burst' = beats_done'
    BY <1>4, <2>1, EdgeTypes
  <2>5. Claims'
    BY <1>2, <1>3, <1>4, <2>1 DEF Claims, AllLoaded, Loaded
  <2>6. Places'
    BY <1>2, <1>5, <2>1, <2>2, <2>3, <2>4 DEF Places, Written
  <2> QED BY <2>5, <2>6
<1>7. CASE ~wvalid
  <2>1. UNCHANGED <<beats_done, buf_raddr, dma_st>>
    BY <1>1, <1>7 DEF EngineData
  <2>2. WrittenIn(mem', tcm', Sent + beats_done)
    BY <1>1, <1>2, <1>4, DataKept, EdgeTypes DEF Places, Written
  <2>3. Claims'
    BY <1>2, <1>3, <1>4, <2>1 DEF Claims, AllLoaded, Loaded
  <2>4. Places'
    BY <1>1, <1>2, <1>4, <1>5, <2>1, <2>2 DEF Places, Written
  <2> QED BY <2>3, <2>4
<1> QED BY <1>6, <1>7

\* The response ends a burst of the write-back.
LEMMA FromB ==
    ASSUME NEW a, NEW m, Edge(a, m), ~DomainReset, dma_st = "B"
    PROVE  Claims' /\ Places'
<1>1. EngineData /\ Claims /\ Places /\ FInv /\ DInv
  BY EngineDataStep DEF Edge, DInv
<1>2. mode_write' = mode_write /\ ~done' /\ ~arvalid' /\ ~awvalid' /\ mode_write
      /\ remaining <= WriteJob.len /\ LoadedIn(tcm, ReadJob.len)
  BY MovingKeeps
<1>3. LoadedIn(tcm', ReadJob.len)
  BY <1>2, DataKept, EdgeTypes
<1>4. /\ remaining' = remaining - beats_in_burst /\ cur_addr' = cur_addr + 4 * beats_in_burst
      /\ buf_raddr' = buf_raddr
      /\ dma_st' = "AW" \/ (dma_st' = "DONE" /\ (done_ok' => remaining' = 0))
  BY <1>1 DEF EngineData
<1>5. Sent \in Nat /\ Sent + beats_in_burst \in 0 .. WriteJob.len
  BY <1>1, Bounds
<1>6. /\ Sent' = Sent + beats_in_burst /\ remaining' <= WriteJob.len
      /\ remaining' = 0 => Sent' = WriteJob.len
  BY <1>2, <1>4, EdgeTypes DEF Sent
<1>7. /\ cur_addr' = 4 * (DstWord + Sent') /\ buf_raddr' = WriteJob.src + Sent'
      /\ WrittenIn(mem', tcm', Sent')
  <2>1. cur_addr' = 4 * (DstWord + Sent')
    BY <1>1, <1>4, <1>5, <1>6, EdgeTypes DEF Places
  <2>2. buf_raddr' = WriteJob.src + Sent'
    BY <1>1, <1>4, <1>5, <1>6, EdgeTypes DEF Places
  <2>3. WrittenIn(mem', tcm', Sent')
    BY <1>1, <1>2, <1>5, <1>6, DataKept DEF Places, Written
  <2> QED BY <2>1, <2>2, <2>3
<1>8. Claims'
  BY <1>2, <1>3, <1>4, <1>6, <1>7 DEF Claims, AllLoaded, Loaded, Written
<1>9. Places'
  BY <1>2, <1>4, <1>7 DEF Places, Written
<1> QED BY <1>8, <1>9

\* Whatever it does, the pulse of a hard reset included.
LEMMA TransferStep ==
    ASSUME NEW a, NEW m, Edge(a, m)
    PROVE  Claims' /\ Places'
<1>1. CASE DomainReset
  <2>1. dma_st' = "IDLE" /\ ~done' /\ ~arvalid' /\ ~awvalid'
    BY <1>1 DEF Edge, Clock, EngineClk, DmaReset
  <2> QED BY <2>1 DEF Claims, Places
<1>2. CASE ~DomainReset
  <2>1. dma_st \in {"IDLE", "AR", "R", "AW", "W", "B", "DONE"}
    BY DEF Edge, FInv, Engine, EngineTypes
  <2> QED BY <1>2, <2>1, FromIdle, FromAr, FromR, FromAw, FromW, FromB, FromDone
<1> QED BY <1>1, <1>2

-----------------------------------------------------------------------------
(* What one clock edge does to the lanes.                                   *)

\* The first beat of a narrow request holds its word on the word's lane.
LEMMA FirstBeat ==
    ASSUME NEW q, NEW w \in 0 .. Words - 1, q.narrow, q.word = w
    PROVE  BeatBase(q) + (w % WPB) = w /\ WideRead(BeatBase(q))[w % WPB] = mem[w]
<1>1. BeatBase(q) = w - (w % WPB)
  BY DEF BeatBase
<1>2. w % WPB \in 0 .. WPB - 1 /\ BeatBase(q) + (w % WPB) = w
  BY <1>1, BeatAndLane
<1>3. w % Words = w
  BY SmallMod, Layout
<1> QED BY <1>2, <1>3 DEF WideRead

\* The next beat holds the next word on the same lane.
LEMMA NextBeat ==
    ASSUME NEW p \in 0 .. Words - 1, NEW l \in 0 .. WPB - 1, p + 1 + l < Words
    PROVE  (p + 1) % Words = p + 1 /\ WideRead(p + 1)[l] = mem[p + 1 + l]
<1>1. p + 1 \in 0 .. Words - 1 /\ p + 1 + l \in 0 .. Words - 1 /\ Words \in Nat \ {0}
  BY Layout
<1>2. (p + 1) % Words = p + 1 /\ (p + 1 + l) % Words = p + 1 + l
  <2> DEFINE x == p + 1
             y == p + 1 + l
  <2>1. x \in 0 .. Words - 1 /\ y \in 0 .. Words - 1
    BY <1>1
  <2> HIDE DEF x, y
  <2>2. x % Words = x /\ y % Words = y
    BY <1>1, <2>1, SmallMod
  <2> QED BY <2>2 DEF x, y
<1> QED BY <1>2 DEF WideRead

\* The words of the read hold what the shared memory was given at first.
LEMMA ReadWordsHold ==
    ASSUME DInv, NEW i \in 0 .. ReadJob.len - 1
    PROVE  SrcWord + i \in 0 .. Words - 1 /\ mem[SrcWord + i] = SrcWord + i
<1>1. SrcWord + i \in 0 .. Words - 1 /\ SrcWord + i \notin HostWords \cup WriteWords
  BY Layout
<1>2. Holds(SrcWord + i, mem[SrcWord + i])
  BY <1>1 DEF DInv, Memories
<1> QED BY <1>1, <1>2 DEF Holds

\* The lane of the engine is that of the word its address names.
LEMMA EngineLane ==
    ASSUME NEW a, NEW m, Edge(a, m)
    PROVE  /\ \A k \in 0 .. Words - 1 : cur_addr = 4 * k => DmaLane = k % WPB
           /\ \A k \in 0 .. Words - 1 : cur_addr' = 4 * k => DmaLane' = k % WPB
BY AddressWord DEF DmaLane

\* The read channel and the engine's lane.
LEMMA ReadLaneStep ==
    ASSUME NEW a, NEW m, Edge(a, m), rgrant' = "M1"
    PROVE  /\ rstride' = 1 /\ rptr' + DmaLane' = SrcWord + Moved' + Arrived'
           /\ rdata'[DmaLane'] = SrcWord + Moved' + Arrived'
<1>1. /\ FInv /\ DInv /\ Engine /\ ReadChannel /\ ReadData /\ Places /\ Lanes
      /\ dma_st' = "R" /\ EngineEdge
  BY DEF Edge, FInv, DInv, ReadChannel
<1>2. ~DomainReset
  BY <1>1 DEF EngineEdge
<1>3. EngineData
  BY <1>2, EngineDataStep
<1>4. CASE rgrant = "IDLE" /\ arvalid
  <2>1. /\ rstride' = 1 /\ rbeats_left' = arbeats
        /\ rptr' = BeatBase(DmaRq) /\ rdata' = WideRead(BeatBase(DmaRq))
    BY <1>4, ReadEdge
  <2>2. dma_st = "AR" /\ araddr = cur_addr /\ cur_addr = 4 * (SrcWord + Moved)
        /\ cur_addr' = cur_addr /\ remaining' = remaining /\ narrow_l
    BY <1>1, <1>3, <1>4 DEF Engine, Places, EngineData
  <2>3. beats_in_burst' = arbeats
    BY <1>1, <2>2 DEF EngineEdge, ReadChannel
  <2>4. Moved \in 0 .. ReadJob.len - 1 /\ Moved' = Moved /\ Arrived' = 0
    <3>1. Moved \in 0 .. ReadJob.len - 1
      BY <1>1, <2>2, Bounds
    <3> QED BY <2>1, <2>2, <2>3, <3>1, EdgeTypes DEF Moved, Arrived
  <2> DEFINE w == SrcWord + Moved
  <2>5. w \in 0 .. Words - 1 /\ mem[w] = w
    BY <1>1, <2>4, ReadWordsHold
  <2>6. DmaLane' = w % WPB /\ SrcWord + Moved' + Arrived' = w
    BY <2>2, <2>4, <2>5, EngineLane, EdgeTypes
  <2>7. DmaRq.narrow /\ DmaRq.word = w
    BY <2>2, <2>5, AddressWord DEF DmaRq
  <2> HIDE DEF w
  <2>8. BeatBase(DmaRq) + (w % WPB) = w /\ WideRead(BeatBase(DmaRq))[w % WPB] = mem[w]
    BY <2>5, <2>7, FirstBeat
  <2> QED BY <2>1, <2>5, <2>6, <2>8
<1>5. CASE rgrant = "M1" /\ ~RLast
  <2>1. /\ rstride' = rstride /\ rbeats_left' = rbeats_left - 1
        /\ rptr' = (rptr + rstride) % Words /\ rdata' = WideRead(rptr + rstride)
    BY <1>5, ReadEdge
  <2>2. dma_st = "R"
    BY <1>1, <1>5 DEF ReadChannel
  <2>3. UNCHANGED <<cur_addr, remaining, beats_in_burst>>
    BY <1>3, <1>5, <2>2 DEF EngineData
  <2>4. /\ Moved \in 0 .. ReadJob.len - 1 /\ Arrived \in Nat /\ Moved + Arrived + 1 \in 0 .. ReadJob.len - 1
        /\ Moved' = Moved /\ Arrived' = Arrived + 1
    <3>1. /\ Moved \in 0 .. ReadJob.len - 1 /\ Arrived \in 0 .. beats_in_burst - 1
          /\ rbeats_left \in 1 .. beats_in_burst /\ rbeats_left # 1
          /\ beats_in_burst \in 1 .. remaining
      BY <1>1, <1>5, <2>2, Bounds DEF RLast, ReadChannel, Engine
    <3>2. Moved' = Moved /\ Arrived' = Arrived + 1
      BY <2>1, <2>3, <3>1, EdgeTypes DEF Moved, Arrived
    <3>3. Moved + Arrived + 1 \in 0 .. ReadJob.len - 1
      BY <3>1, EdgeTypes DEF Moved, Arrived
    <3> QED BY <3>1, <3>2, <3>3
  <2> DEFINE k == Moved + Arrived + 1
             w == SrcWord + k
             l == DmaLane
  <2>5. w \in 0 .. Words - 1 /\ mem[w] = w
    BY <1>1, <2>4, ReadWordsHold
  <2>6. DmaLane' = l
    BY <2>3 DEF DmaLane
  <2>7. l \in 0 .. WPB - 1
    <3>1. SrcWord + Moved \in 0 .. Words - 1
      BY <1>1, <2>4, ReadWordsHold
    <3>2. cur_addr = 4 * (SrcWord + Moved)
      BY <1>1, <2>2 DEF Places
    <3>3. l = (SrcWord + Moved) % WPB
      BY <3>1, <3>2, EngineLane
    <3> QED BY <3>1, <3>3, BeatAndLane
  <2>8. rstride = 1 /\ rptr \in 0 .. Words - 1 /\ rptr + l = SrcWord + Moved + Arrived
    BY <1>1, <1>5 DEF ReadData, Lanes
  <2> HIDE DEF l
  <2>9. SrcWord + Moved' + Arrived' = w /\ rptr + 1 + l = w
    BY <2>4, <2>7, <2>8, EdgeTypes
  <2> HIDE DEF w
  <2>10. (rptr + 1) % Words = rptr + 1 /\ WideRead(rptr + 1)[l] = mem[rptr + 1 + l]
    <3>1. rptr + 1 + l < Words
      BY <2>5, <2>9, Layout
    <3> QED BY <2>7, <2>8, <3>1, NextBeat
  <2> QED BY <2>1, <2>5, <2>6, <2>8, <2>9, <2>10
<1>6. (rgrant = "IDLE" /\ arvalid) \/ (rgrant = "M1" /\ ~RLast)
  <2>1. rgrant \in {"IDLE", "M0", "M1"}
    BY <1>1 DEF ReadChannel
  <2> QED BY <2>1, ReadEdge
<1> QED BY <1>4, <1>5, <1>6

\* The read channel and the host's lane.
LEMMA HostReadStep ==
    ASSUME NEW a, NEW m, Edge(a, m), rgrant' = "M0"
    PROVE  Holds(host.acc.word, rdata[HostLane])'
<1>1. /\ FInv /\ DInv /\ Port /\ ReadChannel /\ Memories /\ PortMoves /\ WriteChannel
  BY DEF Edge, FInv, DInv
<1>2. rgrant = "IDLE" /\ ~arvalid /\ HostRead.valid
  <2>1. rgrant \in {"IDLE", "M0", "M1"}
    BY <1>1 DEF ReadChannel
  <2> QED BY <2>1, ReadEdge
<1>3. rdata' = WideRead(BeatBase(HostRead))
  BY <1>2, ReadEdge
<1>4. host.st = "AR" /\ To("mem") /\ host.acc \in Accesses
  BY <1>1, <1>2 DEF HostRead, HostAr, Port
<1>5. host'.acc = host.acc
  BY <1>1, <1>4 DEF PortMoves
<1> DEFINE w == host.acc.word
<1>6. w \in 0 .. Words - 1
  BY <1>4, NoAccessIsNone
<1>7. HostRead.narrow /\ HostRead.word = w
  BY DEF HostRead
<1>8. HostLane' = w % WPB /\ host'.acc.word = w
  BY <1>5 DEF HostLane, HostRead
<1> HIDE DEF w
<1>9. rdata'[w % WPB] = mem[w]
  BY <1>3, <1>6, <1>7, FirstBeat
<1>10. Holds(w, mem[w]) /\ hostval' = hostval /\ (AllLoaded => AllLoaded' /\ tcm' = tcm)
  <2>1. wgrant # "M0"
    BY <1>1, <1>4 DEF WriteChannel
  <2> QED BY <1>1, <1>6, <2>1, MemEdge, MemKeeps, TcmKeeps DEF Memories
<1>11. IF w \in HostWords THEN mem[w] = hostval'[w]
       ELSE mem[w] = w \/ (w \in WriteWords /\ AllLoaded' /\ mem[w] = tcm'[WriteJob.src + w - DstWord])
  BY <1>10 DEF Holds
<1>12. rdata'[HostLane'] = mem[w]
  BY <1>8, <1>9
<1> QED BY <1>8, <1>11, <1>12 DEF Holds

\* A burst of the engine is not handed over to the host.
LEMMA OwnerStays ==
    ASSUME NEW a, NEW m, Edge(a, m), wgrant = "M1"
    PROVE  wgrant' # "M0"
<1>1. WriteClk(HostWrite, DmaWq, HostData, DmaData, host.st = "AW", dma_st = "B")
  BY DEF Edge, Clock, MemoryClk
<1> QED BY <1>1 DEF WriteClk, Grant

\* The write channel and both lanes.
LEMMA WriteLaneStep ==
    ASSUME NEW a, NEW m, Edge(a, m), wstate' = "DATA"
    PROVE  /\ wgrant' = "M1" => wstride' = 1 /\ wptr' + DmaLane' = DstWord + Sent' + beats_done'
           /\ wgrant' = "M0" => wptr' + HostLane' = host'.acc.word
<1>1. /\ FInv /\ DInv /\ Engine /\ Port /\ WriteChannel /\ WriteData /\ Places /\ Lanes
      /\ EngineEdge /\ PortMoves
      /\ wgrant' = "M1" => dma_st' = "W"
      /\ wgrant' = "M0" => host'.st = "AW" /\ ~host'.w
  BY DEF Edge, FInv, DInv, WriteChannel
<1>2. wgrant \in {"IDLE", "M0", "M1"}
  BY <1>1 DEF WriteChannel
<1>3. ASSUME wgrant' = "M0" PROVE wptr' + HostLane' = host'.acc.word
  <2>1. wgrant = "IDLE" /\ ~awvalid /\ HostWrite.valid
    <3>1. wgrant # "M1"
      BY <1>1, <1>3, OwnerStays
    <3>2. wgrant # "M0"
      BY <1>3, WriteEdge
    <3> QED BY <1>2, <1>3, <3>1, <3>2, WriteEdge
  <2>2. wptr' = BeatBase(HostWrite)
    BY <2>1, WriteEdge
  <2>3. host.st = "AW" /\ To("mem") /\ host.acc \in Accesses
    BY <1>1, <2>1 DEF HostWrite, HostAw, HostRead, Port
  <2>4. host'.acc = host.acc
    BY <1>1, <1>3, <2>3 DEF PortMoves
  <2> DEFINE w == host.acc.word
  <2>5. w \in 0 .. Words - 1
    BY <2>3, NoAccessIsNone
  <2>6. HostWrite.narrow /\ HostWrite.word = w
    BY DEF HostWrite, HostRead
  <2>7. HostLane' = w % WPB /\ host'.acc.word = w
    BY <2>4 DEF HostLane, HostRead
  <2> HIDE DEF w
  <2>8. BeatBase(HostWrite) + (w % WPB) = w
    BY <2>5, <2>6, FirstBeat
  <2> QED BY <2>2, <2>7, <2>8
<1>4. ASSUME wgrant' = "M1"
      PROVE  wstride' = 1 /\ wptr' + DmaLane' = DstWord + Sent' + beats_done'
  <2>1. dma_st' = "W" /\ ~DomainReset
    BY <1>1, <1>4 DEF EngineEdge
  <2>2. EngineData
    BY <2>1, EngineDataStep
  <2>3. \A i \in 0 .. WriteJob.len - 1 : DstWord + i \in 0 .. Words - 1
    BY Layout
  <2>4. CASE dma_st = "AW" /\ awvalid /\ wgrant = "IDLE"
    <3>1. wstride' = 1 /\ wptr' = BeatBase(DmaWq)
      BY <2>4, WriteEdge
    <3>2. awaddr = cur_addr /\ cur_addr = 4 * (DstWord + Sent) /\ narrow_l
          /\ cur_addr' = cur_addr /\ remaining' = remaining /\ beats_done' = 0
      BY <1>1, <2>1, <2>2, <2>4 DEF Engine, Places, EngineData
    <3>3. Sent \in 0 .. WriteJob.len - 1 /\ Sent' = Sent
      BY <1>1, <2>4, <3>2, Bounds DEF Sent
    <3> DEFINE w == DstWord + Sent
    <3>4. w \in 0 .. Words - 1 /\ DstWord + Sent' + beats_done' = w
      BY <2>3, <3>2, <3>3, EdgeTypes
    <3>5. DmaLane' = w % WPB
      BY <3>2, <3>4, EngineLane
    <3>6. DmaWq.narrow /\ DmaWq.word = w
      BY <3>2, <3>4, AddressWord DEF DmaWq
    <3> HIDE DEF w
    <3>7. BeatBase(DmaWq) + (w % WPB) = w
      BY <3>4, <3>6, FirstBeat
    <3> QED BY <3>1, <3>4, <3>5, <3>7
  <2>5. CASE dma_st = "W"
    <3>1. wgrant = "M1" /\ wstate = "DATA"
      BY <1>1, <2>5 DEF WriteChannel
    <3>2. wstride = 1 /\ wptr \in 0 .. Words - 1
          /\ wptr + DmaLane = DstWord + Sent + beats_done
      BY <1>1, <3>1 DEF Lanes, WriteData
    <3>3. UNCHANGED <<cur_addr, remaining, beats_in_burst>>
      BY <2>2, <2>5 DEF EngineData
    <3>4. DmaLane' = DmaLane /\ Sent' = Sent
      BY <3>3 DEF DmaLane, Sent
    <3>5. CASE ~wvalid
      <4>1. UNCHANGED <<wptr, wstride, beats_done>>
        BY <2>2, <2>5, <3>5, WriteEdge DEF EngineData
      <4> QED BY <3>2, <3>4, <4>1
    <3>6. CASE wvalid
      <4>1. /\ wptr' = (wptr + wstride) % Words /\ wstride' = wstride
            /\ beats_done' = beats_done + 1 /\ beats_done # beats_in_burst - 1
        BY <2>1, <2>2, <2>5, <3>6, WriteEdge DEF EngineData
      <4>2. /\ Sent \in Nat /\ Sent + beats_done + 1 \in 0 .. WriteJob.len - 1
        <5>1. /\ Sent \in 0 .. WriteJob.len - 1 /\ beats_done \in 0 .. beats_in_burst - 1
              /\ beats_in_burst \in 1 .. remaining
          BY <1>1, <2>5, Bounds DEF Engine
        <5>2. /\ WriteJob.len \in Nat /\ remaining \in Nat /\ beats_in_burst \in Nat
              /\ beats_done \in Nat /\ Sent = WriteJob.len - remaining
          BY <5>1, EdgeTypes DEF Sent
        <5> QED BY <4>1, <5>1, <5>2
      <4>3. DstWord + (Sent + beats_done + 1) \in 0 .. Words - 1
        BY <2>3, <4>2
      <4> DEFINE l == DmaLane
      <4>4. l \in 0 .. WPB - 1
        <5>1. DstWord + Sent \in 0 .. Words - 1
          BY <1>1, <2>3, <2>5, Bounds
        <5>2. cur_addr = 4 * (DstWord + Sent)
          BY <1>1, <2>5 DEF Places
        <5>3. l = (DstWord + Sent) % WPB
          BY <5>1, <5>2, EngineLane
        <5> QED BY <5>1, <5>3, BeatAndLane
      <4> HIDE DEF l
      <4>5. wptr + l = DstWord + Sent + beats_done
        BY <3>2 DEF l
      <4>6. wptr + 1 + l = DstWord + Sent + (beats_done + 1) /\ wptr + 1 + l < Words
        <5>1. DstWord \in Nat /\ Words \in Nat /\ beats_done \in Nat /\ WPB \in Nat
          BY EdgeTypes, Layout
        <5>2. wptr + 1 + l = DstWord + (Sent + beats_done + 1)
          BY <3>2, <4>2, <4>4, <4>5, <5>1
        <5> QED BY <4>2, <4>3, <5>1, <5>2
      <4>7. (wptr + 1) % Words = wptr + 1
        BY <3>2, <4>4, <4>6, NextBeat
      <4>8. DmaLane' = l
        BY <3>4 DEF l
      <4> QED BY <3>2, <3>4, <4>1, <4>6, <4>7, <4>8
    <3> QED BY <3>5, <3>6
  <2>6. (dma_st = "AW" /\ awvalid /\ wgrant = "IDLE") \/ dma_st = "W"
    <3>1. (dma_st = "AW" /\ awvalid /\ AwReady1(DmaWq)) \/ dma_st = "W"
      BY <1>1, <2>1 DEF EngineEdge
    <3>2. dma_st = "AW" /\ AwReady1(DmaWq) => wgrant = "IDLE"
      BY <1>1 DEF WriteChannel, AwReady1
    <3> QED BY <3>1, <3>2
  <2> QED BY <2>4, <2>5, <2>6
<1> QED BY <1>3, <1>4

\* The lanes of the four blocks fit together at every edge.
LEMMA LanesStep ==
    ASSUME NEW a, NEW m, Edge(a, m)
    PROVE  Lanes'
BY ReadLaneStep, HostReadStep, WriteLaneStep DEF Lanes

-----------------------------------------------------------------------------
(* The invariant always holds.                                              *)

\* Every clock edge keeps the invariant of the data.
LEMMA ClockKeepsDInv ==
    ASSUME FInv, DInv, NEW a \in HostMoves, NEW m \in CoreMoves, Clock(a, m)
    PROVE  DInv'
<1>1. /\ HostClk(a) /\ RouteClk /\ CsrBlockClk(m) /\ EngineClk
      /\ Engine /\ Reset /\ Port /\ WriteChannel
  BY DEF Clock, FInv
<1>2. FInv' /\ EngineEdge /\ PortEdge /\ PortMoves
  BY <1>1, ClockKeepsFInv, EngineEdgeStep, PortEdgeStep, PortStep
<1>3. Edge(a, m)
  BY <1>2 DEF Edge
<1>4. Memories' /\ Orders' /\ Claims' /\ Places' /\ Lanes'
  BY <1>3, MemKeeps, OrdersStep, TransferStep, LanesStep
<1> QED BY <1>4 DEF DInv

\* It holds at first: every word of shared memory is its own number and nothing
\* has been read.
LEMMA DInvInit == Init => DInv
<1> SUFFICES ASSUME Init PROVE DInv
  OBVIOUS
<1>1. /\ mem = [w \in 0 .. Words - 1 |-> w] /\ tcm = [i \in 0 .. TcmWords - 1 |-> -1]
      /\ hostval = [w \in HostWords |-> w]
      /\ core = "off" /\ ctrl.start = FALSE /\ dma_go = FALSE /\ wb_go = FALSE
      /\ mode_write = FALSE /\ done = FALSE /\ done_ok = FALSE /\ dma_st = "IDLE"
      /\ arvalid = FALSE /\ awvalid = FALSE /\ rgrant = "IDLE" /\ wgrant = "IDLE"
      /\ wstate = "IDLE"
  BY DEF Init, DmaInit, RegsInit, FabricInit
<1>2. HostWords \subseteq 0 .. Words - 1 /\ Words \in Nat
  BY Layout
<1>3. Memories
  <2>1. mem \in [0 .. Words - 1 -> Int] /\ tcm \in [0 .. TcmWords - 1 -> Int]
    BY <1>1
  <2>2. hostval \in [HostWords -> Int]
    BY <1>1, <1>2
  <2>3. \A w \in 0 .. Words - 1 : Holds(w, mem[w])
    BY <1>1 DEF Holds
  <2>4. \A i \in 0 .. TcmWords - 1 : tcm[i] = -1
    BY <1>1
  <2> QED BY <2>1, <2>2, <2>3, <2>4 DEF Memories
<1>4. Orders /\ Claims /\ Places /\ Lanes
  BY <1>1 DEF Orders, Claims, Places, Lanes
<1> QED BY <1>3, <1>4 DEF DInv

\* Every step keeps it.
LEMMA DInvNext == FInv /\ DInv /\ [Next]_vars => DInv'
<1>1. ASSUME FInv, DInv, Next PROVE DInv'
  BY <1>1, ClockKeepsDInv DEF Next
<1>2. ASSUME DInv, UNCHANGED vars PROVE DInv'
  <2> USE <1>2 DEF vars, dmaVars, regVars, fabricVars, topVars, flags, archan, wchans, xfer,
                   beats, sflags
  <2>1. AllLoaded' <=> AllLoaded
    BY DEF AllLoaded, Loaded
  <2>2. Moved' = Moved /\ Sent' = Sent /\ Arrived' = Arrived
    BY DEF Moved, Sent, Arrived
  <2>3. DmaLane' = DmaLane /\ HostLane' = HostLane
    BY DEF DmaLane, HostLane, HostRead
  <2>4. Memories'
    BY <2>1 DEF DInv, Memories, Holds
  <2>5. Orders' /\ Claims'
    BY <2>1 DEF DInv, Orders, Claims, Written
  <2>6. Places'
    BY <2>2 DEF DInv, Places, Loaded, Written
  <2>7. Lanes'
    BY <2>1, <2>2, <2>3 DEF DInv, Lanes, Holds
  <2> QED BY <2>4, <2>5, <2>6, <2>7 DEF DInv
<1> QED BY <1>1, <1>2

\* It always holds.
LEMMA DInvAlways == Spec => []DInv
<1>1. Init => FInv /\ DInv
  BY FInvInit, DInvInit
<1>2. FInv /\ DInv /\ [Next]_vars => (FInv /\ DInv)'
  BY FInvNext, DInvNext
<1> QED BY <1>1, <1>2, PTL DEF Spec

\* Every word of shared memory is what its owner last wrote into it, every word of
\* the local memory is the one the read's address names, the host is answered with
\* the word it asked for, and a write-back that reports done has delivered the
\* whole job (the lanes, strides and strobes of npu_dma.v, axil_to_full.v,
\* axi_full_arbiter_2x1.v and axi_full_sram.v).
THEOREM WordsStayInPlace == Spec => []WordsInPlace
<1>1. DInv => WordsInPlace
  <2> SUFFICES ASSUME DInv PROVE WordsInPlace
    OBVIOUS
  <2>1. Memories /\ Claims /\ Lanes
    BY DEF DInv
  <2>2. ReadJob.len \in Nat \ {0} => Word(ReadJob.src) = SrcWord
    <3>1. ReadJob.len \in Nat \ {0} => SrcWord \in 0 .. Words - 1 /\ Words \in Nat \ {0}
      BY Layout
    <3> QED BY <3>1, SmallMod DEF Word, SrcWord
  <2>3. WriteJob.len \in Nat \ {0} => Word(WriteJob.dst) = DstWord
    <3>1. WriteJob.len \in Nat \ {0} => DstWord \in 0 .. Words - 1 /\ Words \in Nat \ {0}
      BY Layout
    <3> QED BY <3>1, SmallMod DEF Word, DstWord
  <2>4. ReadJob.len \in Nat /\ WriteJob.len \in Nat
    BY Layout
  <2>5. \A w, v : Holds(w, v) => v \in Stored(w)
    <3> SUFFICES ASSUME NEW w, NEW v, Holds(w, v) PROVE v \in Stored(w)
      OBVIOUS
    <3>1. CASE w \in HostWords
      BY <3>1 DEF Holds, Stored
    <3>2. CASE w \notin HostWords /\ v = w
      BY <3>2 DEF Stored
    <3>3. CASE w \notin HostWords /\ w \in WriteWords /\ v = tcm[WriteJob.src + w - DstWord]
      <4>1. w - DstWord \in 0 .. WriteJob.len - 1
        BY <3>3, Layout
      <4>2. Word(WriteJob.dst) = DstWord
        BY <2>3, <2>4, <4>1
      <4> QED BY <3>3, <4>1, <4>2 DEF Stored
    <3> QED BY <3>1, <3>2, <3>3 DEF Holds
  <2>6. \A w \in 0 .. Words - 1 : mem[w] \in Stored(w)
    BY <2>1, <2>5 DEF Memories
  <2>7. \A i \in 0 .. TcmWords - 1 :
          tcm[i] \in {-1} \cup IF i - ReadJob.dst \in 0 .. ReadJob.len - 1
                               THEN {Word(ReadJob.src) + i - ReadJob.dst} ELSE {}
    <3> TAKE i \in 0 .. TcmWords - 1
    <3>1. tcm[i] = -1 \/ (i - ReadJob.dst \in 0 .. ReadJob.len - 1
                          /\ tcm[i] = SrcWord + i - ReadJob.dst)
      BY <2>1 DEF Memories
    <3>2. CASE tcm[i] = -1
      BY <3>2
    <3>3. CASE i - ReadJob.dst \in 0 .. ReadJob.len - 1 /\ tcm[i] = SrcWord + i - ReadJob.dst
      <4>1. Word(ReadJob.src) = SrcWord
        BY <2>2, <2>4, <3>3
      <4> QED BY <3>3, <4>1
    <3> QED BY <3>1, <3>2, <3>3
  <2>8. RValid("M0") => rdata[HostLane] \in Stored(host.acc.word)
    BY <2>1, <2>5 DEF RValid, Lanes
  <2>9. ASSUME done, mode_write, NEW i \in 0 .. WriteJob.len - 1
        PROVE  mem[Word(WriteJob.dst) + i] = tcm[WriteJob.src + i]
    <3>1. Word(WriteJob.dst) = DstWord
      BY <2>3, <2>4
    <3> QED BY <2>1, <2>9, <3>1 DEF Claims, Written, WrittenIn
  <2> QED BY <2>6, <2>7, <2>8, <2>9 DEF WordsInPlace
<1> QED BY <1>1, DInvAlways, PTL
=============================================================================
