---------------------------- MODULE NpuDma_proofs ----------------------------
(***************************************************************************)
(* Proofs about the DMA engine on its bus (NpuDmaBus), for every bus width,*)
(* page size, burst limit, strip limit and set of commands.                *)
(*                                                                         *)
(* None of the invariants is inductive by itself: done says nothing of the *)
(* words that were moved until the position of every burst in progress is  *)
(* tied to the descriptor.  IndInv does that, state by state.              *)
(***************************************************************************)
EXTENDS NpuDmaBus, Residues

XferStates  == {"AR", "R", "AW", "W", "B", "DONE"}
StripChain  == {"STRIP_AR", "STRIP_R", "STRIP_DONE"}

\* Who drives the bus, and what the slave owes, in each state.
Handshake ==
    /\ arvalid => dma_st \in {"AR", "STRIP_AR"}
    /\ awvalid => dma_st = "AW"
    /\ wvalid => dma_st = "W"
    /\ rleft > 0 => dma_st \in {"R", "STRIP_R"}
    /\ wleft > 0 => dma_st = "W"
    /\ bowed => dma_st = "B"
    /\ busy <=> dma_st \in XferStates
    /\ narrow_l => busy
    /\ busy => ~done

\* The next burst starts where the moved words end, on a beat boundary.
Placed ==
    /\ 4 * (cmd.len - remaining) = cur_addr - Base
    /\ remaining <= cmd.len
    /\ remaining % Step = 0
    /\ cur_addr % (4 * Step) = 0

ReadPos(n)  == 4 * (buf_addr - cmd.word) = (cur_addr - Base) + 4 * Step * n
WritePos(n) == 4 * (buf_raddr - cmd.word) = (cur_addr - Base) + 4 * Step * n

Whole == /\ remaining = 0
         /\ cur_addr = Base + 4 * cmd.len
         /\ cmd.write => buf_raddr = cmd.word + cmd.len
         /\ ~cmd.write => buf_addr = cmd.word + cmd.len

\* A burst that the slave has accepted.
Sized == beats_in_burst > 0 /\ WordsInBurst <= remaining

Transfer ==
    /\ dma_st = "AR" => /\ ~cmd.write /\ Placed /\ ReadPos(0) /\ remaining > 0
                        /\ arvalid => araddr = cur_addr /\ arbeats = ThisBurst
    /\ dma_st = "R"  => /\ ~cmd.write /\ Placed /\ Sized
                        /\ rleft \in 1..beats_in_burst
                        /\ ReadPos(beats_in_burst - rleft)
    /\ dma_st = "AW" => /\ cmd.write /\ Placed /\ WritePos(0) /\ remaining > 0
                        /\ awvalid => awaddr = cur_addr /\ awbeats = ThisBurst
    /\ dma_st = "W"  => /\ cmd.write /\ Placed /\ Sized
                        /\ wleft > 0 /\ wleft = beats_in_burst - beats_done
                        /\ WritePos(beats_done)
    /\ dma_st = "B"  => /\ cmd.write /\ Placed /\ Sized
                        /\ WritePos(beats_in_burst)
    /\ dma_st = "DONE" /\ done_ok /\ ~err => Whole
    /\ done /\ ~err => Whole

\* The strip chain.
StripSized == /\ beats_in_burst > 0
              /\ strip_in_burst = BeatBytes * beats_in_burst
              /\ strip_in_burst = StripThisBytes

StripPlaced ==
    /\ strip_cur_addr - scmd.addr = scmd.bytes - strip_remaining
    /\ strip_remaining % BeatBytes = 0
    /\ strip_remaining > 0 => strip_cur_addr % StripCap = 0
    /\ strip_remaining <= scmd.bytes
    /\ scmd.bytes <= StripMax
    /\ strip_bank_l = scmd.bank

StripTransfer ==
    /\ dma_st = "STRIP_AR" =>
        /\ StripPlaced /\ strip_remaining > 0
        /\ ~strip_err /\ ~strip_error_seen /\ ~strip_done_ok
        /\ strip_waddr = strip_cur_addr - scmd.addr
        /\ arvalid => araddr = strip_cur_addr /\ arbeats = StripThisBurst
    /\ dma_st = "STRIP_R" =>
        /\ StripPlaced /\ StripSized
        /\ strip_err = strip_error_seen /\ ~strip_done_ok
        /\ rleft \in 1..beats_in_burst
        /\ ~strip_err => strip_waddr = (strip_cur_addr - scmd.addr)
                                       + BeatBytes * (beats_in_burst - rleft)
    /\ dma_st = "STRIP_DONE" /\ strip_done_ok =>
        ~strip_err /\ strip_waddr = scmd.bytes /\ strip_remaining = 0
    /\ strip_done => ~strip_err /\ strip_waddr = scmd.bytes /\ strip_remaining = 0

IndInv == TypeOK /\ Handshake /\ Transfer /\ StripTransfer

-----------------------------------------------------------------------------
(* Arithmetic of the burst split. *)

\* Division with remainder.
LEMMA DivMod ==
    ASSUME NEW u \in Nat \ {0}, NEW x \in Int
    PROVE  /\ x % u \in 0..(u - 1) /\ x \div u \in Int
           /\ x = u * (x \div u) + (x % u)
  OBVIOUS

LEMMA MulMod ==
    ASSUME NEW u \in Nat \ {0}, NEW z \in Int, NEW x \in Int, x = u * z
    PROVE  x % u = 0
<1> DEFINE q == x \div u
           r == x % u
<1>1. r \in 0..(u - 1) /\ x = u * q + r /\ q \in Int
  BY DivMod
<1> HIDE DEF q, r
<1>2. r = u * (z - q) /\ z - q \in Int
  BY <1>1
<1>3. z - q < 1
  <2> SUFFICES ASSUME z - q >= 1 PROVE FALSE
    BY <1>2
  <2>1. u * (z - q) >= u
    BY <1>2
  <2> QED BY <2>1, <1>1, <1>2
<1>4. z - q > -1
  <2> SUFFICES ASSUME z - q <= -1 PROVE FALSE
    BY <1>2
  <2>1. u * (z - q) <= -u
    BY <1>2
  <2> QED BY <2>1, <1>1, <1>2
<1>5. z - q = 0
  BY <1>2, <1>3, <1>4
<1>6. r = 0
  BY <1>5, <1>2, <1>1
<1> QED BY <1>6 DEF r

LEMMA AddMod ==
    ASSUME NEW u \in Nat \ {0}, NEW x \in Nat, x % u = 0
    PROVE  (x + u) % u = 0
<1> DEFINE y == x \div u
<1>1. x = u * y /\ y \in Int
  BY DivMod
<1> HIDE DEF y
<1>2. x + u = u * (y + 1) /\ y + 1 \in Int /\ x + u \in Int
  BY <1>1
<1> QED BY <1>2, MulMod

LEMMA ModTrans ==
    ASSUME NEW u \in Nat \ {0}, NEW p \in Nat \ {0}, NEW x \in Nat,
           x % p = 0, p % u = 0
    PROVE  x % u = 0
<1> DEFINE a == x \div p
           b == p \div u
<1>1. x = p * a /\ p = u * b /\ a \in Int /\ b \in Int
  BY DivMod
<1> HIDE DEF a, b
<1>2. x = u * (b * a) /\ b * a \in Int
  <2>1. x = (u * b) * a
    BY <1>1
  <2> QED BY <2>1, <1>1
<1> QED BY <1>2, MulMod

LEMMA StepValue ==
    /\ WPB \in {1, 2, 4, 8} /\ BeatBytes = 4 * WPB
    /\ narrow_l \in BOOLEAN => Step \in {1, 2, 4, 8}
  BY ParamsAssumption DEF BeatBytes, Step

LEMMA TimesZero ==
    ASSUME NEW a \in Int, NEW n \in Int, n = 0
    PROVE  a * n = 0
  OBVIOUS

LEMMA LesserFacts ==
    ASSUME NEW a \in Int, NEW b \in Int
    PROVE  LesserOf(a, b) \in {a, b} /\ LesserOf(a, b) <= a /\ LesserOf(a, b) <= b
  BY DEF LesserOf

\* The next burst of a transfer is not empty, is not longer than an AXI burst
\* may be, fits into the words that are left and ends inside its page.
LEMMA BurstFits ==
    ASSUME TypeOK, Placed, remaining > 0
    PROVE  /\ ThisBurst \in 1..MaxBeats
           /\ ThisBurst * Step <= remaining
           /\ (cur_addr % PageBytes) + ThisBurst * 4 * Step <= PageBytes
<1> USE ParamsAssumption, DmaAssumption
<1>1. /\ cur_addr \in Nat /\ remaining \in Nat /\ Step \in {1, 2, 4, 8}
      /\ 4 * Step \in Nat \ {0} /\ PageBytes \in Nat \ {0}
  BY StepValue DEF TypeOK, ControlTypes, TransferTypes, StripTypes, BusTypes
<1>2. PageBytes % (4 * Step) = 0
  BY DEF Step
<1>3. cur_addr % (4 * Step) = 0 /\ remaining % Step = 0
  BY DEF Placed
<1>4. cur_addr % PageBytes \in 0..(PageBytes - 1)
      /\ (cur_addr % PageBytes) + 4 * Step <= PageBytes
  BY <1>1, <1>2, <1>3, PageRoom
<1> DEFINE room == PageBytes - (cur_addr % PageBytes)
<1>5. room \in Nat /\ room >= 4 * Step /\ Dist4k = room \div (4 * Step)
  BY <1>1, <1>4 DEF Dist4k
<1> HIDE DEF room
<1>6. Dist4k \in Nat /\ Dist4k >= 1 /\ Dist4k * 4 * Step <= room
  BY <1>1, <1>5
<1>7. /\ remaining \div Step \in Nat /\ remaining \div Step >= 1
      /\ (remaining \div Step) * Step <= remaining
  BY <1>1, <1>3
<1>8. /\ ThisBurst \in Nat /\ ThisBurst >= 1 /\ ThisBurst <= MaxBeats
      /\ ThisBurst <= Dist4k /\ ThisBurst <= remaining \div Step
  BY <1>6, <1>7, LesserFacts DEF ThisBurst, LesserOf
<1>9. ThisBurst * Step <= remaining
  BY <1>1, <1>7, <1>8
<1>10. ThisBurst * 4 * Step <= room
  BY <1>1, <1>5, <1>6, <1>8
<1> QED BY <1>4, <1>8, <1>9, <1>10, <1>1 DEF room

\* The same for a burst of the strip chain.
LEMMA StripFits ==
    ASSUME TypeOK, StripPlaced, strip_remaining > 0
    PROVE  /\ StripThisBurst \in 1..MaxBeats
           /\ StripThisBytes = BeatBytes * StripThisBurst
           /\ StripThisBytes \in Nat /\ StripThisBytes <= strip_remaining
           /\ StripThisBytes <= StripCap
           /\ (strip_cur_addr % PageBytes) + StripThisBytes <= PageBytes
<1> USE ParamsAssumption, DmaAssumption
<1>1. /\ WPB \in {1, 2, 4, 8} /\ BeatBytes = 4 * WPB /\ BeatBytes \in Nat \ {0}
      /\ PageBytes \in Nat \ {0} /\ PageBytes % BeatBytes = 0 /\ MaxBeats \in Nat \ {0}
      /\ strip_remaining \in Nat /\ strip_remaining % BeatBytes = 0
  BY DEF BeatBytes, TypeOK, ControlTypes, TransferTypes, StripTypes, BusTypes, StripPlaced
<1>2. /\ MaxBeats * BeatBytes \in Nat /\ MaxBeats * BeatBytes >= BeatBytes
      /\ (MaxBeats * BeatBytes) % BeatBytes = 0
      /\ (MaxBeats * BeatBytes) \div BeatBytes = MaxBeats
  BY <1>1
<1>3. PageBytes >= BeatBytes
  BY <1>1
<1>4. /\ StripCap \in Nat /\ StripCap >= BeatBytes /\ StripCap % BeatBytes = 0
      /\ StripCap <= MaxBeats * BeatBytes
  BY <1>1, <1>2, <1>3 DEF StripCap
<1>5. /\ StripThisBytes \in Nat /\ StripThisBytes >= BeatBytes
      /\ StripThisBytes % BeatBytes = 0 /\ StripThisBytes <= strip_remaining
      /\ StripThisBytes <= MaxBeats * BeatBytes
  BY <1>1, <1>4 DEF StripThisBytes, LesserOf
<1>6. StripThisBytes <= StripCap
  BY <1>1, <1>4 DEF StripThisBytes, LesserOf
<1>7. (strip_cur_addr % PageBytes) + StripCap <= PageBytes
      /\ strip_cur_addr % PageBytes \in Nat
  <2>1. StripCap \in Nat \ {0} /\ PageBytes % StripCap = 0
    BY <1>1, <1>4
  <2>2. strip_cur_addr \in Nat /\ strip_cur_addr % StripCap = 0
    BY DEF TypeOK, StripTypes, StripPlaced
  <2>3. PageBytes \in Nat \ {0}
    BY <1>1
  <2>4. /\ strip_cur_addr % PageBytes \in 0..(PageBytes - 1)
        /\ (strip_cur_addr % PageBytes) + StripCap <= PageBytes
    BY ONLY <2>1, <2>2, <2>3, PageRoom
  <2> QED BY <2>3, <2>4
<1>8. (strip_cur_addr % PageBytes) + StripThisBytes <= PageBytes
  BY <1>1, <1>4, <1>5, <1>6, <1>7
<1> QED BY <1>1, <1>2, <1>5, <1>6, <1>8 DEF StripThisBurst

-----------------------------------------------------------------------------
(* One clock edge, seen by the engine. *)

Edge(k, ready, r, b) ==
    /\ k.go \in BOOLEAN /\ k.ss \in BOOLEAN /\ ready \in BOOLEAN
    /\ r.valid \in BOOLEAN /\ r.last \in BOOLEAN /\ r.err \in BOOLEAN
    /\ b.valid \in BOOLEAN /\ b.err \in BOOLEAN
    /\ k.d \in DescType /\ k.c \in StripType /\ ~(k.go /\ k.ss)
    /\ r.valid => rleft > 0 /\ (rleft = 1 => r.last)
    /\ r.last => rleft = 1
    /\ b.valid => bowed
    /\ Slave(ready, r, b) /\ History(k, ready) /\ abort' \in BOOLEAN

LEMMA ClockIsEdge ==
    ASSUME TypeOK, NEW k \in Kicks, NEW ready \in BOOLEAN,
           NEW r \in RChoices, NEW b \in BChoices, Clock(k, ready, r, b)
    PROVE  Edge(k, ready, r, b)
<1>1. /\ k.go \in BOOLEAN /\ k.ss \in BOOLEAN /\ ~(k.go /\ k.ss)
      /\ k.d \in DescType /\ k.c \in StripType
  <2>1. cmd \in DescType /\ scmd \in StripType
    BY DEF TypeOK, ControlTypes, TransferTypes, StripTypes, BusTypes
  <2>2. CASE k = NoKick
    BY <2>1, <2>2 DEF NoKick
  <2>3. CASE k \in GoKicks
    BY <2>1, <2>3, BusAssumption DEF GoKicks, NoKick
  <2>4. CASE k \in SsKicks
    BY <2>1, <2>4, BusAssumption DEF SsKicks, NoKick
  <2> QED BY <2>2, <2>3, <2>4 DEF Kicks
<1>2. /\ r.valid \in BOOLEAN /\ r.last \in BOOLEAN /\ r.err \in BOOLEAN
      /\ r.valid => rleft > 0 /\ (rleft = 1 => r.last)
      /\ r.last => rleft = 1
  <2>1. r \in RBeats
    BY DEF RChoices
  <2>2. r.valid \in BOOLEAN /\ r.last \in BOOLEAN /\ r.err \in BOOLEAN
    BY <2>1 DEF RBeats
  <2>3. /\ r.valid => rleft > 0 /\ (rleft = 1 => r.last)
        /\ r.last => rleft = 1
    BY DEF RChoices
  <2> QED BY <2>2, <2>3
<1>3. b.valid \in BOOLEAN /\ b.err \in BOOLEAN /\ (b.valid => bowed)
  BY DEF BChoices, BResps
<1> QED BY <1>1, <1>2, <1>3 DEF Clock, Edge, AbortLevel, TypeOK, ControlTypes, TransferTypes, StripTypes, BusTypes

-----------------------------------------------------------------------------
(* What every edge does to the slave and to the history of the commands. *)

LEMMA BusStep ==
    ASSUME IndInv, NEW k, NEW ready, NEW r, NEW b, Edge(k, ready, r, b)
    PROVE  BusTypes'
<1>1. rleft' \in Nat
  BY DEF IndInv, TypeOK, TransferTypes, BusTypes, Edge, Slave, ArFire, MRready
<1>2. wleft' \in Nat
  BY DEF IndInv, TypeOK, TransferTypes, BusTypes, Handshake, Transfer, Edge, Slave, AwFire, WFire
<1>3. bowed' \in BOOLEAN
  BY DEF IndInv, TypeOK, BusTypes, Edge, Slave
<1>4. cmd' \in DescType /\ scmd' \in StripType
  BY DEF IndInv, TypeOK, BusTypes, Edge, History
<1>5. late_bursts' \in Nat
  BY DEF IndInv, TypeOK, BusTypes, Edge, History
<1> QED BY <1>1, <1>2, <1>3, <1>4, <1>5 DEF Edge, BusTypes

\* A burst is offered, and becomes a debt of the slave once it is taken.
LEMMA ArStep ==
    ASSUME IndInv, NEW k, NEW ready, NEW r, NEW b, Edge(k, ready, r, b),
           DmaAr(abort, ready)
    PROVE  IndInv'
<1> USE DEF IndInv, DmaAr
<1>0. /\ ~cmd.write /\ Placed /\ ReadPos(0) /\ remaining > 0
      /\ ThisBurst \in 1..MaxBeats /\ ThisBurst * Step <= remaining
  BY BurstFits DEF Transfer
<1>1. TypeOK'
  <2>1. ControlTypes'
    BY DEF TypeOK, ControlTypes, DmaStates, flags, wchans, xfer
  <2>2. TransferTypes'
    BY <1>0 DEF TypeOK, TransferTypes, wchans, xfer
  <2>3. StripTypes'
    BY DEF TypeOK, StripTypes, sflags, sxfer, sends
  <2> QED BY <2>1, <2>2, <2>3, BusStep DEF TypeOK
<1>2. Handshake'
  BY <1>0 DEF Handshake, Transfer, Edge, Slave, XferStates, ArFire, AwFire, WFire, flags, wchans, xfer
<1>3. Transfer'
  <2>1. UNCHANGED <<cmd, cur_addr, remaining, narrow_l, buf_addr, done, err>>
    BY DEF Edge, History, flags, xfer
  <2>2. Step' = Step /\ Base' = Base /\ ThisBurst' = ThisBurst
    BY <2>1 DEF Step, Base, ThisBurst, Dist4k
  <2>3. Placed' /\ ReadPos(0)'
    BY <1>0, <2>1, <2>2 DEF Placed, ReadPos
  <2>4. araddr' = cur_addr' /\ arbeats' = ThisBurst'
    BY <2>1, <2>2
  <2>5. Sized'
    BY <1>0, <2>1, <2>2 DEF Sized, WordsInBurst
  <2>6. dma_st' = "R" => rleft' = beats_in_burst'
    BY DEF Edge, Slave, ArFire, Transfer
  <2>7. ~(done' /\ ~err')
    BY <2>1 DEF Handshake, XferStates
  <2> QED
    BY <1>0, <2>1, <2>3, <2>4, <2>5, <2>6, <2>7 DEF Transfer, ReadPos, Sized
<1>4. StripTransfer'
  BY DEF StripTransfer
<1> QED BY <1>1, <1>2, <1>3, <1>4

\* The edges on which the engine waits: nothing but the slave moves.
LEMMA QuietStep ==
    ASSUME IndInv, NEW k, NEW ready, NEW r, NEW b, Edge(k, ready, r, b),
           \/ DmaIdleStay(abort, k.go, k.ss)
           \/ DmaRWait(r) \/ DmaBWait(b) \/ DmaStripRWait(r)
    PROVE  IndInv'
<1> USE DEF IndInv, DmaIdleStay, DmaRWait, DmaBWait, DmaStripRWait
<1>0. UNCHANGED <<dma_st, flags, archan, wchans, xfer, beats, sflags, sxfer, sends>>
      /\ strip_done' = FALSE /\ UNCHANGED cmd /\ UNCHANGED scmd
      /\ dma_st \in {"IDLE", "R", "B", "STRIP_R"}
  BY DEF Edge, History
<1>1. /\ rleft' = rleft /\ wleft' = wleft /\ bowed' = bowed
  BY <1>0 DEF Edge, Slave, Handshake, ArFire, AwFire, WFire, MRready, TypeOK, BusTypes
<1>2. TypeOK'
  <2>1. ControlTypes'
    BY <1>0 DEF TypeOK, ControlTypes, flags, archan, wchans, xfer
  <2>2. TransferTypes'
    BY <1>0 DEF TypeOK, TransferTypes, archan, wchans, xfer, beats
  <2>3. StripTypes'
    BY <1>0 DEF TypeOK, StripTypes, sflags, sxfer, sends
  <2> QED BY <2>1, <2>2, <2>3, BusStep DEF TypeOK
<1>3. Handshake'
  BY <1>0, <1>1 DEF Handshake, flags, archan, wchans, xfer
<1>4. Transfer'
  BY <1>0, <1>1 DEF Transfer, Placed, ReadPos, WritePos, Sized, Whole, WordsInBurst, Step,
                    Base, ThisBurst, Dist4k, flags, archan, wchans, xfer, beats
<1>5. StripTransfer'
  BY <1>0, <1>1 DEF StripTransfer, StripPlaced, StripSized, StripThisBurst, StripThisBytes,
                    archan, beats, sflags, sxfer, sends
<1> QED BY <1>2, <1>3, <1>4, <1>5

\* An abort before the burst is on the bus: the transfer ends, without done.
LEMMA DropStep ==
    ASSUME IndInv, NEW k, NEW ready, NEW r, NEW b, Edge(k, ready, r, b),
           DmaArDrop(abort) \/ DmaAwDrop(abort)
    PROVE  IndInv'
<1> USE DEF IndInv, DmaArDrop, DmaAwDrop
<1>0. /\ dma_st \in {"AR", "AW"} /\ dma_st' = "DONE" /\ ~done_ok' /\ ~strip_done'
      /\ ~arvalid /\ ~awvalid /\ ~done'
      /\ UNCHANGED <<flags, archan, wchans, narrow_l, sflags, sxfer, beats>>
      /\ UNCHANGED <<cur_addr, remaining, buf_addr, buf_raddr, sends>>
  BY DEF Handshake, XferStates, flags
<1>1. TypeOK'
  <2>1. ControlTypes'
    BY <1>0 DEF TypeOK, ControlTypes, DmaStates, flags, archan, wchans
  <2>2. TransferTypes' /\ StripTypes'
    BY <1>0 DEF TypeOK, TransferTypes, StripTypes, archan, wchans, beats, sflags, sxfer, sends
  <2> QED BY <2>1, <2>2, BusStep DEF TypeOK
<1>2. Handshake'
  BY <1>0 DEF Handshake, Edge, Slave, ArFire, AwFire, WFire, MRready, XferStates,
              flags, archan, wchans, TypeOK, BusTypes
<1>3. Transfer' /\ StripTransfer'
  BY <1>0 DEF Transfer, StripTransfer
<1> QED BY <1>1, <1>2, <1>3

\* One beat of a read burst is written to the TCM.
LEMMA RStep ==
    ASSUME IndInv, NEW k, NEW ready, NEW r, NEW b, Edge(k, ready, r, b),
           DmaR(abort, r)
    PROVE  IndInv'
<1> USE DEF IndInv, DmaR
<1>0. /\ ~cmd.write /\ Placed /\ Sized /\ rleft \in 1..beats_in_burst
      /\ ReadPos(beats_in_burst - rleft)
      /\ Step \in {1, 2, 4, 8} /\ WordsInBurst = beats_in_burst * Step
      /\ Base \in Nat /\ cmd.len \in Nat /\ cmd.word \in Nat
  BY StepValue DEF Transfer, TypeOK, ControlTypes, BusTypes, DescType, WordsInBurst, Base
<1>1. /\ rleft' = rleft - 1 /\ wleft' = 0 /\ bowed' = FALSE
      /\ ~arvalid /\ ~awvalid /\ ~wvalid
  <2>1. ~arvalid /\ ~awvalid /\ ~wvalid /\ ~bowed
    BY DEF Handshake, TypeOK, ControlTypes, BusTypes
  <2>2. wleft = 0
    BY DEF Handshake, TypeOK, BusTypes
  <2>3. rleft' = rleft - 1
    BY <2>1 DEF Edge, Slave, ArFire, MRready
  <2>4. wleft' = 0 /\ bowed' = FALSE
    BY <2>1, <2>2 DEF Edge, Slave, AwFire, WFire
  <2> QED BY <2>1, <2>3, <2>4
<1>2. /\ UNCHANGED <<cmd, narrow_l, busy, done, archan, wchans, beats, buf_raddr>>
      /\ UNCHANGED <<arvalid, awvalid, wvalid, beats_in_burst>>
      /\ Step' = Step /\ Base' = Base /\ ~done
      /\ buf_addr' = buf_addr + Step
  BY DEF Edge, History, Step, Base, archan, wchans, beats, Handshake, XferStates
<1>3. /\ cur_addr \in Nat /\ remaining \in Nat /\ buf_addr \in Nat /\ beats_in_burst \in Nat
      /\ done_ok \in BOOLEAN /\ err \in BOOLEAN /\ abort \in BOOLEAN /\ r.err \in BOOLEAN
      /\ WordsInBurst \in Nat /\ WordsInBurst <= remaining
  BY <1>0 DEF TypeOK, ControlTypes, TransferTypes, BusTypes, Edge, Sized
<1>4. 4 * (buf_addr' - cmd.word) = (cur_addr - Base) + 4 * Step * (beats_in_burst - rleft')
  <2>1. 4 * Step * (beats_in_burst - rleft') = 4 * Step * (beats_in_burst - rleft) + 4 * Step
        /\ 4 * Step * (beats_in_burst - rleft) \in Int
    BY <1>0, <1>1, <1>3 DEF TypeOK, BusTypes
  <2>2. buf_addr - cmd.word \in Int /\ buf_addr' - cmd.word = (buf_addr - cmd.word) + Step
    BY <1>0, <1>2, <1>3
  <2> QED BY <1>0, <1>3, <2>1, <2>2 DEF ReadPos
<1>5. ASSUME ~r.last PROVE rleft' \in 1..beats_in_burst
  <2>1. rleft # 1
    BY <1>5 DEF Edge
  <2> QED BY <2>1, <1>0, <1>1, <1>3
<1>6. ASSUME r.last
      PROVE  /\ rleft' = 0
             /\ remaining' \in Nat /\ remaining' = remaining - WordsInBurst
             /\ cur_addr' \in Nat /\ cur_addr' = cur_addr + 4 * WordsInBurst
             /\ Placed' /\ 4 * (buf_addr' - cmd.word) = cur_addr' - Base
  <2>1. rleft' = 0
    BY <1>1, <1>6 DEF Edge
  <2>2. /\ remaining' \in Nat /\ remaining' = remaining - WordsInBurst
        /\ cur_addr' \in Nat /\ cur_addr' = cur_addr + 4 * WordsInBurst
    BY <1>3, <1>6
  <2>3. 4 * (cmd'.len - remaining') = cur_addr' - Base' /\ remaining' <= cmd'.len
    <3>1. 4 * (cmd.len - remaining) = cur_addr - Base /\ remaining <= cmd.len
      BY <1>0 DEF Placed
    <3>2. 4 * (cmd.len - remaining') = cur_addr' - Base /\ remaining' <= cmd.len
      BY <3>1, <2>2, <1>0, <1>3
    <3> QED BY <3>2, <1>2
  <2>4. remaining' % Step' = 0
    BY <1>0, <1>2, <1>3, <2>2 DEF Placed
  <2>5. cur_addr' % (4 * Step') = 0
    BY <1>0, <1>2, <1>3, <2>2 DEF Placed
  <2>6. 4 * (buf_addr' - cmd.word) = cur_addr' - Base
    BY <1>0, <1>3, <1>4, <2>1, <2>2
  <2> QED BY <2>1, <2>2, <2>3, <2>4, <2>5, <2>6 DEF Placed
<1>7. TypeOK'
  <2>1. ControlTypes'
    BY <1>2, <1>3 DEF TypeOK, ControlTypes, DmaStates
  <2>2. TransferTypes'
    BY <1>0, <1>2, <1>3, <1>6 DEF TypeOK, TransferTypes, archan, wchans, beats
  <2>3. StripTypes'
    BY DEF TypeOK, StripTypes, sflags, sxfer, sends
  <2> QED BY <2>1, <2>2, <2>3, BusStep DEF TypeOK
<1>8. Handshake'
  BY <1>1, <1>2, <1>6 DEF Handshake, XferStates
<1>9. Transfer'
  <2>1. CASE ~r.last
    <3>1. dma_st' = "R" /\ Placed' /\ Sized' /\ rleft' \in 1..beats_in_burst'
          /\ ReadPos(beats_in_burst - rleft)'
      BY <2>1, <1>0, <1>2, <1>4, <1>5 DEF Placed, Sized, WordsInBurst, ReadPos
    <3> QED BY <3>1, <1>0, <1>2 DEF Transfer
  <2>2. CASE r.last
    <3>1. ReadPos(0)'
      BY <2>2, <1>0, <1>2, <1>6 DEF ReadPos
    <3>2. ASSUME remaining' = 0 PROVE Whole'
      <4>1. 4 * cmd.len = cur_addr' - Base /\ cur_addr' \in Nat
        BY <2>2, <3>2, <1>0, <1>2, <1>6 DEF Placed
      <4>2. buf_addr' \in Nat
        BY <1>0, <1>2, <1>3
      <4> QED BY <2>2, <3>2, <4>1, <4>2, <1>0, <1>2, <1>6 DEF Whole
    <3>3. dma_st' = "AR" => remaining' > 0
      BY <2>2, <1>6
    <3>4. dma_st' = "DONE" /\ done_ok' => remaining' = 0
      BY <2>2, <1>6, <1>3
    <3>5. dma_st' \in {"AR", "DONE"}
      BY <2>2
    <3> QED BY <2>2, <3>1, <3>2, <3>3, <3>4, <3>5, <1>0, <1>1, <1>2, <1>6 DEF Transfer
  <2> QED BY <2>1, <2>2
<1>10. StripTransfer'
  BY DEF StripTransfer
<1> QED BY <1>7, <1>8, <1>9, <1>10

\* The write direction offers a burst.
LEMMA AwStep ==
    ASSUME IndInv, NEW k, NEW ready, NEW r, NEW b, Edge(k, ready, r, b),
           DmaAw(abort, ready)
    PROVE  IndInv'
<1> USE DEF IndInv, DmaAw
<1>0. /\ cmd.write /\ Placed /\ WritePos(0) /\ remaining > 0
      /\ ThisBurst \in 1..MaxBeats /\ ThisBurst * Step <= remaining
  BY BurstFits DEF Transfer
<1>1. TypeOK'
  <2>1. ControlTypes'
    BY DEF TypeOK, ControlTypes, DmaStates, flags, archan, xfer
  <2>2. TransferTypes'
    BY <1>0 DEF TypeOK, TransferTypes, archan, xfer
  <2>3. StripTypes'
    BY DEF TypeOK, StripTypes, sflags, sxfer, sends
  <2> QED BY <2>1, <2>2, <2>3, BusStep DEF TypeOK
<1>2. /\ ~arvalid /\ ~wvalid /\ rleft = 0 /\ wleft = 0 /\ ~bowed /\ ~done
      /\ rleft' = 0 /\ bowed' = FALSE
      /\ wleft' = IF awvalid /\ ready THEN awbeats ELSE 0
  <2>1. /\ ~arvalid /\ ~wvalid /\ rleft = 0 /\ wleft = 0 /\ ~bowed /\ ~done
    BY DEF Handshake, XferStates, TypeOK, BusTypes
  <2> QED BY <2>1 DEF Edge, Slave, ArFire, AwFire, WFire, MRready
<1>3. /\ UNCHANGED <<cmd, cur_addr, remaining, narrow_l, buf_raddr, done, err, busy>>
      /\ UNCHANGED <<arvalid, wvalid>>
      /\ Step' = Step /\ Base' = Base
  BY DEF Edge, History, flags, xfer, archan, Step, Base
<1>4. Handshake'
  <2>1. busy' /\ ready \in BOOLEAN /\ awvalid \in BOOLEAN
    BY <1>3 DEF Handshake, XferStates, Edge, TypeOK, ControlTypes
  <2>2. awvalid' => dma_st' = "AW"
    BY <2>1
  <2>3. wleft' > 0 => dma_st' = "W"
    BY <1>2
  <2>4. dma_st' \in {"AW", "W"}
    OBVIOUS
  <2>5. ~arvalid' /\ ~wvalid' /\ rleft' = 0 /\ ~bowed' /\ ~done'
    BY <1>2, <1>3
  <2> QED BY <2>1, <2>2, <2>3, <2>4, <2>5 DEF Handshake, XferStates
<1>5. Transfer'
  <2>1. ThisBurst' = ThisBurst
    BY <1>3 DEF ThisBurst, Dist4k
  <2>2. Placed' /\ WritePos(0)'
    BY <1>0, <1>3 DEF Placed, WritePos
  <2>3. awaddr' = cur_addr' /\ awbeats' = ThisBurst'
    BY <2>1, <1>3
  <2>4. Sized'
    BY <1>0, <1>3 DEF Sized, WordsInBurst
  <2>5. dma_st' = "W" => /\ beats_done' = 0 /\ wleft' = beats_in_burst' /\ wleft' > 0
    BY <1>0, <1>2 DEF Transfer
  <2>6. dma_st' = "W" => wleft' = beats_in_burst' - beats_done' /\ WritePos(beats_done)'
    BY <2>2, <2>5, <1>0 DEF WritePos
  <2> QED
    BY <1>0, <1>2, <1>3, <2>2, <2>3, <2>4, <2>5, <2>6 DEF Transfer
<1>6. StripTransfer'
  BY DEF StripTransfer
<1> QED BY <1>1, <1>4, <1>5, <1>6

\* A write beat is offered, or taken and the pointer moved on.
LEMMA WStep ==
    ASSUME IndInv, NEW k, NEW ready, NEW r, NEW b, Edge(k, ready, r, b),
           DmaW(ready)
    PROVE  IndInv'
<1> USE DEF IndInv, DmaW
<1>0. /\ cmd.write /\ Placed /\ Sized /\ WritePos(beats_done)
      /\ wleft > 0 /\ wleft = beats_in_burst - beats_done
      /\ Step \in {1, 2, 4, 8}
      /\ Base \in Nat /\ cmd.word \in Nat
      /\ cur_addr \in Nat /\ buf_raddr \in Nat
      /\ beats_done \in Nat /\ beats_in_burst \in Nat /\ wleft \in Nat
  BY StepValue DEF Transfer, TypeOK, ControlTypes, TransferTypes, BusTypes, DescType, Base
<1>1. /\ ~arvalid /\ ~awvalid /\ rleft' = 0
      /\ wleft' = IF wvalid /\ ready THEN wleft - 1 ELSE wleft
      /\ bowed' = (wvalid /\ ready /\ FinalWBeat)
  <2>1. ~arvalid /\ ~awvalid /\ rleft = 0 /\ ~bowed
    BY DEF Handshake, TypeOK, BusTypes
  <2> QED BY <2>1 DEF Edge, Slave, ArFire, AwFire, WFire, MRready, MWlast
<1>2. /\ UNCHANGED <<cmd, cur_addr, remaining, narrow_l, done, err, busy, beats_in_burst>>
      /\ UNCHANGED <<arvalid, awvalid>>
      /\ Step' = Step /\ Base' = Base /\ WordsInBurst' = WordsInBurst
  BY DEF Edge, History, flags, archan, Step, Base, WordsInBurst
<1>3. FinalWBeat <=> wleft = 1
  BY <1>0 DEF FinalWBeat
<1>4. TypeOK'
  <2>1. ControlTypes'
    BY <1>2 DEF TypeOK, ControlTypes, DmaStates, FinalWBeat
  <2>2. TransferTypes'
    BY <1>0, <1>2 DEF TypeOK, TransferTypes, archan
  <2>3. StripTypes'
    BY DEF TypeOK, StripTypes, sflags, sxfer, sends
  <2> QED BY <2>1, <2>2, <2>3, BusStep DEF TypeOK
<1>5. Handshake'
  <2>1. /\ busy' /\ ~done' /\ ready \in BOOLEAN /\ wvalid \in BOOLEAN
        /\ wvalid => dma_st = "W"
    BY <1>2 DEF Handshake, XferStates, Edge, TypeOK, ControlTypes
  <2>2. FinalWBeat \in BOOLEAN
    BY DEF FinalWBeat
  <2>3. wvalid' => dma_st' = "W"
    BY <2>1, <2>2
  <2>4. wleft' > 0 => dma_st' = "W"
    BY <1>0, <1>1, <1>3, <2>1
  <2>5. bowed' => dma_st' = "B"
    BY <1>1
  <2> QED BY <1>1, <1>2, <2>1, <2>3, <2>4, <2>5 DEF Handshake, XferStates
<1>6. WritePos(beats_done)'
  <2>1. CASE wvalid /\ ready
    <3>1. beats_done' = beats_done + 1 /\ buf_raddr' = buf_raddr + Step
      BY <2>1
    <3>2. 4 * Step * beats_done' = 4 * Step * beats_done + 4 * Step
          /\ 4 * Step * beats_done \in Int
      BY <3>1, <1>0
    <3>3. 4 * (buf_raddr' - cmd.word) = 4 * (buf_raddr - cmd.word) + 4 * Step
      BY <3>1, <1>0
    <3> QED BY <3>2, <3>3, <1>0, <1>2 DEF WritePos
  <2>2. CASE ~(wvalid /\ ready)
    BY <2>2, <1>0, <1>2 DEF WritePos
  <2> QED BY <2>1, <2>2
<1>7. Transfer'
  <2>1. Placed' /\ Sized'
    BY <1>0, <1>2 DEF Placed, Sized
  <2>2. wleft' = beats_in_burst' - beats_done'
    BY <1>0, <1>1, <1>2
  <2>3. dma_st' = "W" => wleft' > 0
    BY <1>0, <1>1, <1>3
  <2>4. dma_st' = "B" => WritePos(beats_in_burst)'
    <3>1. dma_st' = "B" => beats_done' = beats_in_burst'
      BY <1>0, <1>2 DEF FinalWBeat
    <3> QED BY <3>1, <1>6 DEF WritePos
  <2>5. dma_st' \in {"W", "B"} /\ ~(done' /\ ~err')
    BY <1>2 DEF Handshake, XferStates
  <2> QED BY <1>0, <1>2, <1>6, <2>1, <2>2, <2>3, <2>4, <2>5 DEF Transfer
<1>8. StripTransfer'
  BY DEF StripTransfer
<1> QED BY <1>4, <1>5, <1>7, <1>8

\* The write response ends the burst.
LEMMA BStep ==
    ASSUME IndInv, NEW k, NEW ready, NEW r, NEW b, Edge(k, ready, r, b),
           DmaB(abort, b)
    PROVE  IndInv'
<1> USE DEF IndInv, DmaB
<1>0. /\ cmd.write /\ Placed /\ Sized /\ WritePos(beats_in_burst)
      /\ Step \in {1, 2, 4, 8} /\ WordsInBurst = beats_in_burst * Step
      /\ Base \in Nat /\ cmd.word \in Nat /\ cmd.len \in Nat
      /\ cur_addr \in Nat /\ buf_raddr \in Nat /\ remaining \in Nat
      /\ beats_in_burst \in Nat /\ WordsInBurst \in Nat /\ WordsInBurst <= remaining
  BY StepValue DEF Transfer, TypeOK, ControlTypes, TransferTypes, BusTypes, DescType,
                   Base, WordsInBurst, Sized
<1>1. /\ ~arvalid /\ ~awvalid /\ ~wvalid /\ rleft' = 0 /\ wleft' = 0 /\ bowed' = FALSE
  <2>1. ~arvalid /\ ~awvalid /\ ~wvalid /\ rleft = 0 /\ wleft = 0
    BY DEF Handshake, TypeOK, BusTypes
  <2> QED BY <2>1 DEF Edge, Slave, ArFire, AwFire, WFire, MRready
<1>2. /\ UNCHANGED <<cmd, narrow_l, done, busy, arvalid, awvalid, wvalid>>
      /\ UNCHANGED <<beats_in_burst, buf_raddr>>
      /\ Step' = Step /\ Base' = Base /\ ~done
  BY DEF Edge, History, archan, wchans, beats, Step, Base, Handshake, XferStates
<1>3. ASSUME ~b.err
      PROVE  /\ remaining' \in Nat /\ cur_addr' \in Nat
             /\ Placed' /\ WritePos(0)'
  <2>1. /\ remaining' \in Nat /\ remaining' = remaining - WordsInBurst
        /\ cur_addr' \in Nat /\ cur_addr' = cur_addr + 4 * WordsInBurst
    BY <1>0, <1>3
  <2>2. 4 * (cmd'.len - remaining') = cur_addr' - Base' /\ remaining' <= cmd'.len
    BY <1>0, <1>2, <2>1 DEF Placed
  <2>3. remaining' % Step' = 0
    BY <1>0, <1>2, <2>1 DEF Placed
  <2>4. cur_addr' % (4 * Step') = 0
    BY <1>0, <1>2, <2>1 DEF Placed
  <2>5. 4 * (buf_raddr - cmd.word) = cur_addr' - Base
    BY <1>0, <2>1 DEF WritePos
  <2>6. WritePos(0)'
    BY <1>0, <1>2, <2>1, <2>5 DEF WritePos
  <2> QED BY <2>1, <2>2, <2>3, <2>4, <2>6 DEF Placed
<1>4. ASSUME b.err PROVE remaining' = remaining /\ cur_addr' = cur_addr /\ ~done_ok'
  BY <1>4
<1>5. TypeOK'
  <2>1. ControlTypes'
    BY <1>2 DEF TypeOK, ControlTypes, DmaStates, Edge, BusTypes
  <2>2. TransferTypes'
    BY <1>0, <1>2, <1>3, <1>4 DEF TypeOK, TransferTypes, archan, wchans, beats
  <2>3. StripTypes'
    BY DEF TypeOK, StripTypes, sflags, sxfer, sends
  <2> QED BY <2>1, <2>2, <2>3, BusStep DEF TypeOK
<1>6. Handshake'
  BY <1>1, <1>2 DEF Handshake, XferStates
<1>7. Transfer'
  <2>1. CASE b.err
    BY <2>1, <1>2 DEF Transfer
  <2>2. CASE ~b.err
    <3>1. ASSUME remaining' = 0 PROVE Whole'
      <4>1. 4 * cmd.len = cur_addr' - Base /\ cur_addr' \in Nat
        BY <2>2, <3>1, <1>0, <1>2, <1>3 DEF Placed
      <4>2. 4 * (buf_raddr - cmd.word) = cur_addr' - Base
        BY <2>2, <1>2, <1>0, <1>3, <4>1 DEF WritePos
      <4> QED BY <3>1, <4>1, <4>2, <1>0, <1>2 DEF Whole
    <3>2. dma_st' = "DONE" /\ done_ok' => remaining' = 0
      BY <2>2 DEF Edge, TypeOK, BusTypes
    <3>3. dma_st' = "AW" => remaining' > 0
      BY <2>2, <1>3
    <3>4. dma_st' \in {"AW", "DONE"} /\ (dma_st' = "AW" => ~awvalid')
      BY <2>2, <1>1, <1>2
    <3> QED BY <2>2, <3>1, <3>2, <3>3, <3>4, <1>0, <1>2, <1>3 DEF Transfer
  <2> QED BY <2>1, <2>2
<1>8. StripTransfer'
  BY DEF StripTransfer
<1> QED BY <1>5, <1>6, <1>7, <1>8

\* The last cycle of a transfer: busy falls, and done rises unless aborted.
LEMMA DoneStep ==
    ASSUME IndInv, NEW k, NEW ready, NEW r, NEW b, Edge(k, ready, r, b),
           DmaDone(abort)
    PROVE  IndInv'
<1> USE DEF IndInv, DmaDone
<1>1. /\ ~arvalid /\ ~awvalid /\ ~wvalid /\ rleft' = 0 /\ wleft' = 0 /\ bowed' = FALSE
  <2>1. ~arvalid /\ ~awvalid /\ ~wvalid /\ rleft = 0 /\ wleft = 0 /\ ~bowed
    BY DEF Handshake, TypeOK, BusTypes
  <2> QED BY <2>1 DEF Edge, Slave, ArFire, AwFire, WFire, MRready
<1>2. /\ UNCHANGED <<cmd, cur_addr, remaining, buf_addr, buf_raddr, err>>
      /\ UNCHANGED <<arvalid, awvalid, wvalid>>
      /\ Base' = Base
  BY DEF Edge, History, archan, wchans, Base
<1>3. TypeOK'
  <2>1. ControlTypes'
    BY <1>2 DEF TypeOK, ControlTypes, DmaStates, BusTypes
  <2>2. TransferTypes'
    BY <1>2 DEF TypeOK, TransferTypes, archan, wchans, beats
  <2>3. StripTypes'
    BY DEF TypeOK, StripTypes, sflags, sxfer, sends
  <2> QED BY <2>1, <2>2, <2>3, BusStep DEF TypeOK
<1>4. Handshake'
  BY <1>1, <1>2 DEF Handshake, XferStates
<1>5. Transfer'
  <2>1. done' => done_ok
    BY DEF TypeOK, ControlTypes, BusTypes
  <2>2. done' /\ ~err' => Whole
    BY <2>1, <1>2 DEF Transfer
  <2>3. Whole' = Whole
    BY <1>2 DEF Whole
  <2> QED BY <2>2, <2>3 DEF Transfer
<1>6. StripTransfer'
  BY DEF StripTransfer
<1> QED BY <1>3, <1>4, <1>5, <1>6

\* An abort in IDLE clears the sticky flags and swallows every start pulse.
LEMMA IdleAbortStep ==
    ASSUME IndInv, NEW k, NEW ready, NEW r, NEW b, Edge(k, ready, r, b),
           DmaIdleAbort(abort)
    PROVE  IndInv'
<1> USE DEF IndInv, DmaIdleAbort
<1>1. /\ ~arvalid /\ ~awvalid /\ ~wvalid /\ rleft' = 0 /\ wleft' = 0 /\ bowed' = FALSE
  <2>1. ~arvalid /\ ~awvalid /\ ~wvalid /\ rleft = 0 /\ wleft = 0 /\ ~bowed
    BY DEF Handshake, TypeOK, BusTypes
  <2> QED BY <2>1 DEF Edge, Slave, ArFire, AwFire, WFire, MRready
<1>2. /\ UNCHANGED <<busy, arvalid, awvalid, wvalid>> /\ dma_st' = "IDLE"
  BY DEF archan, wchans
<1>3. TypeOK'
  <2>1. ControlTypes'
    BY <1>2 DEF TypeOK, ControlTypes, DmaStates
  <2>2. TransferTypes'
    BY <1>2 DEF TypeOK, TransferTypes, archan, wchans, beats
  <2>3. StripTypes'
    BY DEF TypeOK, StripTypes, sxfer
  <2> QED BY <2>1, <2>2, <2>3, BusStep DEF TypeOK
<1>4. Handshake'
  BY <1>1, <1>2 DEF Handshake, XferStates
<1>5. Transfer' /\ StripTransfer'
  BY DEF Transfer, StripTransfer
<1> QED BY <1>3, <1>4, <1>5

\* A descriptor that is aligned starts a transfer at its own place.
LEMMA StartPlace ==
    ASSUME NEW d \in DescType, ~AlignErr(d),
           NEW s \in {1, WPB}, s = IF d.narrow THEN 1 ELSE WPB
    PROVE  d.len % s = 0 /\ ((d.src \div 4) * 4) % (4 * s) = 0
<1> USE ParamsAssumption
<1>1. d.src \in Nat /\ d.len \in Nat /\ d.narrow \in BOOLEAN
  BY DEF DescType
<1>2. CASE s = 1
  BY <1>1, <1>2
<1>3. CASE s # 1
  <2>1. s = WPB /\ ~d.narrow /\ WPB # 1
    BY <1>3
  <2>2. d.src % (4 * WPB) = 0 /\ d.len % WPB = 0
    BY <2>1 DEF AlignErr, BeatBytes
  <2>3. (d.src \div 4) * 4 = d.src
    BY <2>2, <1>1
  <2> QED BY <2>1, <2>2, <2>3
<1> QED BY <1>2, <1>3

\* A go pulse: the transfer starts, or ends at once (empty, or misaligned).
LEMMA IdleGoStep ==
    ASSUME IndInv, NEW k, NEW ready, NEW r, NEW b, Edge(k, ready, r, b),
           DmaIdleGo(abort, k.go, k.d)
    PROVE  IndInv'
<1> USE DEF IndInv, DmaIdleGo
<1>0. k.d \in DescType /\ k.d.src \in Nat /\ k.d.word \in Nat /\ k.d.len \in Nat
      /\ k.d.narrow \in BOOLEAN /\ k.d.write \in BOOLEAN
  BY DEF Edge, DescType
<1>1. /\ ~arvalid /\ ~awvalid /\ ~wvalid /\ rleft' = 0 /\ wleft' = 0 /\ bowed' = FALSE
  <2>1. ~arvalid /\ ~awvalid /\ ~wvalid /\ rleft = 0 /\ wleft = 0 /\ ~bowed
    BY DEF Handshake, TypeOK, BusTypes
  <2> QED BY <2>1 DEF Edge, Slave, ArFire, AwFire, WFire, MRready
<1>2. /\ cmd' = k.d /\ UNCHANGED <<arvalid, awvalid, wvalid>>
      /\ Base' = cur_addr' /\ cur_addr' \in Nat
  BY <1>0 DEF Edge, History, archan, wchans, Base
<1>3. TypeOK'
  <2>1. ControlTypes'
    <3>1. err' \in BOOLEAN /\ dma_st' \in DmaStates
      BY DEF DmaStates
    <3> QED BY <3>1, <1>0, <1>2 DEF TypeOK, ControlTypes
  <2>2. TransferTypes'
    BY <1>0, <1>2 DEF TypeOK, TransferTypes, archan, wchans, beats
  <2>3. StripTypes'
    BY DEF TypeOK, StripTypes, sflags, sxfer, sends
  <2> QED BY <2>1, <2>2, <2>3, BusStep DEF TypeOK
<1>4. Handshake'
  BY <1>1, <1>2 DEF Handshake, XferStates
<1>5. Transfer'
  <2>1. ASSUME dma_st' \in {"AR", "AW"}
        PROVE  Placed' /\ remaining' > 0
    <3>1. k.d.len # 0 /\ ~AlignErr(k.d)
      BY <2>1
    <3>2. Step' \in {1, WPB} /\ Step' = IF k.d.narrow THEN 1 ELSE WPB
      BY DEF Step
    <3>3. remaining' % Step' = 0 /\ cur_addr' % (4 * Step') = 0
      BY <3>1, <3>2, <1>0, StartPlace
    <3>4. 4 * (cmd'.len - remaining') = cur_addr' - Base' /\ remaining' <= cmd'.len
      BY <1>0, <1>2
    <3> QED BY <3>1, <3>3, <3>4, <1>0 DEF Placed
  <2>2. ReadPos(0)' /\ WritePos(0)'
    <3>1. 4 * (buf_addr' - cmd'.word) = 0 /\ 4 * (buf_raddr' - cmd'.word) = 0
      BY <1>0, <1>2
    <3>2. cur_addr' - Base' = 0 /\ 4 * Step' * 0 = 0
      <4>1. Step' \in {1, 2, 4, 8}
        BY ParamsAssumption DEF Step
      <4>2. 4 * Step' * 0 = 0
        <5>1. 4 * Step' \in Int
          BY <4>1
        <5> QED BY <5>1, TimesZero
      <4>3. cur_addr' - Base' = 0
        BY <1>2
      <4> QED BY <4>2, <4>3
    <3> QED BY <3>1, <3>2 DEF ReadPos, WritePos
  <2>3. ASSUME dma_st' = "DONE", ~err' PROVE Whole'
    <3>1. k.d.len = 0
      BY <2>3
    <3> QED BY <3>1, <1>0, <1>2 DEF Whole
  <2>4. /\ dma_st' \in {"AR", "AW", "DONE"} /\ ~done'
        /\ dma_st' = "AR" => ~cmd'.write
        /\ dma_st' = "AW" => cmd'.write
    BY <1>2
  <2> QED BY <2>1, <2>2, <2>3, <2>4, <1>1, <1>2 DEF Transfer
<1>6. StripTransfer'
  BY DEF StripTransfer
<1> QED BY <1>3, <1>4, <1>5, <1>6

-----------------------------------------------------------------------------
(* The strip chain leaves the transfer registers alone. *)

LEMMA TransferStays ==
    ASSUME IndInv, dma_st \in StripChain \cup {"IDLE"}, dma_st' \in StripChain \cup {"IDLE"},
           UNCHANGED <<flags, xfer, cmd>>
    PROVE  Transfer'
<1>1. UNCHANGED <<done, err, cur_addr, remaining, buf_addr, buf_raddr, cmd>> /\ Base' = Base
  BY DEF flags, xfer, Base
<1>2. Whole' = Whole
  BY <1>1 DEF Whole
<1> QED BY <1>1, <1>2 DEF IndInv, Transfer, StripChain

\* A strip start: refused with strip_err, or the chain starts at the strip's head.
LEMMA IdleStripStep ==
    ASSUME IndInv, NEW k, NEW ready, NEW r, NEW b, Edge(k, ready, r, b),
           DmaIdleStrip(abort, k.go, k.ss, k.c)
    PROVE  IndInv'
<1> USE DEF IndInv, DmaIdleStrip
<1>0. k.c \in StripType /\ k.c.addr \in Nat /\ k.c.bytes \in Nat /\ k.c.bank \in {0, 1}
  BY DEF Edge, StripType
<1>1. /\ ~arvalid /\ ~awvalid /\ ~wvalid /\ rleft' = 0 /\ wleft' = 0 /\ bowed' = FALSE
  <2>1. ~arvalid /\ ~awvalid /\ ~wvalid /\ rleft = 0 /\ wleft = 0 /\ ~bowed
    BY DEF Handshake, TypeOK, BusTypes
  <2> QED BY <2>1 DEF Edge, Slave, ArFire, AwFire, WFire, MRready
<1>2. /\ cmd' = cmd /\ scmd' = k.c /\ UNCHANGED <<busy, done, narrow_l, arvalid, awvalid, wvalid>>
      /\ dma_st' \in {"IDLE", "STRIP_AR"}
  BY DEF Edge, History, archan, wchans, flags, xfer
<1>3. TypeOK'
  <2>1. ControlTypes'
    BY <1>2 DEF TypeOK, ControlTypes, DmaStates, flags, xfer
  <2>2. TransferTypes'
    BY <1>2 DEF TypeOK, TransferTypes, archan, wchans, beats, xfer
  <2>3. StripTypes'
    BY <1>0 DEF TypeOK, StripTypes
  <2> QED BY <2>1, <2>2, <2>3, BusStep DEF TypeOK
<1>4. Handshake'
  BY <1>1, <1>2 DEF Handshake, XferStates
<1>5. Transfer'
  BY <1>2, TransferStays DEF StripChain
<1>6. StripTransfer'
  <2>1. CASE StripKickErr(k.c)
    BY <2>1 DEF StripTransfer
  <2>2. CASE ~StripKickErr(k.c)
    <3>1. /\ k.c.bytes # 0 /\ k.c.bytes <= StripMax /\ k.c.bytes % BeatBytes = 0
      BY <2>2, <1>0, ParamsAssumption DEF StripKickErr
    <3>2. StripPlaced'
      <4>1. k.c.addr % PageBytes = 0 /\ PageBytes % StripCap = 0
        BY <2>2, DmaAssumption DEF StripKickErr
      <4>2. PageBytes \in Nat \ {0} /\ StripCap \in Nat \ {0}
        BY ParamsAssumption, DmaAssumption DEF StripCap, BeatBytes
      <4>3. k.c.addr % StripCap = 0
        BY <4>1, <4>2, <1>0, ModTrans
      <4> QED BY <4>3, <3>1, <2>2, <1>0, <1>2 DEF StripPlaced
    <3>3. strip_remaining' > 0 /\ strip_waddr' = strip_cur_addr' - scmd'.addr
      BY <3>1, <2>2, <1>0, <1>2
    <3> QED BY <3>2, <3>3, <2>2, <1>1, <1>2 DEF StripTransfer
  <2> QED BY <2>1, <2>2
<1> QED BY <1>3, <1>4, <1>5, <1>6

\* An abort before the strip burst is on the bus: the chain ends, no strip_done.
LEMMA StripDropStep ==
    ASSUME IndInv, NEW k, NEW ready, NEW r, NEW b, Edge(k, ready, r, b),
           DmaStripArDrop(abort)
    PROVE  IndInv'
<1> USE DEF IndInv, DmaStripArDrop
<1>0. /\ dma_st' = "STRIP_DONE" /\ ~strip_done_ok' /\ ~strip_done'
      /\ ~arvalid /\ ~awvalid /\ cmd' = cmd
  BY DEF Handshake, Edge, History
<1>1. TypeOK'
  <2>1. ControlTypes'
    BY <1>0 DEF TypeOK, ControlTypes, DmaStates, flags, archan, wchans, xfer
  <2>2. TransferTypes'
    BY <1>0 DEF TypeOK, TransferTypes, archan, wchans, beats, xfer
  <2>3. StripTypes'
    BY <1>0 DEF TypeOK, StripTypes, sflags, sxfer
  <2> QED BY <2>1, <2>2, <2>3, BusStep DEF TypeOK
<1>2. Handshake'
  BY <1>0 DEF Handshake, Edge, Slave, ArFire, AwFire, WFire, MRready, XferStates,
              flags, archan, wchans, xfer, TypeOK, BusTypes
<1>3. Transfer'
  BY <1>0, TransferStays DEF StripChain
<1>4. StripTransfer'
  BY <1>0 DEF StripTransfer
<1> QED BY <1>1, <1>2, <1>3, <1>4

\* A strip burst is offered, and becomes a debt of the slave once it is taken.
LEMMA StripArStep ==
    ASSUME IndInv, NEW k, NEW ready, NEW r, NEW b, Edge(k, ready, r, b),
           DmaStripAr(abort, ready)
    PROVE  IndInv'
<1> USE DEF IndInv, DmaStripAr
<1>0. /\ StripPlaced /\ strip_remaining > 0
      /\ ~strip_err /\ ~strip_error_seen /\ ~strip_done_ok
      /\ strip_waddr = strip_cur_addr - scmd.addr
      /\ StripThisBurst \in 1..MaxBeats /\ StripThisBytes = BeatBytes * StripThisBurst
      /\ StripThisBytes \in Nat /\ StripThisBytes <= strip_remaining
  BY StripFits DEF StripTransfer
<1>1. TypeOK'
  <2>1. ControlTypes'
    BY DEF TypeOK, ControlTypes, DmaStates, flags, wchans, xfer
  <2>2. TransferTypes'
    BY <1>0 DEF TypeOK, TransferTypes, StripTypes, wchans, xfer
  <2>3. StripTypes'
    BY <1>0 DEF TypeOK, StripTypes, sflags, sends
  <2> QED BY <2>1, <2>2, <2>3, BusStep DEF TypeOK
<1>2. Handshake'
  BY <1>0 DEF Handshake, StripTransfer, Edge, Slave, XferStates, ArFire, AwFire, WFire, flags, wchans, xfer
<1>3. cmd' = cmd /\ scmd' = scmd
  BY DEF Edge, History
<1>4. Transfer'
  BY <1>3, TransferStays DEF StripChain
<1>5. StripTransfer'
  <2>1. /\ UNCHANGED <<strip_cur_addr, strip_remaining, strip_bank_l, strip_waddr, scmd>>
        /\ UNCHANGED <<strip_err, strip_error_seen, strip_done_ok>>
    BY <1>3 DEF sflags, sends
  <2>2. StripThisBurst' = StripThisBurst /\ StripThisBytes' = StripThisBytes
    BY <2>1 DEF StripThisBurst, StripThisBytes
  <2>3. StripPlaced'
    BY <1>0, <2>1 DEF StripPlaced
  <2>4. StripSized'
    BY <1>0, <2>1, <2>2 DEF StripSized
  <2>5. dma_st' = "STRIP_R" => rleft' = beats_in_burst'
    BY DEF Edge, Slave, ArFire, StripTransfer
  <2>6. BeatBytes \in {4, 8, 16, 32} /\ strip_cur_addr - scmd.addr \in Int
    BY ParamsAssumption DEF BeatBytes, TypeOK, StripTypes, BusTypes, StripType
  <2>7. dma_st' = "STRIP_R" =>
          /\ rleft' \in 1..beats_in_burst'
          /\ strip_waddr' = (strip_cur_addr' - scmd'.addr)
                            + BeatBytes * (beats_in_burst' - rleft')
    <3> SUFFICES ASSUME dma_st' = "STRIP_R"
                 PROVE  /\ rleft' \in 1..beats_in_burst'
                        /\ strip_waddr' = (strip_cur_addr' - scmd'.addr)
                                          + BeatBytes * (beats_in_burst' - rleft')
      OBVIOUS
    <3>1. rleft' \in 1..beats_in_burst' /\ rleft' = beats_in_burst' /\ rleft' \in Int
      BY <1>0, <2>5
    <3>2. strip_waddr' = strip_cur_addr' - scmd'.addr
      BY <1>0, <2>1
    <3>3. beats_in_burst' - rleft' = 0
      BY <3>1
    <3>4. strip_waddr' \in Int /\ BeatBytes * 0 = 0
      BY <2>6, <3>2, <2>1
    <3>5. strip_waddr' + BeatBytes * 0 = strip_waddr'
      BY <3>4
    <3> QED BY ONLY <3>1, <3>2, <3>3, <3>5
  <2>8. strip_err' = strip_error_seen' /\ ~strip_err'
    BY <1>0, <2>1 DEF TypeOK, StripTypes
  <2>9. dma_st' \in {"STRIP_AR", "STRIP_R"} /\ ~strip_done'
    OBVIOUS
  <2> QED BY <1>0, <2>1, <2>2, <2>3, <2>4, <2>7, <2>8, <2>9 DEF StripTransfer
<1> QED BY <1>1, <1>2, <1>4, <1>5

\* One beat of a strip is written to the strip buffer, or drained after an error.
LEMMA StripRStep ==
    ASSUME IndInv, NEW k, NEW ready, NEW r, NEW b, Edge(k, ready, r, b),
           DmaStripR(abort, r)
    PROVE  IndInv'
<1> USE DEF IndInv, DmaStripR
<1>0. /\ StripPlaced /\ StripSized /\ strip_in_burst <= strip_remaining
      /\ strip_err = strip_error_seen /\ ~strip_done_ok
      /\ rleft \in 1..beats_in_burst /\ rleft \in Nat /\ beats_in_burst \in Nat
      /\ strip_err \in BOOLEAN /\ strip_error_seen \in BOOLEAN /\ strip_done_ok \in BOOLEAN
      /\ abort \in BOOLEAN /\ r.err \in BOOLEAN /\ r.last \in BOOLEAN
      /\ strip_waddr \in Nat /\ strip_cur_addr \in Nat /\ strip_remaining \in Nat
      /\ strip_in_burst \in Nat /\ scmd.addr \in Nat /\ scmd.bytes \in Nat
      /\ BeatBytes \in {4, 8, 16, 32}
  BY ParamsAssumption DEF StripTransfer, Edge, TypeOK, StripTypes, TransferTypes, BusTypes,
                          StripType, BeatBytes, StripSized, StripThisBytes, LesserOf
<1>1. /\ rleft' = rleft - 1 /\ wleft' = 0 /\ bowed' = FALSE
      /\ ~arvalid /\ ~awvalid /\ ~wvalid
  <2>1. ~arvalid /\ ~awvalid /\ ~wvalid /\ ~bowed
    BY DEF Handshake, TypeOK, ControlTypes, BusTypes
  <2>2. wleft = 0
    BY DEF Handshake, TypeOK, BusTypes
  <2>3. rleft' = rleft - 1
    BY <2>1 DEF Edge, Slave, ArFire, MRready
  <2>4. wleft' = 0 /\ bowed' = FALSE
    BY <2>1, <2>2 DEF Edge, Slave, AwFire, WFire
  <2> QED BY <2>1, <2>3, <2>4
<1>2. /\ cmd' = cmd /\ scmd' = scmd /\ beats_in_burst' = beats_in_burst
      /\ UNCHANGED <<busy, done, narrow_l, arvalid, awvalid, wvalid>>
      /\ UNCHANGED <<strip_bank_l, strip_in_burst>>
  BY DEF Edge, History, archan, wchans, flags, xfer, beats
<1>3. /\ strip_err' = strip_error_seen'
      /\ strip_err' \in BOOLEAN /\ strip_error_seen' \in BOOLEAN
  BY <1>0
<1>4. /\ strip_waddr' \in Nat
      /\ ~strip_err' => strip_waddr' = (strip_cur_addr - scmd.addr)
                                       + BeatBytes * (beats_in_burst - rleft')
  <2>1. CASE strip_err'
    BY <2>1, <1>0, <1>3
  <2>2. CASE ~strip_err'
    <3>1. ~strip_err /\ strip_waddr' = strip_waddr + BeatBytes
      BY <2>2, <1>0, <1>3
    <3>2. strip_waddr = (strip_cur_addr - scmd.addr) + BeatBytes * (beats_in_burst - rleft)
      BY <3>1 DEF StripTransfer
    <3>3. BeatBytes * (beats_in_burst - rleft') = BeatBytes * (beats_in_burst - rleft) + BeatBytes
          /\ BeatBytes * (beats_in_burst - rleft) \in Int
      BY <1>0, <1>1
    <3>4. strip_waddr' = (strip_cur_addr - scmd.addr)
                         + (BeatBytes * (beats_in_burst - rleft) + BeatBytes)
      BY <3>1, <3>2, <3>3, <1>0
    <3> QED BY <3>1, <3>3, <3>4, <1>0
  <2> QED BY <2>1, <2>2
<1>5. ASSUME ~r.last PROVE rleft' \in 1..beats_in_burst
  <2>1. rleft # 1
    BY <1>5 DEF Edge
  <2> QED BY <2>1, <1>0, <1>1
<1>6. ASSUME r.last
      PROVE  /\ rleft' = 0
             /\ strip_remaining' \in Nat /\ strip_cur_addr' \in Nat
             /\ StripPlaced'
             /\ ~strip_err' => strip_waddr' = strip_cur_addr' - scmd'.addr
             /\ strip_done_ok' \in BOOLEAN
  <2>1. rleft' = 0
    BY <1>1, <1>6 DEF Edge
  <2>2. /\ strip_remaining' = strip_remaining - strip_in_burst /\ strip_remaining' \in Nat
        /\ strip_cur_addr' = strip_cur_addr + strip_in_burst /\ strip_cur_addr' \in Nat
        /\ strip_in_burst = BeatBytes * beats_in_burst
    BY <1>0, <1>6 DEF StripSized
  <2>3. StripPlaced'
    <3>1. strip_remaining' % BeatBytes = 0
      BY <2>2, <1>0 DEF StripPlaced
    <3>2. strip_cur_addr' - scmd.addr = scmd.bytes - strip_remaining'
      BY <2>2, <1>0 DEF StripPlaced
    <3>3. scmd.bytes <= StripMax /\ strip_bank_l = scmd.bank /\ strip_remaining' <= scmd.bytes
      BY <2>2, <1>0 DEF StripPlaced
    <3>4. ASSUME strip_remaining' > 0 PROVE strip_cur_addr' % StripCap = 0
      <4>1. strip_in_burst = StripCap
        BY <2>2, <3>4, <1>0 DEF StripSized, StripThisBytes, LesserOf
      <4>2. StripCap \in Nat \ {0}
        BY ParamsAssumption, DmaAssumption DEF StripCap, BeatBytes
      <4>3. strip_cur_addr % StripCap = 0
        BY <2>2, <3>4, <1>0 DEF StripPlaced
      <4> QED BY <2>2, <4>1, <4>2, <4>3, <1>0, AddMod
    <3> QED BY <3>1, <3>2, <3>3, <3>4, <1>2 DEF StripPlaced
  <2>4. ASSUME ~strip_err' PROVE strip_waddr' = strip_cur_addr' - scmd'.addr
    <3>1. strip_waddr' = (strip_cur_addr - scmd.addr) + BeatBytes * (beats_in_burst - 0)
      BY <2>1, <2>4, <1>4
    <3>2. BeatBytes * (beats_in_burst - 0) = strip_in_burst
      BY <2>2, <1>0
    <3> QED BY <3>1, <3>2, <2>2, <1>0, <1>2
  <2>5. strip_done_ok' \in BOOLEAN
    BY <1>6, <1>0
  <2> QED BY <2>1, <2>2, <2>3, <2>4, <2>5
<1>7. dma_st' \in StripChain
  BY DEF StripChain
<1>8. TypeOK'
  <2>1. ControlTypes'
    BY DEF TypeOK, ControlTypes, DmaStates, flags, archan, wchans, xfer
  <2>2. TransferTypes'
    BY DEF TypeOK, TransferTypes, archan, wchans, beats, xfer
  <2>3. /\ strip_remaining' \in Nat /\ strip_cur_addr' \in Nat /\ strip_done_ok' \in BOOLEAN
    BY <1>0, <1>6
  <2>4. StripTypes'
    <3>1. strip_busy' \in BOOLEAN /\ strip_bank_l' \in {0, 1} /\ strip_in_burst' \in Nat
      BY <1>2 DEF TypeOK, StripTypes
    <3>2. strip_done' \in BOOLEAN /\ strip_waddr' \in Nat
      BY <1>4
    <3> QED BY <3>1, <3>2, <2>3, <1>3 DEF StripTypes
  <2> QED BY <2>1, <2>2, <2>4, BusStep DEF TypeOK
<1>9. Handshake'
  <2>1. rleft' > 0 => dma_st' \in {"R", "STRIP_R"}
    <3>1. CASE r.last
      BY <3>1, <1>6
    <3>2. CASE ~r.last
      BY <3>2
    <3> QED BY <3>1, <3>2
  <2> QED BY <2>1, <1>1, <1>2, <1>7 DEF Handshake, XferStates, StripChain
<1>10. Transfer'
  BY <1>2, <1>7, TransferStays DEF StripChain
<1>11. StripTransfer'
  <2>1. CASE ~r.last
    <3>1. dma_st' = "STRIP_R" /\ strip_cur_addr' = strip_cur_addr
          /\ strip_remaining' = strip_remaining /\ strip_done_ok' = strip_done_ok
      BY <2>1
    <3>2. StripPlaced' /\ StripSized'
      BY <3>1, <1>0, <1>2 DEF StripPlaced, StripSized, StripThisBytes
    <3>3. rleft' \in 1..beats_in_burst'
      BY <2>1, <1>2, <1>5
    <3>4. ~strip_err' => strip_waddr' = (strip_cur_addr' - scmd'.addr)
                                        + BeatBytes * (beats_in_burst' - rleft')
      BY <3>1, <1>2, <1>4
    <3> QED BY <3>1, <3>2, <3>3, <3>4, <1>0, <1>3 DEF StripTransfer
  <2>2. CASE r.last
    <3> DEFINE stop == abort \/ strip_error_seen'
    <3>1. CASE stop
      BY <2>2, <3>1 DEF StripTransfer
    <3>2. CASE ~stop
      <4>1. ~strip_err' /\ ~strip_error_seen' /\ ~arvalid'
        BY <3>2, <1>1, <1>2, <1>3
      <4>2. strip_done_ok' = (strip_remaining' = 0)
            /\ dma_st' = IF strip_remaining' = 0 THEN "STRIP_DONE" ELSE "STRIP_AR"
        BY <2>2, <3>2, <1>0
      <4>3. strip_remaining' = 0 => strip_waddr' = scmd'.bytes
        BY <2>2, <4>1, <1>0, <1>2, <1>6 DEF StripPlaced
      <4>4. dma_st' = "STRIP_AR" => strip_remaining' > 0 /\ ~strip_done_ok'
        <5>1. strip_remaining' \in Nat
          BY <2>2, <1>6
        <5>2. strip_remaining' # 0 => ~strip_done_ok'
          BY <4>2
        <5>3. dma_st' = "STRIP_AR" => strip_remaining' # 0
          BY <4>2
        <5> QED BY <5>1, <5>2, <5>3
      <4>5. dma_st' = "STRIP_DONE" => strip_waddr' = scmd'.bytes /\ strip_remaining' = 0
        BY <4>2, <4>3
      <4>6. dma_st' \in {"STRIP_AR", "STRIP_DONE"} /\ ~strip_done'
        BY <4>2
      <4> QED BY <2>2, <4>1, <4>4, <4>5, <4>6, <1>6 DEF StripTransfer
    <3> QED BY <3>1, <3>2
  <2> QED BY <2>1, <2>2, <1>0
<1> QED BY <1>8, <1>9, <1>10, <1>11

\* The last cycle of a strip: the strip_done pulse, unless aborted or in error.
LEMMA StripDoneStep ==
    ASSUME IndInv, NEW k, NEW ready, NEW r, NEW b, Edge(k, ready, r, b),
           DmaStripDone(abort)
    PROVE  IndInv'
<1> USE DEF IndInv, DmaStripDone
<1>0. /\ dma_st' = "IDLE" /\ ~arvalid /\ ~awvalid /\ cmd' = cmd /\ scmd' = scmd
      /\ strip_done' => strip_done_ok
  BY DEF Handshake, Edge, History, TypeOK, StripTypes, BusTypes
<1>1. TypeOK'
  <2>1. ControlTypes'
    BY <1>0 DEF TypeOK, ControlTypes, DmaStates, flags, archan, wchans, xfer
  <2>2. TransferTypes'
    BY <1>0 DEF TypeOK, TransferTypes, archan, wchans, beats, xfer
  <2>3. StripTypes'
    BY <1>0 DEF TypeOK, StripTypes, BusTypes, sxfer
  <2> QED BY <2>1, <2>2, <2>3, BusStep DEF TypeOK
<1>2. Handshake'
  BY <1>0 DEF Handshake, Edge, Slave, ArFire, AwFire, WFire, MRready, XferStates,
              flags, archan, wchans, xfer, TypeOK, BusTypes
<1>3. Transfer'
  BY <1>0, TransferStays DEF StripChain
<1>4. StripTransfer'
  <2>1. UNCHANGED <<strip_err, strip_waddr, strip_remaining>>
    BY DEF sxfer
  <2> QED BY <2>1, <1>0 DEF StripTransfer
<1> QED BY <1>1, <1>2, <1>3, <1>4

-----------------------------------------------------------------------------
(* The invariant. *)

LEMMA InitIndInv == Init => IndInv
<1> SUFFICES ASSUME Init PROVE IndInv
  OBVIOUS
<1> USE DEF Init, DmaInit, BusInit
<1>1. ControlTypes /\ TransferTypes /\ StripTypes
  BY DEF ControlTypes, TransferTypes, StripTypes, DmaStates
<1>2. BusTypes
  BY DEF BusTypes, DescType, StripType
<1>3. Handshake
  BY DEF Handshake, XferStates
<1>4. Transfer /\ StripTransfer
  BY DEF Transfer, StripTransfer
<1> QED BY <1>1, <1>2, <1>3, <1>4 DEF IndInv, TypeOK

LEMMA ClockStep ==
    ASSUME IndInv, NEW k \in Kicks, NEW ready \in BOOLEAN,
           NEW r \in RChoices, NEW b \in BChoices, Clock(k, ready, r, b)
    PROVE  IndInv'
<1>1. Edge(k, ready, r, b)
  BY ClockIsEdge DEF IndInv
<1>2. DmaClk(abort, k.go, k.d, k.ss, k.c, ready, r, ready, ready, b)
  BY DEF Clock
<1>3. CASE DmaIdleAbort(abort)
  BY <1>1, <1>3, IdleAbortStep
<1>4. CASE DmaIdleGo(abort, k.go, k.d)
  BY <1>1, <1>4, IdleGoStep
<1>5. CASE DmaIdleStrip(abort, k.go, k.ss, k.c)
  BY <1>1, <1>5, IdleStripStep
<1>6. CASE \/ DmaIdleStay(abort, k.go, k.ss)
           \/ DmaRWait(r) \/ DmaBWait(b) \/ DmaStripRWait(r)
  BY <1>1, <1>6, QuietStep
<1>7. CASE DmaArDrop(abort) \/ DmaAwDrop(abort)
  BY <1>1, <1>7, DropStep
<1>8. CASE DmaAr(abort, ready)
  BY <1>1, <1>8, ArStep
<1>9. CASE DmaR(abort, r)
  BY <1>1, <1>9, RStep
<1>10. CASE DmaAw(abort, ready)
  BY <1>1, <1>10, AwStep
<1>11. CASE DmaW(ready)
  BY <1>1, <1>11, WStep
<1>12. CASE DmaB(abort, b)
  BY <1>1, <1>12, BStep
<1>13. CASE DmaDone(abort)
  BY <1>1, <1>13, DoneStep
<1>14. CASE DmaStripArDrop(abort)
  BY <1>1, <1>14, StripDropStep
<1>15. CASE DmaStripAr(abort, ready)
  BY <1>1, <1>15, StripArStep
<1>16. CASE DmaStripR(abort, r)
  BY <1>1, <1>16, StripRStep
<1>17. CASE DmaStripDone(abort)
  BY <1>1, <1>17, StripDoneStep
<1> QED BY <1>2, <1>3, <1>4, <1>5, <1>6, <1>7, <1>8, <1>9, <1>10, <1>11, <1>12,
           <1>13, <1>14, <1>15, <1>16, <1>17 DEF DmaClk, DmaIdle, DmaRead, DmaWrite, DmaStrip

LEMMA StutterStep == IndInv /\ UNCHANGED vars => IndInv'
<1> SUFFICES ASSUME IndInv, UNCHANGED vars PROVE IndInv'
  OBVIOUS
<1> USE DEF IndInv, vars, dmaVars, busVars
<1>1. ControlTypes' /\ TransferTypes' /\ StripTypes' /\ BusTypes'
  BY DEF TypeOK, ControlTypes, TransferTypes, StripTypes, BusTypes,
         flags, archan, wchans, xfer, beats, sflags, sxfer, sends
<1>2. Handshake'
  BY DEF Handshake, flags, archan, wchans, xfer
<1>3. Transfer'
  BY DEF Transfer, Placed, ReadPos, WritePos, Sized, Whole, WordsInBurst, Step, Base,
         ThisBurst, Dist4k, flags, archan, wchans, xfer, beats
<1>4. StripTransfer'
  BY DEF StripTransfer, StripPlaced, StripSized, StripThisBurst, StripThisBytes,
         archan, beats, sflags, sxfer, sends
<1> QED BY <1>1, <1>2, <1>3, <1>4 DEF TypeOK

\* IndInv holds in every reachable state of the engine on its bus.
THEOREM Inductive == Spec => []IndInv
<1>1. IndInv /\ [Next]_vars => IndInv'
  <2> SUFFICES ASSUME IndInv, [Next]_vars PROVE IndInv'
    OBVIOUS
  <2>1. CASE Next
    <3>1. PICK k \in Kicks, ready \in BOOLEAN, r \in RChoices, b \in BChoices :
              Clock(k, ready, r, b)
      BY <2>1 DEF Next
    <3> QED BY <3>1, ClockStep
  <2>2. CASE UNCHANGED vars
    BY <2>2, StutterStep
  <2> QED BY <2>1, <2>2
<1> QED BY InitIndInv, <1>1, PTL DEF Spec

-----------------------------------------------------------------------------
(* What follows from the invariant. *)

\* The registers and the slave keep their types.
THEOREM TypeCorrect == Spec => []TypeOK
<1>1. IndInv => TypeOK
  BY DEF IndInv
<1> QED BY Inductive, <1>1, PTL

\* Every burst on the bus is legal and stays inside its buffer, for every page
\* size, burst limit and bus width.
THEOREM BurstsLegal == Spec => []BurstLegal
<1>1. IndInv => BurstLegal
  <2> SUFFICES ASSUME IndInv PROVE BurstLegal
    OBVIOUS
  <2> USE DEF IndInv
  <2>1. /\ cmd.len \in Nat /\ Base \in Nat /\ cur_addr \in Nat /\ remaining \in Nat
        /\ scmd.addr \in Nat /\ scmd.bytes \in Nat
        /\ strip_cur_addr \in Nat /\ strip_remaining \in Nat
        /\ Step \in {1, 2, 4, 8} /\ BeatBytes \in {4, 8, 16, 32}
        /\ araddr \in Nat /\ awaddr \in Nat /\ MaxBeats \in Nat /\ PageBytes \in Nat \ {0}
    BY ParamsAssumption, DmaAssumption, StepValue
       DEF TypeOK, ControlTypes, TransferTypes, StripTypes, BusTypes,
           DescType, StripType, Base, BeatBytes
  <2>2. ASSUME Placed, remaining > 0
        PROVE  /\ ThisBurst \in 1..MaxBeats
               /\ (cur_addr % PageBytes) + ThisBurst * 4 * Step <= PageBytes
               /\ cur_addr >= Base
               /\ cur_addr + ThisBurst * 4 * Step <= Base + 4 * cmd.len
    <3>1. /\ ThisBurst \in 1..MaxBeats /\ ThisBurst * Step <= remaining
          /\ (cur_addr % PageBytes) + ThisBurst * 4 * Step <= PageBytes
      BY <2>2, BurstFits
    <3>2. ThisBurst * 4 * Step <= 4 * remaining
      BY <3>1, <2>1
    <3>3. 4 * (cmd.len - remaining) = cur_addr - Base
      BY <2>2 DEF Placed
    <3>4. ThisBurst \in Nat /\ ThisBurst * 4 * Step \in Nat /\ ThisBurst * Step \in Nat
      BY <3>1, <2>1
    <3>5. cur_addr + ThisBurst * 4 * Step <= Base + 4 * cmd.len
      BY <3>2, <3>3, <3>4, <2>1
    <3>6. cur_addr >= Base
      BY <2>2, <2>1 DEF Placed
    <3> QED BY <3>1, <3>5, <3>6
  <2>3. CASE arvalid /\ dma_st = "AR"
    <3>1. araddr = cur_addr /\ arbeats = ThisBurst /\ Placed /\ remaining > 0
      BY <2>3 DEF Transfer
    <3>2. ~awvalid
      BY <2>3 DEF Handshake
    <3>3. arbeats * (4 * Step) = ThisBurst * 4 * Step
      BY <3>1, <2>1, <2>2
    <3> QED BY <2>3, <3>1, <3>2, <3>3, <2>2 DEF BurstLegal
  <2>4. CASE arvalid /\ dma_st # "AR"
    <3>1. /\ araddr = strip_cur_addr /\ arbeats = StripThisBurst
          /\ StripPlaced /\ strip_remaining > 0
      BY <2>4 DEF Handshake, Transfer, StripTransfer
    <3>2. /\ StripThisBurst \in 1..MaxBeats
          /\ StripThisBurst * BeatBytes = StripThisBytes /\ StripThisBytes \in Nat
          /\ StripThisBytes <= strip_remaining
          /\ (strip_cur_addr % PageBytes) + StripThisBytes <= PageBytes
      BY <3>1, <2>1, StripFits
    <3>3. /\ strip_cur_addr - scmd.addr = scmd.bytes - strip_remaining
          /\ strip_remaining <= scmd.bytes
      BY <3>1 DEF StripPlaced
    <3>4. strip_cur_addr >= scmd.addr
          /\ strip_cur_addr + StripThisBytes <= scmd.addr + scmd.bytes
      BY <3>2, <3>3, <2>1
    <3>5. ~awvalid
      BY <2>4 DEF Handshake
    <3> QED BY <2>4, <3>1, <3>2, <3>4, <3>5 DEF BurstLegal
  <2>5. CASE ~arvalid /\ awvalid
    <3>1. awaddr = cur_addr /\ awbeats = ThisBurst /\ Placed /\ remaining > 0
      BY <2>5 DEF Handshake, Transfer
    <3> QED BY <2>5, <3>1, <2>2 DEF BurstLegal
  <2>6. CASE ~arvalid /\ ~awvalid
    BY <2>6 DEF BurstLegal
  <2> QED BY <2>3, <2>4, <2>5, <2>6
<1> QED BY Inductive, <1>1, PTL

\* A read beat lands at the local word that belongs to its shared-memory address.
THEOREM ReadsInPlace == Spec => []ReadLandsInPlace
<1>1. IndInv => ReadLandsInPlace
  BY DEF IndInv, Transfer, Placed, ReadPos, ReadLandsInPlace
<1> QED BY Inductive, <1>1, PTL

\* A write beat is taken from its own word, and WLAST marks the last beat owed.
THEOREM WritesInPlace == Spec => []WriteTakesInPlace
<1>1. IndInv => WriteTakesInPlace
  <2> SUFFICES ASSUME IndInv, dma_st = "W" PROVE WriteTakesInPlace
    BY DEF WriteTakesInPlace
  <2>1. /\ Placed /\ WritePos(beats_done) /\ wleft = beats_in_burst - beats_done
        /\ beats_done \in Nat /\ beats_in_burst \in Nat
    BY DEF IndInv, Transfer, TypeOK, TransferTypes
  <2>2. FinalWBeat <=> wleft = 1
    BY <2>1 DEF FinalWBeat
  <2>3. MWlast = (wvalid /\ wleft = 1)
    BY <2>2 DEF MWlast
  <2> QED BY <2>1, <2>3 DEF WriteTakesInPlace, Placed, WritePos
<1> QED BY Inductive, <1>1, PTL

\* A strip beat lands at its own offset of the strip, full width, inside the bank.
THEOREM StripsInPlace == Spec => []StripInPlace
<1>1. IndInv => StripInPlace
  <2> SUFFICES ASSUME IndInv, dma_st = "STRIP_R" PROVE StripInPlace
    BY DEF StripInPlace
  <2>1. /\ StripPlaced /\ StripSized /\ strip_err = strip_error_seen
        /\ rleft \in 1..beats_in_burst /\ beats_in_burst \in Nat
        /\ strip_remaining \in Nat /\ strip_cur_addr \in Nat
        /\ scmd.addr \in Nat /\ scmd.bytes \in Nat /\ BeatBytes \in {4, 8, 16, 32}
    BY ParamsAssumption DEF IndInv, StripTransfer, TypeOK, TransferTypes, StripTypes, BusTypes,
                            StripType, BeatBytes
  <2>2. ~narrow_l
    BY DEF IndInv, Handshake, XferStates
  <2>3. ASSUME ~strip_error_seen
        PROVE  /\ strip_waddr = (strip_cur_addr - scmd.addr)
                                + BeatBytes * (beats_in_burst - rleft)
               /\ strip_waddr + BeatBytes <= scmd.bytes
    <3>1. strip_waddr = (strip_cur_addr - scmd.addr) + BeatBytes * (beats_in_burst - rleft)
      BY <2>1, <2>3 DEF IndInv, StripTransfer
    <3>2. StripThisBytes <= strip_remaining
      BY <2>1, ParamsAssumption, DmaAssumption DEF StripThisBytes, LesserOf, StripCap, BeatBytes
    <3>3. BeatBytes * (beats_in_burst - rleft) + BeatBytes <= strip_remaining
          /\ BeatBytes * (beats_in_burst - rleft) \in Int
      BY <3>2, <2>1 DEF StripSized
    <3>4. strip_cur_addr - scmd.addr = scmd.bytes - strip_remaining
      BY <2>1 DEF StripPlaced
    <3>5. strip_waddr + BeatBytes <= scmd.bytes
      BY <3>1, <3>3, <3>4, <2>1
    <3> QED BY <3>1, <3>5
  <2>4. scmd.bytes <= StripMax /\ strip_bank_l = scmd.bank
    BY <2>1 DEF StripPlaced
  <2> QED BY <2>2, <2>3, <2>4 DEF StripInPlace
<1> QED BY Inductive, <1>1, PTL

\* done without err means that the whole descriptor has been moved.
THEOREM DoneIsWhole == Spec => []DoneMeansWhole
<1>1. IndInv => DoneMeansWhole
  BY DEF IndInv, Transfer, Whole, DoneMeansWhole
<1> QED BY Inductive, <1>1, PTL

\* strip_done means that the whole strip was written without an error.
THEOREM StripDoneIsWhole == Spec => []StripDoneMeansWhole
<1>1. IndInv => StripDoneMeansWhole
  BY DEF IndInv, StripTransfer, StripDoneMeansWhole
<1> QED BY Inductive, <1>1, PTL

-----------------------------------------------------------------------------
(* The handshake under abort. *)

\* An offered address stays offered unchanged until the slave takes it, also
\* when abort rises in between.
THEOREM AddressesHold == Spec => AddressHolds
<1>1. IndInv /\ [Next]_vars => [Held]_vars
  <2> SUFFICES ASSUME IndInv, Next PROVE Held
    OBVIOUS
  <2>1. PICK k \in Kicks, ready \in BOOLEAN, r \in RChoices, b \in BChoices :
            Clock(k, ready, r, b)
    BY DEF Next
  <2>2. /\ DmaClk(abort, k.go, k.d, k.ss, k.c, ready, r, ready, ready, b)
        /\ Slave(ready, r, b)
    BY <2>1 DEF Clock
  <2>3. ASSUME arvalid
        PROVE  \/ arvalid' /\ UNCHANGED <<araddr, arbeats>>
               \/ rleft' = arbeats /\ ~arvalid'
    <3>1. dma_st \in {"AR", "STRIP_AR"}
      BY <2>3 DEF IndInv, Handshake
    <3>2. DmaAr(abort, ready) \/ DmaStripAr(abort, ready)
      BY <2>2, <2>3, <3>1 DEF DmaClk, DmaIdle, DmaRead, DmaWrite, DmaStrip, DmaIdleAbort, DmaIdleGo, DmaIdleStrip, DmaIdleStay,
         DmaArDrop, DmaR, DmaRWait, DmaAwDrop, DmaAw, DmaW, DmaB, DmaBWait, DmaDone,
         DmaStripArDrop, DmaStripR, DmaStripRWait, DmaStripDone
    <3>3. araddr' = araddr /\ arbeats' = arbeats /\ arvalid' = ~ready
      BY <2>3, <3>1, <3>2 DEF IndInv, Transfer, StripTransfer, DmaAr, DmaStripAr
    <3>4. ready => rleft' = arbeats
      BY <2>2, <2>3 DEF Slave, ArFire
    <3> QED BY <3>3, <3>4
  <2>4. ASSUME awvalid
        PROVE  \/ awvalid' /\ UNCHANGED <<awaddr, awbeats>>
               \/ wleft' = awbeats /\ ~awvalid'
    <3>1. dma_st = "AW"
      BY <2>4 DEF IndInv, Handshake
    <3>2. DmaAw(abort, ready)
      BY <2>2, <2>4, <3>1 DEF DmaClk, DmaIdle, DmaRead, DmaWrite, DmaStrip, DmaIdleAbort, DmaIdleGo, DmaIdleStrip, DmaIdleStay,
         DmaArDrop, DmaAr, DmaR, DmaRWait, DmaAwDrop, DmaW, DmaB, DmaBWait, DmaDone,
         DmaStripArDrop, DmaStripAr, DmaStripR, DmaStripRWait, DmaStripDone
    <3>3. awaddr' = awaddr /\ awbeats' = awbeats /\ awvalid' = ~ready
      BY <2>4, <3>1, <3>2 DEF IndInv, Transfer, DmaAw
    <3>4. ready => wleft' = awbeats
      BY <2>2, <2>4 DEF Slave, AwFire
    <3> QED BY <3>3, <3>4
  <2> QED BY <2>3, <2>4 DEF Held
<1> QED BY Inductive, <1>1, PTL DEF AddressHolds, Spec

\* Once a burst has been accepted under abort the engine offers no other.
Late ==
    /\ late_bursts \in {0, 1}
    /\ abort /\ late_bursts = 1 => dma_st \notin {"AR", "AW", "STRIP_AR"}

\* While abort is up at most one burst is accepted, the one on the bus.
THEOREM AbortBound == Spec => []OneBurstAfterAbort
<1>1. Init => Late
  BY DEF Init, BusInit, Late
<1>2. IndInv /\ Late /\ [Next]_vars => Late'
  <2> SUFFICES ASSUME IndInv, Late, [Next]_vars PROVE Late'
    OBVIOUS
  <2>1. CASE UNCHANGED vars
    BY <2>1 DEF Late, vars, dmaVars, busVars
  <2>2. CASE Next
    <3>1. PICK k \in Kicks, ready \in BOOLEAN, r \in RChoices, b \in BChoices :
              Clock(k, ready, r, b)
      BY <2>2 DEF Next
    <3>2. /\ DmaClk(abort, k.go, k.d, k.ss, k.c, ready, r, ready, ready, b)
          /\ History(k, ready)
      BY <3>1 DEF Clock
    <3>3. CASE ~abort
      BY <3>2, <3>3 DEF History, Late
    <3>4. CASE abort /\ (ArFire(ready) \/ AwFire(ready))
      <4>1. dma_st \in {"AR", "AW", "STRIP_AR"} /\ late_bursts = 0
        BY <3>4 DEF IndInv, Handshake, ArFire, AwFire, Late
      <4>2. late_bursts' = 1
        BY <3>2, <3>4, <4>1 DEF History
      <4>3. DmaAr(abort, ready) \/ DmaAw(abort, ready) \/ DmaStripAr(abort, ready)
        BY <3>2, <3>4, <4>1 DEF IndInv, Handshake, ArFire, AwFire, DmaClk, DmaIdle, DmaRead, DmaWrite, DmaStrip, DmaIdleAbort,
           DmaIdleGo, DmaIdleStrip, DmaIdleStay, DmaArDrop, DmaR, DmaRWait, DmaAwDrop, DmaW,
           DmaB, DmaBWait, DmaDone, DmaStripArDrop, DmaStripR, DmaStripRWait, DmaStripDone
      <4>4. dma_st' \in {"R", "W", "STRIP_R"}
        <5>1. CASE DmaAr(abort, ready) \/ DmaStripAr(abort, ready)
          <6>1. ~awvalid
            BY <5>1 DEF IndInv, Handshake, DmaAr, DmaStripAr
          <6> QED BY <3>4, <5>1, <6>1 DEF ArFire, AwFire, DmaAr, DmaStripAr
        <5>2. CASE DmaAw(abort, ready)
          <6>1. ~arvalid
            BY <5>2 DEF IndInv, Handshake, DmaAw
          <6> QED BY <3>4, <5>2, <6>1 DEF ArFire, AwFire, DmaAw
        <5> QED BY <4>3, <5>1, <5>2
      <4> QED BY <4>2, <4>4 DEF Late
    <3>5. CASE abort /\ ~(ArFire(ready) \/ AwFire(ready))
      <4>1. late_bursts' = late_bursts
        BY <3>2, <3>5 DEF History
      <4>2. ASSUME late_bursts = 1 PROVE dma_st' \notin {"AR", "AW", "STRIP_AR"}
        <5>1. dma_st \notin {"AR", "AW", "STRIP_AR"}
          BY <3>5, <4>2 DEF Late
        <5> QED BY <3>2, <3>5, <5>1 DEF DmaClk, DmaIdle, DmaRead, DmaWrite, DmaStrip, DmaIdleAbort, DmaIdleGo, DmaIdleStrip,
               DmaIdleStay, DmaArDrop, DmaAr, DmaR, DmaRWait, DmaAwDrop, DmaAw, DmaW, DmaB,
               DmaBWait, DmaDone, DmaStripArDrop, DmaStripAr, DmaStripR, DmaStripRWait,
               DmaStripDone
      <4> QED BY <4>1, <4>2 DEF Late
    <3> QED BY <3>3, <3>4, <3>5
  <2> QED BY <2>1, <2>2
<1>3. Late => OneBurstAfterAbort
  BY DEF Late, OneBurstAfterAbort
<1> QED BY Inductive, <1>1, <1>2, <1>3, PTL DEF Spec

-----------------------------------------------------------------------------
(* Refinement of the contract of the engine's users. *)

\* Every transfer, as its driver sees it, is one the contract allows.
THEOREM Refinement == Spec => ImplementsContract
<1> USE DEF Contract!cvars
<1>1. Init => Contract!ContractInit
  BY DEF Init, DmaInit, BusInit, Contract!ContractInit
<1>2. IndInv /\ [Next]_vars => [Contract!ContractNext]_(Contract!cvars)
  <2> SUFFICES ASSUME IndInv, [Next]_vars
               PROVE  Contract!ContractNext \/ UNCHANGED Contract!cvars
    OBVIOUS
  <2>1. CASE UNCHANGED vars
    BY <2>1 DEF vars, dmaVars, busVars, flags, xfer
  <2>2. CASE Next
    <3>1. PICK k \in Kicks, ready \in BOOLEAN, r \in RChoices, b \in BChoices :
              Clock(k, ready, r, b)
      BY <2>2 DEF Next
    <3>2. DmaClk(abort, k.go, k.d, k.ss, k.c, ready, r, ready, ready, b)
      BY <3>1 DEF Clock
    <3>3. Edge(k, ready, r, b)
      BY <3>1, ClockIsEdge DEF IndInv
    <3>4. CASE DmaIdleAbort(abort)
      <4>1. ~busy /\ cmd' = cmd /\ busy' = busy /\ remaining' = remaining /\ ~done' /\ ~err'
            /\ done' = FALSE /\ err' = FALSE
        BY <3>3, <3>4 DEF IndInv, Handshake, XferStates, DmaIdleAbort, Edge, History
      <4> QED BY <4>1 DEF Contract!ContractNext, Contract!Clear
    <3>5. CASE DmaIdleGo(abort, k.go, k.d)
      <4>1. ~busy /\ cmd' = k.d /\ remaining' = k.d.len /\ k.d.len \in Nat
            /\ busy' = TRUE /\ done' = FALSE /\ err' \in BOOLEAN
        BY <3>3, <3>5 DEF IndInv, Handshake, XferStates, DmaIdleGo, Edge, History, DescType
      <4>2. cmd'.len - remaining' = 0
        BY <4>1
      <4> QED BY <4>1, <4>2 DEF Contract!ContractNext, Contract!Accept
    <3>6. CASE DmaR(abort, r)
      <4>1. /\ Placed /\ Sized /\ busy /\ cmd' = cmd /\ busy' = busy /\ done' = done
            /\ err' \in {err, TRUE}
            /\ remaining' \in {remaining, remaining - WordsInBurst}
            /\ cmd.len \in Nat /\ remaining \in Nat
        BY <3>3, <3>6 DEF IndInv, TypeOK, ControlTypes, TransferTypes, BusTypes, DescType,
                          Handshake, XferStates, Transfer, DmaR, Edge, History
      <4>2. WordsInBurst \in Nat /\ WordsInBurst <= remaining
        BY <4>1, StepValue DEF IndInv, TypeOK, ControlTypes, TransferTypes, Sized, WordsInBurst
      <4>3. cmd'.len - remaining' \in (cmd.len - remaining)..cmd.len
        BY <4>1, <4>2
      <4> QED BY <4>1, <4>3 DEF Contract!ContractNext, Contract!Move
    <3>7. CASE DmaB(abort, b)
      <4>1. /\ Placed /\ Sized /\ busy /\ cmd' = cmd /\ busy' = busy /\ done' = done
            /\ err' \in {err, TRUE}
            /\ remaining' \in {remaining, remaining - WordsInBurst}
            /\ cmd.len \in Nat /\ remaining \in Nat
        BY <3>3, <3>7 DEF IndInv, TypeOK, ControlTypes, TransferTypes, BusTypes, DescType,
                          Handshake, XferStates, Transfer, DmaB, Edge, History
      <4>2. WordsInBurst \in Nat /\ WordsInBurst <= remaining
        BY <4>1, StepValue DEF IndInv, TypeOK, ControlTypes, TransferTypes, Sized, WordsInBurst
      <4>3. cmd'.len - remaining' \in (cmd.len - remaining)..cmd.len
        BY <4>1, <4>2
      <4> QED BY <4>1, <4>3 DEF Contract!ContractNext, Contract!Move
    <3>8. CASE DmaDone(abort)
      <4>1. /\ busy /\ busy' = FALSE /\ cmd' = cmd /\ remaining' = remaining /\ err' = err
            /\ done' = (done_ok /\ ~abort) /\ done_ok \in BOOLEAN /\ err \in BOOLEAN
            /\ abort \in BOOLEAN /\ cmd.len \in Nat
        BY <3>3, <3>8 DEF IndInv, TypeOK, ControlTypes, BusTypes, DescType,
                          Handshake, XferStates, DmaDone, Edge, History
      <4>2. done' => (cmd.len - remaining = cmd.len \/ err)
        BY <3>8, <4>1 DEF IndInv, Transfer, Whole, DmaDone
      <4>3. done' \in {FALSE} \cup {cmd.len - remaining = cmd.len \/ err}
        BY <4>1, <4>2
      <4> QED BY <4>1, <4>3 DEF Contract!ContractNext, Contract!End
    <3>9. CASE \/ DmaIdleStrip(abort, k.go, k.ss, k.c) \/ DmaIdleStay(abort, k.go, k.ss)
               \/ DmaArDrop(abort) \/ DmaAr(abort, ready) \/ DmaRWait(r)
               \/ DmaAwDrop(abort) \/ DmaAw(abort, ready) \/ DmaW(ready) \/ DmaBWait(b)
               \/ DmaStripArDrop(abort) \/ DmaStripAr(abort, ready) \/ DmaStripR(abort, r)
               \/ DmaStripRWait(r) \/ DmaStripDone(abort)
      <4>1. UNCHANGED <<busy, done, err, remaining>>
        BY <3>9 DEF DmaIdleStrip, DmaIdleStay, DmaArDrop, DmaAr, DmaRWait, DmaAwDrop, DmaAw,
           DmaW, DmaBWait, DmaStripArDrop, DmaStripAr, DmaStripR, DmaStripRWait,
           DmaStripDone, flags, xfer
      <4>2. ~(k.go /\ dma_st = "IDLE" /\ ~abort)
        BY <3>9 DEF DmaIdleStrip, DmaIdleStay, DmaArDrop, DmaAr, DmaRWait, DmaAwDrop, DmaAw,
           DmaW, DmaBWait, DmaStripArDrop, DmaStripAr, DmaStripR, DmaStripRWait, DmaStripDone
      <4>3. cmd' = cmd
        BY <3>3, <4>2 DEF Edge, History
      <4> QED BY <4>1, <4>3
    <3> QED BY <3>2, <3>4, <3>5, <3>6, <3>7, <3>8, <3>9 DEF DmaClk, DmaIdle, DmaRead, DmaWrite, DmaStrip
  <2> QED BY <2>1, <2>2
<1> QED BY Inductive, <1>1, <1>2, PTL DEF Spec, ImplementsContract, Contract!ContractSpec
=============================================================================
