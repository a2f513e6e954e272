---------------------------- MODULE CmdQueue_proofs ----------------------------
(***************************************************************************)
(* The command queue for every ring size, batch size, list of descriptors  *)
(* and bound on the faults: the queue on its clock implements the ring of  *)
(* CqRing, its flags are true, and it stands still while an error is up.   *)
(* Each descriptor is executed once and in order, the cause on record      *)
(* names the descriptor at CQ_HEAD, and the program that sleeps passes     *)
(* honestly.                                                               *)
(*                                                                         *)
(* The argument.  A clock edge is three independent moves, of the host,    *)
(* the firmware and the fetch, and a change of the registers; EdgesHold    *)
(* says once what each of them can be, and the rest never looks at Clock   *)
(* again.  What could go wrong is that the firmware takes the end of one   *)
(* fetch for that of another: DMA_STATUS is one register, and a stop or a  *)
(* soft reset of the core leaves a fetch running.  QInv excludes it:       *)
(* Fetching ties the fetch to the batch (its source, its length, the       *)
(* number copied) or to the reason why it is not that batch's; Running and *)
(* Stopping say why no core is started meanwhile. With it every edge maps  *)
(* to a step of the ring, and what CqRing_proofs proves of the ring is     *)
(* true of the registers.                                                  *)
(*                                                                         *)
(* The second half, from RingFacts on, is about faults.  The firmware      *)
(* executes a copy, so the copies must equal their slots (Faithful),       *)
(* although the host writes slots all the time; it repairs only the slot   *)
(* at CQ_HEAD and only while no core runs (Traces).  A fault on record     *)
(* must still be that of the slot at CQ_HEAD when the host reads it        *)
(* (Named), and that slot must not have been executed: only an abort       *)
(* leaves one executed and not retired (Settled).  The program that sleeps *)
(* judges by two status words read at different times; they agree because  *)
(* after the last descriptor nothing more can happen (Finishing).          *)
(***************************************************************************)
EXTENDS CmdQueue, TLAPS

-----------------------------------------------------------------------------
(* What the two programs write.                                             *)

\* The faults of the firmware.
LEMMA FaultSet == Faults = {"opcode", "rsvd", "dma", "align", "param"}
BY DEF Faults, CauseOf

\* The next access of the firmware, state by state.
LEMMA FwTable ==
    /\ FwNext("off") = "boot" /\ FwNext("boot") \in {"base", "off_mbox"}
    /\ FwNext("base") \in {"loop", "align"}
    /\ FwNext("loop") = IF cq.head = cq.tail THEN "loop" ELSE "busy"
    /\ FwNext("busy") = "desc" /\ FwNext("desc") = "dgo" /\ FwNext("dgo") = "dret"
    /\ FwNext("dret") = "dwait"
    /\ FwNext("dwait") = IF dma.err THEN "dma" ELSE IF dma.done THEN "exec" ELSE "dwait"
    /\ FwNext("exec") = IF Cur.kind # "ok" THEN Cur.kind ELSE AfterExec(Cur)
    /\ FwNext("drain") = IF dma.err THEN "dma" ELSE IF dma.busy THEN "drain" ELSE AfterDrain(Cur)
    /\ FwNext("irq") = "head"
    /\ FwNext("head") = IF Cur.last THEN "idle" ELSE AfterHead(bi + 1)
    /\ FwNext("idle") = "mbox" /\ FwNext("mbox") = AfterHead(bi)
    /\ FwNext("off_mbox") = "halt" /\ FwNext("halt") = "halt"
    /\ \A pc \in Faults : FwNext(pc) = "halt"
<1> USE FaultSet
<1>1. FwNext("boot") \in {"base", "off_mbox"} /\ FwNext("base") \in {"loop", "align"}
  BY DEF FwNext
<1> QED BY <1>1 DEF FwNext, AfterHalt

\* What the firmware writes.
LEMMA CoreWrites ==
    ASSUME NEW m
    PROVE  /\ CoreWrite(m).reg = "ERR_CAUSE" <=> m \in Faults
           /\ m \in Faults => CoreWrite(m).val = CauseOf[m]
           /\ CoreWrite(m).reg = "CQ_HEAD" <=> m = "head"
           /\ m = "head" => CoreWrite(m).val = HeadAfter
           /\ CoreWrite(m).reg = "DMA_DESC" <=> m = "desc"
           /\ m = "desc" => CoreWrite(m).val = [src |-> cq.head, dst |-> 0, len |-> n]
           /\ CoreWrite(m).reg = "DMA_GO" <=> m = "dgo"
<1> USE FaultSet DEF Write, Event, NoWrite
<1>1. CASE m \in Faults
  BY <1>1 DEF CoreWrite
<1>2. CASE m \in {"busy", "irq", "idle"}
  BY <1>2 DEF CoreWrite
<1>3. CASE m = "desc"
  BY <1>3 DEF CoreWrite
<1>4. CASE m = "dgo"
  BY <1>4 DEF CoreWrite
<1>5. CASE m = "head"
  BY <1>5 DEF CoreWrite
<1>6. CASE m \notin Faults \cup {"busy", "irq", "idle", "desc", "dgo", "head"}
  BY <1>6 DEF CoreWrite
<1> QED BY <1>1, <1>2, <1>3, <1>4, <1>5, <1>6

\* What the host writes.
LEMMA HostWrites ==
    ASSUME NEW h
    PROVE  /\ HostWrite(h).reg = "CQ_CTRL" <=> h \in {"enable", "disable"}
           /\ h = "enable" => HostWrite(h).val = TRUE
           /\ h = "disable" => HostWrite(h).val = FALSE
           /\ CtrlWrite(HostWrite(h)) <=> h \in {"start", "stop", "soft", "clear1", "clear2"}
           /\ h \in {"start", "stop", "soft", "clear1", "clear2"} =>
                 /\ HostWrite(h).val.start = (h = "start")
                 /\ HostWrite(h).val.soft = (h = "soft") /\ HostWrite(h).val.hard = FALSE
           /\ HostWrite(h).reg = "CQ_TAIL" <=> h = "tail"
           /\ h = "tail" => HostWrite(h).val = Slot(put)
           /\ HostWrite(h).reg \notin {"DMA_GO", "DMA_DESC"}
<1> USE DEF Write, Ctrl, NoWrite, CtrlWrite
<1>1. CASE h \in {"enable", "disable"}
  BY <1>1 DEF HostWrite
<1>2. CASE h = "start"
  BY <1>2 DEF HostWrite
<1>3. CASE h = "stop"
  BY <1>3 DEF HostWrite
<1>4. CASE h = "soft"
  BY <1>4 DEF HostWrite
<1>5. CASE h \in {"clear1", "clear2"}
  BY <1>5 DEF HostWrite
<1>6. CASE h = "tail"
  BY <1>6 DEF HostWrite
<1>7. CASE h \notin {"enable", "disable", "start", "stop", "soft", "clear1", "clear2", "tail"}
  BY <1>7 DEF HostWrite
<1> QED BY <1>1, <1>2, <1>3, <1>4, <1>5, <1>6, <1>7

\* One clock edge of the registers, as far as the queue depends on them.
RegEdge(h, m) ==
    /\ cq'.head = IF m = "head" THEN HeadAfter ELSE cq.head
    /\ cq'.tail = IF h = "tail" THEN Slot(put) ELSE cq.tail
    /\ cq'.enable = IF h = "enable" THEN TRUE ELSE IF h = "disable" THEN FALSE ELSE cq.enable
    /\ ctrl'.start = IF h = "start" THEN TRUE
                     ELSE IF h \in {"stop", "soft", "clear1", "clear2"} THEN FALSE
                     ELSE ctrl.start
    /\ soft_rst' <=> h = "soft" \/ (soft_rst /\ dma.busy)
    /\ ~hard_q => ~hard_q'
    /\ dma_go' <=> m = "dgo" /\ ~soft_rst
    /\ dma_desc' = IF m = "desc" THEN [src |-> cq.head, dst |-> 0, len |-> n] ELSE dma_desc

\* The evidence of a fault.
EvidenceEdge(h, m) ==
    LET caused == m \in Faults /\ err_cause = 0
        ack    == h = "enable" /\ ~cq.enable
        latch  == soft_rst /\ ~dma.busy /\ ~hard_q
    IN  /\ cq'.err = IF caused THEN TRUE ELSE IF ack THEN FALSE ELSE cq.err \/ latch
        /\ err_cause' = IF caused THEN CauseOf[m] ELSE IF ack THEN 0
                        ELSE IF latch /\ err_cause = 0 THEN Aborted ELSE err_cause

\* Every cause the firmware reports is one.
LEMMA CausesCount == \A f \in Faults : CauseOf[f] \in {1, 2, 5, 6, 7}
BY FaultSet DEF CauseOf

\* One clock edge of the registers is what RegEdge and EvidenceEdge say of it.
LEMMA RegStep ==
    ASSUME NEW h, NEW m, NEW s, RegsClk(HostWrite(h), CoreWrite(m), ~dma.busy, s)
    PROVE  RegEdge(h, m) /\ EvidenceEdge(h, m)
<1> DEFINE hw == HostWrite(h)
           cw == CoreWrite(m)
<1>0. /\ cw.reg = "ERR_CAUSE" <=> m \in Faults
      /\ m \in Faults => cw.val = CauseOf[m]
      /\ cw.reg = "CQ_HEAD" <=> m = "head"
      /\ m = "head" => cw.val = HeadAfter
      /\ cw.reg = "DMA_DESC" <=> m = "desc"
      /\ m = "desc" => cw.val = [src |-> cq.head, dst |-> 0, len |-> n]
      /\ cw.reg = "DMA_GO" <=> m = "dgo"
  BY CoreWrites
<1>1. /\ hw.reg = "CQ_CTRL" <=> h \in {"enable", "disable"}
      /\ h = "enable" => hw.val = TRUE
      /\ h = "disable" => hw.val = FALSE
      /\ CtrlWrite(hw) <=> h \in {"start", "stop", "soft", "clear1", "clear2"}
      /\ h \in {"start", "stop", "soft", "clear1", "clear2"} =>
            /\ hw.val.start = (h = "start")
            /\ hw.val.soft = (h = "soft") /\ hw.val.hard = FALSE
      /\ hw.reg = "CQ_TAIL" <=> h = "tail"
      /\ h = "tail" => hw.val = Slot(put)
      /\ hw.reg \notin {"DMA_GO", "DMA_DESC"}
  BY HostWrites
<1>2. ResetBits(hw, ~dma.busy) /\ Evidence(hw, cw, ~dma.busy)
      /\ QueueRegs(hw, cw, ~dma.busy) /\ Pulses(hw, cw)
  BY DEF RegsClk, RegsCoreClk
<1> HIDE DEF hw, cw
<1>3. /\ SoftWrite(hw) <=> h = "soft"
      /\ ~HardWrite(hw)
      /\ Ack(hw) <=> h = "enable" /\ ~cq.enable
  BY <1>1 DEF SoftWrite, HardWrite, Ack
<1>4. CoreCause(cw) <=> m \in Faults /\ err_cause = 0
  BY <1>0, CausesCount, QueueAssumption DEF CoreCause
<1>5. Latched(~dma.busy) <=> soft_rst /\ ~dma.busy /\ ~hard_q
  BY DEF Latched, Quiesced
<1>6. EvidenceEdge(h, m)
  <2>1. /\ cq'.err = IF CoreCause(cw) THEN TRUE
                     ELSE IF Ack(hw) THEN FALSE ELSE cq.err \/ Latched(~dma.busy)
        /\ err_cause' = IF CoreCause(cw) THEN cw.val
                        ELSE IF Ack(hw) THEN NoCause
                        ELSE IF Latched(~dma.busy) /\ err_cause = NoCause THEN Aborted
                        ELSE err_cause
    BY <1>2 DEF QueueRegs, Evidence
  <2> QED BY <1>0, <1>3, <1>4, <1>5, <2>1, QueueAssumption DEF EvidenceEdge
<1>7. /\ cq'.head = IF m = "head" THEN HeadAfter ELSE cq.head
      /\ cq'.tail = IF h = "tail" THEN Slot(put) ELSE cq.tail
      /\ cq'.enable = IF h = "enable" THEN TRUE ELSE IF h = "disable" THEN FALSE ELSE cq.enable
  <2>1. /\ cq'.head = IF cw.reg = "CQ_HEAD" THEN cw.val ELSE cq.head
        /\ cq'.tail = IF hw.reg = "CQ_TAIL" THEN hw.val ELSE cq.tail
        /\ cq'.enable = IF hw.reg = "CQ_CTRL" THEN hw.val ELSE cq.enable
    BY <1>2 DEF QueueRegs
  <2> QED BY <1>0, <1>1, <2>1
<1>8. ctrl'.start = IF h = "start" THEN TRUE
                    ELSE IF h \in {"stop", "soft", "clear1", "clear2"} THEN FALSE
                    ELSE ctrl.start
  <2>1. ctrl' = IF CtrlWrite(hw)
                THEN [start |-> hw.val.start /\ ~SoftWrite(hw), irq_en |-> hw.val.irq_en]
                ELSE ctrl
    BY <1>2 DEF ResetBits
  <2> QED BY <1>1, <1>3, <2>1
<1>9. /\ soft_rst' <=> h = "soft" \/ (soft_rst /\ dma.busy)
      /\ ~hard_q => ~hard_q'
  <2>1. soft_rst' <=> SoftWrite(hw) \/ (soft_rst /\ ~~dma.busy)
    BY <1>2 DEF ResetBits
  <2>2. hard_q' <=> hard_q \/ HardWrite(hw)
    BY <1>2 DEF ResetBits
  <2> QED BY <1>3, <2>1, <2>2
<1>10. dma_go' <=> m = "dgo" /\ ~soft_rst
  <2>1. dma_go' <=> (hw.reg = "DMA_GO" \/ cw.reg = "DMA_GO") /\ ~soft_rst
    BY <1>2 DEF Pulses
  <2> QED BY <1>0, <1>1, <2>1
<1>11. dma_desc' = IF m = "desc" THEN [src |-> cq.head, dst |-> 0, len |-> n] ELSE dma_desc
  BY <1>0, <1>1, <1>2 DEF Pulses
<1> QED BY <1>6, <1>7, <1>8, <1>9, <1>10, <1>11 DEF RegEdge

-----------------------------------------------------------------------------
(* One clock edge of the fetch.                                             *)

DescRegs == [src : Nat, dst : Nat, len : Nat]
DmaType  == [busy : BOOLEAN, done : BOOLEAN, err : BOOLEAN, i : Nat, cmd : DescRegs]

Accepted == DmaAccepts /\ dma'.busy /\ ~dma'.done /\ ~dma'.err /\ dma'.i = 0
            /\ dma'.cmd = dma_desc /\ scratch' = scratch
Idled    == ~DmaAccepts /\ ~dma.busy /\ ~dma'.busy /\ dma'.i = dma.i /\ dma'.cmd = dma.cmd
            /\ (dma'.done <=> dma.done /\ ~soft_rst) /\ (dma'.err <=> dma.err /\ ~soft_rst)
            /\ scratch' = scratch
Waited   == dma.busy /\ dma' = dma /\ scratch' = scratch
Dropped  == dma.busy /\ soft_rst /\ ~dma'.busy /\ ~dma'.done /\ dma'.i = dma.i
            /\ dma'.cmd = dma.cmd /\ (dma'.err <=> dma.err) /\ scratch' = scratch
Moved(b) ==
    /\ dma.busy /\ b \in {"beat", "error"}
    /\ dma'.i = dma.i + 1 /\ dma'.cmd = dma.cmd
    /\ dma'.err <=> dma.err \/ b = "error"
    /\ dma'.busy <=> dma.i + 1 # dma.cmd.len
    /\ dma'.done <=> IF dma.i + 1 = dma.cmd.len THEN ~soft_rst ELSE dma.done
    /\ scratch' = [scratch EXCEPT ![dma.i] = IF b = "error" THEN Blank
                                             ELSE Place(dma.cmd.src + dma.i)]

\* Whatever the bus does, one edge of the fetch is one of these.
LEMMA FetchStep ==
    ASSUME dma \in DmaType, dma_desc \in DescRegs, NEW b \in Beats, Fetch(b)
    PROVE  /\ dma' \in DmaType
           /\ \/ b = "idle" /\ (Accepted \/ Idled)
              \/ b = "wait" /\ Waited
              \/ b = "drop" /\ Dropped
              \/ Moved(b)
<1>0. /\ dma.busy \in BOOLEAN /\ dma.done \in BOOLEAN /\ dma.err \in BOOLEAN /\ dma.i \in Nat
      /\ dma.cmd \in DescRegs
  BY DEF DmaType
<1>1. CASE DmaAccepts
  <2>1. ~dma.busy /\ b = "idle"
    BY <1>1 DEF DmaAccepts, Beats
  <2>2. dma' = [busy |-> TRUE, done |-> FALSE, err |-> FALSE, i |-> 0, cmd |-> dma_desc]
    BY <1>1 DEF Fetch
  <2>3. dma' \in DmaType
    BY <2>2 DEF DmaType
  <2>4. scratch' = scratch
    BY <2>1 DEF Fetch, Moves
  <2> QED BY <1>1, <2>1, <2>2, <2>3, <2>4 DEF Accepted
<1>2. CASE ~DmaAccepts
  <2> DEFINE nb == dma.busy /\ ~Ends(b)
             nd == IF Ends(b) THEN b # "drop" /\ ~soft_rst ELSE dma.done /\ (dma.busy \/ ~soft_rst)
             ne == (dma.err /\ (dma.busy \/ ~soft_rst)) \/ b = "error"
             ni == IF Moves(b) THEN dma.i + 1 ELSE dma.i
  <2>1. dma' = [dma EXCEPT !.busy = nb, !.done = nd, !.err = ne, !.i = ni]
    BY <1>2 DEF Fetch
  <2>2. nb \in BOOLEAN /\ nd \in BOOLEAN /\ ne \in BOOLEAN /\ ni \in Nat
    <3>1. nb \in BOOLEAN /\ ne \in BOOLEAN
      OBVIOUS
    <3>2. nd \in BOOLEAN
      <4>1. CASE Ends(b)
        BY <4>1
      <4>2. CASE ~Ends(b)
        BY <4>2
      <4> QED BY <4>1, <4>2
    <3>3. ni \in Nat
      BY <1>0
    <3> QED BY <3>1, <3>2, <3>3
  <2>3. /\ Moves(b) <=> b \in {"beat", "error"}
        /\ Ends(b) <=> b = "drop" \/ (Moves(b) /\ dma.i + 1 = dma.cmd.len)
        /\ scratch' = IF Moves(b)
                      THEN [scratch EXCEPT ![dma.i] = IF b = "error" THEN Blank
                                                      ELSE Place(dma.cmd.src + dma.i)]
                      ELSE scratch
    BY DEF Moves, Ends, Fetch
  <2>4. /\ ~dma.busy => b = "idle"
        /\ dma.busy => b \in {"wait", "beat", "error", "drop"}
        /\ b = "drop" => soft_rst
    BY DEF Beats
  <2> HIDE DEF nb, nd, ne, ni
  <2>5. /\ dma' \in DmaType
        /\ dma'.busy = nb /\ dma'.done = nd /\ dma'.err = ne /\ dma'.i = ni /\ dma'.cmd = dma.cmd
    BY ONLY <2>1, <2>2, dma \in DmaType DEF DmaType
  <2>6. CASE ~dma.busy
    <3>1. b = "idle" /\ ~Moves(b) /\ ~Ends(b)
      BY <2>3, <2>4, <2>6
    <3> QED BY <1>2, <2>3, <2>5, <2>6, <3>1 DEF Idled, nb, nd, ne, ni
  <2>7. CASE b = "wait" /\ dma.busy
    <3>1. ~Moves(b) /\ ~Ends(b)
      BY <2>3, <2>7
    <3>2. nb = dma.busy /\ nd = dma.done /\ ne = dma.err /\ ni = dma.i
      BY <1>0, <2>7, <3>1 DEF nb, nd, ne, ni
    <3>3. dma' = dma
      BY ONLY <2>1, <3>2, dma \in DmaType DEF DmaType
    <3> QED BY <2>3, <2>5, <2>7, <3>1, <3>3 DEF Waited
  <2>8. CASE b = "drop" /\ dma.busy
    <3>1. ~Moves(b) /\ Ends(b)
      BY <2>3, <2>8
    <3> QED BY <2>3, <2>4, <2>5, <2>8, <3>1 DEF Dropped, nb, nd, ne, ni
  <2>9. CASE b \in {"beat", "error"} /\ dma.busy
    <3>1. Moves(b) /\ (Ends(b) <=> dma.i + 1 = dma.cmd.len)
      BY <2>3, <2>9
    <3> QED BY <2>3, <2>5, <2>9, <3>1 DEF Moved, nb, nd, ne, ni
  <2> QED BY <2>4, <2>6, <2>7, <2>8, <2>9
<1> QED BY <1>1, <1>2

-----------------------------------------------------------------------------
(* One clock edge of the firmware.                                          *)

FwOff    == {"off", "boot", "base", "off_mbox", "halt"} \cup Faults
FwSetUp  == {"busy", "desc", "dgo"}
FwFetch  == {"dret", "dwait"}
FwWork   == {"exec", "drain", "irq", "head"}
FwEnd    == {"idle", "mbox"}
FwStates == FwOff \cup {"loop"} \cup FwSetUp \cup FwFetch \cup FwWork \cup FwEnd

Forgot  == n' = 0 /\ bi' = 0 /\ ~got'.own /\ got'.k = 0 /\ UNCHANGED <<hd, ran, last>>
GotKept(b) ==
    /\ DmaAccepts => (got'.own <=> n > 0) /\ got'.k = 0
    /\ ~DmaAccepts => /\ got'.own <=> got.own /\ b # "error"
                      /\ got'.k = IF b = "beat" /\ got.own THEN got.k + 1 ELSE got.k

Resets(m)  == m = "reset" /\ ~ctrl.start /\ fw' = "off" /\ Forgot
Refuses(m) ==
    /\ m = fw /\ ctrl.start /\ fw' \in Faults /\ Forgot
    /\ \/ fw = "base" /\ fw' = "align"
       \/ fw \in {"dwait", "drain"} /\ dma.err /\ fw' = "dma"
       \/ fw = "exec" /\ fw' = Cur.kind /\ Cur.kind # "ok"
Begins(m)  ==
    /\ m = fw /\ ctrl.start /\ fw = "loop" /\ fw' = "busy" /\ cq.head # cq.tail
    /\ n' = Batch /\ bi' = 0 /\ ~got'.own /\ got'.k = 0 /\ UNCHANGED <<hd, ran, last>>
Performs(m) ==
    /\ m = fw /\ ctrl.start /\ fw = "exec" /\ Cur.kind = "ok" /\ fw' \in {"drain", "irq", "head"}
    /\ last' = Cur.id /\ ran' = IF Cur.id # last THEN ran + 1 ELSE ran
    /\ UNCHANGED <<n, bi, hd>>
Retires(m) ==
    /\ m = fw /\ ctrl.start /\ fw = "head" /\ fw' \in {"idle", "exec", "loop"}
    /\ fw' = "exec" => bi + 1 < n
    /\ fw' = "loop" => ~(bi + 1 < n)
    /\ fw' = "idle" <=> Cur.last
    /\ bi' = bi + 1 /\ hd' = hd + 1 /\ UNCHANGED <<n, ran, last>>
Walks(m) ==
    /\ ctrl.start /\ UNCHANGED <<n, bi, hd, ran, last>>
    /\ \/ m = "stall" /\ fw' = fw
       \/ /\ m = fw
          /\ \/ fw = "off" /\ fw' = "boot"
             \/ fw = "boot" /\ fw' \in {"base", "off_mbox"}
             \/ fw = "base" /\ fw' = "loop"
             \/ fw \in {"off_mbox", "halt"} \cup Faults /\ fw' = "halt"
             \/ fw = "loop" /\ fw' = "loop"
             \/ fw = "busy" /\ fw' = "desc"
             \/ fw = "desc" /\ fw' = "dgo"
             \/ fw = "dgo" /\ fw' = "dret"
             \/ fw = "dret" /\ fw' = "dwait"
             \/ fw = "dwait" /\ ~dma.err /\ ~dma.done /\ fw' = "dwait"
             \/ fw = "dwait" /\ ~dma.err /\ dma.done /\ fw' = "exec"
             \/ fw = "drain" /\ ~dma.err /\ dma.busy /\ fw' = "drain"
             \/ fw = "drain" /\ ~dma.err /\ ~dma.busy /\ fw' \in {"irq", "head"}
             \/ fw = "irq" /\ fw' = "head"
             \/ fw = "idle" /\ fw' = "mbox"
             \/ fw = "mbox" /\ fw' = "exec" /\ bi < n
             \/ fw = "mbox" /\ fw' = "loop" /\ ~(bi < n)

FwEdge(m, b) ==
    \/ Resets(m)
    \/ Refuses(m)
    \/ Begins(m)
    \/ GotKept(b) /\ (Performs(m) \/ Retires(m) \/ Walks(m))

GotType == [own : BOOLEAN, k : Nat]

\* What the batch knows of its copies changes as GotKept says, or is forgotten.
LEMMA GotStep ==
    ASSUME got \in GotType, NEW m, NEW b, Copied(m, b)
    PROVE  /\ got' \in GotType
           /\ Forgets(m) \/ Takes(m) => ~got'.own /\ got'.k = 0
           /\ ~Forgets(m) /\ ~Takes(m) => GotKept(b)
<1>0. got.own \in BOOLEAN /\ got.k \in Nat
  BY DEF GotType
<1>1. CASE Forgets(m) \/ Takes(m)
  <2>1. got' = [own |-> FALSE, k |-> 0]
    BY <1>1 DEF Copied
  <2> QED BY <1>1, <2>1 DEF GotType
<1>2. CASE ~Forgets(m) /\ ~Takes(m) /\ DmaAccepts
  <2>1. got' = [own |-> n > 0, k |-> 0]
    BY <1>2 DEF Copied
  <2>2. (n > 0) \in BOOLEAN
    OBVIOUS
  <2> QED BY <1>2, <2>1, <2>2 DEF GotType, GotKept
<1>3. CASE ~Forgets(m) /\ ~Takes(m) /\ ~DmaAccepts /\ b = "error"
  <2>1. got' = [got EXCEPT !.own = FALSE]
    BY <1>3 DEF Copied
  <2> QED BY <1>0, <1>3, <2>1 DEF GotType, GotKept
<1>4. CASE ~Forgets(m) /\ ~Takes(m) /\ ~DmaAccepts /\ b = "beat" /\ got.own
  <2>1. got' = [got EXCEPT !.k = @ + 1]
    BY <1>4 DEF Copied
  <2> QED BY <1>0, <1>4, <2>1 DEF GotType, GotKept
<1>5. CASE ~Forgets(m) /\ ~Takes(m) /\ ~DmaAccepts /\ b # "error" /\ ~(b = "beat" /\ got.own)
  <2>1. got' = got
    BY <1>5 DEF Copied
  <2> QED BY <1>0, <1>5, <2>1 DEF GotType, GotKept
<1> QED BY <1>1, <1>2, <1>3, <1>4, <1>5

\* One edge of the firmware, from whatever access: it is one of the six.
LEMMA FwStepIs ==
    ASSUME fw \in FwStates, got \in GotType, 
           fw = "exec" => Cur.kind \in {"ok", "opcode", "rsvd", "param"},
           bi \in Nat, n \in Nat,
           NEW m \in FwMoves, NEW b, Firmware(m), Copied(m, b)
    PROVE  fw' \in FwStates /\ got' \in GotType /\ FwEdge(m, b)
<1> USE FaultSet DEF FwStates, FwOff, FwSetUp, FwFetch, FwWork, FwEnd
<1>1. /\ m = "reset" <=> ~ctrl.start
      /\ m \in {"reset", "stall", fw}
      /\ fw \notin {"reset", "stall"}
  BY DEF FwMoves
<1>2. /\ m = "reset" => fw' = "off"
      /\ m = "stall" => fw' = fw
      /\ m \notin {"reset", "stall"} => fw' = FwNext(m)
  BY DEF Firmware
<1>3. /\ Forgets(m) <=> m = "reset" \/ (m = fw /\ fw' \in Faults)
      /\ Takes(m) <=> m = "loop" /\ cq.head # cq.tail
      /\ Executes(m) <=> m = "exec" /\ Cur.kind = "ok"
  <2>1. Forgets(m) <=> m = "reset" \/ (m \notin {"stall", "reset"} /\ FwNext(m) \in Faults)
    BY DEF Forgets
  <2> QED BY <1>1, <1>2, <2>1 DEF Takes, Executes
<1>4. /\ n' = IF Forgets(m) THEN 0 ELSE IF Takes(m) THEN Batch ELSE n
      /\ bi' = IF Forgets(m) \/ Takes(m) THEN 0 ELSE IF m = "head" THEN bi + 1 ELSE bi
      /\ hd' = IF m = "head" THEN hd + 1 ELSE hd
      /\ last' = IF Executes(m) THEN Cur.id ELSE last
      /\ ran' = IF Executes(m) /\ Cur.id # last THEN ran + 1 ELSE ran
  BY DEF Firmware
<1>5. /\ got' \in GotType
      /\ Forgets(m) \/ Takes(m) => ~got'.own /\ got'.k = 0
      /\ ~Forgets(m) /\ ~Takes(m) => GotKept(b)
  BY GotStep
<1>6. CASE m = "reset"
  BY <1>1, <1>2, <1>3, <1>4, <1>5, <1>6 DEF FwEdge, Resets, Forgot
<1>7. CASE m = "stall"
  BY <1>1, <1>2, <1>3, <1>4, <1>5, <1>7 DEF FwEdge, Walks
<1>8. CASE m = fw /\ m \notin {"reset", "stall"}
  <2>0. ctrl.start /\ fw' = FwNext(fw)
    BY <1>1, <1>2, <1>8
  <2>1. CASE fw \in FwOff \cup FwSetUp \cup FwFetch \cup {"irq", "idle"}
    <3>1. fw' \in Faults \/ Walks(m)
      BY <1>3, <1>4, <1>8, <2>0, <2>1, FwTable DEF Walks
    <3>2. fw' \in FwStates
      BY <2>0, <2>1, FwTable
    <3>3. fw' \in Faults => Refuses(m)
      BY <1>3, <1>4, <1>5, <1>8, <2>0, <2>1, FwTable DEF Refuses, Forgot
    <3>4. ~Takes(m) /\ (Forgets(m) <=> fw' \in Faults)
      BY <1>3, <1>8, <2>0, <2>1
    <3> QED BY <1>5, <3>1, <3>2, <3>3, <3>4 DEF FwEdge
  <2>2. CASE fw = "loop"
    BY <1>3, <1>4, <1>5, <1>8, <2>0, <2>2, FwTable DEF FwEdge, Walks, Begins
  <2>3. CASE fw = "exec"
    BY <1>3, <1>4, <1>5, <1>8, <2>0, <2>3, FwTable DEF FwEdge, Performs, Refuses, Forgot, AfterExec
  <2>4. CASE fw = "drain"
    BY <1>3, <1>4, <1>5, <1>8, <2>0, <2>4, FwTable DEF FwEdge, Walks, Refuses, Forgot, AfterDrain
  <2>5. CASE fw = "head"
    BY <1>3, <1>4, <1>5, <1>8, <2>0, <2>5, FwTable DEF FwEdge, Retires, AfterHead
  <2>6. CASE fw = "mbox"
    BY <1>3, <1>4, <1>5, <1>8, <2>0, <2>6, FwTable DEF FwEdge, Walks, AfterHead
  <2> QED BY <2>1, <2>2, <2>3, <2>4, <2>5, <2>6
<1> QED BY <1>1, <1>6, <1>7, <1>8

-----------------------------------------------------------------------------
(* One clock edge of the host.                                              *)

RingHost == {"watch", "quiesce", "repair", "disable", "enable", "start"}
IrqEarly == {"prio", "plic_en", "threshold", "put", "enable", "start"}
IrqLate  == {"arm", "tail", "spin", "check", "PASS", "FAIL", "claim", "status", "cqst", "clear1",
             "compl1", "clear2", "compl2", "complx", "flag1", "flag2", "flag3", "flag4"}
HostStates == /\ prog = "ring" => host \in RingHost
              /\ prog = "irq" => host \in IrqEarly \cup IrqLate
              /\ prog \in {"ring", "irq"}

RingKept == UNCHANGED <<slots, put, pub, seen>>

Posts(h) ==
    /\ h = "put" /\ slots' = [slots EXCEPT ![Slot(put)] = Desc(put, list[put + 1])]
    /\ put' = put + 1 /\ UNCHANGED <<pub, seen>>
    /\ \/ prog = "ring" /\ host = "watch" /\ host' = "watch" /\ Room /\ put < Len(list)
       \/ /\ prog = "irq" /\ host = "put"
          /\ host' = IF put + 1 < Len(list) THEN "put" ELSE "enable"
Publishes(h) ==
    /\ h = "tail" /\ pub' = put /\ UNCHANGED <<slots, put, seen>>
    /\ \/ prog = "ring" /\ host = "watch" /\ host' = "watch"
       \/ prog = "irq" /\ host = "tail" /\ host' = "spin"
Looks(h) ==
    /\ h = "look" /\ seen' = TakenBack /\ UNCHANGED <<slots, put, pub>>
    /\ prog = "ring" /\ host = "watch" /\ host' = "watch"
Mends(h) ==
    /\ h = "repair" /\ UNCHANGED <<put, pub, seen>>
    /\ \/ slots' = [slots EXCEPT ![cq.head] = Repaired(@)]
       \/ slots' = slots
    /\ prog = "ring" /\ host = "repair" /\ host' = "disable"
Controls(h) ==
    /\ prog = "ring" /\ RingKept
    /\ \/ host = "watch" /\ h = "stop" /\ cq.err /\ host' = "repair"
       \/ host = "watch" /\ h = "soft" /\ host' = "quiesce"
       \/ host = "quiesce" /\ h = "quiesced" /\ ~soft_rst /\ host' = "disable"
       \/ host = "disable" /\ h = "disable" /\ host' = "enable"
       \/ host = "enable" /\ h = "enable" /\ host' = "start"
       \/ host = "start" /\ h = "start" /\ host' = "watch"
SetsUp(h) ==
    /\ prog = "irq" /\ RingKept /\ h = host
    /\ \/ host = "prio" /\ host' = "plic_en"
       \/ host = "plic_en" /\ host' = "threshold"
       \/ host = "threshold" /\ host' = "put"
       \/ host = "enable" /\ host' = "start"
       \/ host = "start" /\ host' = "arm"
Serves(h) ==
    /\ prog = "irq" /\ RingKept /\ host \in IrqLate /\ host' \in IrqLate
    /\ h = "trap" \/ (h = host /\ h # "tail")

HostEdge(h) ==
    \/ h = "stall" /\ host' = host /\ RingKept
    \/ Posts(h)
    \/ Publishes(h)
    \/ Looks(h)
    \/ Mends(h)
    \/ Controls(h)
    \/ SetsUp(h)
    \/ Serves(h)

\* The next access of the host, state by state.
LEMMA HostTable ==
    /\ HostNext("stall") = host
    /\ HostNext("put") = IF prog = "ring" THEN "watch"
                         ELSE IF put + 1 < Len(list) THEN "put" ELSE "enable"
    /\ HostNext("tail") = IF prog = "ring" THEN "watch" ELSE "spin"
    /\ HostNext("look") = "watch" /\ HostNext("soft") = "quiesce"
    /\ HostNext("quiesced") = "disable" /\ HostNext("stop") = "repair"
    /\ HostNext("repair") = "disable" /\ HostNext("disable") = "enable"
    /\ HostNext("enable") = "start"
    /\ HostNext("start") = IF prog = "irq" THEN "arm" ELSE "watch"
    /\ HostNext("prio") = "plic_en" /\ HostNext("plic_en") = "threshold"
    /\ HostNext("threshold") = "put" /\ HostNext("arm") = "tail"
    /\ HostNext("spin") \in {"spin", "check"} /\ HostNext("trap") = "claim"
    /\ HostNext("claim") \in {"status", "flag4", "complx"}
    /\ HostNext("status") = IF done_latch THEN "cqst" ELSE "clear2"
    /\ HostNext("cqst") = "clear1" /\ HostNext("clear1") = "compl1"
    /\ HostNext("compl1") = "flag1" /\ HostNext("clear2") = "compl2"
    /\ HostNext("compl2") = "flag2" /\ HostNext("complx") = "flag3"
    /\ \A f \in {"flag1", "flag2", "flag3", "flag4"} : HostNext(f) = "check"
    /\ HostNext("check") = Verdict /\ Verdict \in {"PASS", "FAIL"}
<1>1. Verdict \in {"PASS", "FAIL"}
  BY DEF Verdict
<1>2. HostNext("spin") \in {"spin", "check"} /\ HostNext("claim") \in {"status", "flag4", "complx"}
  BY DEF HostNext
<1>3. \A f \in {"flag1", "flag2", "flag3", "flag4"} : HostNext(f) = "check"
  BY DEF HostNext
<1> QED BY <1>1, <1>2, <1>3 DEF HostNext

\* One edge of either host program.
LEMMA HostStepIs ==
    ASSUME HostStates, NEW h \in HostMoves, Host(h)
    PROVE  HostEdge(h)
<1>1. /\ host' = HostNext(h)
      /\ slots' = IF h = "put" THEN [slots EXCEPT ![Slot(put)] = Desc(put, list[put + 1])]
                  ELSE IF Repairs(h) THEN [slots EXCEPT ![cq.head] = Repaired(@)] ELSE slots
      /\ put'  = IF h = "put" THEN put + 1 ELSE put
      /\ pub'  = IF h = "tail" THEN put ELSE pub
      /\ seen' = IF h = "look" THEN TakenBack ELSE seen
      /\ Repairs(h) => h = "repair"
  BY DEF Host, Repairs
<1>2. CASE h = "stall"
  BY <1>1, <1>2, HostTable DEF HostEdge, RingKept
<1>3. CASE h # "stall" /\ prog = "ring"
  <2>1. CASE host = "watch"
    <3>1. /\ h \in {"put", "tail", "look", "stop", "soft"}
          /\ h = "put" => Room /\ put < Len(list)
          /\ h = "stop" => cq.err
      <4>1. HostMoves = {"stall"} \cup
              {x \in {"put", "tail", "look", "stop", "soft"} :
                  \/ x = "put" /\ Room /\ put < Len(list) /\ put - pub < Ahead
                  \/ x = "tail" /\ pub < put
                  \/ x = "look"
                  \/ x = "stop" /\ cq.err
                  \/ x = "soft" /\ faults < MaxFaults}
        BY <2>1 DEF HostMoves, Armed
      <4> QED BY ONLY <1>3, <4>1, h \in HostMoves
    <3> QED BY <1>1, <1>3, <2>1, <3>1, HostTable
            DEF HostEdge, Posts, Publishes, Looks, Controls, RingKept
  <2>2. CASE host = "quiesce"
    <3>1. h = "quiesced" /\ ~soft_rst
      <4>1. HostMoves = {"stall"} \cup IF soft_rst THEN {} ELSE {"quiesced"}
        BY <2>2 DEF HostMoves, Armed
      <4> QED BY ONLY <1>3, <4>1, h \in HostMoves
    <3> QED BY <1>1, <1>3, <2>2, <3>1, HostTable DEF HostEdge, Controls, RingKept
  <2>3. CASE host \in {"repair", "disable", "enable", "start"}
    <3>1. h = host
      BY <1>3, <2>3 DEF HostMoves, Armed
    <3> QED BY <1>1, <1>3, <2>3, <3>1, HostTable DEF HostEdge, Mends, Controls, RingKept
  <2> QED BY <1>3, <2>1, <2>2, <2>3 DEF HostStates, RingHost
<1>4. CASE h # "stall" /\ prog = "irq"
  <2>1. CASE host \in IrqEarly
    <3>1. h = host
      BY <1>4, <2>1 DEF HostMoves, Armed, IrqEarly
    <3> QED BY <1>1, <1>4, <2>1, <3>1, HostTable DEF HostEdge, Posts, SetsUp, RingKept, IrqEarly
  <2>2. CASE host \in IrqLate
    <3>1. h = "trap" \/ (h = host /\ host \notin {"PASS", "FAIL"})
      BY <1>4, <2>2 DEF HostMoves, Armed, IrqLate
    <3>2. host' \in IrqLate
      BY <1>1, <1>4, <2>2, <3>1, HostTable DEF IrqLate
    <3>3. h \notin {"put", "look", "repair"}
      BY <2>2, <3>1 DEF IrqLate
    <3>4. CASE h = "tail"
      BY <1>1, <1>4, <3>1, <3>4, HostTable DEF HostEdge, Publishes
    <3>5. CASE h # "tail"
      <4>1. RingKept
        BY <1>1, <3>3, <3>5 DEF RingKept
      <4> QED BY <1>4, <2>2, <3>1, <3>2, <3>5, <4>1 DEF HostEdge, Serves
    <3> QED BY <3>4, <3>5
  <2> QED BY <1>4, <2>1, <2>2 DEF HostStates
<1> QED BY <1>2, <1>3, <1>4 DEF HostStates

-----------------------------------------------------------------------------
(* The inductive invariant.                                                 *)

RegTypes == cq.head \in 0 .. Size - 1 /\ cq.tail \in 0 .. Size - 1 /\ ~hard_q

HostTypes ==
    /\ HostStates /\ list \in Lists[prog]
    /\ put \in Nat /\ pub \in 0 .. put /\ seen \in Int
    /\ slots \in [0 .. Size - 1 -> DescType]
    /\ prog = "irq" =>
          /\ seen = 0 /\ put <= Len(list)
          /\ host \in {"prio", "plic_en", "threshold"} => put = 0
          /\ host = "put" => put < Len(list)

FwTypes ==
    /\ fw \in FwStates /\ n \in 0 .. BatchN /\ bi \in 0 .. n
    /\ scratch \in [0 .. BatchN - 1 -> DescType]
    /\ got \in GotType /\ got.k <= n
    /\ dma \in DmaType /\ dma_desc \in DescRegs
    /\ dma.i <= BatchN
    /\ dma.busy => dma.i < dma.cmd.len /\ dma.cmd.len <= BatchN

\* The core runs only while the host watches or sleeps; an abort is waited for.
Running ==
    /\ ctrl.start => ~soft_rst
    /\ ctrl.start /\ prog = "ring" => host = "watch"
    /\ ctrl.start /\ prog = "irq" => host \in IrqLate
    /\ soft_rst => prog = "ring" /\ host = "quiesce"
    /\ prog = "irq" /\ host \in IrqEarly => fw = "off" /\ ~dma.busy

\* The handler of the interrupt has stopped the core, and nobody starts it again.
Abandoned == prog = "irq" /\ ~ctrl.start /\ host \in IrqLate

\* A fetch is that of the batch, unless it fails, is aborted or abandoned: the
\* firmware never sees the end of one for another.
DescSet == dma_desc = [src |-> cq.head, dst |-> 0, len |-> n]
Fetching ==
    /\ dma_go => fw = "dret" /\ ~got.own /\ got.k = 0 /\ DescSet
    /\ fw = "dgo" => DescSet
    /\ got.own /\ dma.busy => /\ got.k = dma.i /\ dma.cmd.src = cq.head /\ dma.cmd.len = n
                              /\ fw \in FwFetch
    /\ dma.busy => got.k <= dma.i /\ ~dma.done
    /\ dma.busy /\ ~got.own => dma.err \/ soft_rst \/ Abandoned
    /\ fw \in FwFetch /\ ~got.own /\ ~dma_go => dma.err \/ ~ctrl.start
    /\ fw \in FwFetch /\ got.own => dma.busy \/ (dma.done /\ got.k = n) \/ ~ctrl.start

\* Where the firmware is in its batch.
Batching ==
    /\ fw \in FwOff => n = 0 /\ ~got.own /\ got.k = 0
    /\ fw = "loop" => bi = n
    /\ fw \in FwSetUp => ~got.own /\ got.k = 0
    /\ fw \in FwSetUp \cup FwFetch => bi = 0 /\ n > 0
    /\ fw \in FwWork \cup FwEnd => got.own /\ got.k = n
    /\ fw \in FwWork => bi < n

\* A core that is stopped has been stopped for a reason, and starts again with
\* no error on record.
Stopping ==
    /\ cq.err /\ ctrl.start => fw = "halt"
    /\ host = "watch" => ctrl.start
    /\ host \in IrqEarly \ {"start"} => ~cq.enable
    /\ host = "start" => ~cq.err /\ err_cause = 0
    /\ ctrl.start /\ fw # "halt" => err_cause = 0
    /\ ~ctrl.start /\ fw # "off" => soft_rst \/ Abandoned \/ fw = "halt"

QInv == RegTypes /\ HostTypes /\ FwTypes /\ Running /\ Fetching /\ Batching /\ Stopping

-----------------------------------------------------------------------------
(* The invariant is kept.                                                   *)

FetchEdge(b) == \/ b = "idle" /\ (Accepted \/ Idled)
                \/ b = "wait" /\ Waited
                \/ b = "drop" /\ Dropped
                \/ Moved(b)

Edges(h, m, b) == /\ RegEdge(h, m) /\ EvidenceEdge(h, m)
                  /\ HostEdge(h) /\ FwEdge(m, b) /\ FetchEdge(b)
                  /\ fw' \in FwStates /\ got' \in GotType /\ dma' \in DmaType
                  /\ UNCHANGED <<prog, list>>

\* A blank descriptor is one.
LEMMA BlankType == Blank \in DescType /\ Blank.id = -1
BY DEF Blank, DescType

\* A clock edge in the terms of the lemmas above: all that the rest needs of Clock.
LEMMA EdgesHold ==
    ASSUME QInv, NEW h \in HostMoves, NEW m \in FwMoves, NEW b \in Beats, Clock(h, m, b)
    PROVE  Edges(h, m, b)
<1>1. RegEdge(h, m) /\ EvidenceEdge(h, m)
  BY RegStep DEF Clock
<1>2. HostEdge(h)
  BY HostStepIs DEF Clock, QInv, HostTypes
<1>3. dma' \in DmaType /\ FetchEdge(b)
  BY FetchStep DEF Clock, QInv, FwTypes, FetchEdge
<1>4. fw' \in FwStates /\ got' \in GotType /\ FwEdge(m, b)
  <2>1. bi \in Nat /\ n \in Nat
    BY RingAssumption DEF QInv, FwTypes
  <2>2. fw = "exec" => Cur.kind \in {"ok", "opcode", "rsvd", "param"}
    <3> SUFFICES ASSUME fw = "exec" PROVE Cur.kind \in {"ok", "opcode", "rsvd", "param"}
      OBVIOUS
    <3>1. bi \in 0 .. BatchN - 1
      BY <2>1, RingAssumption DEF QInv, FwTypes, Batching, FwWork
    <3>2. scratch[bi] \in DescType
      BY <3>1 DEF QInv, FwTypes
    <3> QED BY <3>2 DEF Cur, DescType
  <2> QED BY <2>1, <2>2, FwStepIs DEF Clock, QInv, FwTypes
<1>5. UNCHANGED <<prog, list>>
  BY DEF Clock, Host
<1> QED BY <1>1, <1>2, <1>3, <1>4, <1>5 DEF Edges

\* The two ring registers stay below the size.
LEMMA RegTypesStep ==
    ASSUME QInv, NEW h, NEW m, NEW b, Edges(h, m, b)
    PROVE  RegTypes'
<1>1. \A x \in Int : x % Size \in 0 .. Size - 1
  BY RingAssumption
<1>2. cq.head + 1 \in Int /\ put \in Int
  BY DEF QInv, RegTypes, HostTypes
<1>3. HeadAfter \in 0 .. Size - 1 /\ Slot(put) \in 0 .. Size - 1
  BY <1>1, <1>2 DEF HeadAfter, Slot
<1> QED BY <1>3 DEF Edges, RegEdge, QInv, RegTypes

\* The lists are lists of descriptors.
LEMMA ListTypes ==
    ASSUME prog \in {"ring", "irq"}, list \in Lists[prog]
    PROVE  /\ Len(list) \in Nat /\ \A i \in 1 .. Len(list) : list[i] \in DescType
           /\ prog = "irq" => Len(list) \in 1 .. Size - 1
<1>1. list \in Seq(DescType)
  BY QueueAssumption
<1>2. prog = "irq" => list \in Lists.irq
  OBVIOUS
<1> QED BY <1>1, <1>2, QueueAssumption

\* The host's counters and the slots keep their types.
LEMMA HostTypesStep ==
    ASSUME QInv, NEW h, NEW m, NEW b, Edges(h, m, b)
    PROVE  HostTypes'
<1> USE DEF RingKept
<1>1. /\ HostStates /\ list \in Lists[prog] /\ prog \in {"ring", "irq"}
      /\ put \in Nat /\ pub \in 0 .. put /\ seen \in Int
      /\ slots \in [0 .. Size - 1 -> DescType]
      /\ prog = "irq" => /\ seen = 0 /\ put <= Len(list)
                         /\ host \in {"prio", "plic_en", "threshold"} => put = 0
                         /\ host = "put" => put < Len(list)
  BY DEF QInv, HostTypes, HostStates
<1>2. prog' = prog /\ list' = list
  BY DEF Edges
<1>3. Len(list) \in Nat /\ (prog = "irq" => Len(list) \in 1 .. Size - 1)
      /\ \A i \in 1 .. Len(list) : list[i] \in DescType
  BY <1>1, ListTypes
<1>4. CASE h = "stall" /\ host' = host /\ RingKept
  BY <1>1, <1>2, <1>4 DEF HostTypes, HostStates
<1>5. CASE Posts(h)
  <2>1. put + 1 \in 1 .. Len(list)
    BY <1>1, <1>3, <1>5 DEF Posts
  <2>2. Desc(put, list[put + 1]) \in DescType
    <3>1. list[put + 1] \in DescType
      BY <1>3, <2>1
    <3> QED BY <1>1, <3>1 DEF Desc, DescType
  <2>3. slots' \in [0 .. Size - 1 -> DescType]
    BY <1>1, <1>5, <2>2 DEF Posts
  <2> QED BY <1>1, <1>2, <1>3, <1>5, <2>1, <2>3
          DEF Posts, HostTypes, HostStates, RingHost, IrqEarly, IrqLate
<1>6. CASE Publishes(h)
  BY <1>1, <1>2, <1>6 DEF Publishes, HostTypes, HostStates, RingHost, IrqLate
<1>7. CASE Looks(h)
  <2>1. TakenBack \in Int
    <3>1. cq.head - seen \in Int
      BY <1>1 DEF QInv, RegTypes
    <3>2. (cq.head - seen) % Size \in Int
      BY <3>1, RingAssumption
    <3> QED BY <1>1, <3>2 DEF TakenBack
  <2> QED BY <1>1, <1>2, <1>7, <2>1 DEF Looks, HostTypes, HostStates, RingHost
<1>8. CASE Mends(h)
  <2>1. slots' \in [0 .. Size - 1 -> DescType]
    <3>1. slots[cq.head] \in DescType
      BY <1>1 DEF QInv, RegTypes
    <3>2. Repaired(slots[cq.head]) \in DescType
      BY <3>1 DEF Repaired, DescType
    <3> QED BY <1>1, <1>8, <3>2 DEF Mends
  <2> QED BY <1>1, <1>2, <1>8, <2>1 DEF Mends, HostTypes, HostStates, RingHost
<1>9. CASE Controls(h)
  BY <1>1, <1>2, <1>9 DEF Controls, HostTypes, HostStates, RingHost
<1>10. CASE SetsUp(h)
  BY <1>1, <1>2, <1>3, <1>10 DEF SetsUp, HostTypes, HostStates, IrqEarly, IrqLate
<1>11. CASE Serves(h)
  BY <1>1, <1>2, <1>11 DEF Serves, HostTypes, HostStates, IrqEarly, IrqLate
<1> QED BY <1>4, <1>5, <1>6, <1>7, <1>8, <1>9, <1>10, <1>11 DEF Edges, HostEdge

\* The size of a batch.
LEMMA BatchSize ==
    ASSUME RegTypes, cq.head # cq.tail
    PROVE  Batch \in 1 .. BatchN
<1> DEFINE d == cq.tail - cq.head
           q == d \div Size
<1>1. d \in -(Size - 1) .. Size - 1 /\ d # 0 /\ Size - cq.head \in 1 .. Size
      /\ BatchN \in Nat \ {0} /\ Size \in Nat \ {0}
  BY RingAssumption DEF RegTypes
<1>2. d % Size \in 0 .. Size - 1 /\ d = Size * q + (d % Size) /\ q \in Int
  BY <1>1
<1>3. d % Size # 0
  <2> HIDE DEF d, q
  <2>1. q >= 1 => Size * q >= Size
    BY <1>1, <1>2
  <2>2. q <= -1 => Size * q <= -Size
    BY <1>1, <1>2
  <2>3. q = 0 => Size * q = 0
    BY <1>1, <1>2
  <2> QED BY <1>1, <1>2, <2>1, <2>2, <2>3
<1>4. Pending \in 1 .. Size - 1
  BY <1>1, <1>2, <1>3 DEF Pending
<1>5. LesserOf2(Size - cq.head, BatchN) \in 1 .. BatchN
  BY <1>1 DEF LesserOf2
<1> QED BY <1>1, <1>4, <1>5 DEF Batch, LesserOf2

\* So do the copies, and a fetch stays within them.
LEMMA FwTypesStep ==
    ASSUME QInv, NEW h, NEW m, NEW b, Edges(h, m, b)
    PROVE  FwTypes'
<1>1. /\ fw \in FwStates /\ n \in 0 .. BatchN /\ bi \in 0 .. n /\ BatchN \in Nat
      /\ scratch \in [0 .. BatchN - 1 -> DescType]
      /\ got.own \in BOOLEAN /\ got.k \in 0 .. n
      /\ dma.i \in 0 .. BatchN /\ dma.cmd.len \in Nat /\ dma.cmd \in DescRegs /\ dma_desc \in DescRegs
      /\ dma.busy => dma.i < dma.cmd.len /\ dma.cmd.len <= BatchN
  BY RingAssumption DEF QInv, FwTypes, GotType, DmaType, DescRegs
<1>2. dma_desc' \in DescRegs
  <2>1. cq.head \in Nat
    BY DEF QInv, RegTypes
  <2> QED BY <1>1, <2>1 DEF Edges, RegEdge, DescRegs
<1>3. n' \in 0 .. BatchN /\ bi' \in 0 .. n' /\ got'.k <= n'
  <2>1. got'.k \in Nat
    BY DEF Edges, GotType
  <2>2. CASE Resets(m) \/ Refuses(m)
    BY <1>1, <2>1, <2>2 DEF Resets, Refuses, Forgot
  <2>3. CASE Begins(m)
    <3>1. Batch \in 1 .. BatchN
      BY <2>3, BatchSize DEF QInv, Begins
    <3> QED BY <1>1, <2>3, <3>1 DEF Begins
  <2>4. CASE GotKept(b) /\ (Performs(m) \/ Retires(m) \/ Walks(m))
    <3>1. n' = n
      BY <2>4 DEF Performs, Retires, Walks
    <3>2. bi' \in 0 .. n
      <4>1. fw = "head" => bi < n
        BY DEF QInv, Batching, FwWork
      <4> QED BY <1>1, <2>4, <4>1 DEF Performs, Retires, Walks
    <3>3. got'.k <= n
      <4>1. got.own /\ b = "beat" => got.k + 1 <= n
        <5> SUFFICES ASSUME got.own, b = "beat" PROVE got.k + 1 <= n
          OBVIOUS
        <5>1. dma.busy
          BY DEF Edges, FetchEdge, Moved
        <5> QED BY <1>1, <5>1 DEF QInv, Fetching
      <4> QED BY <1>1, <2>4, <4>1 DEF GotKept
    <3> QED BY <1>1, <3>1, <3>2, <3>3
  <2> QED BY <2>2, <2>3, <2>4 DEF Edges, FwEdge
<1>4. /\ scratch' \in [0 .. BatchN - 1 -> DescType]
      /\ dma'.i <= BatchN
      /\ dma'.busy => dma'.i < dma'.cmd.len /\ dma'.cmd.len <= BatchN
  <2>1. CASE Accepted
    <3>1. dma_desc.len = n /\ n > 0
      BY <2>1 DEF QInv, Fetching, DescSet, Batching, Accepted, DmaAccepts, FwFetch
    <3> QED BY <1>1, <2>1, <3>1 DEF Accepted
  <2>2. CASE Idled
    BY <1>1, <2>2 DEF Idled
  <2>3. CASE Waited
    BY <1>1, <2>3 DEF Waited
  <2>4. CASE Dropped
    BY <1>1, <2>4 DEF Dropped
  <2>5. CASE Moved(b)
    <3>1. dma.i \in 0 .. BatchN - 1 /\ dma.i + 1 <= dma.cmd.len
      BY <1>1, <2>5 DEF Moved
    <3>2. Place(dma.cmd.src + dma.i) \in DescType
      <4>1. dma.cmd.src + dma.i \in Nat
        BY <1>1 DEF DescRegs
      <4>2. dma.cmd.src + dma.i < Size => slots[dma.cmd.src + dma.i] \in DescType
        BY <4>1, RingAssumption DEF QInv, HostTypes
      <4> QED BY <4>2, BlankType DEF Place
    <3>3. scratch' \in [0 .. BatchN - 1 -> DescType]
      BY <1>1, <2>5, <3>1, <3>2, BlankType DEF Moved
    <3> QED BY <1>1, <2>5, <3>1, <3>3 DEF Moved
  <2> QED BY <2>1, <2>2, <2>3, <2>4, <2>5 DEF Edges, FetchEdge
<1> QED BY <1>2, <1>3, <1>4 DEF Edges, FwTypes

\* No core is started while a reset is awaited or the host repairs.
LEMMA RunningStep ==
    ASSUME QInv, NEW h, NEW m, NEW b, Edges(h, m, b)
    PROVE  Running'
<1>1. /\ ctrl.start => ~soft_rst
      /\ ctrl.start /\ prog = "ring" => host = "watch"
      /\ ctrl.start /\ prog = "irq" => host \in IrqLate
      /\ soft_rst => prog = "ring" /\ host = "quiesce"
      /\ prog = "irq" /\ host \in IrqEarly => fw = "off" /\ ~dma.busy
      /\ HostStates
  BY DEF QInv, Running, HostTypes
<1>2. /\ ctrl'.start = IF h = "start" THEN TRUE
                       ELSE IF h \in {"stop", "soft", "clear1", "clear2"} THEN FALSE
                       ELSE ctrl.start
      /\ soft_rst' <=> h = "soft" \/ (soft_rst /\ dma.busy)
      /\ prog' = prog
  BY DEF Edges, RegEdge
<1>3. prog = "irq" /\ host' \in IrqEarly => host \in IrqEarly /\ h # "start"
  BY <1>1 DEF Edges, HostEdge, Posts, Publishes, Looks, Mends, Controls, SetsUp, Serves,
              IrqEarly, IrqLate, HostStates
<1>4. prog = "irq" /\ host \in IrqEarly => fw' = "off" /\ ~dma'.busy
  <2> SUFFICES ASSUME prog = "irq", host \in IrqEarly PROVE fw' = "off" /\ ~dma'.busy
    OBVIOUS
  <2>1. ~ctrl.start /\ fw = "off" /\ ~dma.busy
    BY <1>1 DEF IrqEarly, IrqLate
  <2>2. fw' = "off"
    BY <2>1 DEF Edges, FwEdge, Resets, Refuses, Begins, Performs, Retires, Walks
  <2>3. ~dma_go
    BY <2>1 DEF QInv, Fetching
  <2>4. ~dma'.busy
    BY <2>1, <2>3 DEF Edges, FetchEdge, Accepted, DmaAccepts, Idled, Waited, Dropped, Moved
  <2> QED BY <2>2, <2>4
<1>5. CASE prog = "ring"
  <2>1. /\ ctrl.start => host = "watch"
        /\ soft_rst => host = "quiesce"
        /\ host \in RingHost
    BY <1>1, <1>5 DEF HostStates
  <2>2. CASE h \in {"put", "tail", "look"}
    BY <1>1, <1>2, <1>5, <2>1, <2>2
       DEF Running, Edges, HostEdge, Posts, Publishes, Looks, Mends, Controls, SetsUp, Serves
  <2>3. CASE h = "stall" \/ h \notin {"put", "tail", "look"}
    BY <1>1, <1>2, <1>5, <2>1, <2>3
       DEF Running, Edges, HostEdge, Posts, Publishes, Looks, Mends, Controls, SetsUp, Serves
  <2> QED BY <2>2, <2>3
<1>6. CASE prog = "irq"
  <2>1. ~soft_rst /\ (ctrl.start => host \in IrqLate) /\ host \in IrqEarly \cup IrqLate
    BY <1>1, <1>6 DEF HostStates
  <2>2. h # "soft"
    BY <1>6, <2>1 DEF Edges, HostEdge, Posts, Publishes, Looks, Mends, Controls, SetsUp, Serves,
                      IrqEarly, IrqLate
  <2>3. h = "start" => host' = "arm"
    BY <1>6, <2>1 DEF Edges, HostEdge, Posts, Publishes, Looks, Mends, Controls, SetsUp, Serves,
                      IrqEarly, IrqLate
  <2>4. host \in IrqLate => host' \in IrqLate
    BY <1>6, <2>1 DEF Edges, HostEdge, Posts, Publishes, Looks, Mends, Controls, SetsUp, Serves,
                      IrqEarly, IrqLate
  <2> QED BY <1>2, <1>3, <1>4, <1>6, <2>1, <2>2, <2>3, <2>4 DEF Running, IrqLate
<1> QED BY <1>1, <1>5, <1>6 DEF HostStates

\* A core that is abandoned stays so.
LEMMA AbandonedStays ==
    ASSUME QInv, NEW h, NEW m, NEW b, Edges(h, m, b), Abandoned
    PROVE  Abandoned'
<1>1. /\ prog = "irq" /\ ~ctrl.start /\ host \in IrqLate
      /\ ctrl'.start = IF h = "start" THEN TRUE
                       ELSE IF h \in {"stop", "soft", "clear1", "clear2"} THEN FALSE
                       ELSE ctrl.start
      /\ prog' = prog
  BY DEF Abandoned, Edges, RegEdge
<1>2. h # "start" /\ host' \in IrqLate
  BY <1>1 DEF Edges, HostEdge, Posts, Publishes, Looks, Mends, Controls, SetsUp, Serves, IrqLate
<1> QED BY <1>1, <1>2 DEF Abandoned

\* Every fetch in progress stays that of the batch, or is marked as another's.
LEMMA FetchingStep ==
    ASSUME QInv, NEW h, NEW m, NEW b, Edges(h, m, b)
    PROVE  Fetching'
<1>1. /\ dma_go => fw = "dret" /\ ~got.own /\ got.k = 0 /\ DescSet
      /\ fw = "dgo" => DescSet
      /\ got.own /\ dma.busy => /\ got.k = dma.i /\ dma.cmd.src = cq.head /\ dma.cmd.len = n
                                /\ fw \in FwFetch
      /\ dma.busy => got.k <= dma.i /\ ~dma.done
      /\ dma.busy /\ ~got.own => dma.err \/ soft_rst \/ Abandoned
      /\ fw \in FwFetch /\ ~got.own /\ ~dma_go => dma.err \/ ~ctrl.start
      /\ fw \in FwFetch /\ got.own => dma.busy \/ (dma.done /\ got.k = n) \/ ~ctrl.start
  BY DEF QInv, Fetching
<1>2. /\ fw \in FwOff => n = 0 /\ ~got.own /\ got.k = 0
      /\ fw \in FwSetUp => ~got.own /\ got.k = 0
      /\ fw \in FwSetUp \cup FwFetch => bi = 0 /\ n > 0
  BY DEF QInv, Batching
<1>3. /\ ctrl.start => ~soft_rst /\ ~Abandoned
      /\ ~ctrl.start /\ fw # "off" => soft_rst \/ Abandoned \/ fw = "halt"
      /\ Abandoned => Abandoned'
      /\ soft_rst /\ dma.busy => soft_rst'
  BY AbandonedStays DEF QInv, Running, Stopping, Abandoned, Edges, RegEdge
<1>4. /\ dma_go' <=> m = "dgo" /\ ~soft_rst
      /\ dma_desc' = IF m = "desc" THEN [src |-> cq.head, dst |-> 0, len |-> n] ELSE dma_desc
      /\ m # "head" => cq'.head = cq.head
  BY DEF Edges, RegEdge
<1>5. FwEdge(m, b) /\ FetchEdge(b)
  BY DEF Edges
<1>6. n \in Nat /\ dma.i \in Nat /\ got.k \in Nat
  BY RingAssumption DEF QInv, FwTypes, DmaType, GotType
<1>7. dma.busy => b # "idle"
  <2> SUFFICES ASSUME b = "idle" PROVE ~dma.busy
    OBVIOUS
  <2>1. Accepted \/ Idled
    BY <1>5 DEF FetchEdge, Moved
  <2> QED BY <2>1 DEF Accepted, DmaAccepts, Idled
<1> DEFINE kept == GotKept(b) /\ (Performs(m) \/ Retires(m) \/ Walks(m))
<1>8. got'.own => kept
  BY <1>5 DEF FwEdge, Resets, Refuses, Forgot, Begins
<1>9. fw' \in FwFetch \cup {"dgo"} =>
        /\ kept /\ Walks(m) /\ ctrl.start /\ fw \in FwFetch \cup {"dgo", "desc"}
        /\ n' = n /\ m # "head" /\ cq'.head = cq.head
        /\ fw' \in FwFetch => (fw = "dgo" /\ m = "dgo") \/ (fw \in FwFetch /\ m # "dgo" /\ m # "desc")
        /\ fw' = "dgo" => (fw = "desc" /\ m = "desc") \/ (fw = "dgo" /\ m = "stall")
  BY <1>4, <1>5, FaultSet DEF FwEdge, Resets, Refuses, Begins, Performs, Retires, Walks, FwFetch
<1>10. DmaAccepts => dma_go /\ ~dma.busy /\ ~soft_rst
  BY DEF DmaAccepts
<1>20. kept /\ fw \in FwFetch =>
           n' = n /\ m # "head" /\ (fw' \in FwFetch \/ (fw = "dwait" /\ dma.done))
  <2> SUFFICES ASSUME kept, fw \in FwFetch
               PROVE  n' = n /\ m # "head" /\ (fw' \in FwFetch \/ (fw = "dwait" /\ dma.done))
    OBVIOUS
  <2>1. ~Performs(m) /\ ~Retires(m)
    BY DEF FwFetch, Performs, Retires
  <2> QED BY <2>1, FaultSet DEF Walks, FwFetch
<1>11. (dma_go => fw = "dret" /\ ~got.own /\ got.k = 0 /\ DescSet)'
  <2> SUFFICES ASSUME dma_go' PROVE fw' = "dret" /\ ~got'.own /\ got'.k = 0 /\ DescSet'
    OBVIOUS
  <2>1. m = "dgo" /\ ~soft_rst
    BY <1>4
  <2>2. kept /\ fw = "dgo" /\ fw' = "dret" /\ n' = n
    <3>1. ~Resets(m) /\ ~Refuses(m) /\ ~Begins(m) /\ ~Performs(m) /\ ~Retires(m)
      BY <2>1 DEF Resets, Refuses, Begins, Performs, Retires
    <3>2. GotKept(b) /\ Walks(m)
      BY <1>5, <3>1 DEF FwEdge
    <3>3. fw = "dgo" /\ fw' = "dret" /\ n' = n
      BY <2>1, <3>2, FaultSet DEF Walks
    <3> QED BY <3>2, <3>3
  <2>3. ~got'.own /\ got'.k = 0
    BY <1>1, <1>2, <1>10, <2>2 DEF GotKept, FwSetUp
  <2> QED BY <1>1, <1>4, <2>1, <2>2, <2>3 DEF DescSet
<1>12. (fw = "dgo" => DescSet)'
  BY <1>1, <1>4, <1>9 DEF DescSet
<1>13. (got.own /\ dma.busy => /\ got.k = dma.i /\ dma.cmd.src = cq.head /\ dma.cmd.len = n
                               /\ fw \in FwFetch)'
  <2> SUFFICES ASSUME got'.own, dma'.busy
               PROVE  /\ got'.k = dma'.i /\ dma'.cmd.src = cq'.head /\ dma'.cmd.len = n'
                      /\ fw' \in FwFetch
    OBVIOUS
  <2>0. kept
    BY <1>8
  <2>1. CASE Accepted
    <3>1. DmaAccepts /\ dma'.i = 0 /\ dma'.cmd = dma_desc
      BY <2>1 DEF Accepted
    <3>2. fw = "dret" /\ DescSet
      BY <1>1, <1>10, <3>1
    <3>3. got'.k = 0
      BY <2>0, <3>1 DEF GotKept
    <3>4. n' = n /\ m # "head" /\ fw' \in FwFetch
      BY <1>20, <2>0, <3>2 DEF FwFetch
    <3> QED BY <1>4, <3>1, <3>2, <3>3, <3>4 DEF DescSet
  <2>2. CASE dma.busy /\ ~DmaAccepts
    <3>1. got.own /\ b # "error"
      BY <2>0, <2>2 DEF GotKept
    <3>2. got.k = dma.i /\ dma.cmd.src = cq.head /\ dma.cmd.len = n /\ fw \in FwFetch /\ ~dma.done
      BY <1>1, <2>2, <3>1
    <3>3. n' = n /\ m # "head" /\ fw' \in FwFetch
      BY <1>20, <2>0, <3>2
    <3>4. dma'.cmd = dma.cmd
      BY <1>5, <1>7, <2>2 DEF FetchEdge, Waited, Dropped, Moved
    <3>5. got'.k = dma'.i
      BY <1>5, <1>7, <2>0, <2>2, <3>1, <3>2 DEF FetchEdge, Waited, Dropped, Moved, GotKept
    <3> QED BY <1>4, <3>2, <3>3, <3>4, <3>5
  <2> QED BY <1>5, <1>10, <2>1, <2>2 DEF FetchEdge, Accepted, Idled, Waited, Dropped, Moved
<1>14. (dma.busy => got.k <= dma.i /\ ~dma.done)'
  <2> SUFFICES ASSUME dma'.busy PROVE got'.k <= dma'.i /\ ~dma'.done
    OBVIOUS
  <2>1. dma'.i \in Nat
    BY DEF Edges, DmaType
  <2>2. ~dma'.done
    BY <1>1, <1>5 DEF FetchEdge, Accepted, Idled, Waited, Dropped, Moved
  <2>3. CASE got'.k = 0
    BY <2>1, <2>2, <2>3
  <2>4. CASE kept
    <3>1. CASE DmaAccepts
      BY <2>1, <2>2, <2>4, <3>1 DEF GotKept
    <3>2. CASE ~DmaAccepts
      <4>1. got'.k = IF b = "beat" /\ got.own THEN got.k + 1 ELSE got.k
        BY <2>4, <3>2 DEF GotKept
      <4>2. dma.busy /\ (b = "beat" => dma'.i = dma.i + 1) /\ dma'.i >= dma.i
        BY <1>5, <1>6, <3>2 DEF FetchEdge, Accepted, Idled, Waited, Dropped, Moved
      <4> QED BY <1>1, <1>6, <2>1, <2>2, <4>1, <4>2
    <3> QED BY <3>1, <3>2
  <2> QED BY <1>5, <2>3, <2>4 DEF FwEdge, Resets, Refuses, Forgot, Begins
<1>15. (dma.busy /\ ~got.own => dma.err \/ soft_rst \/ Abandoned)'
  <2> SUFFICES ASSUME dma'.busy, ~got'.own PROVE dma'.err \/ soft_rst' \/ Abandoned'
    OBVIOUS
  <2>1. CASE Accepted
    <3>1. fw = "dret" /\ ~soft_rst /\ n > 0 /\ DmaAccepts
      BY <1>1, <1>2, <1>10, <2>1 DEF Accepted, FwFetch
    <3>2. ~kept
      BY <3>1 DEF GotKept
    <3>3. ~ctrl.start
      BY <1>5, <3>1, <3>2 DEF FwEdge, Resets, Refuses, Begins
    <3> QED BY <1>3, <3>1, <3>3
  <2>2. CASE dma.busy /\ ~DmaAccepts
    <3>1. dma.err => dma'.err
      BY <1>5, <1>7, <2>2 DEF FetchEdge, Waited, Dropped, Moved
    <3>2. CASE ~got.own
      BY <1>1, <1>3, <2>2, <3>1, <3>2
    <3>3. CASE got.own
      <4>1. fw \in FwFetch
        BY <1>1, <2>2, <3>3
      <4>2. CASE kept
        <5>1. b = "error"
          BY <2>2, <3>3, <4>2 DEF GotKept
        <5> QED BY <1>5, <5>1 DEF FetchEdge, Moved
      <4>3. CASE Resets(m)
        <5>1. ~ctrl.start /\ fw # "off" /\ fw # "halt"
          BY <4>1, <4>3 DEF Resets, FwFetch
        <5> QED BY <1>3, <2>2, <5>1
      <4>4. CASE Refuses(m)
        BY <3>1, <4>1, <4>4 DEF Refuses, FwFetch
      <4>5. ~Begins(m)
        BY <4>1 DEF Begins, FwFetch
      <4> QED BY <1>5, <4>2, <4>3, <4>4, <4>5 DEF FwEdge
    <3> QED BY <3>2, <3>3
  <2> QED BY <1>5, <1>10, <2>1, <2>2 DEF FetchEdge, Accepted, Idled, Waited, Dropped, Moved
<1>16. (fw \in FwFetch /\ ~got.own /\ ~dma_go => dma.err \/ ~ctrl.start)'
  <2> SUFFICES ASSUME fw' \in FwFetch, ~got'.own, ~dma_go' PROVE dma'.err
    OBVIOUS
  <2>1. kept /\ ctrl.start /\ ~soft_rst /\ ~Abandoned
    BY <1>3, <1>9
  <2>2. fw \in FwFetch
    BY <1>4, <1>9, <2>1
  <2>3. ~DmaAccepts
    BY <1>2, <2>1, <2>2 DEF GotKept
  <2>4. dma.err => dma'.err
    BY <1>5, <2>1, <2>3 DEF FetchEdge, Accepted, Idled, Waited, Dropped, Moved
  <2>5. CASE got.own
    <3>1. b = "error"
      BY <2>1, <2>3, <2>5 DEF GotKept
    <3> QED BY <1>5, <3>1 DEF FetchEdge, Moved
  <2>6. CASE ~got.own /\ ~dma_go
    BY <1>1, <2>1, <2>2, <2>4, <2>6
  <2>7. CASE ~got.own /\ dma_go
    <3>1. dma.busy
      BY <2>1, <2>3, <2>7 DEF DmaAccepts
    <3> QED BY <1>1, <2>1, <2>4, <2>7, <3>1
  <2> QED BY <2>5, <2>6, <2>7
<1>17. (fw \in FwFetch /\ got.own => dma.busy \/ (dma.done /\ got.k = n) \/ ~ctrl.start)'
  <2> SUFFICES ASSUME fw' \in FwFetch, got'.own PROVE dma'.busy \/ (dma'.done /\ got'.k = n')
    OBVIOUS
  <2>1. kept /\ ctrl.start /\ ~soft_rst /\ n' = n
    BY <1>3, <1>9
  <2>2. CASE DmaAccepts
    BY <1>5, <2>2 DEF FetchEdge, Accepted, Idled, Waited, DmaAccepts, Dropped, Moved
  <2>3. CASE ~DmaAccepts
    <3>1. got.own /\ b # "error"
      BY <2>1, <2>3 DEF GotKept
    <3>2. fw \in FwFetch
      BY <1>2, <1>9, <3>1 DEF FwSetUp
    <3>3. CASE dma.busy
      <4>1. got.k = dma.i /\ dma.cmd.len = n
        BY <1>1, <3>1, <3>3
      <4> QED BY <1>5, <1>7, <2>1, <2>3, <3>1, <3>3, <4>1
              DEF FetchEdge, Waited, Dropped, Moved, GotKept
    <3>4. CASE ~dma.busy
      <4>1. dma.done /\ got.k = n
        BY <1>1, <2>1, <3>1, <3>2, <3>4
      <4> QED BY <1>5, <2>1, <2>3, <3>1, <3>4, <4>1
              DEF FetchEdge, Accepted, Idled, Waited, Dropped, Moved, GotKept
    <3> QED BY <3>3, <3>4
  <2> QED BY <2>2, <2>3
<1> QED BY <1>11, <1>12, <1>13, <1>14, <1>15, <1>16, <1>17 DEF Fetching

\* The firmware works only on descriptors that its fetch has brought.
LEMMA BatchingStep ==
    ASSUME QInv, NEW h, NEW m, NEW b, Edges(h, m, b)
    PROVE  Batching'
<1>1. /\ fw \in FwOff => n = 0 /\ ~got.own /\ got.k = 0
      /\ fw = "loop" => bi = n
      /\ fw \in FwSetUp => ~got.own /\ got.k = 0
      /\ fw \in FwSetUp \cup FwFetch => bi = 0 /\ n > 0
      /\ fw \in FwWork \cup FwEnd => got.own /\ got.k = n
      /\ fw \in FwWork => bi < n
  BY DEF QInv, Batching
<1>2. /\ FwEdge(m, b) /\ FetchEdge(b) /\ fw' \in FwStates
  BY DEF Edges
<1>3. /\ n \in Nat /\ bi \in 0 .. n /\ got.k \in Nat /\ dma.i \in Nat
  BY RingAssumption DEF QInv, FwTypes, DmaType, GotType
<1>4. /\ dma_go => fw = "dret"
      /\ got.own /\ dma.busy => fw \in FwFetch
      /\ dma.busy => ~dma.done
      /\ fw \in FwFetch /\ ~got.own /\ ~dma_go => dma.err \/ ~ctrl.start
      /\ fw \in FwFetch /\ got.own => dma.busy \/ (dma.done /\ got.k = n) \/ ~ctrl.start
  BY DEF QInv, Fetching
<1>5. ~dma.busy => b = "idle"
  BY <1>2 DEF FetchEdge, Waited, Dropped, Moved
<1>6. fw # "dret" => ~DmaAccepts
  BY <1>4 DEF DmaAccepts
<1>7. CASE Resets(m)
  <2>1. fw' = "off" /\ n' = 0 /\ bi' = 0 /\ ~got'.own /\ got'.k = 0
    BY <1>7 DEF Resets, Forgot
  <2> QED BY <2>1, FaultSet DEF Batching, FwOff, FwSetUp, FwFetch, FwWork, FwEnd
<1>8. CASE Refuses(m)
  <2>1. fw' \in Faults /\ n' = 0 /\ bi' = 0 /\ ~got'.own /\ got'.k = 0
    BY <1>8 DEF Refuses, Forgot
  <2> QED BY <2>1, FaultSet DEF Batching, FwOff, FwSetUp, FwFetch, FwWork, FwEnd
<1>9. CASE Begins(m)
  <2>1. Batch \in 1 .. BatchN
    BY <1>9, BatchSize DEF QInv, Begins
  <2>2. fw' = "busy" /\ n' > 0 /\ bi' = 0 /\ ~got'.own /\ got'.k = 0
    BY <1>9, <2>1 DEF Begins
  <2> QED BY <2>2, FaultSet DEF Batching, FwOff, FwSetUp, FwFetch, FwWork, FwEnd
<1> DEFINE kept == got'.own /\ got'.k = n
\* What has been copied for a batch at work stays.
<1>10. (fw \in FwWork \cup FwEnd \/ (fw = "dwait" /\ dma.done /\ ~dma.err /\ ctrl.start))
       /\ GotKept(b) => kept
  <2> SUFFICES ASSUME fw \in FwWork \cup FwEnd \/ (fw = "dwait" /\ dma.done /\ ~dma.err /\ ctrl.start),
                      GotKept(b)
               PROVE  kept
    OBVIOUS
  <2>1. fw # "dret" /\ ~dma_go
    BY <1>4 DEF FwWork, FwEnd
  <2>2. got.own /\ got.k = n /\ ~dma.busy
    BY <1>1, <1>4 DEF FwWork, FwEnd, FwFetch
  <2> QED BY <1>5, <1>6, <2>1, <2>2 DEF GotKept
\* A batch that has not been asked for is not copied.
<1>11. fw \in FwOff \cup FwSetUp /\ GotKept(b) => ~got'.own /\ got'.k = got.k
  <2> SUFFICES ASSUME fw \in FwOff \cup FwSetUp, GotKept(b) PROVE ~got'.own /\ got'.k = got.k
    OBVIOUS
  <2>1. fw # "dret"
    BY FaultSet DEF FwOff, FwSetUp
  <2> QED BY <1>1, <1>6, <2>1 DEF GotKept
<1>12. CASE GotKept(b) /\ Performs(m)
  <2>1. fw = "exec" /\ fw' \in {"drain", "irq", "head"} /\ n' = n /\ bi' = bi
    BY <1>12 DEF Performs
  <2>2. kept /\ bi < n
    BY <1>1, <1>10, <1>12, <2>1 DEF FwWork
  <2> QED BY <2>1, <2>2, FaultSet DEF Batching, FwOff, FwSetUp, FwFetch, FwWork, FwEnd
<1>13. CASE GotKept(b) /\ Retires(m)
  <2>1. /\ fw = "head" /\ fw' \in {"idle", "exec", "loop"} /\ n' = n /\ bi' = bi + 1
        /\ fw' = "exec" => bi + 1 < n
        /\ fw' = "loop" => ~(bi + 1 < n)
    BY <1>13 DEF Retires
  <2>2. kept /\ bi < n
    BY <1>1, <1>10, <1>13, <2>1 DEF FwWork
  <2>3. fw' = "loop" => bi' = n'
    BY <1>3, <2>1, <2>2
  <2> QED BY <2>1, <2>2, <2>3, FaultSet DEF Batching, FwOff, FwSetUp, FwFetch, FwWork, FwEnd
<1>14. CASE GotKept(b) /\ Walks(m)
  <2>0. n' = n /\ bi' = bi /\ ctrl.start
    BY <1>14 DEF Walks
  <2>1. fw' \in FwOff => n' = 0 /\ ~got'.own /\ got'.k = 0
    <3> SUFFICES ASSUME fw' \in FwOff PROVE n' = 0 /\ ~got'.own /\ got'.k = 0
      OBVIOUS
    <3>1. fw \in FwOff
      BY <1>14, FaultSet DEF Walks, FwOff
    <3> QED BY <1>1, <1>11, <1>14, <2>0, <3>1
  <2>2. fw' = "loop" => bi' = n'
    <3> SUFFICES ASSUME fw' = "loop" PROVE bi = n
      BY <2>0
    <3>1. fw \in {"base", "loop"} \/ (fw = "mbox" /\ ~(bi < n))
      BY <1>14, FaultSet DEF Walks
    <3> QED BY <1>1, <1>3, <3>1 DEF FwOff
  <2>3. fw' \in FwSetUp => ~got'.own /\ got'.k = 0 /\ bi' = 0 /\ n' > 0
    <3> SUFFICES ASSUME fw' \in FwSetUp PROVE ~got'.own /\ got'.k = 0 /\ bi' = 0 /\ n' > 0
      OBVIOUS
    <3>1. fw \in FwSetUp
      BY <1>14, FaultSet DEF Walks, FwSetUp
    <3> QED BY <1>1, <1>11, <1>14, <2>0, <3>1
  <2>4. fw' \in FwFetch => bi' = 0 /\ n' > 0
    <3> SUFFICES ASSUME fw' \in FwFetch PROVE bi' = 0 /\ n' > 0
      OBVIOUS
    <3>1. fw \in FwSetUp \cup FwFetch
      BY <1>14, FaultSet DEF Walks, FwSetUp, FwFetch
    <3> QED BY <1>1, <2>0, <3>1
  <2>5. fw' \in FwWork \cup FwEnd => kept
    <3> SUFFICES ASSUME fw' \in FwWork \cup FwEnd PROVE kept
      OBVIOUS
    <3>1. fw \in FwWork \cup FwEnd \/ (fw = "dwait" /\ dma.done /\ ~dma.err)
      BY <1>14, FaultSet DEF Walks, FwWork, FwEnd
    <3> QED BY <1>10, <1>14, <2>0, <3>1
  <2>6. fw' \in FwWork => bi' < n'
    <3> SUFFICES ASSUME fw' \in FwWork PROVE bi < n
      BY <2>0
    <3>1. fw \in FwWork \/ fw = "dwait" \/ (fw = "mbox" /\ bi < n)
      BY <1>14, FaultSet DEF Walks, FwWork
    <3> QED BY <1>1, <1>3, <3>1 DEF FwFetch
  <2> QED BY <2>0, <2>1, <2>2, <2>3, <2>4, <2>5, <2>6 DEF Batching
<1> QED BY <1>2, <1>7, <1>8, <1>9, <1>12, <1>13, <1>14 DEF FwEdge

\* A core stops for a reason and starts with a clean record.
LEMMA StoppingStep ==
    ASSUME QInv, NEW h, NEW m, NEW b, Edges(h, m, b)
    PROVE  Stopping'
<1>1. /\ cq.err /\ ctrl.start => fw = "halt"
      /\ host = "watch" => ctrl.start
      /\ host \in IrqEarly \ {"start"} => ~cq.enable
      /\ host = "start" => ~cq.err /\ err_cause = 0
      /\ ctrl.start /\ fw # "halt" => err_cause = 0
      /\ ~ctrl.start /\ fw # "off" => soft_rst \/ Abandoned \/ fw = "halt"
  BY DEF QInv, Stopping
<1>2. /\ ctrl.start => ~soft_rst
      /\ ctrl.start /\ prog = "ring" => host = "watch"
      /\ ctrl.start /\ prog = "irq" => host \in IrqLate
      /\ soft_rst => prog = "ring" /\ host = "quiesce"
      /\ prog = "irq" /\ host \in IrqEarly => fw = "off" /\ ~dma.busy
  BY DEF QInv, Running
<1>3. HostStates /\ HostStates'
  BY HostTypesStep DEF QInv, HostTypes
<1>4. /\ cq'.enable = IF h = "enable" THEN TRUE ELSE IF h = "disable" THEN FALSE ELSE cq.enable
      /\ ctrl'.start = IF h = "start" THEN TRUE
                       ELSE IF h \in {"stop", "soft", "clear1", "clear2"} THEN FALSE
                       ELSE ctrl.start
      /\ soft_rst' <=> h = "soft" \/ (soft_rst /\ dma.busy)
      /\ prog' = prog
  BY DEF Edges, RegEdge
<1> DEFINE caused == m \in Faults /\ err_cause = 0
           ack    == h = "enable" /\ ~cq.enable
           latch  == soft_rst /\ ~dma.busy /\ ~hard_q
<1>5. /\ cq'.err = IF caused THEN TRUE ELSE IF ack THEN FALSE ELSE cq.err \/ latch
      /\ err_cause' = IF caused THEN CauseOf[m] ELSE IF ack THEN 0
                      ELSE IF latch /\ err_cause = 0 THEN Aborted ELSE err_cause
  BY DEF Edges, EvidenceEdge
<1>6. FwEdge(m, b) /\ HostEdge(h)
  BY DEF Edges
\* A cause is reported by a core that runs, and the core halts.
<1>7. m \in Faults => ctrl.start /\ fw = m /\ fw' = "halt"
  <2> SUFFICES ASSUME m \in Faults PROVE ctrl.start /\ fw = m /\ fw' = "halt"
    OBVIOUS
  <2>1. ~Resets(m) /\ ~Refuses(m) /\ ~Begins(m) /\ ~Performs(m) /\ ~Retires(m)
    BY FaultSet DEF Resets, Refuses, Begins, Performs, Retires
  <2> QED BY <1>6, <2>1, FaultSet DEF FwEdge, Walks
<1>8. ~ctrl.start => m = "reset" /\ fw' = "off"
  BY <1>6 DEF FwEdge, Resets, Refuses, Begins, Performs, Retires, Walks
<1>9. ctrl.start => ~latch
  BY <1>2
<1>10. fw = "halt" /\ ctrl.start => fw' = "halt"
  BY <1>6, FaultSet DEF FwEdge, Resets, Refuses, Begins, Performs, Retires, Walks
<1>11. (cq.err /\ ctrl.start => fw = "halt")'
  <2> SUFFICES ASSUME cq'.err, ctrl'.start PROVE fw' = "halt"
    OBVIOUS
  <2>1. CASE h = "start"
    <3>1. host = "start"
      BY <1>3, <1>6, <2>1 DEF HostEdge, Posts, Publishes, Looks, Mends, Controls, SetsUp, Serves,
                              HostStates, IrqLate
    <3>2. ~cq.err /\ ~ctrl.start /\ ~soft_rst
      BY <1>1, <1>2, <1>3, <3>1 DEF HostStates, RingHost, IrqEarly, IrqLate
    <3> QED BY <1>5, <1>7, <3>2
  <2>2. CASE h # "start"
    <3>1. ctrl.start
      BY <1>4, <2>2
    <3> QED BY <1>1, <1>5, <1>7, <1>9, <1>10, <3>1
  <2> QED BY <2>1, <2>2
<1>12. (host = "watch" => ctrl.start)'
  <2> SUFFICES ASSUME host' = "watch" PROVE ctrl'.start
    OBVIOUS
  <2>1. prog = "ring"
    BY <1>3, <1>4 DEF HostStates, IrqEarly, IrqLate
  <2>2. (host = "watch" /\ h \in {"stall", "put", "tail", "look"}) \/ h = "start"
    BY <1>6, <2>1 DEF HostEdge, Posts, Publishes, Looks, Mends, Controls, SetsUp, Serves
  <2> QED BY <1>1, <1>4, <2>2
<1>13. (host \in IrqEarly \ {"start"} => ~cq.enable)'
  <2> SUFFICES ASSUME host' \in IrqEarly \ {"start"} PROVE ~cq'.enable
    BY DEF IrqEarly
  <2>1. h # "enable" /\ (host \in IrqEarly \ {"start"} \/ h = "disable")
    BY <1>3, <1>6
       DEF HostEdge, Posts, Publishes, Looks, Mends, Controls, SetsUp, Serves, HostStates,
           RingHost, IrqEarly, IrqLate
  <2> QED BY <1>1, <1>4, <2>1
<1>14. (host = "start" => ~cq.err /\ err_cause = 0)'
  <2> SUFFICES ASSUME host' = "start" PROVE ~cq'.err /\ err_cause' = 0
    OBVIOUS
  <2>1. (host = "start" /\ h = "stall") \/ (host = "enable" /\ h = "enable")
    BY <1>3, <1>6
       DEF HostEdge, Posts, Publishes, Looks, Mends, Controls, SetsUp, Serves, HostStates,
           RingHost, IrqEarly, IrqLate
  <2>2. ~ctrl.start /\ ~soft_rst
    BY <1>2, <1>3, <2>1 DEF HostStates, RingHost, IrqEarly, IrqLate
  <2>3. ~caused /\ ~latch
    BY <1>7, <2>2
  <2>4. CASE host = "start" /\ h = "stall"
    BY <1>1, <1>5, <2>3, <2>4
  <2>5. CASE host = "enable" /\ h = "enable"
    <3>1. ack
      BY <1>1, <2>5 DEF IrqEarly
    <3> QED BY <1>5, <2>3, <3>1
  <2> QED BY <2>1, <2>4, <2>5
<1>15. (ctrl.start /\ fw # "halt" => err_cause = 0)'
  <2> SUFFICES ASSUME ctrl'.start, fw' # "halt" PROVE err_cause' = 0
    OBVIOUS
  <2>1. ~caused
    BY <1>7
  <2>2. CASE h = "start"
    <3>1. host = "start"
      BY <1>3, <1>6, <2>2 DEF HostEdge, Posts, Publishes, Looks, Mends, Controls, SetsUp, Serves,
                              HostStates, IrqLate
    <3>2. err_cause = 0 /\ ~soft_rst
      BY <1>1, <1>2, <3>1
    <3> QED BY <1>5, <2>1, <3>2
  <2>3. CASE h # "start"
    <3>1. ctrl.start
      BY <1>4, <2>3
    <3>2. err_cause = 0
      BY <1>1, <1>10, <3>1
    <3> QED BY <1>5, <1>9, <2>1, <3>1, <3>2
  <2> QED BY <2>2, <2>3
<1>16. (~ctrl.start /\ fw # "off" => soft_rst \/ Abandoned \/ fw = "halt")'
  <2> SUFFICES ASSUME ~ctrl'.start, fw' # "off" PROVE soft_rst' \/ Abandoned' \/ fw' = "halt"
    OBVIOUS
  <2>1. ctrl.start
    BY <1>8
  <2>2. h \in {"stop", "soft", "clear1", "clear2"}
    BY <1>4, <2>1
  <2>3. CASE h = "stop"
    <3>1. cq.err
      BY <1>3, <1>6, <2>3 DEF HostEdge, Posts, Publishes, Looks, Mends, Controls, SetsUp, Serves,
                              HostStates, IrqLate, IrqEarly
    <3> QED BY <1>1, <1>10, <2>1, <3>1
  <2>4. CASE h = "soft"
    BY <1>4, <2>4
  <2>5. CASE h \in {"clear1", "clear2"}
    <3>1. prog = "irq" /\ host' \in IrqLate
      BY <1>3, <1>6, <2>5 DEF HostEdge, Posts, Publishes, Looks, Mends, Controls, SetsUp, Serves,
                              HostStates, IrqEarly
    <3> QED BY <1>4, <3>1 DEF Abandoned
  <2> QED BY <2>2, <2>3, <2>4, <2>5
<1> QED BY <1>11, <1>12, <1>13, <1>14, <1>15, <1>16 DEF Stopping

\* The invariant holds at reset.
LEMMA QInit == Init => QInv
<1> SUFFICES ASSUME Init PROVE QInv
  OBVIOUS
<1>1. /\ ctrl.start = FALSE /\ soft_rst = FALSE /\ hard_q = FALSE
      /\ cq.head = 0 /\ cq.tail = 0 /\ cq.enable = FALSE /\ cq.err = FALSE
      /\ err_cause = 0 /\ dma_desc = NoDesc /\ dma_go = FALSE
  BY QueueAssumption DEF Init, RegsInit
<1>2. /\ prog \in {"ring", "irq"} /\ list \in Lists[prog]
      /\ host = IF prog = "ring" THEN "enable" ELSE "prio"
      /\ slots = [i \in 0 .. Size - 1 |-> Blank] /\ put = 0 /\ pub = 0 /\ seen = 0
      /\ fw = "off" /\ scratch = [i \in 0 .. BatchN - 1 |-> Blank] /\ n = 0 /\ bi = 0
      /\ dma = [busy |-> FALSE, done |-> FALSE, err |-> FALSE, i |-> 0, cmd |-> NoDesc]
      /\ got = [own |-> FALSE, k |-> 0]
  BY DEF Init
<1>3. RegTypes
  BY <1>1, RingAssumption DEF RegTypes
<1>4. HostTypes
  <2>1. HostStates
    BY <1>2 DEF HostStates, RingHost, IrqEarly
  <2>2. prog = "irq" => put <= Len(list)
    BY <1>2, ListTypes
  <2> QED BY <1>2, <2>1, <2>2, BlankType DEF HostTypes
<1>5. FwTypes
  <2>1. dma \in DmaType /\ dma_desc \in DescRegs /\ got \in GotType
    BY <1>1, <1>2 DEF DmaType, DescRegs, NoDesc, GotType
  <2>2. fw \in FwStates
    BY <1>2 DEF FwStates, FwOff
  <2>3. scratch \in [0 .. BatchN - 1 -> DescType]
    BY <1>2, BlankType
  <2> QED BY <1>2, <2>1, <2>2, <2>3, RingAssumption DEF FwTypes
<1>6. Running
  BY <1>1, <1>2 DEF Running
<1>7. Fetching
  BY <1>1, <1>2 DEF Fetching, FwFetch
<1>8. Batching
  BY <1>2 DEF Batching, FwSetUp, FwFetch, FwWork, FwEnd
<1>9. Stopping
  BY <1>1, <1>2 DEF Stopping
<1> QED BY <1>3, <1>4, <1>5, <1>6, <1>7, <1>8, <1>9 DEF QInv

\* A step in which nothing moves.
LEMMA QStutter == QInv /\ UNCHANGED vars => QInv'
<1> SUFFICES ASSUME QInv, UNCHANGED vars PROVE QInv'
  OBVIOUS
<1>1. UNCHANGED <<ctrl, soft_rst, hard_q, cq, err_cause, dma_desc, dma_go>>
  BY DEF vars, regVars
<1>2. UNCHANGED <<prog, list, host, slots, put, pub, seen, fw, scratch, n, bi, dma, got>>
  BY DEF vars, queueVars
<1>3. RegTypes' /\ FwTypes'
  BY <1>1, <1>2 DEF QInv, RegTypes, FwTypes
<1>4. HostTypes'
  BY <1>1, <1>2 DEF QInv, HostTypes, HostStates
<1>5. Running' /\ Batching'
  BY <1>1, <1>2 DEF QInv, Running, Batching
<1>6. Abandoned' <=> Abandoned
  BY <1>1, <1>2 DEF Abandoned
<1>7. Fetching' /\ Stopping'
  BY <1>1, <1>2, <1>6 DEF QInv, Fetching, DescSet, Stopping
<1> QED BY <1>3, <1>4, <1>5, <1>7 DEF QInv

\* Every step keeps it.
LEMMA QNext == QInv /\ [Next]_vars => QInv'
<1> SUFFICES ASSUME QInv, [Next]_vars PROVE QInv'
  OBVIOUS
<1>1. CASE Next
  <2>1. PICK h \in HostMoves, m \in FwMoves, b \in Beats : Clock(h, m, b)
    BY <1>1 DEF Next
  <2>2. Edges(h, m, b)
    BY <2>1, EdgesHold
  <2> QED BY <2>2, RegTypesStep, HostTypesStep, FwTypesStep, RunningStep, FetchingStep,
             BatchingStep, StoppingStep DEF QInv
<1>2. CASE UNCHANGED vars
  BY <1>2, QStutter
<1> QED BY <1>1, <1>2

\* The invariant holds in every behaviour: the fetch that the firmware sees end
\* is that of the batch it asked for (DMA_GO, DMA_STATUS), through bus errors,
\* soft resets and stops of the core (cq_sequencer.c, npu_axil_regs.v).
THEOREM QueueInvariant == Spec => []QInv
<1> QED BY QInit, QNext, PTL DEF Spec

-----------------------------------------------------------------------------
(* The refinement.                                                          *)

\* What the copy of a batch is to the ring: what has arrived of it.
Copies == [i \in 0 .. BatchN - 1 |-> IF i < got.k THEN scratch[i].id ELSE -1]

\* The ring starts empty.
LEMMA RingInitially == Init => AbstractRing!RingInit
<1> SUFFICES ASSUME Init PROVE AbstractRing!RingInit
  OBVIOUS
<1>1. cq.head = 0 /\ cq.tail = 0
  BY DEF Init, RegsInit
<1>2. /\ slots = [i \in 0 .. Size - 1 |-> Blank] /\ put = 0 /\ pub = 0 /\ seen = 0
      /\ n = 0 /\ bi = 0 /\ got.k = 0 /\ ~Executing /\ hd = 0 /\ ran = 0 /\ last = -1
  BY DEF Init, Executing
<1>3. [i \in 0 .. Size - 1 |-> slots[i].id] = [i \in 0 .. Size - 1 |-> -1]
  BY <1>2, BlankType
<1>4. Copies = [i \in 0 .. BatchN - 1 |-> -1]
  BY <1>2, RingAssumption DEF Copies
<1> QED BY <1>1, <1>2, <1>3, <1>4 DEF Copies, AbstractRing!RingInit, AbstractRing!NoBatch

\* What the host does is a step of the ring's host, or nothing to the ring.
LEMMA HostMaps ==
    ASSUME QInv, NEW h, NEW m, NEW b, Edges(h, m, b)
    PROVE  AbstractRing!HostStep \/ UNCHANGED AbstractRing!hostVars
<1> DEFINE ids == [i \in 0 .. Size - 1 |-> slots[i].id]
<1> USE DEF RingKept
<1>1. /\ HostEdge(h)
      /\ cq'.tail = IF h = "tail" THEN Slot(put) ELSE cq.tail
  BY DEF Edges, RegEdge
<1>2. /\ HostStates /\ put \in Nat /\ pub \in 0 .. put /\ seen \in Int
      /\ slots \in [0 .. Size - 1 -> DescType] /\ list \in Lists[prog] /\ prog \in {"ring", "irq"}
      /\ prog = "irq" => seen = 0 /\ (host = "put" => put < Len(list))
      /\ cq.head \in 0 .. Size - 1
  BY DEF QInv, HostTypes, RegTypes, HostStates
<1>3. CASE Posts(h)
  <2>1. Len(list) \in Nat /\ (prog = "irq" => Len(list) \in 1 .. Size - 1)
        /\ \A i \in 1 .. Len(list) : list[i] \in DescType
    BY <1>2, ListTypes
  <2>2. put < Len(list) /\ put - seen < Size - 1
    BY <1>2, <1>3, <2>1, RingAssumption DEF Posts, Room
  <2>3. Desc(put, list[put + 1]).id = put
    <3>1. list[put + 1] \in DescType
      BY <1>2, <2>1, <2>2
    <3> QED BY <3>1 DEF Desc, DescType
  <2>4. slots' = [slots EXCEPT ![put % Size] = Desc(put, list[put + 1])]
        /\ put' = put + 1 /\ pub' = pub /\ seen' = seen /\ cq'.tail = cq.tail
    BY <1>1, <1>3 DEF Posts, Slot
  <2>5. ids' = [ids EXCEPT ![put % Size] = put]
    BY <1>2, <2>3, <2>4
  <2> QED BY <2>2, <2>4, <2>5 DEF AbstractRing!HostStep, AbstractRing!Put
<1>4. CASE Publishes(h)
  <2>1. cq'.tail = put % Size /\ pub' = put /\ slots' = slots /\ put' = put /\ seen' = seen
    BY <1>1, <1>4 DEF Publishes, Slot
  <2>2. pub' \in pub .. put /\ ids' = ids /\ cq'.tail = pub' % Size
    BY <1>2, <2>1
  <2> QED BY <2>1, <2>2 DEF AbstractRing!HostStep, AbstractRing!Ring
<1>5. CASE Looks(h)
  <2>1. seen' = TakenBack /\ slots' = slots /\ put' = put /\ pub' = pub /\ cq'.tail = cq.tail
    BY <1>1, <1>5 DEF Looks
  <2>2. seen' = seen + ((cq.head - seen) % Size) /\ ids' = ids
    BY <2>1 DEF TakenBack
  <2> QED BY <2>1, <2>2 DEF AbstractRing!HostStep, AbstractRing!Look
<1>6. CASE Mends(h)
  <2>1. put' = put /\ pub' = pub /\ seen' = seen /\ cq'.tail = cq.tail
    BY <1>1, <1>6 DEF Mends
  <2>2. Repaired(slots[cq.head]).id = slots[cq.head].id
    <3>1. slots[cq.head] \in DescType
      BY <1>2
    <3> QED BY <3>1 DEF Repaired, DescType
  <2>3. ids' = ids
    BY <1>2, <1>6, <2>2 DEF Mends
  <2> QED BY <2>1, <2>3 DEF AbstractRing!hostVars
<1>7. CASE RingKept /\ h # "tail"
  <2>1. ids' = ids /\ cq'.tail = cq.tail
    BY <1>1, <1>7
  <2> QED BY <1>7, <2>1 DEF AbstractRing!hostVars
<1> QED BY <1>1, <1>3, <1>4, <1>5, <1>6, <1>7 DEF HostEdge, Controls, SetsUp, Serves

\* What the firmware does is a step of the ring's firmware, or nothing to the ring.
LEMMA FwMaps ==
    ASSUME QInv, NEW h, NEW m, NEW b, Edges(h, m, b)
    PROVE  AbstractRing!FwStep \/ UNCHANGED AbstractRing!fwVars
<1>1. /\ FwEdge(m, b) /\ FetchEdge(b)
      /\ cq'.head = IF m = "head" THEN HeadAfter ELSE cq.head
  BY DEF Edges, RegEdge
<1>2. /\ n \in 0 .. BatchN /\ bi \in 0 .. n /\ BatchN \in Nat
      /\ scratch \in [0 .. BatchN - 1 -> DescType]
      /\ got.own \in BOOLEAN /\ got.k \in 0 .. n
      /\ dma.i \in 0 .. BatchN
      /\ dma.busy => dma.i < dma.cmd.len /\ dma.cmd.len <= BatchN
  BY RingAssumption DEF QInv, FwTypes, DmaType, GotType, DescRegs
<1>3. /\ dma_go => fw = "dret" /\ ~got.own /\ got.k = 0
      /\ got.own /\ dma.busy => /\ got.k = dma.i /\ dma.cmd.src = cq.head /\ dma.cmd.len = n
                                /\ fw \in FwFetch
      /\ dma.busy => got.k <= dma.i /\ ~dma.done
  BY DEF QInv, Fetching
<1>4. /\ fw = "loop" => bi = n
      /\ fw \in FwWork => bi < n /\ got.k = n
  BY DEF QInv, Batching
<1>5. CASE Resets(m) \/ Refuses(m)
  <2>1. n' = 0 /\ bi' = 0 /\ got'.k = 0 /\ hd' = hd /\ ran' = ran /\ last' = last
    BY <1>5 DEF Resets, Refuses, Forgot
  <2>2. fw' \in Faults \cup {"off"} /\ m # "head"
    BY <1>5 DEF Resets, Refuses
  <2>3. ~Executing' /\ cq'.head = cq.head
    BY <1>1, <2>2, FaultSet DEF Executing
  <2>4. Copies' = [i \in 0 .. BatchN - 1 |-> -1]
    BY <1>2, <2>1 DEF Copies
  <2> QED BY <2>1, <2>3, <2>4
          DEF Copies, AbstractRing!FwStep, AbstractRing!Drop, AbstractRing!NoBatch
<1>6. CASE Begins(m)
  <2>1. /\ n' = Batch /\ bi' = 0 /\ got'.k = 0 /\ hd' = hd /\ ran' = ran /\ last' = last
        /\ cq.head # cq.tail /\ fw = "loop" /\ fw' = "busy" /\ m # "head"
    BY <1>6 DEF Begins
  <2>2. ~Executing /\ Executing' = Executing /\ cq'.head = cq.head /\ bi = n
    BY <1>1, <1>4, <2>1 DEF Executing
  <2>3. Copies' = [i \in 0 .. BatchN - 1 |-> -1]
    BY <1>2, <2>1 DEF Copies
  <2>4. n' = AbstractRing!LesserOf2((cq.tail - cq.head) % Size,
                                    AbstractRing!LesserOf2(Size - cq.head, BatchN))
    BY <2>1 DEF Batch, Pending, LesserOf2, AbstractRing!LesserOf2
  <2> QED BY <2>1, <2>2, <2>3, <2>4
          DEF Copies, AbstractRing!FwStep, AbstractRing!Take, AbstractRing!NoBatch
<1>7. CASE GotKept(b) /\ got.own /\ b = "beat" /\ (Performs(m) \/ Retires(m) \/ Walks(m))
  <2>1. Moved(b)
    BY <1>1, <1>7 DEF FetchEdge
  <2>2. got.k = dma.i /\ dma.cmd.src = cq.head /\ dma.cmd.len = n /\ fw \in FwFetch /\ ~dma.done
    BY <1>3, <1>7, <2>1 DEF Moved
  <2>3. got.k < n /\ dma.i \in 0 .. BatchN - 1
    BY <1>2, <2>1, <2>2 DEF Moved
  <2>4. ~Performs(m) /\ ~Retires(m)
    BY <2>2 DEF Performs, Retires, FwFetch
  <2>5. Walks(m) /\ fw' \in FwFetch /\ m # "head"
    BY <1>7, <2>2, <2>4, FaultSet DEF Walks, FwFetch
  <2>6. /\ n' = n /\ bi' = bi /\ hd' = hd /\ ran' = ran /\ last' = last
        /\ Executing' = Executing /\ cq'.head = cq.head
    BY <1>1, <2>2, <2>5 DEF Walks, Executing, FwFetch
  <2>7. got'.k = got.k + 1
    <3>1. ~DmaAccepts
      BY <2>1 DEF Moved, DmaAccepts
    <3> QED BY <1>7, <3>1 DEF GotKept
  <2>8. Place(cq.head + got.k).id = IF cq.head + got.k < Size THEN slots[cq.head + got.k].id ELSE -1
    BY BlankType DEF Place
  <2>9. scratch' = [scratch EXCEPT ![got.k] = Place(cq.head + got.k)]
    BY <1>7, <2>1, <2>2 DEF Moved
  <2>10. Copies' = [Copies EXCEPT ![got.k] = Place(cq.head + got.k).id]
    <3> DEFINE p == Place(cq.head + got.k)
    <3>1. scratch' = [scratch EXCEPT ![got.k] = p] /\ got.k \in 0 .. BatchN - 1
      BY <2>2, <2>3, <2>9
    <3> HIDE DEF p
    <3>2. \A i \in 0 .. BatchN - 1 :
             (IF i < got'.k THEN scratch'[i].id ELSE -1)
                = IF i = got.k THEN p.id ELSE IF i < got.k THEN scratch[i].id ELSE -1
      BY <1>2, <2>7, <3>1
    <3>3. Copies' = [Copies EXCEPT ![got.k] = p.id]
      BY <1>2, <3>1, <3>2 DEF Copies
    <3> QED BY <3>3 DEF p
  <2>11. AbstractRing!Fetched(cq.head + got.k) = Place(cq.head + got.k).id
    <3>1. cq.head + got.k \in Nat
      BY <1>2, RingAssumption DEF QInv, RegTypes
    <3> QED BY <2>8, <3>1, RingAssumption DEF AbstractRing!Fetched
  <2> QED BY <2>3, <2>6, <2>7, <2>10, <2>11 DEF Copies, AbstractRing!FwStep, AbstractRing!Copy
<1>8. CASE GotKept(b) /\ ~(got.own /\ b = "beat") /\ (Performs(m) \/ Retires(m) \/ Walks(m))
  <2>1. got'.k = got.k
    BY <1>3, <1>8 DEF GotKept, DmaAccepts
  <2>2. \A i \in 0 .. BatchN - 1 : i < got.k => scratch'[i] = scratch[i]
    <3>1. CASE Moved(b)
      <4>1. got.k <= dma.i
        BY <1>3, <3>1 DEF Moved
      <4> QED BY <1>2, <3>1, <4>1 DEF Moved
    <3>2. CASE ~Moved(b)
      BY <1>1, <3>2 DEF FetchEdge, Accepted, Idled, Waited, Dropped
    <3> QED BY <3>1, <3>2
  <2>3. Copies' = Copies
    BY <2>1, <2>2 DEF Copies
  <2>4. CASE Performs(m)
    <3>1. /\ n' = n /\ bi' = bi /\ hd' = hd /\ last' = scratch[bi].id
          /\ ran' = IF scratch[bi].id # last THEN ran + 1 ELSE ran
          /\ ~Executing /\ Executing' /\ cq'.head = cq.head /\ bi < n /\ got.k = n
      BY <1>1, <1>4, <2>4 DEF Performs, Executing, Cur, FwWork
    <3>2. Copies[bi] = scratch[bi].id
      BY <1>2, <3>1 DEF Copies
    <3> QED BY <2>1, <2>3, <3>1, <3>2 DEF Copies, AbstractRing!FwStep, AbstractRing!Exec
  <2>5. CASE Retires(m)
    <3>1. /\ n' = n /\ bi' = bi + 1 /\ hd' = hd + 1 /\ ran' = ran /\ last' = last
          /\ Executing /\ ~Executing' /\ cq'.head = (cq.head + 1) % Size
      BY <1>1, <2>5 DEF Retires, Executing, HeadAfter
    <3> QED BY <2>1, <2>3, <3>1 DEF Copies, AbstractRing!FwStep, AbstractRing!Retire
  <2>6. CASE Walks(m)
    <3>1. n' = n /\ bi' = bi /\ hd' = hd /\ ran' = ran /\ last' = last
      BY <2>6 DEF Walks
    <3>2. Executing' = Executing /\ m # "head"
      BY <2>6, FaultSet DEF Walks, Executing
    <3>3. cq'.head = cq.head
      BY <1>1, <3>2
    <3> QED BY <2>1, <2>3, <3>1, <3>2, <3>3 DEF Copies, AbstractRing!fwVars
  <2> QED BY <1>8, <2>4, <2>5, <2>6
<1> QED BY <1>1, <1>5, <1>6, <1>7, <1>8 DEF FwEdge

\* When nothing moves the ring does not.
LEMMA RingStutter == UNCHANGED vars => UNCHANGED AbstractRing!ringVars
<1> SUFFICES ASSUME UNCHANGED vars PROVE UNCHANGED AbstractRing!ringVars
  OBVIOUS
<1>1. cq' = cq
  BY DEF vars, regVars
<1>2. UNCHANGED <<slots, put, pub, seen, fw, scratch, n, bi, got, hd, ran, last>>
  BY DEF vars, queueVars
<1>3. Executing' <=> Executing
  BY <1>2 DEF Executing
<1> QED BY <1>1, <1>2, <1>3
        DEF AbstractRing!ringVars, AbstractRing!hostVars, AbstractRing!fwVars

\* A clock edge is a step of the ring, of either side or of both, or none.
LEMMA RingStep == QInv /\ [Next]_vars => [AbstractRing!RingNext]_AbstractRing!ringVars
<1> SUFFICES ASSUME QInv, [Next]_vars
             PROVE  AbstractRing!RingNext \/ UNCHANGED AbstractRing!ringVars
  OBVIOUS
<1>1. CASE Next
  <2>1. PICK h \in HostMoves, m \in FwMoves, b \in Beats : Clock(h, m, b)
    BY <1>1 DEF Next
  <2>2. Edges(h, m, b)
    BY <2>1, EdgesHold
  <2> QED BY <2>2, HostMaps, FwMaps DEF AbstractRing!RingNext
<1>2. CASE UNCHANGED vars
  BY <1>2, RingStutter
<1> QED BY <1>1, <1>2

\* The queue on its clock (CSR writes, DMA fetch, stalls, resets, restarts)
\* implements the ring of CqRing: every edge is a step of it or none.
THEOREM QueueIsRing == Spec => ImplementsRing
<1> QED BY QueueInvariant, RingInitially, RingStep, PTL DEF Spec, ImplementsRing, AbstractRing!RingSpec

-----------------------------------------------------------------------------
(* What the ring says of the queue.                                         *)

\* The theorems of the ring, said of the queue.
Ring == INSTANCE CqRing_proofs WITH
            slots   <- [i \in 0 .. Size - 1 |-> slots[i].id],
            tail    <- cq.tail, head <- cq.head,
            scratch <- [i \in 0 .. BatchN - 1 |-> IF i < got.k THEN scratch[i].id ELSE -1],
            got     <- got.k, exd <- Executing

\* The invariant of the ring, proved in CqRing_proofs, holds of the registers:
\* CQ_HEAD and CQ_TAIL are the residues of hd and pub, and the copies are the
\* descriptors that follow hd.
THEOREM RingHolds == Spec => []Ring!IInv
<1>1. AbstractRing!RingSpec => Ring!RingSpec
  <2>1. AbstractRing!RingInit => Ring!RingInit
    BY DEF AbstractRing!RingInit, Ring!RingInit, AbstractRing!NoBatch, Ring!NoBatch
  <2>2. [AbstractRing!RingNext]_AbstractRing!ringVars => [Ring!RingNext]_Ring!ringVars
    <3>1. AbstractRing!HostStep <=> Ring!HostStep
      BY DEF AbstractRing!HostStep, Ring!HostStep, AbstractRing!Put, Ring!Put,
             AbstractRing!Ring, Ring!Ring, AbstractRing!Look, Ring!Look
    <3>2. AbstractRing!FwStep <=> Ring!FwStep
      BY DEF AbstractRing!FwStep, Ring!FwStep, AbstractRing!Take, Ring!Take,
             AbstractRing!Copy, Ring!Copy, AbstractRing!Exec, Ring!Exec,
             AbstractRing!Retire, Ring!Retire, AbstractRing!Drop, Ring!Drop,
             AbstractRing!NoBatch, Ring!NoBatch, AbstractRing!Fetched, Ring!Fetched,
             AbstractRing!LesserOf2, Ring!LesserOf2
    <3> QED BY <3>1, <3>2
            DEF AbstractRing!RingNext, Ring!RingNext, AbstractRing!ringVars, Ring!ringVars,
                AbstractRing!hostVars, Ring!hostVars, AbstractRing!fwVars, Ring!fwVars
  <2> QED BY <2>1, <2>2, PTL DEF AbstractRing!RingSpec, Ring!RingSpec
<1>2. Ring!RingSpec => []Ring!IInv
  BY Ring!RingInvariant, RingAssumption, PTL
<1> QED BY <1>1, <1>2, QueueIsRing, PTL DEF ImplementsRing

\* CQ_STATUS full and empty, which compare residues, are true of the counts.
LEMMA FlagsOfCounts == Ring!IInv => FlagsTrue
<1> SUFFICES ASSUME Ring!IInv PROVE FlagsTrue
  OBVIOUS
<1>1. /\ hd \in Int /\ pub \in Int /\ hd <= pub /\ pub - hd < Size
      /\ cq.head = hd % Size /\ cq.tail = pub % Size
  <2>1. hd \in Nat /\ pub \in Nat /\ put \in Nat /\ seen \in Nat
    BY DEF Ring!IInv, Ring!RingType
  <2>2. /\ cq.head = hd % Size /\ cq.tail = pub % Size
        /\ seen <= hd /\ hd <= pub /\ pub <= put /\ put < seen + Size
    BY DEF Ring!IInv, Ring!Counts
  <2> QED BY <2>1, <2>2, RingAssumption
<1>2. (cq.head = cq.tail) <=> (pub = hd)
  BY <1>1, Ring!SameSlot, RingAssumption
<1>3. (cq.tail + 1) % Size = (pub + 1) % Size
  BY <1>1, Ring!NextSlot, RingAssumption
<1>4. pub - hd = Size - 1 => (pub + 1) % Size = hd % Size
  <2> SUFFICES ASSUME pub - hd = Size - 1 PROVE (pub + 1) % Size = hd % Size
    OBVIOUS
  <2> DEFINE r == hd % Size
             q == hd \div Size
  <2>1. q \in Int /\ r \in 0 .. Size - 1 /\ hd = Size * q + r
    BY <1>1, Ring!Residue, RingAssumption
  <2> HIDE DEF q, r
  <2>2. pub + 1 \in Int /\ q + 1 \in Int /\ pub + 1 = Size * (q + 1) + r
    BY <1>1, <2>1, RingAssumption
  <2>3. (pub + 1) % Size = r
    BY <2>1, <2>2, Ring!ResidueOf, RingAssumption
  <2> QED BY <2>3 DEF r
<1>5. (pub + 1) % Size = hd % Size => pub - hd = Size - 1
  <2> SUFFICES ASSUME (pub + 1) % Size = hd % Size, pub + 1 - hd < Size PROVE FALSE
    BY <1>1, RingAssumption
  <2>1. pub + 1 = hd
    <3> DEFINE c == pub + 1
    <3>1. c \in Int /\ hd <= c /\ c - hd < Size /\ c % Size = hd % Size
      BY <1>1
    <3> HIDE DEF c
    <3>2. c = hd
      BY <1>1, <3>1, Ring!SameSlot, RingAssumption
    <3> QED BY <3>2 DEF c
  <2> QED BY <1>1, <2>1
<1> QED BY <1>1, <1>2, <1>3, <1>4, <1>5 DEF FlagsTrue

\* CQ_STATUS empty and full, which npu_axil_regs.v computes from residues, are
\* true exactly when nothing is published and not retired, and when Size - 1
\* descriptors are.
THEOREM FlagsAreTrue == Spec => []FlagsTrue
<1> QED BY RingHolds, FlagsOfCounts, PTL

\* While CQ_STATUS.err is up nothing is retired and nothing executed: the
\* firmware is in cq_halt or the core is stopped.
THEOREM FrozenWhileErr == Spec => FrozenOnErr
<1>1. QInv /\ [Next]_vars => [cq.err => UNCHANGED <<hd, ran, last>>]_vars
  <2> SUFFICES ASSUME QInv, Next, cq.err PROVE UNCHANGED <<hd, ran, last>>
    BY DEF vars
  <2>1. PICK h \in HostMoves, m \in FwMoves, b \in Beats : Clock(h, m, b)
    BY DEF Next
  <2>2. FwEdge(m, b)
    BY <2>1, EdgesHold DEF Edges
  <2>3. ctrl.start => fw = "halt"
    BY DEF QInv, Stopping
  <2> QED BY <2>2, <2>3 DEF FwEdge, Resets, Refuses, Forgot, Begins, Performs, Retires, Walks
<1> QED BY <1>1, QueueInvariant, PTL DEF Spec, FrozenOnErr


-----------------------------------------------------------------------------
(* The ring, in the terms of the queue.                                     *)

\* What the invariant of the ring says, count by count.
LEMMA RingFacts ==
    ASSUME QInv, Ring!IInv
    PROVE  /\ hd \in Nat /\ ran \in Nat /\ put \in Nat /\ pub \in Nat /\ seen \in Nat
           /\ seen <= hd /\ hd <= pub /\ pub <= put /\ put < seen + Size
           /\ cq.head = hd % Size /\ cq.tail = pub % Size
           /\ got.k < n => bi = 0 /\ cq.head + n <= Size
           /\ hd + (n - bi) <= pub
           /\ \A i \in bi .. got.k - 1 : scratch[i].id = hd + (i - bi)
           /\ hd <= ran /\ ran <= hd + 1 /\ ran <= pub /\ last = ran - 1
           /\ Executing => ran = hd + 1
<1>1. hd \in Nat /\ ran \in Nat /\ put \in Nat /\ pub \in Nat /\ seen \in Nat
  BY DEF Ring!IInv, Ring!RingType
<1>2. /\ cq.head = hd % Size /\ cq.tail = pub % Size
      /\ seen <= hd /\ hd <= pub /\ pub <= put /\ put < seen + Size
  BY DEF Ring!IInv, Ring!Counts
<1>3. /\ got.k < n => bi = 0 /\ cq.head + n <= Size
      /\ hd + (n - bi) <= pub
  BY DEF Ring!IInv, Ring!Batch
<1>4. /\ hd <= ran /\ ran <= hd + 1 /\ ran <= pub /\ last = ran - 1
      /\ Executing => ran = hd + 1
  BY DEF Ring!IInv, Ring!Progress
<1>5. ASSUME NEW i \in bi .. got.k - 1
      PROVE  scratch[i].id = hd + (i - bi)
  <2>1. i \in 0 .. BatchN - 1 /\ i < got.k
    BY RingAssumption DEF QInv, FwTypes, GotType
  <2>2. [j \in 0 .. BatchN - 1 |-> IF j < got.k THEN scratch[j].id ELSE -1][i] = hd + (i - bi)
    BY DEF Ring!IInv, Ring!Batch
  <2> QED BY <2>1, <2>2
<1> QED BY <1>1, <1>2, <1>3, <1>4, <1>5

-----------------------------------------------------------------------------
(* The invariant.                                                           *)

\* What an error leaves behind.
Traces ==
    /\ got.own => ~dma.err
    /\ softs \in Nat /\ (soft_rst => softs > 0)
    /\ host = "repair" => fw \in {"halt", "off"}

\* The firmware's copies are the slots they were made of.
Faithful == \A i \in bi .. got.k - 1 : scratch[i] = slots[(hd + (i - bi)) % Size]

\* A descriptor executed and not retired has no fault and, unless the firmware
\* is still at it, was cut off by an abort.
Settled ==
    ran > hd => slots[cq.head].kind = "ok" /\ (softs > 0 \/ Executing \/ Abandoned)

\* A fault that is reported, or on record, is that of the descriptor at CQ_HEAD.
Named ==
    /\ fw \in {"opcode", "rsvd", "param"} => hd < pub /\ slots[cq.head].kind = fw /\ ran = hd
    /\ fw = "halt" /\ err_cause \in {1, 2, 7} =>
          /\ hd < pub /\ ran = hd
          /\ slots[cq.head].kind \in Faults /\ CauseOf[slots[cq.head].kind] = err_cause

\* What the program that sleeps may conclude.
AtEnd == hd = Len(list) /\ fw \in {"idle", "mbox", "loop", "off"} /\ (fw = "off" => Abandoned)
Finishing ==
    prog = "irq" =>
       /\ host \in IrqLate \cup {"start"} => cq.enable
       /\ fw # "off_mbox"
       /\ \A i \in 0 .. Size - 1 : slots[i].last => slots[i].id = Len(list) - 1
       /\ fw \in FwEnd => hd = Len(list)
       /\ done_latch \/ hv.done => AtEnd
       /\ hv.done /\ host # "cqst" => (hv.err <=> cq.err)
       /\ host = "PASS" => hv.done /\ ~hv.err

Small == pending \subseteq Ids /\ err_cause \in Nat /\ hv.flag \in 0 .. 4

FaultInv == Traces /\ Faithful /\ Settled /\ Named /\ Finishing /\ Small

\* A clock edge from a state in which all of this holds.
Step(h, m, b) ==
    /\ QInv /\ QInv' /\ Ring!IInv /\ Ring!IInv' /\ FaultInv
    /\ h \in HostMoves /\ m \in FwMoves /\ b \in Beats
    /\ Clock(h, m, b) /\ Edges(h, m, b)

\* The marks that errors, resets and repairs leave stay true.
LEMMA TracesStep ==
    ASSUME NEW h, NEW m, NEW b, Step(h, m, b)
    PROVE  Traces'
<1>0. FwEdge(m, b) /\ FetchEdge(b) /\ HostEdge(h)
  BY DEF Step, Edges
<1>1. got'.own => ~dma'.err
  <2> SUFFICES ASSUME got'.own PROVE ~dma'.err
    OBVIOUS
  <2>1. GotKept(b)
    BY <1>0 DEF FwEdge, Resets, Refuses, Forgot, Begins
  <2>2. CASE DmaAccepts
    BY <1>0, <2>2 DEF FetchEdge, Accepted, Idled, Waited, DmaAccepts, Dropped, Moved
  <2>3. CASE ~DmaAccepts
    <3>1. got.own /\ b # "error" /\ ~dma.err
      BY <2>1, <2>3 DEF GotKept, Step, FaultInv, Traces
    <3> QED BY <1>0, <2>3, <3>1 DEF FetchEdge, Accepted, Idled, Waited, Dropped, Moved
  <2> QED BY <2>2, <2>3
<1>2. softs' \in Nat /\ (soft_rst' => softs' > 0)
  <2>1. softs' = IF h = "soft" THEN softs + 1 ELSE softs
    BY DEF Step, Clock, Host
  <2>2. soft_rst' <=> h = "soft" \/ (soft_rst /\ dma.busy)
    BY DEF Step, Edges, RegEdge
  <2> QED BY <2>1, <2>2 DEF Step, FaultInv, Traces
<1>3. host' = "repair" => fw' \in {"halt", "off"}
  <2> SUFFICES ASSUME host' = "repair" PROVE fw' \in {"halt", "off"}
    OBVIOUS
  <2>1. prog = "ring" /\ (host = "repair" \/ (host = "watch" /\ cq.err))
    <3>1. HostStates /\ HostStates' /\ prog' = prog
      BY DEF Step, QInv, HostTypes, Edges
    <3> QED BY <1>0, <3>1 DEF HostEdge, Posts, Publishes, Looks, Mends, Controls, SetsUp, Serves,
                              HostStates, RingHost, IrqEarly, IrqLate
  <2>2. CASE host = "repair"
    <3>1. ~ctrl.start
      BY <2>1, <2>2 DEF Step, QInv, Running
    <3> QED BY <1>0, <3>1 DEF FwEdge, Resets, Refuses, Begins, Performs, Retires, Walks
  <2>3. CASE host = "watch" /\ cq.err
    <3>1. fw = "halt"
      BY <2>3 DEF Step, QInv, Stopping
    <3> QED BY <1>0, <3>1, FaultSet DEF FwEdge, Resets, Refuses, Begins, Performs, Retires, Walks
  <2> QED BY <2>1, <2>2, <2>3
<1> QED BY <1>1, <1>2, <1>3 DEF Traces

\* The interrupt controller and the cause keep their types.
LEMMA SmallStep ==
    ASSUME NEW h, NEW m, NEW b, Step(h, m, b)
    PROVE  Small'
<1>1. pending' \subseteq Ids
  <2>1. 1 \in Ids /\ pending \subseteq Ids
    BY QueueAssumption DEF Step, FaultInv, Small
  <2>2. PlicClk(IF Irq THEN {1} ELSE {}, PlicAccess(h))
    BY DEF Step, Clock
  <2> QED BY <2>1, <2>2 DEF PlicClk
<1>2. err_cause' \in Nat
  <2>1. EvidenceEdge(h, m) /\ err_cause \in Nat
    BY DEF Step, Edges, FaultInv, Small
  <2> QED BY <2>1, CausesCount DEF EvidenceEdge, Aborted
<1>3. hv'.flag \in 0 .. 4
  <2>1. hv'.flag = IF h \in DOMAIN FlagOf THEN FlagOf[h] ELSE hv.flag
    BY DEF Step, Clock, Host
  <2>2. \A f \in DOMAIN FlagOf : FlagOf[f] \in 0 .. 4
    BY DEF FlagOf
  <2> QED BY <2>1, <2>2 DEF Step, FaultInv, Small
<1> QED BY <1>1, <1>2, <1>3 DEF Small

\* The host does not touch the slots of what is published and not retired, but
\* to repair the one at CQ_HEAD.
LEMMA SlotsKept ==
    ASSUME NEW h, NEW m, NEW b, Step(h, m, b)
    PROVE  /\ Mends(h) => /\ host = "repair" /\ fw' \in {"halt", "off"} /\ ~ctrl.start
                          /\ slots' = slots \/ slots' = [slots EXCEPT ![cq.head] = Repaired(@)]
           /\ ~Mends(h) => \A k \in hd .. pub - 1 : slots'[k % Size] = slots[k % Size]
<1>1. HostEdge(h) /\ HostStates
  BY DEF Step, Edges, QInv, HostTypes
<1>2. Mends(h) => /\ host = "repair" /\ fw' \in {"halt", "off"} /\ ~ctrl.start
                  /\ slots' = slots \/ slots' = [slots EXCEPT ![cq.head] = Repaired(@)]
  <2> SUFFICES ASSUME Mends(h)
               PROVE  /\ host = "repair" /\ fw' \in {"halt", "off"} /\ ~ctrl.start
                      /\ slots' = slots \/ slots' = [slots EXCEPT ![cq.head] = Repaired(@)]
    OBVIOUS
  <2>1. prog = "ring" /\ host = "repair"
    BY DEF Mends
  <2>2. ~ctrl.start
    BY <2>1 DEF Step, QInv, Running
  <2>3. fw' = "off"
    BY <2>2 DEF Step, Edges, FwEdge, Resets, Refuses, Begins, Performs, Retires, Walks
  <2> QED BY <2>1, <2>2, <2>3 DEF Mends
<1>3. CASE Posts(h)
  <2>1. /\ hd \in Nat /\ put \in Nat /\ pub \in Nat /\ seen \in Nat
        /\ seen <= hd /\ hd <= pub /\ pub <= put /\ put < seen + Size
    BY RingFacts DEF Step
  <2>2. slots' = [slots EXCEPT ![put % Size] = Desc(put, list[put + 1])]
    BY <1>3 DEF Posts, Slot
  <2>3. ASSUME NEW k \in hd .. pub - 1 PROVE slots'[k % Size] = slots[k % Size]
    <3>1. k \in Int /\ put \in Int /\ k <= put /\ put - k < Size /\ k # put
      BY <2>1, RingAssumption
    <3>2. put % Size # k % Size
      BY <3>1, Ring!SameSlot, RingAssumption
    <3> QED BY <2>2, <3>2 DEF Step, QInv, HostTypes
  <2> QED BY <1>3, <2>3, <1>2
<1>4. CASE slots' = slots /\ ~Mends(h)
  BY <1>4
<1> QED BY <1>1, <1>2, <1>3, <1>4 DEF HostEdge, Publishes, Looks, Controls, SetsUp, Serves, RingKept

\* The firmware's copies before the step are not overwritten in it.
LEMMA CopiesKept ==
    ASSUME NEW h, NEW m, NEW b, Step(h, m, b)
    PROVE  \A i \in 0 .. BatchN - 1 : i < got.k => scratch'[i] = scratch[i]
<1>1. /\ scratch \in [0 .. BatchN - 1 -> DescType] /\ got.k \in Nat /\ dma.i \in Nat
      /\ dma.busy => got.k <= dma.i
      /\ FetchEdge(b)
  BY DEF Step, QInv, FwTypes, Fetching, Edges, DmaType, GotType
<1>2. CASE Moved(b)
  <2>1. got.k <= dma.i
    BY <1>1, <1>2 DEF Moved
  <2> QED BY <1>1, <1>2, <2>1, RingAssumption DEF Moved
<1>3. CASE ~Moved(b)
  BY <1>1, <1>3 DEF FetchEdge, Accepted, Idled, Waited, Dropped
<1> QED BY <1>2, <1>3

\* A copy stays equal to its slot: what is copied is not written again.
LEMMA FaithfulStep ==
    ASSUME NEW h, NEW m, NEW b, Step(h, m, b)
    PROVE  Faithful'
<1>1. /\ FwEdge(m, b) /\ FetchEdge(b)
      /\ scratch \in [0 .. BatchN - 1 -> DescType] /\ BatchN \in Nat /\ Size \in Nat
      /\ n \in 0 .. BatchN /\ bi \in 0 .. n /\ got.k \in 0 .. n
      /\ got.own \in BOOLEAN /\ dma.i \in 0 .. BatchN
      /\ cq.head \in 0 .. Size - 1
  BY RingAssumption DEF Step, Edges, QInv, FwTypes, GotType, DmaType, RegTypes
<1>2. /\ hd \in Nat /\ pub \in Nat /\ cq.head = hd % Size
      /\ got.k < n => bi = 0 /\ cq.head + n <= Size
      /\ hd + (n - bi) <= pub
  BY RingFacts DEF Step
<1>3. \A i \in bi .. got.k - 1 : scratch[i] = slots[(hd + (i - bi)) % Size]
  BY DEF Step, FaultInv, Faithful
<1>4. CASE got'.k = 0
  <2>1. bi' \in Nat
    BY RingAssumption DEF Step, QInv, FwTypes
  <2> QED BY <1>4, <2>1 DEF Faithful
<1>5. CASE GotKept(b) /\ (Performs(m) \/ Retires(m) \/ Walks(m))
  <2>1. ctrl.start
    BY <1>5 DEF Performs, Retires, Walks
  <2>2. \A k \in hd .. pub - 1 : slots'[k % Size] = slots[k % Size]
    BY <2>1, SlotsKept
  <2>3. \A i \in 0 .. BatchN - 1 : i < got.k => scratch'[i] = scratch[i]
    BY CopiesKept
  <2>4. ASSUME NEW i \in bi .. got.k - 1
        PROVE  scratch'[i] = slots'[(hd + (i - bi)) % Size]
    <3> DEFINE k == hd + (i - bi)
    <3>1. k \in hd .. pub - 1 /\ i \in 0 .. BatchN - 1 /\ i < got.k
      BY <1>1, <1>2
    <3>2. scratch[i] = slots[k % Size]
      BY <1>3
    <3> HIDE DEF k
    <3>3. scratch'[i] = slots'[k % Size]
      BY <2>2, <2>3, <3>1, <3>2
    <3> QED BY <3>3 DEF k
  <2>5. CASE ~(got.own /\ b = "beat")
    <3>1. got'.k \in {0, got.k}
      BY <1>5, <2>5 DEF GotKept
    <3>2. (bi' = bi /\ hd' = hd) \/ (bi' = bi + 1 /\ hd' = hd + 1)
      BY <1>5 DEF Performs, Retires, Walks
    <3>3. ASSUME NEW i \in bi' .. got'.k - 1
          PROVE  scratch'[i] = slots'[(hd' + (i - bi')) % Size]
      <4>1. bi \in Nat /\ bi' \in Nat /\ bi <= bi' /\ got.k \in Nat
        BY <1>1, <3>2
      <4>2. i \in Int /\ bi' <= i /\ i <= got'.k - 1 /\ got'.k \in Nat
        BY <3>1, <4>1
      <4>3. got'.k = got.k
        BY <3>1, <4>1, <4>2
      <4>4. i \in bi .. got.k - 1
        BY <4>1, <4>2, <4>3
      <4>5. hd' + (i - bi') = hd + (i - bi)
        BY <1>2, <3>2, <4>1, <4>2
      <4> QED BY <2>4, <4>4, <4>5
    <3> QED BY <3>3 DEF Faithful
  <2>6. CASE got.own /\ b = "beat"
    <3>1. Moved(b)
      BY <1>1, <2>6 DEF FetchEdge
    <3>2. got.k = dma.i /\ dma.cmd.src = cq.head /\ dma.cmd.len = n /\ fw \in FwFetch
      BY <2>6, <3>1 DEF Step, QInv, Fetching, Moved
    <3>3. got.k < n
      BY <1>1, <3>1, <3>2 DEF Moved, Step, QInv, FwTypes
    <3>4. got'.k = got.k + 1
      BY <1>5, <2>6, <3>1 DEF GotKept, DmaAccepts, Moved
    <3>5. bi' = bi /\ hd' = hd /\ bi = 0
      BY <1>2, <1>5, <3>2, <3>3 DEF Performs, Retires, Walks, FwFetch
    <3>6. scratch' = [scratch EXCEPT ![got.k] = Place(cq.head + got.k)]
      BY <2>6, <3>1, <3>2 DEF Moved
    <3>7. scratch'[got.k] = slots'[(hd + got.k) % Size]
      <4>1. (hd + got.k) % Size = cq.head + got.k
        <5>1. hd \in Int /\ got.k \in Nat /\ (hd % Size) + got.k < Size
          BY <1>1, <1>2, <3>3
        <5>2. (hd + got.k) % Size = (hd % Size) + got.k
          BY <5>1, Ring!SlotAfter, RingAssumption
        <5> QED BY <1>2, <5>2
      <4>2. cq.head + got.k < Size
        BY <1>1, <1>2, <3>3
      <4>3. scratch'[got.k] = slots[(hd + got.k) % Size]
        BY <1>1, <3>3, <3>6, <4>1, <4>2 DEF Place
      <4>4. hd + got.k \in hd .. pub - 1
        BY <1>1, <1>2, <3>3, <3>5
      <4> QED BY <2>2, <4>3, <4>4
    <3>8. ASSUME NEW i \in bi' .. got'.k - 1
          PROVE  scratch'[i] = slots'[(hd' + (i - bi')) % Size]
      <4>1. CASE i = got.k
        <5>1. hd' + (i - bi') = hd + got.k
          BY <1>1, <1>2, <3>5, <4>1
        <5> QED BY <3>7, <4>1, <5>1
      <4>2. CASE i # got.k
        <5>1. i \in bi .. got.k - 1 /\ hd' + (i - bi') = hd + (i - bi)
          BY <1>1, <1>2, <3>4, <3>5, <4>2
        <5> QED BY <2>4, <5>1
      <4> QED BY <4>1, <4>2
    <3> QED BY <3>8 DEF Faithful
  <2> QED BY <2>5, <2>6
<1> QED BY <1>1, <1>4, <1>5 DEF FwEdge, Resets, Refuses, Forgot, Begins

\* The descriptor at work is the one at CQ_HEAD.
LEMMA AtWork ==
    ASSUME QInv, Ring!IInv, FaultInv, fw \in FwWork
    PROVE  Cur = slots[cq.head] /\ Cur.id = hd /\ hd < pub /\ got.own
<1>1. bi < n /\ got.k = n /\ got.own
  BY DEF QInv, Batching
<1>2. n \in Nat /\ bi \in Nat
  BY RingAssumption DEF QInv, FwTypes
<1>3. /\ hd \in Nat /\ pub \in Nat /\ cq.head = hd % Size /\ hd + (n - bi) <= pub
      /\ \A i \in bi .. got.k - 1 : scratch[i].id = hd + (i - bi)
  BY RingFacts
<1>4. bi \in bi .. got.k - 1 /\ hd + (bi - bi) = hd
  BY <1>1, <1>2, <1>3
<1>5. scratch[bi] = slots[hd % Size]
  BY <1>4 DEF FaultInv, Faithful
<1> QED BY <1>1, <1>2, <1>3, <1>4, <1>5 DEF Cur

\* The slot at CQ_HEAD after a step in which CQ_HEAD stays.
LEMMA HeadSlot ==
    ASSUME NEW h, NEW m, NEW b, Step(h, m, b), hd < pub
    PROVE  /\ ~Mends(h) => slots'[cq.head] = slots[cq.head]
           /\ slots[cq.head].kind = "ok" => slots'[cq.head].kind = "ok"
<1>1. hd \in Nat /\ pub \in Nat /\ cq.head = hd % Size
  BY RingFacts DEF Step
<1>2. ~Mends(h) => slots'[cq.head] = slots[cq.head]
  <2>1. hd \in hd .. pub - 1
    BY <1>1
  <2> QED BY <1>1, <2>1, SlotsKept
<1>3. CASE Mends(h)
  <2>1. slots' = slots \/ slots' = [slots EXCEPT ![cq.head] = Repaired(@)]
    BY <1>3, SlotsKept
  <2>2. slots[cq.head] \in DescType /\ cq.head \in 0 .. Size - 1
        /\ slots \in [0 .. Size - 1 -> DescType]
    BY DEF Step, QInv, HostTypes, RegTypes
  <2>3. Repaired(slots[cq.head]).kind = "ok"
    BY <2>2 DEF Repaired, DescType
  <2> QED BY <1>2, <2>1, <2>2, <2>3
<1> QED BY <1>2, <1>3

\* CQ_HEAD moves only when a descriptor is retired.
LEMMA HeadMoves ==
    ASSUME NEW h, NEW m, NEW b, Step(h, m, b)
    PROVE  ~Retires(m) => cq'.head = cq.head /\ hd' = hd
<1> SUFFICES ASSUME ~Retires(m) PROVE cq'.head = cq.head /\ hd' = hd
  OBVIOUS
<1>1. FwEdge(m, b) /\ (m # "head" => cq'.head = cq.head)
  BY DEF Step, Edges, RegEdge
<1> QED BY <1>1, FaultSet
        DEF FwEdge, Resets, Refuses, Forgot, Begins, Performs, Walks

\* What is executed and not retired stays sound, and only an abort leaves it.
LEMMA SettledStep ==
    ASSUME NEW h, NEW m, NEW b, Step(h, m, b)
    PROVE  Settled'
<1> SUFFICES ASSUME ran' > hd'
             PROVE  slots'[cq'.head].kind = "ok" /\ (softs' > 0 \/ Executing' \/ Abandoned')
  BY DEF Settled
<1>1. /\ FwEdge(m, b) /\ ran \in Nat /\ hd \in Nat /\ hd <= ran /\ ran <= hd + 1 /\ ran <= pub
      /\ pub \in Nat /\ (Executing => ran = hd + 1)
  BY RingFacts DEF Step, Edges
<1>2. /\ ran > hd => slots[cq.head].kind = "ok" /\ (softs > 0 \/ Executing \/ Abandoned)
      /\ soft_rst => softs > 0
      /\ softs \in Nat
      /\ got.own => ~dma.err
  BY DEF Step, FaultInv, Settled, Traces
<1>3. softs > 0 => softs' > 0
  <2>1. softs' = IF h = "soft" THEN softs + 1 ELSE softs
    BY DEF Step, Clock, Host
  <2> QED BY <1>2, <2>1
<1>4. Abandoned => Abandoned'
  BY AbandonedStays DEF Step
<1>5. CASE Performs(m)
  <2>1. fw \in FwWork /\ Cur.kind = "ok" /\ Executing' /\ ctrl.start
    BY <1>5 DEF Performs, FwWork, Executing
  <2>2. slots[cq.head].kind = "ok" /\ hd < pub
    BY <2>1, AtWork DEF Step
  <2>3. cq'.head = cq.head
    BY <1>5, HeadMoves DEF Performs, Retires
  <2> QED BY <2>1, <2>2, <2>3, HeadSlot
<1>6. CASE Retires(m)
  <2>1. Executing /\ ran' = ran /\ hd' = hd + 1
    BY <1>6 DEF Retires, Executing
  <2> QED BY <1>1, <2>1
<1>7. CASE ~Performs(m) /\ ~Retires(m)
  <2>1. ran' = ran /\ hd' = hd /\ cq'.head = cq.head
    BY <1>1, <1>7, HeadMoves DEF FwEdge, Resets, Refuses, Forgot, Begins, Walks
  <2>2. ran > hd /\ hd < pub
    BY <1>1, <2>1
  <2>3. slots'[cq'.head].kind = "ok"
    BY <1>2, <2>1, <2>2, HeadSlot
  <2>4. softs' > 0 \/ Executing' \/ Abandoned'
    <3>1. CASE softs > 0 \/ Abandoned
      BY <1>3, <1>4, <3>1
    <3>2. CASE Executing /\ ~Executing' /\ ~Abandoned
      <4>1. fw \in FwWork /\ fw # "off" /\ fw # "halt" /\ fw \in {"drain", "irq", "head"}
        BY <3>2 DEF Executing, FwWork
      <4>2. Resets(m) \/ Refuses(m)
        BY <1>1, <1>7, <3>2, <4>1, FaultSet DEF FwEdge, Begins, Walks, Executing
      <4>3. ~Refuses(m)
        <5>1. ~dma.err
          BY <1>2, <4>1, AtWork DEF Step
        <5> QED BY <4>1, <5>1 DEF Refuses
      <4>4. soft_rst
        BY <3>2, <4>1, <4>2, <4>3 DEF Resets, Step, QInv, Stopping
      <4> QED BY <1>2, <1>3, <4>4
    <3> QED BY <1>2, <2>2, <3>1, <3>2
  <2> QED BY <2>3, <2>4
<1> QED BY <1>5, <1>6, <1>7

\* What is published stays so.
LEMMA PubGrows ==
    ASSUME NEW h, NEW m, NEW b, Step(h, m, b)
    PROVE  pub <= pub'
<1>1. pub \in Nat /\ put \in Nat /\ pub <= put /\ HostEdge(h)
  BY RingFacts DEF Step, Edges
<1>2. pub' \in {pub, put}
  BY <1>1 DEF HostEdge, Posts, Publishes, Looks, Mends, Controls, SetsUp, Serves, RingKept
<1> QED BY <1>1, <1>2

\* A fault found stays the fault of the descriptor at CQ_HEAD until its repair.
LEMMA NamedStep ==
    ASSUME NEW h, NEW m, NEW b, Step(h, m, b)
    PROVE  Named'
<1>1. /\ FwEdge(m, b) /\ hd \in Nat /\ ran \in Nat /\ pub \in Nat /\ hd <= ran
      /\ pub <= pub' /\ pub' \in Nat
  <2>1. pub' \in Nat
    BY DEF Step, Ring!IInv, Ring!RingType
  <2> QED BY <2>1, RingFacts, PubGrows DEF Step, Edges
<1>2. /\ fw \in {"opcode", "rsvd", "param"} => hd < pub /\ slots[cq.head].kind = fw /\ ran = hd
      /\ fw = "halt" /\ err_cause \in {1, 2, 7} =>
            /\ hd < pub /\ ran = hd
            /\ slots[cq.head].kind \in Faults /\ CauseOf[slots[cq.head].kind] = err_cause
      /\ ran > hd => slots[cq.head].kind = "ok"
  BY DEF Step, FaultInv, Named, Settled
<1>3. /\ Mends(h) => fw' \in {"halt", "off"} /\ ~ctrl.start
      /\ hd < pub /\ ~Mends(h) => slots'[cq.head] = slots[cq.head]
  BY SlotsKept, HeadSlot
<1>4. ASSUME fw' \in {"opcode", "rsvd", "param"}
      PROVE  hd' < pub' /\ slots'[cq'.head].kind = fw' /\ ran' = hd'
  <2>1. ~Mends(h)
    BY <1>3, <1>4
  <2>2. CASE Refuses(m)
    <3>1. fw = "exec" /\ fw' = Cur.kind /\ Cur.kind # "ok" /\ ran' = ran /\ hd' = hd
      BY <1>4, <2>2 DEF Refuses, Forgot
    <3>2. Cur = slots[cq.head] /\ hd < pub
      BY <3>1, AtWork DEF Step, FwWork
    <3>3. ran = hd
      BY <1>1, <1>2, <3>1, <3>2
    <3>4. cq'.head = cq.head
      BY <2>2, HeadMoves DEF Refuses, Retires
    <3> QED BY <1>1, <1>3, <2>1, <3>1, <3>2, <3>3, <3>4
  <2>3. CASE ~Refuses(m)
    <3>1. Walks(m) /\ fw' = fw
      BY <1>1, <1>4, <2>3, FaultSet DEF FwEdge, Resets, Begins, Performs, Retires, Walks
    <3>2. cq'.head = cq.head /\ hd' = hd /\ ran' = ran
      BY <1>4, <3>1, HeadMoves DEF Walks, Retires
    <3> QED BY <1>1, <1>2, <1>3, <1>4, <2>1, <3>1, <3>2
  <2> QED BY <2>2, <2>3
<1>5. ASSUME fw' = "halt", err_cause' \in {1, 2, 7}
      PROVE  /\ hd' < pub' /\ ran' = hd'
             /\ slots'[cq'.head].kind \in Faults /\ CauseOf[slots'[cq'.head].kind] = err_cause'
  <2>1. ~Resets(m) /\ ~Refuses(m) /\ ~Begins(m) /\ ~Performs(m) /\ ~Retires(m)
    BY <1>5, FaultSet DEF Resets, Refuses, Begins, Performs, Retires
  <2>2. Walks(m) /\ ctrl.start /\ hd' = hd /\ ran' = ran
    BY <1>1, <2>1 DEF FwEdge, Walks
  <2>3. fw = "halt" \/ (m = fw /\ fw \in {"off_mbox"} \cup Faults)
    BY <1>5, <2>2, FaultSet DEF Walks
  <2>4. cq'.head = cq.head /\ ~Mends(h)
    BY <1>3, <2>1, <2>2, HeadMoves
  <2>5. ~soft_rst /\ (fw # "halt" => err_cause = 0)
    BY <2>2 DEF Step, QInv, Running, Stopping
  <2>6. EvidenceEdge(h, m)
    BY DEF Step, Edges
  <2>7. CASE fw = "halt"
    <3>1. m \notin Faults
      BY <2>2, <2>7, FaultSet DEF Walks
    <3>2. err_cause' = err_cause
      BY <1>5, <2>5, <2>6, <3>1 DEF EvidenceEdge
    <3> QED BY <1>1, <1>2, <1>3, <1>5, <2>2, <2>4, <2>7, <3>2
  <2>8. CASE fw # "halt"
    <3>1. m = fw /\ err_cause = 0
      BY <2>3, <2>5, <2>8
    <3>2. fw \in Faults /\ err_cause' = CauseOf[fw]
      BY <1>5, <2>3, <2>5, <2>6, <2>8, <3>1 DEF EvidenceEdge
    <3>3. fw \in {"opcode", "rsvd", "param"}
      BY <1>5, <3>2, FaultSet DEF CauseOf
    <3> QED BY <1>1, <1>2, <1>3, <2>2, <2>4, <3>2, <3>3
  <2> QED BY <2>7, <2>8
<1> QED BY <1>4, <1>5 DEF Named

\* The accesses of the program that sleeps.
LEMMA IrqMoves ==
    ASSUME NEW h \in HostMoves, HostStates, prog = "irq"
    PROVE  /\ h = "stall" \/ h = host \/ (h = "trap" /\ host \in Armed)
           /\ h = host => host \notin {"PASS", "FAIL"}
<1>1. CASE host \in Armed
  BY <1>1 DEF HostMoves, Armed
<1>2. CASE host \notin Armed
  BY <1>2 DEF HostMoves, HostStates, IrqEarly, IrqLate, Armed
<1> QED BY <1>1, <1>2

\* At the end of the list the firmware stays there.
LEMMA AtEndStays ==
    ASSUME NEW h, NEW m, NEW b, Step(h, m, b), prog = "irq", AtEnd
    PROVE  AtEnd'
<1>1. /\ FwEdge(m, b) /\ hd' \in Nat /\ list' = list
      /\ hd \in Nat /\ pub \in Nat /\ put \in Nat /\ hd <= pub /\ pub <= put
      /\ hd + (n - bi) <= pub
  <2>1. hd' \in Nat
    BY DEF Step, Ring!IInv, Ring!RingType
  <2> QED BY <2>1, RingFacts DEF Step, Edges
<1>2. pub = hd
  <2>1. put <= Len(list)
    BY DEF Step, QInv, HostTypes
  <2> QED BY <1>1, <2>1 DEF AtEnd
<1>3. cq.head = cq.tail
  BY <1>2, FlagsOfCounts DEF Step, FlagsTrue
<1>4. ~(bi < n)
  <2>1. n \in Nat /\ bi \in Nat
    BY RingAssumption DEF Step, QInv, FwTypes
  <2> QED BY <1>1, <1>2, <2>1
<1>5. Abandoned => Abandoned'
  BY AbandonedStays DEF Step
<1>6. hd = Len(list) /\ fw \in {"idle", "mbox", "loop", "off"} /\ (fw = "off" => Abandoned)
  BY DEF AtEnd
<1>7. CASE Resets(m)
  <2>1. fw' = "off" /\ hd' = hd /\ ~ctrl.start
    BY <1>7 DEF Resets, Forgot
  <2>2. Abandoned
    BY <1>6, <2>1 DEF Step, QInv, Running, Stopping
  <2> QED BY <1>1, <1>5, <1>6, <2>1, <2>2 DEF AtEnd
<1>8. CASE Walks(m)
  <2>1. fw # "off" /\ hd' = hd
    BY <1>6, <1>8 DEF Walks, Abandoned
  <2>2. fw' \in {"idle", "mbox", "loop"}
    BY <1>4, <1>6, <1>8, <2>1, FaultSet DEF Walks
  <2> QED BY <1>1, <1>6, <2>1, <2>2 DEF AtEnd
<1> QED BY <1>1, <1>3, <1>6, <1>7, <1>8 DEF FwEdge, Refuses, Begins, Performs, Retires

\* The program that sleeps learns nothing that is not so.
LEMMA FinishingStep ==
    ASSUME NEW h, NEW m, NEW b, Step(h, m, b)
    PROVE  Finishing'
<1> SUFFICES ASSUME prog' = "irq"
             PROVE  /\ host' \in IrqLate \cup {"start"} => cq'.enable
                    /\ fw' # "off_mbox"
                    /\ \A i \in 0 .. Size - 1 : slots'[i].last => slots'[i].id = Len(list') - 1
                    /\ fw' \in FwEnd => hd' = Len(list')
                    /\ done_latch' \/ hv'.done => AtEnd'
                    /\ hv'.done /\ host' # "cqst" => (hv'.err <=> cq'.err)
                    /\ host' = "PASS" => hv'.done /\ ~hv'.err
  BY DEF Finishing
<1>1. /\ prog = "irq" /\ list' = list /\ HostStates
      /\ FwEdge(m, b) /\ HostEdge(h)
      /\ Len(list) \in 1 .. Size - 1
      /\ \A i \in 1 .. Len(list) : list[i] \in DescType
  <2>1. prog = "irq" /\ list' = list /\ FwEdge(m, b) /\ HostEdge(h)
    BY DEF Step, Edges
  <2>2. HostStates /\ list \in Lists[prog]
    BY DEF Step, QInv, HostTypes
  <2> QED BY <2>1, <2>2, ListTypes
<1>2. /\ host \in IrqLate \cup {"start"} => cq.enable
      /\ fw # "off_mbox"
      /\ \A i \in 0 .. Size - 1 : slots[i].last => slots[i].id = Len(list) - 1
      /\ fw \in FwEnd => hd = Len(list)
      /\ done_latch \/ hv.done => AtEnd
      /\ hv.done /\ host # "cqst" => (hv.err <=> cq.err)
      /\ host = "PASS" => hv.done /\ ~hv.err
  BY <1>1 DEF Step, FaultInv, Finishing
<1>3. /\ host' = HostNext(h)
      /\ hv'.done = IF h = "status" THEN done_latch ELSE hv.done
      /\ hv'.err = IF h = "cqst" THEN cq.err ELSE hv.err
  BY DEF Step, Clock, Host
<1>4. /\ h = "stall" \/ h = host \/ (h = "trap" /\ host \in Armed)
      /\ h = host => host \notin {"PASS", "FAIL"}
      /\ host \in IrqEarly \cup IrqLate
  BY <1>1, IrqMoves DEF Step, HostStates
<1>5. m \in {"reset", "stall", fw} /\ (m \notin {"reset", "stall"} => fw' = FwNext(m))
  BY DEF Step, FwMoves, Clock, Firmware
<1>6. host' \in IrqLate \cup {"start"} => cq'.enable
  <2>1. cq'.enable = IF h = "enable" THEN TRUE ELSE IF h = "disable" THEN FALSE ELSE cq.enable
    BY DEF Step, Edges, RegEdge
  <2>2. h # "disable"
    BY <1>4 DEF IrqEarly, IrqLate
  <2>3. host' \in IrqLate \cup {"start"} => h = "enable" \/ host \in IrqLate \cup {"start"}
    BY <1>1, <1>4 DEF HostEdge, Posts, Publishes, Looks, Mends, Controls, SetsUp, Serves,
                      IrqEarly, IrqLate
  <2> QED BY <1>2, <2>1, <2>2, <2>3
<1>7. fw' # "off_mbox"
  <2>1. fw = "boot" /\ m = fw => fw' = "base"
    <3> SUFFICES ASSUME fw = "boot", m = fw PROVE fw' = "base"
      OBVIOUS
    <3>1. ctrl.start
      BY DEF Step, FwMoves
    <3>2. cq.enable
      BY <1>1, <1>2, <3>1 DEF Step, QInv, Running
    <3>3. fw' = FwNext("boot")
      BY <1>5
    <3> QED BY <3>2, <3>3, FaultSet DEF FwNext
  <2> QED BY <1>1, <1>2, <2>1, FaultSet
          DEF FwEdge, Resets, Refuses, Begins, Performs, Retires, Walks
<1>8. \A i \in 0 .. Size - 1 : slots'[i].last => slots'[i].id = Len(list') - 1
  <2>1. CASE Posts(h)
    <3>1. put < Len(list) /\ put \in Nat
      BY <1>1, <2>1 DEF Posts, Step, QInv, HostTypes
    <3>2. list[put + 1] \in DescType
      BY <1>1, <3>1
    <3>3. list[put + 1].last => put + 1 = Len(list)
      <4>1. list \in Lists.irq
        BY <1>1 DEF Step, QInv, HostTypes
      <4>2. put + 1 \in 1 .. Len(list) - 1 => ~list[put + 1].last
        BY <4>1, QueueAssumption
      <4> QED BY <1>1, <3>1, <4>2
    <3>4. Desc(put, list[put + 1]).id = put
          /\ Desc(put, list[put + 1]).last = list[put + 1].last
      BY <3>2 DEF Desc, DescType
    <3>5. slots' = [slots EXCEPT ![Slot(put)] = Desc(put, list[put + 1])]
      BY <2>1 DEF Posts
    <3>6. slots \in [0 .. Size - 1 -> DescType]
      BY DEF Step, QInv, HostTypes
    <3>7. list[put + 1].last => put = Len(list) - 1
      BY <1>1, <3>1, <3>3
    <3> QED BY <1>1, <1>2, <3>4, <3>5, <3>6, <3>7
  <2>2. CASE ~Posts(h)
    <3>1. slots' = slots
      BY <1>1, <2>2 DEF HostEdge, Publishes, Looks, Mends, Controls, SetsUp, Serves, RingKept
    <3> QED BY <1>1, <1>2, <3>1
  <2> QED BY <2>1, <2>2
<1>9. fw' \in FwEnd => hd' = Len(list')
  <2> SUFFICES ASSUME fw' \in FwEnd PROVE hd' = Len(list)
    BY <1>1
  <2>1. CASE Retires(m)
    <3>1. fw = "head" /\ Cur.last /\ hd' = hd + 1
      BY <2>1 DEF Retires, FwEnd
    <3>2. Cur = slots[cq.head] /\ Cur.id = hd
      BY <3>1, AtWork DEF Step, FwWork
    <3>3. cq.head \in 0 .. Size - 1 /\ hd \in Nat
      BY RingFacts DEF Step, QInv, RegTypes
    <3>4. hd = Len(list) - 1
      BY <1>2, <3>1, <3>2, <3>3
    <3> QED BY <1>1, <3>1, <3>3, <3>4
  <2>2. CASE ~Retires(m)
    <3>1. fw \in FwEnd /\ hd' = hd
      BY <1>1, <2>2, FaultSet DEF FwEdge, Resets, Refuses, Begins, Performs, Walks, FwEnd
    <3> QED BY <1>2, <3>1
  <2> QED BY <2>1, <2>2
<1>10. done_latch' \/ hv'.done => AtEnd'
  <2> SUFFICES ASSUME done_latch' \/ hv'.done PROVE AtEnd'
    OBVIOUS
  <2>1. done_latch' = (ctrl.start /\ (done_latch \/ m \in {"mbox", "off_mbox"}))
    BY DEF Step, Clock, Firmware
  <2>2. done_latch \/ hv.done \/ fw = "mbox"
    BY <1>2, <1>3, <1>5, <2>1
  <2>3. AtEnd
    BY <1>2, <2>2 DEF AtEnd, FwEnd
  <2> QED BY <1>1, <2>3, AtEndStays
<1>11. hv'.done /\ host' # "cqst" => (hv'.err <=> cq'.err)
  <2> SUFFICES ASSUME hv'.done, host' # "cqst" PROVE hv'.err <=> cq'.err
    OBVIOUS
  <2>1. h # "status" /\ hv.done
    BY <1>3, HostTable
  <2>2. AtEnd
    BY <1>2, <2>1
  <2>3. host \notin IrqEarly
    <3> SUFFICES ASSUME host \in IrqEarly PROVE FALSE
      OBVIOUS
    <3>1. fw = "off"
      BY <1>1 DEF Step, QInv, Running
    <3>2. Abandoned
      BY <2>2, <3>1 DEF AtEnd
    <3> QED BY <3>2 DEF Abandoned, IrqEarly, IrqLate
  <2>4. h # "enable"
    BY <1>4, <2>3 DEF IrqEarly
  <2>5. m \notin Faults
    BY <1>5, <2>2, FaultSet DEF AtEnd
  <2>6. ~soft_rst
    BY <1>1 DEF Step, QInv, Running
  <2>7. cq'.err <=> cq.err
    BY <2>4, <2>5, <2>6 DEF Step, Edges, EvidenceEdge
  <2>8. CASE h = "cqst"
    BY <1>3, <2>7, <2>8
  <2>9. CASE h # "cqst"
    <3>1. host # "cqst"
      BY <1>3, <1>4, <2>9, HostTable DEF Armed
    <3> QED BY <1>2, <1>3, <2>1, <2>7, <2>9, <3>1
  <2> QED BY <2>8, <2>9
<1>12. host' = "PASS" => hv'.done /\ ~hv'.err
  <2> SUFFICES ASSUME host' = "PASS" PROVE hv'.done /\ ~hv'.err
    OBVIOUS
  <2>1. (h = "stall" /\ host = "PASS") \/ (h = "check" /\ Verdict = "PASS")
    BY <1>1, <1>3, <1>4, HostTable DEF IrqEarly, IrqLate
  <2>2. hv'.done = hv.done /\ hv'.err = hv.err
    BY <1>3, <2>1
  <2>3. Verdict = "PASS" => hv.done /\ ~hv.err
    BY DEF Verdict
  <2> QED BY <1>2, <2>1, <2>2, <2>3
<1> QED BY <1>6, <1>7, <1>8, <1>9, <1>10, <1>11, <1>12
-----------------------------------------------------------------------------
(* The invariant of every behaviour.                                        *)

\* The invariant holds at reset.
LEMMA FaultInit == Init => FaultInv
<1> SUFFICES ASSUME Init PROVE FaultInv
  OBVIOUS
<1>1. /\ softs = 0 /\ fw = "off" /\ ~done_latch /\ hd = 0 /\ ran = 0
      /\ dma.err = FALSE /\ got.own = FALSE /\ got.k = 0 /\ bi = 0
      /\ slots = [i \in 0 .. Size - 1 |-> Blank]
      /\ hv = [mie |-> FALSE, claim |-> 0, done |-> FALSE, err |-> FALSE, flag |-> 0]
      /\ host = IF prog = "ring" THEN "enable" ELSE "prio"
  BY DEF Init
<1>2. soft_rst = FALSE /\ err_cause = 0 /\ pending = {}
  BY QueueAssumption DEF Init, RegsInit, PlicInit
<1>3. Traces
  BY <1>1, <1>2 DEF Traces
<1>4. Faithful /\ Settled /\ Named
  BY <1>1 DEF Faithful, Settled, Named
<1>5. Finishing
  <2>1. \A i \in 0 .. Size - 1 : ~slots[i].last
    BY <1>1 DEF Blank
  <2>2. host \notin IrqLate \cup {"start", "PASS"} /\ fw \notin FwEnd /\ fw # "off_mbox"
    BY <1>1 DEF IrqLate, FwEnd
  <2> QED BY <1>1, <2>1, <2>2 DEF Finishing
<1>6. Small
  BY <1>1, <1>2 DEF Small
<1> QED BY <1>3, <1>4, <1>5, <1>6 DEF FaultInv

\* A step in which nothing moves.
LEMMA FaultStutter == FaultInv /\ UNCHANGED vars => FaultInv'
<1> SUFFICES ASSUME FaultInv, UNCHANGED vars PROVE FaultInv'
  OBVIOUS
<1>1. UNCHANGED <<ctrl, soft_rst, cq, err_cause, pending>>
  BY DEF vars, regVars, plicVars
<1>2. UNCHANGED <<prog, list, host, hv, slots, pub, fw, scratch, n, bi, dma, done_latch,
                  hd, ran, got, softs>>
  BY DEF vars, queueVars
<1>3. (Abandoned' <=> Abandoned) /\ (Executing' <=> Executing)
  BY <1>1, <1>2 DEF Abandoned, Executing
<1>4. AtEnd' <=> AtEnd
  BY <1>2, <1>3 DEF AtEnd
<1>5. Traces' /\ Faithful' /\ Small'
  BY <1>1, <1>2 DEF FaultInv, Traces, Faithful, Small
<1>6. Settled' /\ Named'
  BY <1>1, <1>2, <1>3 DEF FaultInv, Settled, Named
<1>7. Finishing'
  BY <1>1, <1>2, <1>4 DEF FaultInv, Finishing
<1> QED BY <1>5, <1>6, <1>7 DEF FaultInv

\* Every step keeps it, given the invariants of the queue and of the ring.
LEMMA FaultNext ==
    QInv /\ QInv' /\ Ring!IInv /\ Ring!IInv' /\ FaultInv /\ [Next]_vars => FaultInv'
<1> SUFFICES ASSUME QInv, QInv', Ring!IInv, Ring!IInv', FaultInv, [Next]_vars
             PROVE  FaultInv'
  OBVIOUS
<1>1. CASE Next
  <2>1. PICK h \in HostMoves, m \in FwMoves, b \in Beats : Clock(h, m, b)
    BY <1>1 DEF Next
  <2>2. Step(h, m, b)
    BY <2>1, EdgesHold DEF Step
  <2> QED BY <2>2, TracesStep, FaithfulStep, SettledStep, NamedStep, FinishingStep, SmallStep
          DEF FaultInv
<1>2. CASE UNCHANGED vars
  BY <1>2, FaultStutter
<1> QED BY <1>1, <1>2

\* The invariant of the faults holds in every behaviour: copies equal their
\* slots, and what is on record after a fault is what happened.
THEOREM FaultInvariant == Spec => []FaultInv
<1> QED BY FaultInit, FaultNext, QueueInvariant, RingHolds, PTL DEF Spec

-----------------------------------------------------------------------------
(* What it says.                                                            *)

\* The three invariants give the types.
LEMMA TypesOfInvariants == QInv /\ Ring!IInv /\ FaultInv => TypeOK
<1> SUFFICES ASSUME QInv, Ring!IInv, FaultInv PROVE TypeOK
  OBVIOUS
<1>1. /\ hd \in Nat /\ ran \in Nat /\ put \in Nat /\ pub \in Nat /\ seen \in Nat
      /\ ran <= pub /\ pub <= put /\ last = ran - 1
  BY RingFacts
<1>2. {put, pub, seen, hd, ran} \subseteq Nat
  BY ONLY <1>1
<1>3. last \in -1 .. put
  BY <1>1
<1>4. dma.busy \in BOOLEAN /\ dma.done \in BOOLEAN /\ dma.err \in BOOLEAN /\ dma.i \in 0 .. BatchN
  BY RingAssumption DEF QInv, FwTypes, DmaType
<1>5. {dma.busy, dma.done, dma.err} \subseteq BOOLEAN
  BY ONLY <1>4
<1>6. n \in 0 .. BatchN /\ bi \in 0 .. n /\ got.k \in 0 .. n
  BY RingAssumption DEF QInv, FwTypes, GotType
<1>7. cq.head \in 0 .. Size - 1 /\ cq.tail \in 0 .. Size - 1
  BY DEF QInv, RegTypes
<1>8. pending \subseteq Ids /\ err_cause \in Nat /\ hv.flag \in 0 .. 4
  BY DEF FaultInv, Small
<1> QED BY ONLY <1>2, <1>3, <1>4, <1>5, <1>6, <1>7, <1>8 DEF TypeOK

\* Type correctness of the registers, the fetch, the counters, the interrupt
\* controller and the host (TypeOK).
THEOREM QueueTypes == Spec => []TypeOK
<1> QED BY QueueInvariant, RingHolds, FaultInvariant, TypesOfInvariants, PTL

\* The descriptor that a step executes is the one at CQ_HEAD.
LEMMA RunsOnceStep ==
    QInv /\ Ring!IInv /\ FaultInv /\ [Next]_vars =>
        [fw = "exec" /\ fw' \in {"drain", "irq", "head"} =>
            /\ scratch[bi].id = hd
            /\ ran = hd \/ softs > 0]_vars
<1> SUFFICES ASSUME QInv, Ring!IInv, FaultInv, Next, fw = "exec", fw' \in {"drain", "irq", "head"}
             PROVE  scratch[bi].id = hd /\ (ran = hd \/ softs > 0)
  OBVIOUS
<1>1. PICK h \in HostMoves, m \in FwMoves, b \in Beats : Clock(h, m, b)
  BY DEF Next
<1>2. FwEdge(m, b)
  BY <1>1, EdgesHold DEF Edges
<1>3. ctrl.start
  BY <1>2, FaultSet DEF FwEdge, Resets, Refuses, Begins, Performs, Retires, Walks
<1>4. ~Executing /\ ~Abandoned
  BY <1>3 DEF Executing, Abandoned
<1>5. Cur.id = hd
  BY AtWork DEF FwWork
<1>6. hd \in Nat /\ ran \in Nat /\ hd <= ran
  BY RingFacts
<1>7. ran > hd => softs > 0
  BY <1>4 DEF FaultInv, Settled
<1>8. ran = hd \/ softs > 0
  BY <1>6, <1>7
<1> QED BY <1>5, <1>8 DEF Cur

\* cq_sequencer.c executes the descriptors in the order of publication and each
\* one once; one is executed again only after a soft reset of the host has cut
\* it off between its execution and CQ_HEAD.
THEOREM EachRunsOnce == Spec => RunsOnce
<1> QED BY QueueInvariant, RingHolds, FaultInvariant, RunsOnceStep, PTL DEF Spec, RunsOnce

\* The invariant names the fault.
LEMMA CauseOfHead == FaultInv => CauseNamesHead
<1> SUFFICES ASSUME FaultInv, fw = "halt",
                    err_cause \in {CauseOf[k] : k \in {"opcode", "rsvd", "param"}}
             PROVE  /\ slots[cq.head].kind \in Faults
                    /\ CauseOf[slots[cq.head].kind] = err_cause
                    /\ ran = hd
  BY DEF CauseNamesHead
<1>1. err_cause \in {1, 2, 7}
  BY DEF CauseOf
<1> QED BY <1>1 DEF FaultInv, Named

\* When cq_halt has written ERR_CAUSE for a bad descriptor, the descriptor at
\* CQ_HEAD has that fault and has not been executed: what the host repairs is
\* what was refused (ADR-0035).
THEOREM CauseIsTrue == Spec => []CauseNamesHead
<1> QED BY FaultInvariant, CauseOfHead, PTL

\* PASS is reached only at the end of the list, with no error on record.
LEMMA PassMeans == QInv /\ Ring!IInv /\ FaultInv => PassIsHonest
<1> SUFFICES ASSUME QInv, Ring!IInv, FaultInv, host = "PASS"
             PROVE  hd = Len(list) /\ ran = Len(list) /\ ~cq.err
  BY DEF PassIsHonest
<1>1. prog = "irq"
  BY DEF QInv, HostTypes, HostStates, RingHost
<1>2. AtEnd /\ ~cq.err
  BY <1>1 DEF FaultInv, Finishing
<1>3. /\ hd \in Nat /\ ran \in Nat /\ pub \in Nat /\ put \in Nat
      /\ hd <= ran /\ ran <= pub /\ pub <= put
  BY RingFacts
<1>4. put <= Len(list) /\ hd = Len(list)
  BY <1>1, <1>2 DEF QInv, HostTypes, AtEnd
<1> QED BY <1>2, <1>3, <1>4

\* host_producer_irq.c passes only when every descriptor that it put has been
\* executed and retired, and CQ_STATUS.err is down.
THEOREM PassesHonestly == Spec => []PassIsHonest
<1> QED BY QueueInvariant, RingHolds, FaultInvariant, PassMeans, PTL
=============================================================================
