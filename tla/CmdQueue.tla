------------------------------ MODULE CmdQueue ------------------------------
(***************************************************************************)
(* The command queue on its clock: the CSR block, the sequencer firmware    *)
(* (cq_sequencer.c) with its descriptor fetch, the host that publishes,     *)
(* watches and recovers, or the one that sleeps until the interrupt         *)
(* (host_producer_irq.c), and the PLIC between them.                        *)
(*                                                                         *)
(* Every step is one clock edge.  Both cores may stall for any number of    *)
(* cycles between two accesses: nothing is assumed of their relative speed. *)
(* The ring is the algorithm of CqRing; a descriptor carries its number.    *)
(***************************************************************************)
EXTENDS NpuAxilRegs, Plic, CqParams, Sequences

CONSTANTS
    Lists,          \* the lists of descriptors of either host program: [ring, irq]
    MaxFaults,      \* bound: refused descriptors, misaligned rings, bus errors
                    \* during a fetch and soft resets by the host, together
    Ahead           \* bound: descriptors written but not yet published

\* Descriptors: kind is "ok" or the fault the firmware finds in it.
DescType == [id : Int, kind : {"ok", "opcode", "rsvd", "param"},
             fence : BOOLEAN, irq : BOOLEAN, last : BOOLEAN]

ASSUME QueueAssumption ==
    /\ \A p \in {"ring", "irq"} : Lists[p] \subseteq Seq(DescType)
    /\ \A l \in Lists.irq : Len(l) \in 1 .. Size - 1 /\ \A i \in 1 .. Len(l) - 1 : ~l[i].last
    /\ 1 \in Ids /\ {MaxFaults, Ahead} \subseteq Nat
    /\ NoCause = 0

VARIABLES
    prog, list, host,  \* the host's program, what it will put, its next access
    hv,                \* what it has seen: [mie, claim, done, err, flag]
    slots,             \* the ring in shared memory
    put, pub, seen,    \* descriptors written, published, taken back
    aligned,           \* CQ_RING_BASE is on 16 bytes
    fw,                \* the firmware's next access
    scratch, n, bi,    \* its copy of a batch, the size of that, the one at work
    dma,               \* the fetch: [busy, done, err, i]
    done_latch,        \* mailbox of the core
    hd, ran, last,     \* history: retired, executed, executed last
    got,               \* history: [own, k]: the fetch is that of this batch, and
                       \* how many of its descriptors have been copied
    faults, softs      \* faults so far, soft resets among them

queueVars == <<prog, list, host, hv, slots, put, pub, seen, aligned, fw, scratch, n, bi, dma,
               done_latch, hd, ran, last, got, faults, softs>>
vars == <<regVars, plicVars, queueVars>>

Blank   == [id |-> -1, kind |-> "rsvd", fence |-> FALSE, irq |-> FALSE, last |-> FALSE]
Desc(k, m) == [m EXCEPT !.id = k]
Repaired(m) == [m EXCEPT !.kind = "ok"]

CauseOf == [opcode |-> 1, rsvd |-> 2, dma |-> 5, align |-> 6, param |-> 7]
Faults  == DOMAIN CauseOf

Slot(k) == k % Size

Init ==
    /\ RegsInit /\ PlicInit
    /\ prog \in {"ring", "irq"} /\ list \in Lists[prog]
    /\ host = IF prog = "ring" THEN "enable" ELSE "prio"
    /\ hv = [mie |-> FALSE, claim |-> 0, done |-> FALSE, err |-> FALSE, flag |-> 0]
    /\ slots = [i \in 0 .. Size - 1 |-> Blank]
    /\ put = 0 /\ pub = 0 /\ seen = 0
    /\ aligned \in BOOLEAN
    /\ faults = Cardinality({i \in DOMAIN list : list[i].kind # "ok"})
                + (IF aligned THEN 0 ELSE 1)
    /\ faults <= MaxFaults /\ softs = 0
    /\ fw = "off" /\ scratch = [i \in 0 .. BatchN - 1 |-> Blank] /\ n = 0 /\ bi = 0
    /\ dma = [busy |-> FALSE, done |-> FALSE, err |-> FALSE, i |-> 0, cmd |-> NoDesc]
    /\ done_latch = FALSE
    /\ hd = 0 /\ ran = 0 /\ last = -1 /\ got = [own |-> FALSE, k |-> 0]

-----------------------------------------------------------------------------
(* The fetch: npu_dma.v as DmaContract describes it, one descriptor at a    *)
(* time with any delay; an error is latched and the burst still drained.    *)
DmaAccepts == dma_go /\ ~dma.busy /\ ~soft_rst
Beats ==
    IF ~dma.busy THEN {"idle"}
    ELSE {"wait", "beat"} \cup (IF faults < MaxFaults THEN {"error"} ELSE {})
                          \cup (IF soft_rst /\ dma.i = 0 THEN {"drop"} ELSE {})
Moves(b)  == b \in {"beat", "error"}
Ends(b)   == b = "drop" \/ (Moves(b) /\ dma.i + 1 = dma.cmd.len)

Place(i) == IF i < Size THEN slots[i] ELSE Blank     \* past the ring: something else

Fetch(b) ==
    /\ dma' = IF DmaAccepts
              THEN [busy |-> TRUE, done |-> FALSE, err |-> FALSE, i |-> 0, cmd |-> dma_desc]
              ELSE [dma EXCEPT !.busy = @ /\ ~Ends(b),
                               !.done = IF Ends(b) THEN b # "drop" /\ ~soft_rst
                                        ELSE @ /\ (dma.busy \/ ~soft_rst),
                               !.err = (@ /\ (dma.busy \/ ~soft_rst)) \/ b = "error",
                               !.i = IF Moves(b) THEN @ + 1 ELSE @]
    /\ scratch' = IF Moves(b)
                  THEN [scratch EXCEPT ![dma.i] = IF b = "error" THEN Blank
                                                  ELSE Place(dma.cmd.src + dma.i)]
                  ELSE scratch

-----------------------------------------------------------------------------
(* The firmware, one CSR access per step; "dret" is the return from the GO  *)
(* store before the next load.                                             *)
Write(r, v) == [reg |-> r, val |-> v]
Event(b, i, q) == Write("CQ_EVENT", [busy |-> b, idle |-> i, irq |-> q])
\* Mutant: the batch is never indexed.
CurFirst == scratch[0]

Cur == scratch[bi]

LesserOf2(a, b) == IF a < b THEN a ELSE b

Pending == (cq.tail - cq.head) % Size

\* Mutant: the batch is not cut at the end of the ring.
BatchAcross == LesserOf2(Pending, BatchN)

Batch == LesserOf2(Pending, LesserOf2(Size - cq.head, BatchN))

\* Mutant: CQ_HEAD is not wrapped.
HeadAfterRaw == cq.head + 1

HeadAfter == (cq.head + 1) % Size

CoreWrite(pc) ==
    CASE pc \in Faults -> Write("ERR_CAUSE", CauseOf[pc])       \* cq_halt
      [] pc = "busy"   -> Event(TRUE, FALSE, FALSE)
      [] pc = "desc"   -> Write("DMA_DESC", [src |-> cq.head, dst |-> 0, len |-> n])
      [] pc = "dgo"    -> Write("DMA_GO", 1)
      [] pc = "irq"    -> Event(FALSE, FALSE, TRUE)
      [] pc = "head"   -> Write("CQ_HEAD", HeadAfter)
      [] pc = "idle"   -> Event(FALSE, TRUE, FALSE)
      [] OTHER         -> NoWrite

AfterExec(d)  == IF d.fence THEN "drain" ELSE IF d.irq THEN "irq" ELSE "head"
AfterDrain(d) == IF d.irq THEN "irq" ELSE "head"
AfterHead(k)  == IF k < n THEN "exec" ELSE "loop"

\* Mutant: cq_halt returns to its caller.
AfterHaltOn == "head"

AfterHalt == "halt"

FwNext(pc) ==
    CASE pc = "off"   -> "boot"
      [] pc = "boot"  -> IF cq.enable THEN "base" ELSE "off_mbox"
      [] pc = "base"  -> IF aligned THEN "loop" ELSE "align"
      [] pc = "loop"  -> IF cq.head = cq.tail THEN "loop" ELSE "busy"
      [] pc = "busy"  -> "desc"
      [] pc = "desc"  -> "dgo"
      [] pc = "dgo"   -> "dret"
      [] pc = "dret"  -> "dwait"
      [] pc = "dwait" -> IF dma.err THEN "dma" ELSE IF dma.done THEN "exec" ELSE "dwait"
      [] pc = "exec"  -> IF Cur.kind # "ok" THEN Cur.kind ELSE AfterExec(Cur)
      [] pc = "drain" -> IF dma.err THEN "dma" ELSE IF dma.busy THEN "drain" ELSE AfterDrain(Cur)
      [] pc = "irq"   -> "head"
      [] pc = "head"  -> IF Cur.last THEN "idle" ELSE AfterHead(bi + 1)
      [] pc = "idle"  -> "mbox"
      [] pc = "mbox"  -> AfterHead(bi)
      [] pc \in Faults -> AfterHalt             \* cq_halt spins
      [] OTHER        -> "halt"

FwMoves == IF ~ctrl.start THEN {"reset"}
           ELSE IF fw \in {"off", "loop", "halt"} THEN {fw} ELSE {fw, "stall"}

\* The batch is forgotten by a reset, and never used again after cq_halt.
Forgets(m) == m = "reset" \/ (m # "stall" /\ FwNext(m) \in Faults)
Takes(m)    == m = "loop" /\ cq.head # cq.tail
Executes(m) == m = "exec" /\ Cur.kind = "ok"

Firmware(m) ==
    /\ fw' = CASE m = "reset" -> "off" [] m = "stall" -> fw [] OTHER -> FwNext(m)
    /\ n'  = IF Forgets(m) THEN 0 ELSE IF Takes(m) THEN Batch ELSE n
    /\ bi' = IF Forgets(m) \/ Takes(m) THEN 0
             ELSE IF m = "head" THEN bi + 1 ELSE bi
    /\ done_latch' = (ctrl.start /\ (done_latch \/ m \in {"mbox", "off_mbox"}))
    /\ hd'   = IF m = "head" THEN hd + 1 ELSE hd
    /\ last' = IF Executes(m) THEN Cur.id ELSE last
    /\ ran'  = IF Executes(m) /\ Cur.id # last THEN ran + 1 ELSE ran

Copied(m, b) ==
    got' = IF Forgets(m) \/ Takes(m) THEN [own |-> FALSE, k |-> 0]
           ELSE IF DmaAccepts THEN [own |-> n > 0, k |-> 0]
           ELSE IF b = "error" THEN [got EXCEPT !.own = FALSE]
           ELSE IF b = "beat" /\ got.own THEN [got EXCEPT !.k = @ + 1] ELSE got

-----------------------------------------------------------------------------
(* The host of the ring (tb_npu_cq_ring_err.v, ADR-0035, ADR-0038): writes   *)
(* descriptors, publishes them, reads CQ_HEAD to take slots back; on an     *)
(* error it stops the core, repairs what the cause names and toggles        *)
(* CQ_CTRL.enable; it may soft-reset at any moment.                         *)
Ctrl(st, ie, clr, soft) ==
    Write("CTRL", [start |-> st, irq_en |-> ie, irq_clear |-> clr, soft |-> soft, hard |-> FALSE])

HostWrite(m) ==
    CASE m = "enable"  -> Write("CQ_CTRL", TRUE)
      [] m = "disable" -> Write("CQ_CTRL", FALSE)
      [] m = "start"   -> Ctrl(TRUE, prog = "irq", FALSE, FALSE)
      [] m = "stop"    -> Ctrl(FALSE, FALSE, FALSE, FALSE)
      [] m = "soft"    -> Ctrl(FALSE, FALSE, FALSE, TRUE)
      [] m = "tail"    -> Write("CQ_TAIL", Slot(put))
      [] m \in {"clear1", "clear2"} -> Ctrl(FALSE, TRUE, TRUE, FALSE)
      [] OTHER         -> NoWrite

Watching == prog = "ring" /\ host = "watch"

\* Mutant: the host that takes the last free slot too.
RoomForOneMore == put - seen < Size

Room == put - seen < Size - 1

(* host_producer_irq.c and the trap entry of its crt0.S.                    *)
Trapped == prog = "irq" /\ hv.mie /\ Meip
Armed   == {"tail", "spin", "check", "PASS", "FAIL"}

HostMoves ==
    {"stall"} \cup
    CASE host = "watch"   -> {m \in {"put", "tail", "look", "stop", "soft"} :
                                \/ m = "put" /\ Room /\ put < Len(list) /\ put - pub < Ahead
                                \/ m = "tail" /\ pub < put
                                \/ m = "look"
                                \/ m = "stop" /\ cq.err
                                \/ m = "soft" /\ faults < MaxFaults}
      [] host = "quiesce" -> IF soft_rst THEN {} ELSE {"quiesced"}
      [] host \in Armed   -> IF Trapped THEN {"trap"}
                             ELSE IF host \in {"PASS", "FAIL"} THEN {} ELSE {host}
      [] OTHER            -> {host}

PlicAccess(m) ==
    CASE m = "prio"      -> [op |-> "prio", id |-> 1, val |-> 1]
      [] m = "plic_en"   -> [op |-> "enable", val |-> {1}]
      [] m = "threshold" -> [op |-> "threshold", val |-> 0]
      [] m = "claim"     -> [op |-> "claim"]
      [] m \in {"compl1", "compl2", "complx"} -> [op |-> "complete", id |-> hv.claim]
      [] OTHER           -> [op |-> "none"]

\* Mutant: the main program looks at the flag only to leave its loop.
VerdictWoken == IF hv.claim = 1 THEN "PASS" ELSE "FAIL"

Verdict == IF hv.flag = 1 /\ hv.claim = 1 /\ hv.done /\ ~hv.err THEN "PASS" ELSE "FAIL"

HostNext(m) ==
    CASE m = "stall"     -> host
      [] m = "put"       -> IF prog = "ring" THEN "watch"
                            ELSE IF put + 1 < Len(list) THEN "put" ELSE "enable"
      [] m = "tail"      -> IF prog = "ring" THEN "watch" ELSE "spin"
      [] m = "look"      -> "watch"
      [] m = "soft"      -> "quiesce"
      [] m = "quiesced"  -> "disable"
      [] m = "stop"      -> "repair"
      [] m = "repair"    -> "disable"
      [] m = "disable"   -> "enable"
      [] m = "enable"    -> "start"
      [] m = "start"     -> IF prog = "irq" THEN "arm" ELSE "watch"
      [] m = "prio"      -> "plic_en"
      [] m = "plic_en"   -> "threshold"
      [] m = "threshold" -> "put"
      [] m = "arm"       -> "tail"
      [] m = "spin"      -> IF hv.flag = 0 THEN "spin" ELSE "check"
      [] m = "trap"      -> "claim"
      [] m = "claim"     -> IF BestId = 1 THEN "status" ELSE IF BestId = 0 THEN "flag4" ELSE "complx"
      [] m = "status"    -> IF done_latch THEN "cqst" ELSE "clear2"
      [] m = "cqst"      -> "clear1"
      [] m = "clear1"    -> "compl1"
      [] m = "compl1"    -> "flag1"
      [] m = "clear2"    -> "compl2"
      [] m = "compl2"    -> "flag2"
      [] m = "complx"    -> "flag3"
      [] m \in {"flag1", "flag2", "flag3", "flag4"} -> "check"      \* mret to irq_resume
      [] m = "check"     -> Verdict

\* Mutant: the host takes back what it has published.
TakenBackTail == seen + ((cq.tail - seen) % Size)

TakenBack == seen + ((cq.head - seen) % Size)

FlagOf == [flag1 |-> 1, flag2 |-> 2, flag3 |-> 3, flag4 |-> 4]

\* What the host writes into the slot at CQ_HEAD before it restarts.
Repairs(m) == m = "repair" /\ pub > hd /\ slots[cq.head].kind # "ok"

Host(m) ==
    /\ host' = HostNext(m)
    /\ hv' = [mie   |-> (hv.mie \/ m = "arm" \/ m \in DOMAIN FlagOf) /\ m # "trap",
              claim |-> IF m = "claim" THEN BestId ELSE hv.claim,
              done  |-> IF m = "status" THEN done_latch ELSE hv.done,
              err   |-> IF m = "cqst" THEN cq.err ELSE hv.err,
              flag  |-> IF m \in DOMAIN FlagOf THEN FlagOf[m] ELSE hv.flag]
    /\ slots' = IF m = "put" THEN [slots EXCEPT ![Slot(put)] = Desc(put, list[put + 1])]
                ELSE IF Repairs(m) THEN [slots EXCEPT ![cq.head] = Repaired(@)] ELSE slots
    /\ softs' = IF m = "soft" THEN softs + 1 ELSE softs
    /\ put'  = IF m = "put" THEN put + 1 ELSE put
    /\ pub'  = IF m = "tail" THEN put ELSE pub
    /\ seen' = IF m = "look" THEN TakenBack ELSE seen
    /\ aligned' = (aligned \/ (m = "repair" /\ err_cause = CauseOf.align))
    /\ UNCHANGED <<prog, list>>

-----------------------------------------------------------------------------
(* One clock edge: h and m are the accesses of host and firmware, b what the *)
(* fetch does.                                                             *)
Clock(h, m, b) ==
    /\ Host(h) /\ Firmware(m) /\ Fetch(b) /\ Copied(m, b)
    /\ faults' = faults + Cardinality({x \in {h, b} : x \in {"soft", "error"}})
    /\ faults' <= MaxFaults
    /\ RegsClk(HostWrite(h), CoreWrite(m), ~dma.busy,
               [dma_done |-> dma.done, wb_done |-> FALSE, npu_done |-> done_latch,
                dma_err |-> dma.err])
    /\ PlicClk(IF Irq THEN {1} ELSE {}, PlicAccess(h))

Next == \E h \in HostMoves, m \in FwMoves, b \in Beats : Clock(h, m, b)

(* A cycle in which nobody stalls; a host that sees CQ_STATUS.err reacts.   *)
Responsive ==
    \E h \in HostMoves, m \in FwMoves \ {"stall"}, b \in Beats \ {"wait"} :
        /\ h = "stall" => HostMoves = {"stall"}
        /\ Watching /\ cq.err => h = "stop"
        /\ Clock(h, m, b)

Spec == Init /\ [][Next]_vars /\ WF_vars(Responsive)

-----------------------------------------------------------------------------
\* Type invariant.
TypeOK ==
    /\ cq.head \in 0 .. Size - 1 /\ cq.tail \in 0 .. Size - 1
    /\ n \in 0 .. BatchN /\ bi \in 0 .. n /\ got.k \in 0 .. n
    /\ dma.i \in 0 .. BatchN /\ {dma.busy, dma.done, dma.err} \subseteq BOOLEAN
    /\ {put, pub, seen, hd, ran} \subseteq Nat /\ last \in -1 .. put
    /\ pending \subseteq Ids /\ err_cause \in Nat /\ hv.flag \in 0 .. 4

(* The queue is the ring of CqRing: what the registers and the DMA engine   *)
(* make of it keeps its order and its slots.                                *)
Executing == fw \in {"drain", "irq", "head"}
AbstractRing ==
    INSTANCE CqRing WITH
        slots   <- [i \in 0 .. Size - 1 |-> slots[i].id],
        tail    <- cq.tail, head <- cq.head,
        scratch <- [i \in 0 .. BatchN - 1 |-> IF i < got.k THEN scratch[i].id ELSE -1],
        got     <- got.k, exd <- Executing

\* Every clock edge is a step of the ring, or of none of its variables: what is
\* proved of CqRing for every size holds here.
ImplementsRing == AbstractRing!RingSpec

\* A descriptor is executed in the order of publication and once: again only
\* after a soft reset that fell between its execution and CQ_HEAD.
RunsOnce ==
    [][fw = "exec" /\ fw' \in {"drain", "irq", "head"} =>
          /\ scratch[bi].id = hd
          /\ ran = hd \/ softs > 0]_vars

\* CQ_STATUS full and empty (npu_axil_regs.v) say what is in the ring.
FlagsTrue ==
    /\ (cq.head = cq.tail) <=> (pub = hd)
    /\ ((cq.tail + 1) % Size = cq.head) <=> (pub - hd = Size - 1)

\* The cause the host reads is the fault of the descriptor at CQ_HEAD, and that
\* descriptor has not been executed (ADR-0035: HEAD frozen on ERR).
CauseNamesHead ==
    fw = "halt" /\ err_cause \in {CauseOf[k] : k \in {"opcode", "rsvd", "param"}} =>
        /\ slots[cq.head].kind \in Faults /\ CauseOf[slots[cq.head].kind] = err_cause
        /\ ran = hd

\* While CQ_STATUS.err is up nothing is retired and nothing executed: what the
\* host repairs and restarts is where the queue stopped.
FrozenOnErr == [][cq.err => UNCHANGED <<hd, ran, last>>]_vars

\* The main program of host_producer_irq passes only when every descriptor it
\* posted has been executed and retired.
PassIsHonest == host = "PASS" => hd = Len(list) /\ ran = Len(list) /\ ~cq.err

\* Every published descriptor is retired, through repairs, bus errors and soft
\* resets.
AllRetired == []<>(prog = "ring" => hd = pub)

\* The host that sleeps is woken and comes to a verdict.
VerdictReached == prog = "irq" ~> host \in {"PASS", "FAIL"}

\* The handler that claims the interrupt of the NPU finds STATUS.done: what
\* host_producer_irq.c and its test bench take for granted.
InterruptMeansDone == hv.flag # 2
=============================================================================
