# A verification project for Magpie_M3V

Magpie_M3V is a RISC-V system-on-chip with a neural processing unit (NPU): a
scalar CPU, its peripherals, and an NPU whose own small core runs a command-queue
firmware that drives a DMA engine, a matrix engine and a hardware GEMM sequencer.
This directory holds TLA+ models of it, TLC configurations that check them, and
TLAPS proofs. Paths below are relative to the repository root (`src/` here).

Check everything with `tlc -config <cfg> <module>` for the runs of `PROJECT.json`
and `tlapm M.tla` for the seven proof modules `NpuDma_proofs`, `CqRing_proofs`, `CmdQueue_proofs`,
`NpuStrip_proofs`, `NpuStripData_proofs`, `NpuFabric_proofs` and `StripStaging_proofs`, and for the lemmas of `Residues`.

## 1. Inventory

The rtl of the NPU is in `design/npu/rtl`, its firmware and host programs in
`design/npu/sw`, the CPU in `design/cpu_m1/rtl`, the SoC in `design/cpu_m1/soc`.

| component | state | operations | what makes it hard | what makes it correct | here |
|---|---|---|---|---|---|
| DMA engine `npu_dma.v` | descriptor in progress (`cur_addr, remaining, buf_addr`), burst counters, sticky `done/err`, the strip chain's own copies | `go` (read or write-back), `strip_start`, `abort` | bursts cut at pages and 256 beats; abort between any two handshakes; `go` ignored when busy | legal bursts, every word in its place, `done` honest, ends always | `NpuDma`, `NpuDmaBus`, proved |
| GEMM sequencer `npu_ml_ctrl.v` | job configuration, tile/strip/chunk counters, compute bank, prefetch bookkeeping, registered commands | `ML_GO`, abort; commands to engines | prefetch of strip n+1 overlaps computing strip n; sticky flags of the engines; faults at any state | results are those of the right operands; a job ends; no fault is hidden | `NpuMlCtrl` in `NpuStrip`, proved |
| matrix engine `mat_engine.v` | command, pipeline stages, accumulator banks, parameters, write port | CLR, OP, RESCALE, LOADACC, RESCALE_PC, LOADVEC, abort | three-stage rescale pipe writes while the operands share its memory | the accumulator holds exactly the operands asked for; output words in order | `MatEngine` in `NpuStrip`; LOADACC, OP and RESCALE_PC proved |
| strip buffer `npu_strip_buf.v` | two banks, `bank_valid` | DMA write, engine read, clear | no interlock of its own | no bank read while written | `NpuStripBuf` in `NpuStrip`, proved |
| control registers `npu_axil_regs.v` | control, abort, evidence, queue, descriptors, interrupt | host AXI-Lite writes and core mirror writes | two writers in one cycle with quiesce and clear | no evidence lost, abort ends | `NpuAxilRegs` in `NpuStrip`, `CmdQueue`, `NpuFabric` |
| top `npu_top.v` | direction latch, mailbox, hard-reset machine | engine muxes, cause port, hard reset | status follows a latch, port stolen for a cycle, drain before reset | status belongs to the transfer asked for; reset never cuts a burst | muxes in `NpuStrip`; hard reset and host route in `NpuFabric` |
| TCM and ITCM `npu_tcm*.v` | memory, priority grant | four writers, three readers | back-pressure on host and core only | no write lost, no starvation | a region of it in `NpuStrip`; arbitration not modelled |
| AXI fabric `axi_full_arbiter_2x1.v`, `axi_full_sram.v` | grants, burst counters | read and write bursts of two masters | both channels granted apart, resets in the middle of a burst | response returns to its master, words on their lanes | `AxiFabric` in `NpuFabric`, proved |
| AXI-Lite bridges `axil_*.v` | single outstanding transaction | conversion, decode error | one request between two handshakes | one response per request | `axil_bridge` (data side) and `axil_to_full` in `NpuFabric` |
| command-queue firmware `cq_sequencer.c` | ring indices, batch, staging regions of the TCM | fetch batch, decode, run, retire | no timeouts; HEAD moves after the interrupt event | in order, exactly once, evidence on error | `CqRing` and `CmdQueue` (proved); strip jobs in `StripStaging` (proved) and `NpuStrip` |
| strip-job driver `ml_job_driver.c` | none | program, go, poll, exit | polls for done only | reports after the results | `NpuStrip` (`Program = "job"`) |
| host producers `host_producer.c`, `host_producer_irq.c` | cursors | start, publish TAIL, poll or sleep, acknowledge | full/empty at the mask, sleep against interrupt | no slot overwritten, no lost wake-up | the polling one in `NpuStrip`, the sleeping one in `CmdQueue` |
| host deployment programs | none | register sequences | none | - | not modelled |
| PLIC, CLINT | pending, enabled; timer | claim, complete, compare | edge of a level source against claim | no lost wake-up | `Plic` in `CmdQueue`; the timer is not modelled |
| UART, GPIO | a few registers | transmit strobe, interrupt enable, pins | little: the transmitter is always ready | one strobe per write | not modelled |
| QSPI controller | front-end mode, flash state | execute in place, program | arbitration of the two | no read during program | not modelled |
| SoC top and decode | outstanding transaction | route | response of the wrong slave | one response each | not modelled |
| debug module and transport | DMI request/ack, halt state | JTAG scan, abstract commands | two clocks | request served once | not modelled |
| CPU pipeline | stage registers | issue, stall, flush, forward | hazards with memory waits | architectural order | not modelled |
| CPU CSRs, traps, PMP | CSRs, privilege | trap, return, CSR write | interrupt against trap | precise state | not modelled |
| CPU arithmetic, vector units | pipeline data | arithmetic | wide data | function | not modelled (data paths) |
| golden models, schema | none | offline computations | - | - | not modelled |
| flow, gates, test benches | - | - | - | - | not modelled |

How they interact. The host writes descriptors to shared memory and `CQ_TAIL`
through AXI-Lite. The firmware polls `CQ_HEAD`/`CQ_TAIL` through its mirror port of
the same registers, fetches descriptors with the DMA engine, and for a strip GEMM
stages folds, parameters and activations in the TCM, programs the sequencer and
polls its status. The sequencer then owns the DMA engine, the matrix engine and
the strip buffer (`ml_active` switches the muxes of `npu_top.v`), prefetching
strips from shared memory, and stores results through the DMA engine. A soft
reset (`CTRL[2]`) raises `abort_i` to all three machines until the control
registers find the engines quiet; a hard reset (`CTRL[4]`) drains the same way, freezes
the host port and resets the registers. Completions, errors and the firmware's
`CQ_EVENT` set the interrupt, which reaches the host core through the PLIC. On the
memory side the DMA engine and the host share one SRAM behind an arbiter.

The hazards of this code, each at its line, are in `PROJECT.json`; the
properties below are aimed at them.

## 2. The modules

| module | models | state |
|---|---|---|
| `NpuParams` | build parameters several blocks share | constants only |
| `NpuDma` | `npu_dma.v`, one clock edge | its registers, under their names |
| `DmaContract` | what the firmware may rely on (abstract) | `active, len, moved, done, err` |
| `NpuDmaBus` | the engine with a free commander and any AXI slave | `NpuDma` + slave debts + history |
| `NpuDma_proofs` | TLAPS proofs about `NpuDmaBus` | - |
| `MatEngine` | `mat_engine.v`, one clock edge | its registers |
| `NpuMlCtrl` | `npu_ml_ctrl.v`, one clock edge | records `job`, `cfg`, `pf` and the registered commands |
| `NpuStripBuf` | `npu_strip_buf.v`, one clock edge | two banks, `bank_valid` |
| `NpuAxilRegs` | `npu_axil_regs.v`, one clock edge | control, evidence, queue and pulse registers |
| `NpuStrip` | `npu_top.v`'s wiring of all these, firmware, host, slave | + TCM region, result area, control states of firmware and host |
| `NpuStrip_proofs` | TLAPS proofs about `NpuStrip`: types, lost pulses, banks, hidden faults | - |
| `NpuStripData_proofs` | TLAPS proofs about `NpuStrip`: nothing but right results is stored, and what is done is stored | - |
| `CqContract` | what the host may rely on when it publishes descriptors (abstract) | `sent, ran, last` |
| `CqParams`, `CqRing` | the ring as an algorithm of two cores: slots, cursors modulo its size, batch, drop | cursors of both sides, batch, history |
| `CqRing_proofs` | TLAPS proofs about `CqRing`, for every size of ring and batch | - |
| `Plic` | `plic.v`, one clock edge | pending, configuration, delayed sources |
| `CmdQueue` | registers, ring fetch, main loop of the firmware, both kinds of host and the PLIC on one clock | `NpuAxilRegs` + `Plic` + control states and copies of the two programs |
| `CmdQueue_proofs` | TLAPS proofs: `CmdQueue` implements `CqRing`, its flags, its stop on error, and what holds through faults, repairs and resets | - |
| `AxiFabric` | arbiter and SRAM, one clock edge | grants, the two channel machines, memory |
| `NpuFabric` | host bridge, `axil_to_full`, CSR channels, hard reset, DMA engine and core around `AxiFabric` | `NpuDma` + `NpuAxilRegs` + `AxiFabric` + routes, local memory |
| `NpuFabric_proofs` | TLAPS proofs about `NpuFabric`: its types, uncut bursts, fault evidence, words in their places | - |
| `StripStaging` | `mat_strip_gemm` up to `ML_GO`: checks, header, compaction, staging | the two memories, phase and loop counter |
| `StripStaging_proofs` | TLAPS proofs about `StripStaging` | - |
| `Residues` | lemmas on quotients and residues, used by the proofs | - |
| `MCNpuDma`, `MCNpuStrip`, `MCCmdQueue`, `MCNpuFabric`, `MCStripStaging` | instances for TLC | - |

**Time.** Hardware is modelled a clock edge at a time: every block has an operator
`XClk(inputs)` that relates its registers before and after the edge, and a composed
step is the conjunction of all of them, each reading the values of the cycle that
ends. That is what non-blocking assignments do, and it keeps one-cycle effects
(a registered pulse, a sticky flag that falls one cycle late) that a handshake-level
model would lose. Inside a block, each state of its `case` statement is an action of
its own (`DmaR`, `MlPrefillW`, `MatPrs`, ...) and a disjunct of the clock step.
Where a Verilog block assigns a register more than once and the last assignment
wins, the model maps a record through the assignments in their order
(`AfterMonitor`, `AfterCsr...`, then the state).

**Software.** The firmware is the sequence of its CSR accesses: `fw` names the next
access; `CoreWrite`, `MlWrite` and `FwNext` say what it does and where the firmware
goes next. It is reset while `CTRL.start` is 0. The host is the same with `host`.
Both may stall for any number of cycles before an access.

**Data.** Words are abstracted to where they come from. A weight beat is its
shared-memory address; an accumulator row is the sequence of operand pairs that
went into it; an output word is `<<"out", w, <<row, parameters>>>>`. Two
results are equal in the model exactly when they are computed from the same
operands in the same order, which is what the sequencer is responsible for. What
the arithmetic makes of them is the engine's business and is not modelled yet.

**Correspondence.** `PROJECT.json` maps each definition to its lines. `dma_st`,
`mat_st` and `ml_st` are the three `state` registers. A TCM address is
`[rgn, i]`: `"tcm"` is the part the job writes (legacy blobs, results), `"fold"`,
`"param"` and `"act"` are the regions in which the firmware stages operands. The
sequencer reads them at `StripFoldPtr`, `StripParamPtr` and `StripActPtr`, and naming the
windows instead of the bytes is right only for jobs whose windows do not overlap:
parameters reach the folds at the third strip of eight sub-tiles, activations the batch
copy at the third chunk and the parameters at the fifth. `JobsAssumption` therefore admits strip jobs that
have room to be staged (`RoomToStage`) and no others, in the runs and in the proofs; what becomes of
larger ones, which the firmware accepts, is the subject of `StripStaging`.

**The queue, at three levels.** `CqContract` says that published descriptors run in
order, none skipped, none early. `CqRing` is the algorithm that achieves it with two
counters that each side knows only modulo the size of the ring, a batch copied one
slot at a time, and a firmware that may lose its batch at any moment. `CmdQueue` is
the code: register accesses of both cores on a clock, the fetch with its errors and
aborts, `cq_halt`, repair and restart, interrupt and trap. `ImplementsRing` maps it
to `CqRing` and `RingImplements` maps that to the contract; the first is checked and proved (`QueueIsRing`),
the second proved. A
descriptor in the model carries its number, so "the right one" is an equality.

**Shared memory, a word at a time.** In `NpuFabric` a word holds a value, and every
block on the way keeps its own notion of the lane of a word: the DMA engine and
`axil_to_full` compute it from the address, the SRAM from an aligned base and a stride
of one word. Transfers that start inside a beat are the interesting ones, and the
instance has only such.

**Staging.** `StripStaging` counts granules of 32 bytes, the smallest unit staged, and a
granule's value is the place it came from. The whole 32 KB and 64 KB memories are
functions on granules; the layout constants are those of the code, divided by 32.

## 3. The runs

| run | asks | bounds |
|---|---|---|
| `dma` | Any command stream, any abort, any slave: are bursts legal and in place, is completion honest, does everything end, does the engine implement its contract? | 64-bit bus, pages of 4 beats, bursts of at most 2 |
| `strip` | Two strip jobs of the ring with one bus error anywhere and any delays: right results, no collision, no lost pulse, every job ends, the ring settles | two jobs: 3 strips with a short last one; one strip of two K-chunks with a short second |
| `legacy` | The three legacy layouts one after another | two tiles each, one error |
| `soft` | A soft reset at any cycle followed by a restart; the last job's second strip is off its page and refused by the DMA engine | 64-bit bus, three jobs, one soft reset |
| `swap` | Do the banks change at the rendezvous only, as the assertion says? | violated, see 6 |
| `quiesce` | Is the bus silent after quiesce? | violated, see 6 |
| `phantom` | Does a reported prefetch fault come from the bus? | violated, see 6 |
| `staledone` | Does the firmware only use transfers it made? | violated, see 6 |
| `queue` | With both cores at any relative speed, errors, repairs and soft resets: does the queue implement the ring, run each descriptor once, freeze on error, retire everything, wake its host? | ring of 4, batch of 2, lists of six with two ends, one bad descriptor before or after the wrap, two faults |
| `irq` | Does the interrupt of the last descriptor mean that the job is done? | violated, see 6 |
| `fabric` | Host accesses against DMA bursts, with soft and hard resets at any cycle: are bursts cut, words misplaced, evidence lost, accesses hung? | 64-bit bus, eight words, bursts of two beats, pages of four words |
| `staging` | Is a job that passes the firmware's checks staged without overlap? | violated, see 6; one to three strips |

The properties, with what would break them:

* `BurstLegal`, `ReadLandsInPlace`, `WriteTakesInPlace`, `StripInPlace`: one beat too
  many at a page, a stride of the wrong width, a burst counter not reset.
* `DoneMeansWhole`, `StripDoneMeansWhole`: completion on an aborted or failed burst.
* `OneBurstAfterAbort`, `AddressHolds`: an abort that starts another burst or
  withdraws an address that is already offered.
* `ImplementsContract`: `NpuDmaBus` refines `DmaContract`; `moved` is
  `cmd.len - remaining`.
* `ResultsStored`: a job is reported done, or retired by HEAD, only when each of its
  tiles is in shared memory, computed from its own fold, activations, weights and
  parameters. `OnlyRightResults`: no other data is ever stored, by failed and aborted
  jobs either.
* `NoBankCollision`: the `$fatal` checks of the strip buffer.
* `NoLostPulse`: no GO reaches a busy engine (no engine queues or refuses one).
* `NoSilentFault`: a job that met a bus error is not reported done.
* `TransferEnds`, `StripEnds`, `JobEnds`, `RingSettles`: nothing hangs.
* `ImplementsRing`, `RunsOnce`: a batch that crosses the end of the ring, a slot used
  again too early, a stale copy executed after a restart. Only a soft reset between
  execution and `CQ_HEAD` may repeat a descriptor, and only the last one.
* `FlagsTrue`: `CQ_STATUS` full and empty against the number of descriptors that really
  are in the ring.
* `CauseNamesHead`, `FrozenOnErr`: the cause the host reads is the fault of the descriptor
  at `CQ_HEAD`, and nothing is executed or retired until it has been acknowledged.
* `PassIsHonest`, `AllRetired`, `VerdictReached`: the host's verdict against what was
  executed; everything published is retired through repairs and resets; the host that
  sleeps is woken.
* `BurstsUncut`: grant, SRAM and master always agree on the burst in progress, so that no
  answer of an abandoned burst reaches the next master.
* `WordsInPlace`: lanes, strides and strobes of four blocks, for reads, writes and the host.
* `EvidenceKept`: after a soft reset the error evidence is up until it is acknowledged, the
  first cause wins, and an acknowledgement in the cycle in which an abort ends stands.
  (A fault reported by the core in that same cycle does win over it, as it should.)
* `AccessEnds`, `HardResetEnds`: the freeze of the hard reset can block neither an access in
  flight nor itself, even if the host polls without a pause.
* `StagedIntact`: when `ML_GO` is set, every parameter, fold, activation and weight is where
  the sequencer reads it, and the rest of the batch is intact.

**Bounds, and why they are enough.** `WPB` (32-bit words per beat: 1 or 2 here, 1, 2, 4
or 8 in a build): 2 is the smallest value where narrow and wide transfers differ.
`PageBytes` (4096) and `MaxBeats` (256): two to four beats per page and two per burst,
so that a transfer of six words is cut by the page, by the limit and by its own end.
`StripMax` (40960): bounds one strip. `Rows`, `RowWords` (8 and 2): one row of two words, so the
last word of the rescale pipe differs from the first. `Reps` (operand windows per
K-chunk), `SubTiles` (8), `StoreLen`: 2 each, for a first and a last one. Job shapes
cover the last strip being shorter, the last chunk being shorter, one and several
of each, and both banks being filled twice; three strips of two sub-tiles have room to be staged,
since they have fewer parameter blocks than two of eight. `BatchN` (8) is the code's value.
`MaxErrs`, `MaxSoft`, `MaxAcks` cap error responses, soft resets, and restarts after a
reported error or a finished driver: errors and resets fall in *every* cycle of the run,
but once. `Lag` names the slave channels (and `"core"`) that may delay for any
number of cycles; a channel that is not in it answers in the next cycle. The
violation runs narrow `Lag` only to keep the counterexamples short.

In `queue`, `Size` (any power of two in the code, 4 in its test bench) and `BatchN` (8): a
ring of 4 with batches of 2 wraps in the middle of a list, is full and empty, and has
batches cut by the end of the ring, by the limit and by what is pending. What depends on
these two numbers is proved for all of them in `CqRing_proofs`. `MaxFaults` counts
refused descriptors, a misaligned ring, bus errors of a fetch and soft resets together; two of them cover
a fault while another is being repaired. `Ahead` bounds what is written and not yet
published. The sleeping host posts three descriptors instead of five; none of them
differs in the queue. In `fabric`, `Accesses` are all that differ for the blocks in
between: a register read, the writes that start, stop, reset and acknowledge, and a read
and a write of shared memory; they are issued in any order, for ever. `Words`, `TcmWords`,
`ReadJob` and `WriteJob` give a read cut by the burst limit and a write of two words
that both start on the upper lane. `staging` needs no bound but its three jobs, laid out as the emitter
does (`StripStaging_proofs` covers every job).

`MaxAcks = 0` in `strip` is a real restriction. With one restart and a slow bus
`NoLostPulse` fails: a job that ends on a prefetch error retires without waiting for
the prefetch chain (`npu_ml_ctrl.v:530-543`), and the first DMA_GO of a restarted
firmware may find the engine still draining. It is the same root as `quiesce` and
`staledone`, and listed as a hazard rather than as a finding of its own.

**Fairness.** `WF_vars(Responsive)` in `NpuDmaBus`, `NpuStrip` and `CmdQueue`: as long as a clock cycle
in which nobody stalls is possible, one eventually happens. For the hardware this is
the clock itself; for the slave, that the arbiter and the SRAM (`axi_full_sram.v`) always come to
accept an offered address and answer what they owe; for the firmware, that its core
executes; for the host, that it does its next step while it has one. Nothing is
assumed of commands, errors or abort: the host may reset or not. In `CmdQueue` a
responsive host also reacts to `CQ_STATUS.err` once it sees it, which is what `wait_err`
and the recovery sequence of the test bench do. `NpuFabric` assumes only `WF_vars(Next)`,
that the clock goes on: its liveness holds against any host and any core.

## 4. What is proved

`NpuDma_proofs.tla`, for every bus width, page size, burst limit, strip limit and
set of commands that the assumptions allow:

| theorem | says |
|---|---|
| `Inductive` | `Spec => []IndInv` |
| `TypeCorrect`, `BurstsLegal`, `ReadsInPlace`, `WritesInPlace`, `StripsInPlace` | the safety invariants of the `dma` run |
| `DoneIsWhole`, `StripDoneIsWhole` | honest completion |
| `AddressesHold` | an action property, from `IndInv` |
| `AbortBound` | at most one burst after abort, with its own inductive strengthening |
| `Refinement` | `Spec => Contract!ContractSpec` |

*Assumptions.* `ParamsAssumption` (the page is a whole number of beats, the beat is 1,
2, 4 or 8 words), `DmaAssumption` (a burst has at least one beat, and a page
is a whole number of full strip bursts, as it is for every build width) and
`BusAssumption` (commands have the types of the ports). The slave is part of the
specification: it may delay and fail, but owes exactly the beats it accepted.

*Argument.* None of the invariants is inductive by itself: "done means whole" says
nothing about the words moved until the position of every burst in progress is tied
to the descriptor. `IndInv` adds, to the types,

* `Handshake`: who may drive the bus and what the slave owes in each state;
* `Transfer`: in each state of a transfer, the next burst starts where the moved words
  end (`Placed`), the local pointer has the same distance from its start
  (`ReadPos`, `WritePos`), a burst under way fits what remains (`Sized`), and a good
  completion implies `Whole`;
* `StripTransfer`: the same for the strip chain.

The arithmetic of the burst split is in lemmas of its own (`PageRoom`, `BurstFits`,
`StripFits`): an aligned address lies at least one beat before the end of its page,
so a burst is never empty and never crosses. There is one lemma per state of the engine
(`ArStep`, `RStep`, ...), and `ClockStep` joins them. TLC checks the same
properties on a small instance in the `dma` run, where each of them also has a mutant
of the code that violates it.

`CqRing_proofs.tla`, for every size of ring and batch (`RingAssumption`: a ring of at least
two slots, a batch of at least one descriptor):

| theorem | says |
|---|---|
| `RingInvariant` | `RingSpec => []IInv` |
| `SlotsIntact` | what is written and not retired is in its slot |
| `RunsInOrder` | the batch holds the oldest descriptors in order, and at most one has run without being retired |
| `RingImplements` | `RingSpec => Contract!CqSpec` |

*Argument.* `tail` and `head` are `pub % Size` and `hd % Size`, and the true counts never
differ by a whole turn: `hd <= pub <= put` and `put - seen < Size` with `seen <= hd`.
So a difference modulo the size is the true difference, which is the lemma everything
else uses: the batch is never larger than what is pending, `Look` never takes back a slot too many, and a
slot between `hd` and `put` belongs to one descriptor only. Both cores may move in one step. What each side guarantees in its own
step, in terms of the other's variables before it, is `HostGuarantee` (published slots
stay, cursors only grow) and `FwGuarantee`, proved from the invariant in the lemmas
`HostMove` and `FwMove`; `RingNextInv` shows that the two together give the invariant
after the step. Its parts are `RingType`, `Counts`, `Intact`, `Batch` and `Progress`.

`CmdQueue_proofs.tla`, for every size of ring and batch, every list of
descriptors, every bound on faults and every number of descriptors written ahead, that is, for the
registers, the firmware, both hosts, the fetch and the interrupt controller on one clock:

| theorem | says |
|---|---|
| `QueueInvariant` | `Spec => []QInv` |
| `QueueIsRing` | `Spec => ImplementsRing`: every clock edge is a step of the ring or leaves it alone |
| `FlagsAreTrue` | `Spec => []FlagsTrue` |
| `FrozenWhileErr` | `Spec => FrozenOnErr`, an action property |
| `QueueTypes` | `Spec => []TypeOK` |
| `EachRunsOnce` | `Spec => RunsOnce`, an action property |
| `CauseIsTrue`, `PassesHonestly` | `Spec => []CauseNamesHead`, `Spec => []PassIsHonest` |

*Assumptions.* `QueueAssumption`: the lists are sequences of descriptors; those of the sleeping
host fit into the ring at once, as `host_producer_irq.c` posts them, and carry LAST on their last descriptor at most; source 1 is
one of the controller's; the code of no cause is 0. `RingAssumption` is that of the ring.

*Argument.* A clock edge moves the host, the firmware, the fetch and the registers at once.
`RegStep`, `FetchStep`, `FwStep` and `HostStep` say what each can do, in a handful of cases, and
`EdgesHold` joins them; nothing after it looks at the clock again. The refinement would be false
if the firmware took the end of one fetch for the end of another, since DMA_STATUS is one register
and a stop or a reset of the core leaves a fetch running. `QInv` has one part for each reason
why it does not: `Running` (a core runs only while no
reset is under way and the host has started it), `Fetching` (a fetch is the batch's own: source, length and number
of descriptors copied, or it has been abandoned with its core), `Batching` (what has been counted and the place in the batch),
`Stopping` (an error that is up stands for a firmware that has halted or been reset), besides the types of the
three parties. `CqRing_proofs` is then used by
instance: `Ring!IInv` holds in every reachable state, so the counts of the ring are known to the rest.

`FaultInv` strengthens it for the properties about faults. `Faithful`: each copy of the
batch is equal to its slot, although the host goes on writing slots. `Settled`: a descriptor that was
executed and is still at `CQ_HEAD` has no fault, and either the firmware is on its way to retire it or an abort came between.
`Named`: a cause on record, or about to be, is the fault of the slot at `CQ_HEAD`, which has
not been executed. `Finishing`: after the last descriptor of the sleeping host nothing can
set the error, so the two status words it reads at different times agree. `Traces` keeps what these need of the past: an error of
a fetch ends its batch, and the host repairs only while no core runs.

`StripStaging_proofs.tla`, for every set of jobs with natural fields: `StagingFits`, that a job of at most two strips and two
chunks with whole weight blocks is staged intact. Two strips of parameters end exactly
where the folds begin, two chunks end before the batch copy, and the compaction only ever
reads above what it has written. The invariant has one part per phase (what has been
staged so far, and that the sources still to be read are untouched) and one lemma per
action; `CopyTcm` and `CopyShared` say what a transfer leaves alone. Together with
the `staging` run it says where the line is: two strips are safe, three are not.

`NpuFabric_proofs.tla`, for every set of host accesses, every pair of jobs and every size
of bus, page and memory:

| theorem | says |
|---|---|
| `FabricTypes` | `Spec => []TypeOK` |
| `BurstsAreUncut` | `Spec => []BurstsUncut` |
| `EvidenceSurvives` | `Spec => EvidenceKept`, an action property |
| `WordsStayInPlace` | `Spec => []WordsInPlace` |

*Assumptions.* `ParamsAssumption`, `DmaAssumption` and `FabricAssumption` on the sizes; `AccessAssumption`, that
accesses have the types of the bus; `JobAssumption`, that the jobs have the types of their registers and lie inside both
memories, and that the words read, the words written back and the words the host writes are three
disjoint sets, as the host that lays out shared memory keeps them (only `WordsStayInPlace` uses more than the types);
`CauseAssumption`, that the code of an abort is not the code of no fault.

*Argument.* `BurstsUncut` relates four machines of four blocks, and its invariant `FInv` has one part for each
of the parties: the engine and its latched request (`Engine`), the bridge and the decoder's route (`Port`), the owner and
the debts of each channel (`ReadChannel`, `WriteChannel`, with the pointers in `ReadData` and `WriteData`), and
`Reset`, that the pulse of a hard reset finds the engine with nothing on its bus. `EngineEdge` and
`PortEdge` reduce a step of either party to what the memory sees of it (owning a channel from its address to its last
beat or response), and the channels are proved from these two only.
`EvidenceKept` does not follow from the order of the assignments alone. `EvInv` adds what it needs of
the past: while an abort is owed an answer no hard reset is pending, and either the abort
is still going on or its evidence is there. `EvidenceStep` and `ResetStep` are the
two halves of the clocked block; when the engines fall quiet plays no part.

`WordsInPlace` speaks of finished transfers and says nothing of one in progress, so it is far from inductive. `DInv`
(which TLC found invariant on the instance of the `fabric` run before it was proved) has five parts. `Places`: in each state of the engine the
bus address, the local pointer and the words already delivered are functions of the words moved, down to the
beat of a burst. `Lanes`: the pointer of the SRAM, which steps one word from an aligned base, plus the lane that the
master computed from its own address, is the word meant. `Claims`: whose transfer is under way, and what is true once it reports done, although an abort or
the other direction may come between. `Orders`: which job a go pulse starts, and that the core writes back only what it has read.
`Memories`: what each word may be. One edge is first reduced to what it does to the
channels (`ReadEdge`, `WriteEdge`), to the memories (`TcmEdge`, `MemEdge`) and to the engine (`EngineDataStep`);
`FromIdle` to `FromDone` follow the transfer state by state, and `LanesStep` the lanes. That a word
strobed on its lane changes that word and no other is `OneWord`, a fact about residues of the size of the memory.

`NpuStrip_proofs.tla`, for every list of jobs, every size of bus, page, strip, engine and batch,
every bound on errors and any delays of the bus and of both cores:

| theorem | says |
|---|---|
| `StripInvariant` | `Spec => []SInv` |
| `StripTypes` | `Spec => [](Calm => TypeOK)` |
| `PulsesArrive` | `Spec => [](Calm => NoLostPulse)` |
| `BanksApart` | `Spec => [](Calm => NoBankCollision)` |
| `FaultsReported` | `Spec => [](Calm => NoSilentFault)` |

*Calm* says that the host has not reset the NPU and, with the queue's firmware, has not restarted it
after an error. It is not an assumption of convenience: a soft reset leaves a prefetch running
(`quiesce`), a pulse of the restarted firmware is then lost (`staledone`), and after an error even without a
reset (the end of section 3), so beyond it `NoLostPulse` is false of the code. With `MaxSoft = 0`
and `MaxAcks = 0`, as in the `strip` run, every state is calm, and so is every state of
`ml_job_driver`, which is restarted after finished jobs (`legacy`): there the theorems are the properties of the runs.
Errors of the bus are not excluded; they may fall on any beat.

*Assumptions.* `ParamsAssumption`, `DmaAssumption`, those of the engine and the sequencer on the sizes of their
loops, and `StripAssumption`: a chunk of parameters is a page and a store is one
output row of the engine; the jobs have the types of the configuration registers; a driver that is restarted has a
job to run, since each build of `ml_job_driver.c` holds one.

*Argument.* `SInv` is `Bounds` and, while calm, `Core`. Besides the types it has three groups of parts.
`Wire` (`Handshake`, `Bursts`, `StripRoom`) is about the DMA engine and its slave: what may be on the bus in each state, that a
transfer goes on with whole bursts, and that the beats still to come fit into the bank. `FirmwareInv`,
`TurnInv` and `EngineInv` say who is at work and for whom: firmware and sequencer take turns, and a busy engine works
for the one who waits for it, or for a job that has already ended in error. `PrefetchInv`, `PulseInv`,
`BankInv` and `FaultInv` are about the overlap: neither engine queues commands, so `PulseInv` covers the cycle between
a pulse and the busy flag, which `busy_seen` exists for; `BankInv` follows the bank of a prefetch from its
command through the engine; `FaultInv` says where an error is kept until the sequencer looks, in the
flag of the engine, in the prefetch monitor, or in a state of its own. A clock edge moves all blocks at
once. `DmaStep` and `MatStep` say what an engine may do on an edge, `FirmwareStep` and `TopStep` what the
firmware and the registers leave alone, and `StripRun`, `LegacyRun`, `PlainStep` and `GoStep` reduce the states
of the sequencer to a dozen kinds of step (wait, issue, prefill, swap, fault, ...). `ControlStep` then goes kind by
kind and never looks at the clock. TLC found `SInv` invariant on ten instances (those of the passing runs,
reset and restart included) before it was proved.

`NpuStripData_proofs.tla`, on top of it, for every list of jobs with room to be staged and otherwise for the same:

| theorem | says |
|---|---|
| `DataInvariant` | `Spec => []CalmData` |
| `RightResults` | `Spec => [](Calm => OnlyRightResults)` |
| `ResultsArrive` | `Spec => [](Calm => ResultsStored)` |

*Assumptions.* Besides those above, `JobsAssumption`, about the jobs the programs are built with; the theorems of
`NpuStrip_proofs` do not use it. A strip job has room to be staged (`RoomToStage`): its activations end below the batch copy, its
parameters below its folds, and its weights are whole blocks. With the sizes of the code that is at most two strips and
two chunks (`RoomIsFits`), the jobs that `StagingFits` proves to be staged intact, so that
what `StripStaging` ends with is what `NpuStrip` starts from. The theorems say nothing of larger jobs, and could not: the
firmware accepts them, and finding 6 shows one whose results would be computed from overwritten parameters. From the same bound the
weight base, which takes four bits of the chunk, has room for every chunk (`ChunkBase`). A strip is as long as
what the engine reads of it: the blob emitter lays chunk `c` and sub-tile `t` out at `c*4096 + t*512`
(`strip_blob.py`) and pads, while neither firmware nor sequencer compares `STRIP_BYTES` with the loop counts, so
with a shorter strip the engine would read what the previous one left in the bank. Addresses are whole words and
`DST_STRIDE` is no shorter than a result tile. A legacy job has at least one tile, since the sequencer computes one
before it compares, and the tight layout is chosen only together with the stationary one
(`npu_ml_ctrl.v:190`). No driver sets the bypass bit. What the jobs write fits into the TCM. Jobs of one ring
have their results in different beats; a driver, which runs one job per build, may overwrite the results of
the one before. TLC evaluates the assumption on the jobs of every run of `MCNpuStrip`.

*Argument.* `OnlyRightResults` says nothing of data on its way, and a result is a term over everything
that was multiplied, so the invariant has to know, in every state of three machines, what each memory holds. `DInv` has
one layer for each place a datum passes, in the order in which it does:

* `KickInv` and `LoopInv`: the registers hold the job that was kicked, and the loop counters stay in their loops;
* `FillInv`: the beats of a prefetch up to the write pointer are those of its strip, with the place of
  the burst in progress; `PrefetchedInv`: the bank that is computed from holds all of
  strip `n`, and the other one is filled with `n + 1` by the time the sequencer swaps;
* `ModeInv`, `LoadInv`, `OperInv`: the same for the loads into the TCM, and that operands stay
  where they are until they are used, although results go to the same memory;
* `AccInv`: in every wait state the accumulator rows hold the fold and the first `n` pairs of activation
  window and weight beat, where `n` counts whole chunks and the repetitions of the current command;
* `PipeInv`: what the three stages of the requantisation pipe, the packer and the write port hold, and which words of
  the tile are already in the result window. Here the order matters in which a legacy blob is
  overwritten by its own result: the parameters are read before the first word is written, and the operands are not needed any more;
* `StoreInv`: which tile the store carries and how far it is, also for a store that goes on after its job has failed;
* `StoredInv`: all tiles up to `Ready` are in shared memory, and at `DONE` that is all of them.

`Edge` is a clock edge as far as data is concerned, and `Moves` says in one disjunct for each state of the sequencer what it
issues and how its counters move; `SInv` supplies who is at work for whom. Each layer has a lemma (`KickStep` to
`ResultsStep`) that uses the layers before it, and under it lemmas about single engines (`BeatWritten`, `LoadStay`,
`OpStay`, `PipeStay`, `WriteStep`, ...) and about the address arithmetic (`StripCell`: the cell from which the engine reads window `i` of sub-tile `u`
of chunk `h` lies in the strip, and the blob has that window there; `BeatsApart`: two beats of the results of a job are
different beats, and those of two jobs of a ring are by `JobsAssumption`), from which it follows that a stored result is not
overwritten. TLC found `DInv` invariant, layer by layer, on ten instances before the
layers were proved.

*Only model-checked:* liveness (`TransferEnds`, `StripEnds`, `JobEnds`,
`RingSettles`, `AllRetired`, `VerdictReached`, `AccessEnds`, `HardResetEnds`), which is out
of the prover's reach under fairness; and `NpuStrip` after a soft reset or a restart that acknowledges
an error, where `Core` does not hold: there `ResultsStored` and `OnlyRightResults` are what the `soft` run checks.
What a result term evaluates to is not modelled.

## 5. What is not modelled

* **Other opcodes of the firmware**: single matrix commands and vector operations are, in
  `CmdQueue`, one step that accepts the descriptor or refuses it with its cause; what
  they compute is data. In `NpuStrip` one narrow read (`FetchDesc`) stands for the ring
  fetch and the transfers that stage operands.
* **A host that breaks the protocol of the ring** (more than `Size - 1` descriptors, CQ_TAIL
  moved back) is not modelled: the hardware does not stop it, and ADR-0035 leaves the
  bound to the host. So is an output area that overlaps the job's own blob: the firmware
  checks its end, not its place.
* **Strip jobs that do not fit the staging layout, or whose strips are shorter than what the loops read**:
  the firmware accepts both, `JobsAssumption` neither. `StripStaging` stages the former, for one and
  three strips, up to `ML_GO`; three chunks and weights that are no whole blocks are in no run.
* **Strip jobs without the LAST flag** are not issued by the firmware and not enumerated.
* **The numbers** (products, requantisation, response clamps), byte strobes, and the
  lane layout inside a window.
* **Routes of the host into the NPU's memories and the decode error** are left out of
  `NpuFabric`; the CSR route is the one a hard reset resets.
* **Ring and strip jobs together with host accesses to shared memory** are in different
  modules; `DmaContract`, which the engine implements, is what `CmdQueue` assumes of the fetch.
* **CLR, LOADVEC and RESCALE of the matrix engine**: in `MatEngine`, but issued by the
  single matrix commands only, so no run reaches them yet.
* **`ml_irq`**: `npu_top.v` does not connect it.
* **Ports of the TCM** other than the engine's and the DMA's: the firmware does not
  touch the written region while a job runs.
* **The processor core, debug module, QSPI, UART, GPIO, CLINT and SoC decode.** None of them takes part
  in the protocols above. Wide data paths and combinational decoders are out of TLC's
  reach; the QSPI front end and the debug transport would be projects of their own.
* **Test benches, reports and build scripts.** They are not part of the system. The
  JavaScript files of the repository all belong to generated coverage reports
  (`flow/v2_pipeline/*/urgReport/js`), the viewer code of a third-party tool.

## 6. Disagreements between code and documents

Each is a run that TLC refutes on the code as modelled; the quotations are in
`PROJECT.json`.

1. `swap` - `ML_GO` resets the compute bank in the idle state, so a job after one with
   an even number of strips swaps outside the rendezvous and trips the assertion at
   `npu_ml_ctrl.v:644`. The data are not harmed; the assertion is too strong.
2. `quiesce` - `engines_quiet` leaves out the strip prefetch. A soft reset in the middle
   of one reports quiescence while a read burst is still offered; ADR-0038 promises
   none. (The hard reset does include it.)
3. `phantom` - `S_STRIP_PREFILL_W` looks at `strip_err` in its first cycle, when the flag
   is still that of the previous job. A job after one that failed in its prefetch fails
   too, without a bus error.
4. `staledone` - after 2., a restarted firmware may raise DMA_GO while the prefetch is
   draining; the pulse is lost and `wait_done` takes the completion of an earlier
   transfer for its own.
5. `irq` - the interrupt of a descriptor with IRQ and LAST is raised before the mailbox is set.
   A handler that is fast enough finds `STATUS.done` clear, reports a failure and stops
   the core of the NPU. ADR-0035 pairs the interrupt with completion, and the design of
   the interrupt-driven host has the handler confirm it.
6. `staging` - `mat_strip_gemm` bounds its staging regions one by one. A job of three strips
   passes the checks, and its folds overwrite parameters. The schema promises that the
   bounds are validated; `StagingFits` shows for which jobs the layout does suffice.

## 7. Plan

Done: the DMA engine with contract and proofs; the strip machine; the command queue with
interrupt, its ring algorithm and proofs; hard reset, arbiter and SRAM with proofs; the staging layout
and its proof; control and data of the sequencer proved. What could follow, in this order:

1. `MatBus`: the matrix engine with a free commander, so that CLR, LOADVEC and RESCALE run.
2. `Tcm`: priority grant of four writers, back-pressure, the engine's unconditional ports.
3. An invariant of `NpuStrip` that survives a soft reset, so that the theorems need no `Calm`.
4. `Requant`: the requantisation arithmetic against its definition.
5. `Qspi` and `DebugModule`: front-end arbitration, DMI between two clocks.
