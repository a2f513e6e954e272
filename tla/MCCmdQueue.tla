------------------------------ MODULE MCCmdQueue ------------------------------
(* Instances of CmdQueue small enough for TLC. *)
EXTENDS CmdQueue

D(k, f, i, l) == [id |-> -1, kind |-> k, fence |-> f, irq |-> i, last |-> l]
Plain    == D("ok", FALSE, FALSE, FALSE)
Fenced   == D("ok", TRUE, TRUE, FALSE)
Final    == D("ok", FALSE, TRUE, TRUE)
Bad(k)   == D(k, FALSE, FALSE, FALSE)

\* More descriptors than the ring has slots, with two ends of a list and one
\* descriptor that the firmware refuses, before or after the wrap.
RingLists == {<<Plain, Fenced, Final, Plain, Plain, Final>>,
              <<Plain, Bad("param"), Final, Plain, Plain, Final>>,
              <<Plain, Plain, Final, Plain, Bad("rsvd"), Final>>,
              <<Bad("opcode"), Final, Plain, Plain, Final, Plain>>}

\* host_producer_irq posts five; the last one carries IRQ and LAST.
IrqLists  == {<<Plain, Fenced, Final>>, <<Plain, Bad("param"), Final>>}
IrqListOk == {<<Plain, Plain, Final>>}

Both    == [ring |-> RingLists, irq |-> IrqLists]
IrqOnly == [ring |-> {}, irq |-> IrqListOk]
Npu     == {1}
=============================================================================
