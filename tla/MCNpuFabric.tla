----------------------------- MODULE MCNpuFabric -----------------------------
(* A 64-bit bus, eight words of shared memory, bursts of two beats and pages  *)
(* of four words: the core reads words 1..3 (one burst of two beats and one   *)
(* of one) into its local memory and writes two of them back to 5..6, both    *)
(* starting on the upper lane of a beat; the host writes word 7.                *)
EXTENDS NpuFabric

Register(write, op) == [to |-> "csr", write |-> write, word |-> 0, val |-> 0, op |-> op]
Memory(write, w, v) == [to |-> "mem", write |-> write, word |-> w, val |-> v, op |-> ""]

HostAccesses ==
    {Register(TRUE, op) : op \in {"start", "soft", "hard", "enable", "disable"}}
    \cup {Register(FALSE, ""), Memory(FALSE, 5, 0), Memory(TRUE, 7, 70)}

Read  == [src |-> 4, dst |-> 0, len |-> 3]
Write == [src |-> 1, dst |-> 20, len |-> 2]
=============================================================================
