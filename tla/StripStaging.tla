---------------------------- MODULE StripStaging ----------------------------
(***************************************************************************)
(* What mat_strip_gemm of cq_sequencer.c does before it sets ML_GO: it      *)
(* checks the job, reads its header, moves the weights down over it, and    *)
(* copies parameters, folds and activations to the places of the local      *)
(* memory (TCM) where npu_ml_ctrl looks for them.                          *)
(*                                                                         *)
(* Addresses count granules of 32 bytes, the smallest thing staged; shared  *)
(* memory is addressed from W_BASE.  A datum is the place it came from: the *)
(* granule of the blob, or -1-g for what granule g of the TCM held before.  *)
(* One step is one DMA command with its poll, which the core issues alone.  *)
(***************************************************************************)
EXTENDS Integers

CONSTANT Jobs    \* descriptors, with what their headers say (str2) and how
                 \* many of its batch follow: slots next .. upto - 1 of scratch

VARIABLES
    job,         \* the descriptor being executed
    phase,       \* where its handler stands
    i,           \* the loop counter, in granules
    tcm, shared

vars == <<job, phase, i, tcm, shared>>

\* Addresses and lengths in granules, out in blocks of 64 bytes.
WellFormed(j) ==
    /\ {j.w_base, j.strip, j.n_strips, j.k_chunks, j.k_tail, j.n_tail, j.out} \subseteq Nat
    /\ j.next \in 0 .. 8 /\ j.upto \in 0 .. 8

Scratch == 120      \* TCM_SCRATCH_B 0xF00: eight descriptors of 16 bytes
OpA     == 74       \* STRIP_OP_A_B 0x940
Param   == 144      \* STRIP_PARAM_B 0x1200
Fold    == 176      \* STRIP_FOLD_B 0x1600, also the buffer of header and weights
TcmEnd  == 1024     \* TCM_BYTES
SharedEnd == 2048   \* SHARED_BYTES
Hdr     == 2        \* STRIP_HDR_BYTES
Block   == 16       \* STRIP_COMPACT_BYTES, STRIP_ACT_BYTES, STRIP_OP_A_STEP

\* The parts of the blob, in granules: eight parameter blocks of 64 and eight
\* fold blocks of 32 bytes for every strip.
Weights(j) == j.n_strips * j.strip
Params(j)  == 16 * j.n_strips
Folds(j)   == 8 * j.n_strips
Acts(j)    == Block * j.k_chunks
ParamSrc(j) == Hdr + Weights(j)
FoldSrc(j)  == ParamSrc(j) + Params(j)
ActSrc(j)   == FoldSrc(j) + Folds(j)
Total(j)    == ActSrc(j) + Acts(j)

\* The checks before the first transfer; any of them halts with CQ_ERR_MAT_PARAM.
Legal(j) ==
    /\ j.w_base % 128 = 0
    /\ j.strip \in 1 .. 1280 /\ j.strip % 2 = 0
    /\ j.n_strips # 0 /\ j.k_chunks # 0
    /\ j.k_tail \in 1 .. 64
    /\ j.n_tail \in 1 .. 64 /\ j.n_tail % 8 = 0
    /\ Folds(j) <= TcmEnd - Fold
    /\ Total(j) <= SharedEnd
    /\ Params(j) <= TcmEnd - Param
    /\ Acts(j) <= Fold - OpA
    /\ j.w_base <= SharedEnd - Total(j)
    /\ 8 * (j.n_strips - 1) + j.n_tail \div 8 <= SharedEnd \div 2 - j.out

\* n granules of src from s on, copied to d in dst.
Copy(src, s, dst, d, n) ==
    [g \in DOMAIN dst |-> IF g \in d .. d + n - 1 THEN src[s + g - d] ELSE dst[g]]

Init ==
    /\ job \in Jobs
    /\ phase = "check" /\ i = 0
    /\ tcm = [g \in 0 .. TcmEnd - 1 |-> -1 - g]
    /\ shared = [g \in 0 .. SharedEnd - 1 |-> g]

\* The loop of a phase: go on while below n, then start the next phase.
Loop(ph, n, step) ==
    /\ phase = ph /\ i < n /\ i' = i + step /\ UNCHANGED <<job, phase>>

Leave(ph, n, to) ==
    /\ phase = ph /\ i >= n /\ phase' = to /\ i' = 0
    /\ UNCHANGED <<job, tcm, shared>>

Check ==
    /\ phase = "check" /\ phase' = IF Legal(job) THEN "header" ELSE "halt"
    /\ UNCHANGED <<job, i, tcm, shared>>

Header ==
    /\ phase = "header" /\ phase' = IF job.str2 THEN "weights" ELSE "halt"
    /\ tcm' = Copy(shared, 0, tcm, Fold, Hdr)
    /\ UNCHANGED <<job, i, shared>>

\* The weights go down by the header's length, a block at a time through the TCM.
Compact ==
    /\ Loop("weights", Weights(job), Block)
    /\ tcm' = Copy(shared, Hdr + i, tcm, Fold, Block)
    /\ shared' = Copy(shared, Hdr + i, shared, i, Block)

StageParams ==
    /\ Loop("params", Params(job), 2)
    /\ tcm' = Copy(shared, ParamSrc(job) + i, tcm, Param + i, 2)
    /\ UNCHANGED shared

StageFolds ==
    /\ Loop("folds", Folds(job), 1)
    /\ tcm' = Copy(shared, FoldSrc(job) + i, tcm, Fold + i, 1)
    /\ UNCHANGED shared

StageActs ==
    /\ Loop("acts", Acts(job), Block)
    /\ tcm' = Copy(shared, ActSrc(job) + i, tcm, OpA + i, Block)
    /\ UNCHANGED shared

Turn ==
    \/ Leave("weights", Weights(job), "params")
    \/ Leave("params", Params(job), "folds")
    \/ Leave("folds", Folds(job), "acts")
    \/ Leave("acts", Acts(job), "go")

Next == Check \/ Header \/ Compact \/ StageParams \/ StageFolds \/ StageActs \/ Turn

Spec == Init /\ [][Next]_vars

-----------------------------------------------------------------------------
(* Properties. *)

\* Where the sequencer reads: every granule holds its own datum.
Placed(mem, d, src, n) == \A g \in 0 .. n - 1 : mem[d + g] = src + g

\* Slots next .. upto - 1 of the batch, two to a granule, are still what was read
\* from the ring.
BatchKept(j) ==
    \A b \in j.next .. j.upto - 1 :
        LET g == Scratch + b \div 2 IN tcm[g] = -1 - g

\* When ML_GO is set the ML controller finds every parameter block, fold block,
\* activation chunk and weight where it looks for it, and the descriptors of the
\* batch that are still to be executed are intact.
StagedIntact ==
    phase = "go" =>
        /\ Placed(tcm, Param, ParamSrc(job), Params(job))
        /\ Placed(tcm, Fold, FoldSrc(job), Folds(job))
        /\ Placed(tcm, OpA, ActSrc(job), Acts(job))
        /\ Placed(shared, 0, Hdr, Weights(job))
        /\ BatchKept(job)

\* The jobs the layout has room for: two strips, two chunks, whole blocks.
Fits(j) == j.n_strips <= 2 /\ j.k_chunks <= 2 /\ Weights(j) % Block = 0

\* A job the layout has room for is staged as StagedIntact says.
StagedWhenFits == Fits(job) => StagedIntact
=============================================================================
