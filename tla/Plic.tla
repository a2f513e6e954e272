-------------------------------- MODULE Plic --------------------------------
(***************************************************************************)
(* The platform interrupt controller (plic.v): a rising edge of a source    *)
(* sets its pending bit, a read of the claim register returns the best      *)
(* pending source and clears it, a write of it (completion) clears again.   *)
(***************************************************************************)
EXTENDS Integers, FiniteSetsExt

CONSTANT Ids      \* the sources (1 .. 7; 1 is the NPU)

ASSUME PlicAssumption == Ids \subseteq 1 .. 7

VARIABLES
    plic_cfg,     \* [prio, enable, threshold]
    pending,      \* sticky pending bits: a set of sources
    sources_d     \* the sources in the cycle before

plicVars == <<plic_cfg, pending, sources_d>>

PlicInit ==
    /\ plic_cfg = [prio |-> [i \in Ids |-> 0], enable |-> {}, threshold |-> 0]
    /\ pending = {} /\ sources_d = {}

\* Mutant: the threshold is off by one.
LiveStrict == {i \in pending \cap plic_cfg.enable : plic_cfg.prio[i] > plic_cfg.threshold + 1}

\* Pending, enabled and above the threshold; the highest priority, then the
\* lowest number.
Live == {i \in pending \cap plic_cfg.enable : plic_cfg.prio[i] > plic_cfg.threshold}
BestId ==
    IF Live = {} THEN 0
    ELSE Min({i \in Live : \A j \in Live : plic_cfg.prio[i] >= plic_cfg.prio[j]})

Meip == BestId # 0

(* One clock edge.  acc: what the core does on the bus this cycle.          *)
PlicClk(sources, acc) ==
    /\ sources_d' = sources
    /\ pending' = (pending \cup (sources \ sources_d))
                  \ (IF acc.op = "claim" THEN {BestId}
                     ELSE IF acc.op = "complete" THEN {acc.id} ELSE {})
    /\ plic_cfg' = CASE acc.op = "prio"      -> [plic_cfg EXCEPT !.prio[acc.id] = acc.val]
                     [] acc.op = "enable"    -> [plic_cfg EXCEPT !.enable = acc.val]
                     [] acc.op = "threshold" -> [plic_cfg EXCEPT !.threshold = acc.val]
                     [] OTHER                -> plic_cfg
=============================================================================
