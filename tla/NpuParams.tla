------------------------------ MODULE NpuParams ------------------------------
(* Build parameters of the NPU that several of its blocks share. *)
EXTENDS Integers

CONSTANTS
    WPB,        \* 32-bit words per AXI beat of a wide transfer (DMA_DATA_W / 32)
    PageBytes,  \* no AXI burst may cross a multiple of this (4096)
    StripMax    \* longest strip in bytes (40960)

BeatBytes == 4 * WPB

ASSUME ParamsAssumption ==
    /\ WPB \in {1, 2, 4, 8}
    /\ PageBytes \in Nat \ {0} /\ PageBytes % (4 * WPB) = 0
    /\ StripMax \in Nat
=============================================================================
