------------------------------- MODULE MCNpuDma -------------------------------
(* An instance of NpuDmaBus small enough for TLC: a 64-bit bus, pages of 32
   bytes and bursts of at most two beats, so that short transfers are split by
   the page, by the burst length and by the end of the buffer. *)
EXTENDS NpuDmaBus

Desc(w, n, s, d, l) == [write |-> w, narrow |-> n, src |-> s, word |-> d, len |-> l]

\* Narrow transfers at any word, wide ones on beat boundaries, a misaligned wide
\* one and an empty one.
WideDescs ==
    {Desc(FALSE, TRUE, 20, 1, 4), Desc(TRUE, TRUE, 28, 1, 3),
     Desc(FALSE, FALSE, 24, 2, 6), Desc(TRUE, FALSE, 16, 0, 6),
     Desc(FALSE, FALSE, 16, 2, 5), Desc(FALSE, FALSE, 16, 1, 0)}

Strip(a, n, b) == [addr |-> a, bytes |-> n, bank |-> b]

\* A strip of three bursts with a short last one, and one that ends inside
\* a beat.
WideStrips == {Strip(32, 40, 1), Strip(0, 20, 0)}
=============================================================================
