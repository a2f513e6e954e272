------------------------------ MODULE MCNpuStrip ------------------------------
(* Instances of NpuStrip small enough for TLC: pages of 16 bytes, a 32-bit
   bus, strips of two sub-tiles, an engine with one row of two output words. *)
EXTENDS NpuStrip

Strip(base, bytes, strips, kch, kt, nt, out) ==
    [bypass |-> FALSE, stationary |-> FALSE, tight |-> FALSE, strip |-> TRUE,
     ntiles |-> 0, wbase |-> base, sbytes |-> bytes,
     nstrips |-> strips, kchunks |-> kch, ktail |-> kt, ntail |-> nt, outbase |-> out]

\* Three strips, so that both banks are filled again, with a short last one;
\* then one strip of two K-chunks, the second of them short.
TwoJobs == <<Strip(0, 16, 3, 1, 2, 1, 0), Strip(64, 32, 1, 2, 1, 2, 40)>>

\* The same on a 64-bit bus with windows of two words and tiles of two beats, and
\* a job whose second strip does not start on a page: the firmware lets it pass,
\* the DMA engine refuses it while the first strip is computed.
WideJobs  == <<Strip(0, 32, 3, 1, 2, 1, 0), Strip(128, 64, 1, 2, 1, 2, 80),
               Strip(192, 56, 2, 2, 1, 1, 112)>>
WideFetch == [src |-> 512, dst |-> MatOut + OutWords, len |-> 1]
WideBeats == {16 * g + 8 * w : g \in 0 .. 9, w \in {0, 1}}

\* A job that ends on bank 1, and another one.
EvenStrips == <<Strip(0, 16, 2, 1, 2, 1, 0), Strip(64, 16, 1, 1, 2, 1, 40)>>

\* The three layouts of the legacy path, two tiles each.
Legacy(stat, tgt) ==
    [Cfg0 EXCEPT !.ntiles = 2, !.stationary = stat, !.tight = tgt]
LegacyJobs == <<Legacy(FALSE, FALSE), Legacy(TRUE, FALSE), Legacy(TRUE, TRUE)>>

Fetch     == [src |-> 256, dst |-> MatOut + OutWords, len |-> 1]
Beats     == {8 * g + 4 * w : g \in 0 .. 8, w \in {0, 1}}
AllLag    == {"ar", "r", "aw", "w", "b", "core"}
BusLag    == {"ar", "r", "b"}
NoLag     == {}
NoBad     == {}
Banks0    == {0}
=============================================================================
