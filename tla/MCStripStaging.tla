--------------------------- MODULE MCStripStaging ---------------------------
(* Jobs of one to three strips and of one chunk, as strip_blob.py lays them  *)
(* out (4096 bytes of weights to a chunk), alone in their batch.             *)
EXTENDS StripStaging

Job(n, k) ==
    [w_base |-> 512, strip |-> 128 * k, n_strips |-> n, k_chunks |-> k,
     k_tail |-> 64, n_tail |-> 64, out |-> 0, str2 |-> TRUE, next |-> 1, upto |-> 1]

Strips == {Job(n, 1) : n \in 1 .. 3}
=============================================================================
