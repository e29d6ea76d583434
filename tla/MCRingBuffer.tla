---------------------------- MODULE MCRingBuffer ----------------------------
(* RingBuffer on a few threads and cells; positions go round the ring twice. *)
EXTENDS RingBuffer, TLC

Symmetry == Permutations(Producers) \cup Permutations(Items)

=============================================================================
