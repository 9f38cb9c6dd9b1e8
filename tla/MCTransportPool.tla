--------------------------- MODULE MCTransportPool ---------------------------
(* Model values for the run of TransportPool.                              *)
EXTENDS TransportPool, TLC

CONSTANTS k1, k2, k3, r1, r2, r3

Symmetry == Permutations(Requests)
=============================================================================
