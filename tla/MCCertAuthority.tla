--------------------------- MODULE MCCertAuthority ---------------------------
(* Model values for the run of CertAuthority.                              *)
EXTENDS CertAuthority, TLC

CONSTANTS x1, x2, s1, s2

TwoHosts == {1, 2}

(* Commands are interchangeable, and so are sessions.                      *)
Symmetry == Permutations(Commands) \cup Permutations(Sessions)
=============================================================================
