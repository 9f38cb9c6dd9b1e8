------------------------------ MODULE MCDaemon ------------------------------
(* Model values for the run of Daemon.                                     *)
EXTENDS Daemon

CONSTANTS d1, d2, a1, a2, w1, w2
=============================================================================
