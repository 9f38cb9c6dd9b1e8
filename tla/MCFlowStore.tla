----------------------------- MODULE MCFlowStore -----------------------------
(* Model values for the runs of FlowStore.                                 *)
EXTENDS FlowStore, TLC

CONSTANTS s1, s2, w1, w2, e

(* Two sessions whose requests interleave.  The proxy queues a CONNECT     *)
(* when its session ends, after the requests inside it (proxy.go:296-298). *)
TwoSessions ==
    << [session |-> s1, connect |-> FALSE], [session |-> s2, connect |-> FALSE],
       [session |-> s1, connect |-> FALSE], [session |-> s1, connect |-> TRUE],
       [session |-> s2, connect |-> TRUE] >>
=============================================================================
