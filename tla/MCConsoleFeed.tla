---------------------------- MODULE MCConsoleFeed ----------------------------
(* Model values for the runs of ConsoleFeed.                               *)
EXTENDS ConsoleFeed, TLC

CONSTANTS all, odd

(* An empty filter, and one that matches every other flow.                 *)
EveryOther == all :> Ids @@ odd :> {i \in Ids : i % 2 = 1}
=============================================================================
