------------------------------ MODULE MCGateway ------------------------------
(***************************************************************************)
(* Model values for the runs of Gateway: a client whose policy an operator *)
(* narrows, widens and moves to another token, an api host in the scope of *)
(* a broker and a bulk host.                                               *)
(***************************************************************************)
EXTENDS Gateway, TLC

CONSTANTS c1, c2, api, bulk, t1, t2, s1, s2, x1, x2

NoPermits == [h \in {api, bulk} |-> {}]

Base == [token |-> t1, allowed |-> {api, bulk}, opaque |-> {bulk},
         intercept |-> {}, inspect |-> {api}, ruled |-> {},
         permits |-> NoPermits, mode |-> "intercept"]

(* The api host is inspected, were it not for the broker; bulk is opaque.  *)
Open == c1 :> Base @@ c2 :> [Base EXCEPT !.token = t2, !.mode = "inspect"]

(* Rules on both hosts: read-only api, writable bulk.                      *)
Ruled ==
    c1 :> [Base EXCEPT !.ruled = {api, bulk}, !.opaque = {api, bulk},
                       !.permits = api :> {"read"} @@ bulk :> {"write"},
                       !.mode = "opaque"]
    @@ c2 :> [Base EXCEPT !.token = t2, !.inspect = {}, !.opaque = {},
                          !.mode = "opaque"]

(* The first client is gone and its token is the second client's.          *)
Moved == c1 :> Removed
         @@ c2 :> [Base EXCEPT !.allowed = {bulk}, !.opaque = {},
                               !.intercept = {bulk}]

(* bulk is inspected without rules: the read-only default applies.         *)
ReadOnly == c1 :> [Base EXCEPT !.allowed = {bulk}, !.opaque = {},
                               !.inspect = {bulk}]
            @@ c2 :> Removed

(* Rules on a host that follows intercept_mode "intercept".                *)
RuledDefault == c1 :> [Base EXCEPT !.opaque = {}, !.inspect = {},
                                   !.ruled = {bulk},
                                   !.permits = api :> {} @@ bulk :> {"read"}]
                @@ c2 :> Removed

AllPolicies    == {Open, Ruled, Moved, ReadOnly}
TwoPolicies    == {Open, Moved}
BrokeredApi    == {<<c1, api>>}
RulePolicies   == {RuledDefault}

StreamSymmetry == Permutations(Streams) \cup Permutations(Conns)
=============================================================================
