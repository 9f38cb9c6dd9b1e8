------------------------------- MODULE FlowSink -------------------------------
(***************************************************************************)
(* What the flow recorder promises to the proxy, without its queue, its    *)
(* workers or its locks: every completed flow is settled exactly once.  It *)
(* is refused only by a recorder that is closing, dropped under            *)
(* backpressure, or handed to the store and the audit trail, which keep it *)
(* or report an error.  Once Close has reported success nothing changes:   *)
(* no accepted flow is still on its way to a store about to be closed.     *)
(***************************************************************************)
EXTENDS Naturals

CONSTANT Flows

VARIABLES
    fate,     \* of each flow
    closed,   \* Close was called
    drained   \* Close returned nil

vars == <<fate, closed, drained>>

Fates == {"new", "accepted", "refused", "dropped", "recorded", "failed"}

Init ==
    /\ fate = [f \in Flows |-> "new"]
    /\ closed = FALSE
    /\ drained = FALSE

Become(f, from, to) ==
    /\ fate[f] = from
    /\ fate' = [fate EXCEPT ![f] = to]
    /\ UNCHANGED <<closed, drained>>

Accept(f) == ~closed /\ Become(f, "new", "accepted")
Refuse(f) == closed  /\ Become(f, "new", "refused")
Settle(f) == ~drained /\ \E to \in {"dropped", "recorded", "failed"} :
                             Become(f, "accepted", to)

Close ==
    /\ closed' = TRUE
    /\ UNCHANGED <<fate, drained>>

Drain ==
    /\ closed
    /\ \A f \in Flows : fate[f] # "accepted"
    /\ drained' = TRUE
    /\ UNCHANGED <<fate, closed>>

Next ==
    \/ \E f \in Flows : Accept(f) \/ Refuse(f) \/ Settle(f)
    \/ Close
    \/ Drain

Spec == Init /\ [][Next]_vars
=============================================================================
