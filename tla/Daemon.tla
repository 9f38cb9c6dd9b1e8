-------------------------------- MODULE Daemon --------------------------------
(***************************************************************************)
(* The life of the process, cmd/veilgated/main.go, around the flow         *)
(* recorder: runServe opens its resources one after the other, each with a *)
(* deferred Close, serves until a signal or a listen error ends run.Group, *)
(* and returns through the deferred calls in the opposite order: the       *)
(* proxy's Handler (whose Close is FlowRecorder's), the flow store and the *)
(* audit sink.  When runServe has returned the process ends, whatever its  *)
(* goroutines are doing.                                                   *)
(*                                                                         *)
(* http.Server.Shutdown waits for plain requests, up to ten seconds, but   *)
(* not for hijacked connections: CONNECT sessions and WebSockets go on     *)
(* while the handler is being closed.                                      *)
(***************************************************************************)
EXTENDS FlowRecorder

CONSTANTS
    Hijacked,   \* the flows of hijacked connections
    Main        \* the main goroutine, the only caller of Handler.Close

ASSUME DaemonAssumption ==
    /\ Hijacked \subseteq Flows
    /\ Closers = {Main}

VARIABLES
    stage,     \* where runServe is
    defers,    \* the resources it has yet to close, next one first
    arrived,   \* the plain requests received
    shutdown   \* how the servers stopped: "none" | "graceful" | "expired"

lifecycle == <<stage, defers, arrived, shutdown>>
allVars   == <<vars, lifecycle>>
-----------------------------------------------------------------------------
(* The stages of runServe before it serves, each with the next one: the    *)
(* environment, policy and certificates, the audit sink, the interception  *)
(* CA and the brokers, the flow store, the handler, the console.           *)
Following == [config  |-> "audit",
              audit   |-> "brokers",
              brokers |-> "store",
              store   |-> "handler",
              handler |-> "console",
              console |-> "serving"]
Starting == DOMAIN Following

(* The stages that open something runServe has to close.                   *)
Opens == {"audit", "store", "handler"}

StartInit ==
    /\ Init
    /\ stage = "config"
    /\ defers = <<>>
    /\ arrived = {}
    /\ shutdown = "none"

(* A stage succeeds; what it opened is the first to be closed.             *)
MutDeferred(resource) == Append(defers, resource)
Deferred(resource)    == <<resource>> \o defers

Start ==
    /\ stage \in Starting
    /\ stage' = Following[stage]
    /\ defers' = IF stage \in Opens THEN Deferred(stage) ELSE defers
    /\ UNCHANGED <<vars, arrived, shutdown>>

(* Any stage but the construction of the handler may return an error.      *)
FailStart ==
    /\ stage \in Starting \ {"handler"}
    /\ stage' = "unwinding"
    /\ UNCHANGED <<vars, defers, arrived, shutdown>>

(* A signal, or an address that cannot be listened on.                     *)
Stop ==
    /\ stage = "serving"
    /\ stage' = "stopping"
    /\ UNCHANGED <<vars, defers, arrived, shutdown>>

(* Both servers have shut down: every plain request has returned, or ten   *)
(* seconds are over.                                                       *)
MutPlainIdle == TRUE
PlainIdle    == \A f \in arrived : pc[f] = "done"

Shutdown ==
    /\ stage = "stopping"
    /\ stage' = "unwinding"
    /\ shutdown' \in {"expired"} \cup {s \in {"graceful"} : PlainIdle}
    /\ UNCHANGED <<vars, defers, arrived>>

CloseHandler ==
    /\ stage = "unwinding"
    /\ defers # <<>>
    /\ Head(defers) = "handler"
    /\ CloseStep(Main)
    /\ UNCHANGED lifecycle

(* The deferred call at hand has returned; its error is discarded.  The    *)
(* database waits for the calls it is working on.                          *)
Closed(resource) ==
    CASE resource = "handler" -> closer[Main] = "done"
      [] resource = "store"   -> \A w \in Workers : job[w] = NoFlow
      [] resource = "audit"   -> TRUE

CloseNext ==
    /\ stage = "unwinding"
    /\ defers # <<>>
    /\ Closed(Head(defers))
    /\ defers' = Tail(defers)
    /\ UNCHANGED <<vars, stage, arrived, shutdown>>

ExitProcess ==
    /\ stage = "unwinding"
    /\ defers = <<>>
    /\ stage' = "exited"
    /\ UNCHANGED <<vars, defers, arrived, shutdown>>
-----------------------------------------------------------------------------
IsOpen(resource) == \E i \in DOMAIN defers : defers[i] = resource

(* A plain request arrives while the servers accept connections.           *)
Arrive(f) ==
    /\ stage = "serving"
    /\ f \notin arrived \cup Hijacked
    /\ arrived' = arrived \cup {f}
    /\ UNCHANGED <<vars, stage, defers, shutdown>>

(* A hijacked connection lives from "serving" to the end of the process.   *)
Alive ==
    \/ stage \in {"serving", "stopping"}
    \/ stage = "unwinding" /\ shutdown # "none"

Submitting(f) ==
    /\ Alive
    /\ f \in arrived \cup Hijacked
    /\ SubmitStep(f)
    /\ UNCHANGED lifecycle

(* A closed store keeps nothing.                                           *)
Recording(w) ==
    /\ stage # "exited"
    /\ Process(w)
    /\ ~IsOpen("store") => fate'[job[w]] = "failed"
    /\ UNCHANGED lifecycle

Working(w) ==
    /\ stage # "exited"
    /\ Take(w) \/ Exit(w)
    /\ UNCHANGED lifecycle

Run ==
    \/ Start \/ FailStart \/ Stop \/ Shutdown
    \/ CloseHandler \/ CloseNext \/ ExitProcess

DaemonNext ==
    \/ Run
    \/ \E f \in Flows : Arrive(f) \/ Submitting(f)
    \/ \E w \in Workers : Recording(w) \/ Working(w)

(* Goroutines are scheduled and their timers fire, but clients need not    *)
(* send anything, nobody needs to stop the daemon, and a store call need   *)
(* not return before its context is cancelled.                             *)
Fairness ==
    /\ WF_allVars(Run /\ stage # "serving")
    /\ \A f \in Flows : WF_allVars(pc[f] # "serving" /\ Submitting(f))
    /\ \A w \in Workers : /\ WF_allVars(Working(w))
                          /\ WF_allVars(cancelled /\ Recording(w))

DaemonSpec == StartInit /\ [][DaemonNext]_allVars /\ Fairness

(* The store answers every call.                                           *)
StoreAnswers == \A w \in Workers : WF_allVars(Recording(w))
-----------------------------------------------------------------------------
Exited == stage = "exited"

(* While a worker has a flow in its hands the store and the audit sink are *)
(* open, and after the exit no worker has one: what was accepted is not    *)
(* written to a closed store, in any order of starts that fail, signals    *)
(* and sessions that outlive the servers, unless Close gave up waiting     *)
(* (main.go:278, 338, 370, transport.go:235-255).                          *)
SinksOutlive ==
    \A w \in Workers : job[w] # NoFlow =>
        \/ IsOpen("store") /\ IsOpen("audit")
        \/ result[Main] = "timeout"

(* A shutdown in which the servers drained in time discards no record but  *)
(* those of hijacked connections (main.go:423-426, proxy.go:428).          *)
PlainRecordsKept ==
    \A f \in Flows \ Hijacked : fate[f] = "refused" => shutdown # "graceful"

(* Serving a request never waits for the store: recordFlow returns even    *)
(* when every worker hangs and the queue is full.                          *)
SubmitterReturns ==
    \A f \in Flows : pc[f] = "sending" ~> pc[f] = "done" \/ Exited

(* Once asked to, or when it cannot start, the process exits, also when    *)
(* the store hangs until its context is cancelled (transport.go:235-255).  *)
ShutdownCompletes ==
    stage \in {"stopping", "unwinding"} ~> Exited

(* With a store that answers, an accepted flow reaches the store or is     *)
(* dropped; closing the queue discards nothing.                            *)
AcceptedSettles ==
    StoreAnswers =>
        \A f \in Flows : pc[f] = "sending" ~>
            fate[f] # "none" \/ result[Main] = "timeout"
=============================================================================
