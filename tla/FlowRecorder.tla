----------------------------- MODULE FlowRecorder -----------------------------
(***************************************************************************)
(* The asynchronous flow recorder of internal/proxy: recordFlow and        *)
(* recordFlowJob (proxy.go) and the recorder half of Handler.Close         *)
(* (transport.go).                                                         *)
(*                                                                         *)
(* Every completed flow is submitted by the goroutine that served it.  The *)
(* queue is a Go channel: when a worker receives from a full one, the      *)
(* value of the longest blocked sender takes the freed slot in the same    *)
(* step.  The record of a denied request waits up to 100 ms for a slot,    *)
(* any other is dropped at once when the queue is full.                    *)
(***************************************************************************)
EXTENDS Naturals, FiniteSets, SequencesExt

CONSTANTS
    Flows,     \* completed flows, each submitted once
    Denied,    \* those whose decision is "denied"
    Workers,   \* recordWorkerCount() goroutines
    Closers,   \* callers of Handler.Close
    Capacity,  \* recordQueueCapacity()
    NoFlow,    \* the worker has no job
    NoCloser   \* Close was not called yet

ASSUME RecorderAssumption ==
    /\ Denied \subseteq Flows
    /\ Capacity \in Nat \ {0}
    /\ Workers # {}
    /\ NoFlow \notin Flows
    /\ NoCloser \notin Closers

VARIABLES
    closed,     \* recordClosed
    first,      \* the closer that set recordClosed
    channel,    \* recordQueue: "none" | "open" | "closed"
    queue,      \* jobs buffered in the channel
    sendq,      \* goroutines blocked sending to the channel, oldest first
    pc,         \* where the submitter of each flow is in recordFlow
    fate,       \* what became of each flow, "none" while it is on its way
    dropped,    \* recordDropped
    worker,     \* "none" | "running" | "exited"
    job,        \* the job a worker is processing
    closer,     \* where each closer is in Close
    result,     \* what Close returned to it
    reported,   \* the drop count the first closer logs
    cancelled   \* recordContext is cancelled

submission == <<pc, sendq, dropped>>
closing    == <<closed, first, closer, result, reported, cancelled>>
vars == <<closed, first, channel, queue, sendq, pc, fate, dropped, worker, job,
          closer, result, reported, cancelled>>
-----------------------------------------------------------------------------
Init ==
    /\ closed = FALSE
    /\ first = NoCloser
    /\ channel = "none"
    /\ queue = <<>>
    /\ sendq = <<>>
    /\ pc = [f \in Flows |-> "serving"]
    /\ fate = [f \in Flows |-> "none"]
    /\ dropped = 0
    /\ worker = [w \in Workers |-> "none"]
    /\ job = [w \in Workers |-> NoFlow]
    /\ closer = [c \in Closers |-> "idle"]
    /\ result = [c \in Closers |-> "none"]
    /\ reported = 0
    /\ cancelled = FALSE

(* recordSubmitWG: the submitters between Add, under recordMu, and Done.   *)
MutSubmittersEarlyDone == {f \in Flows : pc[f] \in {"sending", "blocked"}}
MutSubmittersLeak ==
    {f \in Flows : \/ pc[f] \in {"sending", "blocked", "full", "sent"}
                   \/ fate[f] = "dropped"}
Submitters == {f \in Flows : pc[f] \in {"sending", "blocked", "full", "sent"}}
MutFull    == Len(queue) > Capacity
Full       == Len(queue) >= Capacity

(* The critical section of recordMu in recordFlow: a closed recorder       *)
(* discards the flow, the first flow creates the queue and the workers.    *)
Refuse(f) ==
    /\ pc[f] = "serving"
    /\ closed
    /\ pc' = [pc EXCEPT ![f] = "done"]
    /\ fate' = [fate EXCEPT ![f] = "refused"]
    /\ UNCHANGED <<channel, queue, sendq, dropped, worker, job, closing>>

Submit(f) ==
    /\ pc[f] = "serving"
    /\ ~closed
    /\ pc' = [pc EXCEPT ![f] = "sending"]
    /\ IF channel = "none"
       THEN /\ channel' = "open"
            /\ worker' = [w \in Workers |-> "running"]
       ELSE UNCHANGED <<channel, worker>>
    /\ UNCHANGED <<queue, sendq, fate, dropped, job, closing>>

(* The select of recordFlow finds a free slot ...                          *)
Send(f) ==
    /\ pc[f] = "sending"
    /\ ~Full
    /\ queue' = Append(queue, f)
    /\ pc' = [pc EXCEPT ![f] = "sent"]
    /\ UNCHANGED <<channel, sendq, fate, dropped, worker, job, closing>>

(* ... or the queue is full: a denied record blocks, another is dropped.   *)
Block(f) ==
    /\ pc[f] = "sending"
    /\ Full
    /\ f \in Denied
    /\ sendq' = Append(sendq, f)
    /\ pc' = [pc EXCEPT ![f] = "blocked"]
    /\ UNCHANGED <<channel, queue, fate, dropped, worker, job, closing>>

Drop(f) ==
    /\ pc[f] = "sending"
    /\ Full
    /\ f \notin Denied
    /\ pc' = [pc EXCEPT ![f] = "full"]
    /\ fate' = [fate EXCEPT ![f] = "dropped"]
    /\ UNCHANGED <<channel, queue, sendq, dropped, worker, job, closing>>

(* The timer of a denied record fires: the select withdraws the send.      *)
MutWithdraw(f) == UNCHANGED sendq
Withdraw(f)    == \E i \in DOMAIN sendq : sendq[i] = f
                                          /\ sendq' = RemoveAt(sendq, i)

MutDeniedTimeout(f) == FALSE
DeniedTimeout(f) ==
    /\ pc[f] = "blocked"
    /\ Withdraw(f)
    /\ pc' = [pc EXCEPT ![f] = "full"]
    /\ fate' = [fate EXCEPT ![f] = "dropped"]
    /\ UNCHANGED <<channel, queue, dropped, worker, job, closing>>

CountDrop(f) ==
    /\ pc[f] = "full"
    /\ dropped' = dropped + 1
    /\ pc' = [pc EXCEPT ![f] = "sent"]
    /\ UNCHANGED <<channel, queue, sendq, fate, worker, job, closing>>

(* The deferred recordSubmitWG.Done.                                       *)
Leave(f) ==
    /\ pc[f] = "sent"
    /\ pc' = [pc EXCEPT ![f] = "done"]
    /\ UNCHANGED <<channel, queue, sendq, fate, dropped, worker, job, closing>>
-----------------------------------------------------------------------------
(* "for job := range queue": a closed channel is drained before the loop   *)
(* ends.                                                                   *)
Take(w) ==
    /\ worker[w] = "running"
    /\ job[w] = NoFlow
    /\ queue # <<>>
    /\ job' = [job EXCEPT ![w] = Head(queue)]
    /\ IF sendq = <<>>
       THEN /\ queue' = Tail(queue)
            /\ UNCHANGED <<sendq, pc>>
       ELSE /\ queue' = Append(Tail(queue), Head(sendq))
            /\ sendq' = Tail(sendq)
            /\ pc' = [pc EXCEPT ![Head(sendq)] = "sent"]
    /\ UNCHANGED <<channel, fate, dropped, worker, closing>>

(* recordFlowJob: the store keeps the flow or returns an error, and the    *)
(* audit callback follows either way.  A panic is recovered, so the worker *)
(* always goes on to the next job.                                         *)
Process(w) ==
    /\ job[w] # NoFlow
    /\ \E outcome \in {"recorded", "failed"} :
          fate' = [fate EXCEPT ![job[w]] = outcome]
    /\ job' = [job EXCEPT ![w] = NoFlow]
    /\ UNCHANGED <<channel, queue, submission, worker, closing>>

MutExit(w) ==
    /\ worker[w] = "running"
    /\ job[w] = NoFlow
    /\ channel = "closed"
    /\ worker' = [worker EXCEPT ![w] = "exited"]
    /\ UNCHANGED <<channel, queue, submission, fate, job, closing>>
Exit(w) ==
    /\ worker[w] = "running"
    /\ job[w] = NoFlow
    /\ channel = "closed"
    /\ queue = <<>>
    /\ worker' = [worker EXCEPT ![w] = "exited"]
    /\ UNCHANGED <<channel, queue, submission, fate, job, closing>>
-----------------------------------------------------------------------------
(* Close under recordMu: only the first closer gets the queue.             *)
BeginClose(c) ==
    /\ closer[c] = "idle"
    /\ IF closed
       THEN /\ closer' = [closer EXCEPT ![c] = "waitWorkers"]
            /\ UNCHANGED <<closed, first>>
       ELSE /\ closed' = TRUE
            /\ first' = c
            /\ closer' = [closer EXCEPT ![c] = "waitSubmitters"]
    /\ UNCHANGED <<channel, queue, submission, fate, worker, job, result,
                   reported, cancelled>>

(* recordSubmitWG.Wait returns: the channel is closed and the drops are    *)
(* reported.                                                               *)
MutSubmittersGone == TRUE
SubmittersGone    == Submitters = {}

CloseQueue(c) ==
    /\ closer[c] = "waitSubmitters"
    /\ SubmittersGone
    /\ channel' = IF channel = "open" THEN "closed" ELSE channel
    /\ reported' = dropped
    /\ closer' = [closer EXCEPT ![c] = "waitWorkers"]
    /\ UNCHANGED <<queue, submission, fate, worker, job, closed, first, result,
                   cancelled>>

(* recordWG.Wait returns within the shutdown timeout, and Close returns    *)
(* nil ...                                                                 *)
MutWorkersGone == \A w \in Workers : job[w] = NoFlow
WorkersGone    == \A w \in Workers : worker[w] # "running"

CloseDrained(c) ==
    /\ closer[c] = "waitWorkers"
    /\ WorkersGone
    /\ closer' = [closer EXCEPT ![c] = "done"]
    /\ result' = [result EXCEPT ![c] = "nil"]
    /\ UNCHANGED <<channel, queue, submission, fate, worker, job, closed, first,
                   reported, cancelled>>

(* ... or the timeout comes first: Close returns an error, and the first   *)
(* closer cancels the context the pending jobs run under.                  *)
MutCancels(c) == FALSE
Cancels(c)    == c = first /\ channel # "none"

CloseTimeout(c) ==
    /\ closer[c] = "waitWorkers"
    /\ closer' = [closer EXCEPT ![c] = "done"]
    /\ result' = [result EXCEPT ![c] = "timeout"]
    /\ cancelled' = (cancelled \/ Cancels(c))
    /\ UNCHANGED <<channel, queue, submission, fate, worker, job, closed, first,
                   reported>>
-----------------------------------------------------------------------------
SubmitStep(f) ==
    \/ Refuse(f) \/ Submit(f) \/ Send(f) \/ Block(f) \/ Drop(f)
    \/ DeniedTimeout(f) \/ CountDrop(f) \/ Leave(f)

WorkerStep(w) == Take(w) \/ Process(w) \/ Exit(w)

CloseStep(c) ==
    BeginClose(c) \/ CloseQueue(c) \/ CloseDrained(c) \/ CloseTimeout(c)

Next ==
    \/ \E f \in Flows : SubmitStep(f)
    \/ \E w \in Workers : WorkerStep(w)
    \/ \E c \in Closers : CloseStep(c)

Spec == Init /\ [][Next]_vars
-----------------------------------------------------------------------------
TypeOK ==
    /\ closed \in BOOLEAN
    /\ first \in Closers \cup {NoCloser}
    /\ channel \in {"none", "open", "closed"}
    /\ queue \in Seq(Flows) /\ Len(queue) <= Capacity
    /\ sendq \in Seq(Flows)
    /\ pc \in [Flows -> {"serving", "sending", "blocked", "full", "sent",
                         "done"}]
    /\ fate \in [Flows -> {"none", "refused", "dropped", "recorded", "failed"}]
    /\ dropped \in Nat
    /\ worker \in [Workers -> {"none", "running", "exited"}]
    /\ job \in [Workers -> Flows \cup {NoFlow}]
    /\ closer \in [Closers -> {"idle", "waitSubmitters", "waitWorkers", "done"}]
    /\ result \in [Closers -> {"none", "nil", "timeout"}]
    /\ reported \in Nat
    /\ cancelled \in BOOLEAN

(* Sending on a closed channel panics: Close closes the queue only when no *)
(* submitter is between its check of recordClosed and the end of its       *)
(* select, even one that waits for capacity (transport.go:217-222).        *)
NoSendOnClosed ==
    channel = "closed" => \A f \in Flows : pc[f] \notin {"sending", "blocked"}

(* Every flow is at exactly one place: with its goroutine, in the channel, *)
(* with a worker, or settled; a record whose wait timed out                *)
(* (proxy.go:458-465) is never also delivered.                             *)
Places(f) ==
    (IF pc[f] \in {"serving", "sending"} THEN 1 ELSE 0)
    + (IF fate[f] # "none" THEN 1 ELSE 0)
    + Cardinality({i \in DOMAIN queue : queue[i] = f})
    + Cardinality({i \in DOMAIN sendq : sendq[i] = f})
    + Cardinality({w \in Workers : job[w] = f})
AccountedOnce ==
    /\ TypeOK
    /\ \A f \in Flows : Places(f) = 1

(* The drop count logged by the first closer (transport.go:223-230) is     *)
(* final: no drop is counted after it.                                     *)
DropsReported ==
    first # NoCloser /\ closer[first] \in {"waitWorkers", "done"}
        => reported = Cardinality({f \in Flows : fate[f] = "dropped"})

(* The recorder implements FlowSink: a flow is accepted while it passes    *)
(* the check of recordClosed, and Close has drained the recorder when it   *)
(* returned nil to any of its callers.                                     *)
Sink == INSTANCE FlowSink WITH
    fate <- [f \in Flows |-> IF fate[f] # "none" THEN fate[f]
                             ELSE IF pc[f] = "serving" THEN "new"
                             ELSE "accepted"],
    drained <- \E c \in Closers : result[c] = "nil"
ImplementsFlowSink == Sink!Spec
=============================================================================
