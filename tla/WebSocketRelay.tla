--------------------------- MODULE WebSocketRelay ---------------------------
(***************************************************************************)
(* One intercepted WebSocket, internal/proxy/websocket.go: the upgrade, a  *)
(* relay goroutine in each direction that reassembles, inspects, captures  *)
(* and forwards messages, and the end of the session.                      *)
(*                                                                         *)
(* A payload is a sequence of parts.  The parts "a" and "b", adjacent in   *)
(* this order, are what the secret broker looks for: a placeholder on the  *)
(* way up, the value of a secret on the way down.  So a message may hold   *)
(* it although none of its frames does.  Masking, compression and the      *)
(* encoding of lengths are left out; where they fail, relaying may fail.   *)
(***************************************************************************)
EXTENDS Integers, Sequences, FiniteSets

CONSTANTS
    Frames,       \* the frames the peers send; "ping" stands for ping and pong
    Limit,        \* mediationLimit, in parts
    CaptureLimit, \* captureLimit, in parts
    MetadataCost, \* what a binary message costs the capture, 128 in the code
    MaxFrames     \* bound: frames read in one session

Parts == {"a", "b"}
Data  == {"text", "binary"}
Ctl   == {"close", "ping"}
Messages == [op: Data \cup Ctl, body: Seq(Parts), mediated: BOOLEAN]

ASSUME RelayAssumption ==
    /\ Frames \subseteq [op: Data \cup Ctl \cup {"cont"}, fin: BOOLEAN,
                         payload: Seq(Parts)]
    /\ \A f \in Frames : f.op \in Ctl => f.fin
    /\ {Limit, CaptureLimit, MetadataCost, MaxFrames} \subseteq Nat

Directions == {"up", "down"}
Conns == {"client", "upstream"}
Src(d) == IF d = "up" THEN "client" ELSE "upstream"
Dst(d) == IF d = "up" THEN "upstream" ELSE "client"

VARIABLES
    stage,      \* of proxyWebSocket
    expired,    \* the session's context is done
    closed,     \* connections the gateway closed
    pc,         \* what each relay is doing
    message,    \* relayWebSocket: message and messageOpcode
    fragmented, \* relayWebSocket: fragmented
    out,        \* the message a relay inspects and writes
    results,    \* the channel of that name
    outcome,    \* the trace of websocket-frames
    captured,   \* Capture.WebSocketMessages
    remaining,  \* wsCapture.remaining
    truncated,  \* Capture.Truncated
    received,   \* history: the frames each relay accepted
    delivered,  \* history: the messages each relay wrote
    refused     \* history: directions in which a message was refused

session == <<stage, expired, closed, outcome>>
capture == <<captured, remaining, truncated>>
buffer  == <<message, fragmented>>
vars == <<session, pc, buffer, out, results, capture, received, delivered, refused>>
-----------------------------------------------------------------------------
Sensitive(body) ==
    \E i \in 1..Len(body) - 1 : body[i] = "a" /\ body[i + 1] = "b"

Empty == [op |-> "text", body |-> <<>>, mediated |-> FALSE]

Init ==
    /\ stage = "handshake" /\ expired = FALSE /\ closed = {}
    /\ pc = [d \in Directions |-> "reading"]
    /\ message = [d \in Directions |-> Empty]
    /\ fragmented = [d \in Directions |-> FALSE]
    /\ out = [d \in Directions |-> Empty]
    /\ results = <<>> /\ outcome = "none"
    /\ captured = <<>> /\ remaining = CaptureLimit /\ truncated = FALSE
    /\ received = [d \in Directions |-> <<>>]
    /\ delivered = [d \in Directions |-> <<>>]
    /\ refused = {}

(* The upstream is dialled and agrees to the upgrade, or any step fails.   *)
Upgrade ==
    /\ stage = "handshake"
    /\ stage' \in {"relaying", "rejected"}
    /\ closed' = IF stage' = "rejected" THEN {"upstream"} ELSE closed
    /\ UNCHANGED <<expired, outcome, pc, buffer, out, results, capture,
                   received, delivered, refused>>

(* relayWebSocket returns; errors that are a normal end are benign.        *)
Return(d, err) ==
    /\ pc' = [pc EXCEPT ![d] = "done"]
    /\ results' = Append(results, [dir |-> d, err |-> err])

Reading(d) == stage \in {"relaying", "closing"} /\ pc[d] = "reading"

(* The connection was closed, the peer ended it, or the next frame is late,*)
(* malformed or cut off.                                                   *)
ReadFails(d) ==
    /\ Reading(d)
    /\ \E err \in {"benign", "failed"} : Return(d, err)
    /\ UNCHANGED <<session, buffer, out, capture, received, delivered, refused>>

(* The loop finds the context done.                                        *)
Expired(d) ==
    /\ Reading(d) /\ expired
    /\ Return(d, "failed")
    /\ UNCHANGED <<session, buffer, out, capture, received, delivered, refused>>

OutOfOrder(d, f) ==
    \/ f.op \in Data /\ fragmented[d]
    \/ f.op = "cont" /\ ~fragmented[d]

(* What message holds after a frame.                                       *)
MutAssembled(d, f) == message[d].body \o f.payload
Assembled(d, f) ==
    IF f.op = "cont" THEN message[d].body \o f.payload ELSE f.payload

MutInspected(d, f) == f.payload
Inspected(d, f)    == Assembled(d, f)

(* readWebSocketFrame, and the frame's effect on the message under way.    *)
Read(d) ==
    /\ Reading(d) /\ Src(d) \notin closed
    /\ Len(received["up"]) + Len(received["down"]) < MaxFrames
    /\ \E f \in Frames :
        /\ IF \/ OutOfOrder(d, f)
              \/ Len(IF f.op \in Ctl THEN f.payload ELSE Assembled(d, f)) > Limit
           THEN /\ Return(d, "failed")
                /\ refused' = refused \cup {d}
                /\ UNCHANGED <<buffer, out, received>>
           ELSE IF f.op \in Ctl
           THEN /\ received' = [received EXCEPT ![d] = Append(@, f)]
                /\ out' = [out EXCEPT ![d] =
                       [op |-> f.op, body |-> f.payload,
                        mediated |-> Sensitive(f.payload)]]
                /\ pc' = [pc EXCEPT ![d] = "inspecting"]
                /\ UNCHANGED <<buffer, results, refused>>
           ELSE LET op == IF f.op = "cont" THEN message[d].op ELSE f.op
                    m  == [op |-> op, body |-> Assembled(d, f),
                           mediated |-> Sensitive(Inspected(d, f))]
                IN  /\ received' = [received EXCEPT ![d] = Append(@, f)]
                    /\ message' = [message EXCEPT ![d] = m]
                    /\ fragmented' = [fragmented EXCEPT ![d] = ~f.fin]
                    /\ out' = IF f.fin THEN [out EXCEPT ![d] = m] ELSE out
                    /\ pc' = IF f.fin THEN [pc EXCEPT ![d] = "inspecting"] ELSE pc
                    /\ UNCHANGED <<results, refused>>
    /\ UNCHANGED <<session, capture, delivered>>

(* Binary messages, and control frames on their way up, are never changed. *)
MustRefuse(d) ==
    /\ out[d].mediated
    /\ out[d].op = "binary" \/ (out[d].op \in Ctl /\ d = "up")

(* Text may be no UTF-8, no JSON or too long once changed, a message may   *)
(* not decompress, a scrubbed control frame may be too long.               *)
MayRefuse(d) == out[d].op \in Data \/ out[d].mediated

(* addMessage and addBinaryMessage.                                        *)
Cost(d) == IF out[d].op = "binary" THEN MetadataCost ELSE Len(out[d].body)

MutOverBudget(d) == truncated
OverBudget(d)    == TRUE

MutFits(d) == remaining > 0
Fits(d)    == Cost(d) <= remaining

Capture(d) ==
    IF ~Fits(d)
    THEN truncated' = OverBudget(d) /\ UNCHANGED <<captured, remaining>>
    ELSE /\ captured' = Append(captured, [dir |-> d, op |-> out[d].op,
                                          body |-> out[d].body])
         /\ remaining' = remaining - Cost(d)
         /\ UNCHANGED truncated

Refuse(d) ==
    /\ pc[d] = "inspecting"
    /\ MustRefuse(d) \/ MayRefuse(d)
    /\ Return(d, "failed")
    /\ refused' = refused \cup {d}
    /\ IF MustRefuse(d) /\ out[d].op = "binary" /\ d = "up"
       THEN Capture(d) ELSE UNCHANGED capture
    /\ UNCHANGED <<session, buffer, out, received, delivered>>

(* A sensitive message is changed, except that a placeholder inside a      *)
(* longer JSON string is ordinary content.  It is captured before it is    *)
(* written.                                                                *)
Mediate(d) ==
    /\ pc[d] = "inspecting"
    /\ ~MustRefuse(d)
    /\ out' \in {out} \cup (IF d = "up" THEN {[out EXCEPT ![d].mediated = FALSE]}
                                       ELSE {})
    /\ pc' = [pc EXCEPT ![d] = "writing"]
    /\ IF out[d].op \in Data THEN Capture(d) ELSE UNCHANGED capture
    /\ UNCHANGED <<session, buffer, results, received, delivered, refused>>

(* wsEndpoint.write.                                                       *)
Write(d) ==
    /\ pc[d] = "writing" /\ Dst(d) \notin closed
    /\ delivered' = [delivered EXCEPT ![d] = Append(@, out[d])]
    /\ IF out[d].op = "close" THEN Return(d, "benign")
       ELSE pc' = [pc EXCEPT ![d] = "reading"] /\ UNCHANGED results
    /\ UNCHANGED <<session, buffer, out, capture, received, refused>>

WriteFails(d) ==
    /\ pc[d] = "writing"
    /\ \/ Return(d, "failed")
       \/ Dst(d) \in closed /\ Return(d, "benign")
    /\ UNCHANGED <<session, buffer, out, capture, received, delivered, refused>>
-----------------------------------------------------------------------------
(* proxyWebSocket has the first result: both connections are closed.       *)
MutClosedByFirst == {"upstream"}
ClosedByFirst    == Conns

First ==
    /\ stage = "relaying" /\ results # <<>>
    /\ stage' = "closing"
    /\ closed' = closed \cup ClosedByFirst
    /\ UNCHANGED <<expired, outcome, pc, buffer, out, results, capture,
                   received, delivered, refused>>

MutJudged == {results[1]}
Judged    == {results[1], results[2]}

Second ==
    /\ stage = "closing" /\ Len(results) = 2
    /\ stage' = "over"
    /\ outcome' = IF \E r \in Judged : r.err = "failed" THEN "fail" ELSE "pass"
    /\ UNCHANGED <<expired, closed, pc, buffer, out, results, capture, received,
                   delivered, refused>>

(* The session's longest duration ends, or the gateway does.               *)
Expire ==
    /\ ~expired /\ expired' = TRUE
    /\ UNCHANGED <<stage, closed, outcome, pc, buffer, out, results, capture,
                   received, delivered, refused>>

(* closeOnContext, until proxyWebSocket returns.                           *)
CloseOnContext ==
    /\ expired /\ stage \in {"relaying", "closing"} /\ closed # Conns
    /\ closed' = Conns
    /\ UNCHANGED <<stage, expired, outcome, pc, buffer, out, results, capture,
                   received, delivered, refused>>

Next ==
    \/ Upgrade \/ First \/ Second \/ Expire \/ CloseOnContext
    \/ \E d \in Directions :
           \/ Read(d) \/ ReadFails(d) \/ Expired(d)
           \/ Refuse(d) \/ Mediate(d) \/ Write(d) \/ WriteFails(d)

Spec == Init /\ [][Next]_vars

(* Goroutines are scheduled; a read or a write is only sure to return once *)
(* its connection is closed.                                               *)
Fairness ==
    /\ WF_vars(First) /\ WF_vars(Second) /\ WF_vars(CloseOnContext)
    /\ \A d \in Directions :
           /\ WF_vars(Refuse(d) \/ Mediate(d))
           /\ WF_vars(Src(d) \in closed /\ ReadFails(d))
           /\ WF_vars(Dst(d) \in closed /\ WriteFails(d))

FairSpec == Spec /\ Fairness
-----------------------------------------------------------------------------
(* Every variable has its type.                                            *)
TypeOK ==
    /\ stage \in {"handshake", "rejected", "relaying", "closing", "over"}
    /\ expired \in BOOLEAN /\ truncated \in BOOLEAN
    /\ closed \subseteq Conns
    /\ pc \in [Directions -> {"reading", "inspecting", "writing", "done"}]
    /\ message \in [Directions -> Messages] /\ out \in [Directions -> Messages]
    /\ fragmented \in [Directions -> BOOLEAN]
    /\ Len(results) <= 2
    /\ outcome \in {"none", "pass", "fail"}
    /\ remaining \in 0..CaptureLimit
    /\ delivered \in [Directions -> Seq(Messages)]
    /\ refused \subseteq Directions

(* The parts of the data frames from one frame of a log to another, by     *)
(* frame and place, and the text that they make in this order.             *)
PartsOf(log, first, last) ==
    UNION {{i} \X (1..Len(log[i].payload)) :
           i \in {j \in first..last : log[j].op \notin Ctl}}

Joins(log, first, last, body) ==
    /\ Len(body) = Cardinality(PartsOf(log, first, last))
    /\ \A p \in PartsOf(log, first, last) :
          body[Cardinality(PartsOf(log, first, p[1] - 1)) + p[2]]
              = log[p[1]].payload[p[2]]

(* The message that the frame at a place of a log ends, or has come to: a  *)
(* control frame, or all data frames since the last that was no            *)
(* continuation.                                                           *)
Unfinished(log, k, m) ==
    \E first \in 1..k :
        /\ log[first].op \in Data /\ \A j \in first + 1..k : log[j].op \notin Data
        /\ m.op = log[first].op /\ Joins(log, first, k, m.body)

IsMessage(log, k, m) ==
    IF log[k].op \in Ctl THEN m.op = log[k].op /\ m.body = log[k].payload
    ELSE Unfinished(log, k, m)

(* How many messages the first k frames of a log end.                      *)
Ended(log, k) == Cardinality({j \in 1..k : log[j].fin})

(* A relay writes exactly the messages it has read, whole and in order,    *)
(* with control frames between fragments, until it returns                 *)
(* (websocket.go:265-376).                                                 *)
DeliveredFaithful ==
    \A d \in Directions :
        /\ \A i \in 1..Len(delivered[d]) : \E k \in 1..Len(received[d]) :
              /\ received[d][k].fin /\ Ended(received[d], k) = i
              /\ IsMessage(received[d], k, delivered[d][i])
        /\ pc[d] = "reading" =>
              Len(delivered[d]) = Ended(received[d], Len(received[d]))

(* README.md:590-592, 580-582: a secret never reaches the client, also     *)
(* when it was split over fragments, and no placeholder goes up in binary  *)
(* messages or control frames.                                             *)
NothingUnmediated ==
    \A d \in Directions : \A i \in 1..Len(delivered[d]) :
        LET m == delivered[d][i]
        IN  Sensitive(m.body) =>
                IF d = "down" THEN m.mediated /\ m.op # "binary"
                              ELSE m.op = "text"

(* How many of the first k messages of the capture are from a relay, and   *)
(* how many of the first k that it wrote are data.                         *)
CapturedFrom(d, k) == Cardinality({j \in 1..k : captured[j].dir = d})
SentBy(d, k)       == Cardinality({j \in 1..k : delivered[d][j].op \in Data})

(* DESIGN.md:413-415: the capture is chronological.  Unless it says that   *)
(* it is truncated, it has every message that reached the other side, each *)
(* already when it does, so that an answer never precedes its request, and *)
(* each at its place among those of its relay; the two relays share one    *)
(* budget (websocket.go:501-527).                                          *)
CaptureComplete ==
    /\ TypeOK
    /\ ~truncated => \A d \in Directions : \A i \in 1..Len(delivered[d]) :
          delivered[d][i].op \in Data =>
              \E j \in 1..Len(captured) :
                  /\ captured[j].dir = d /\ CapturedFrom(d, j) = SentBy(d, i)
                  /\ captured[j].op = delivered[d][i].op
                  /\ captured[j].body = delivered[d][i].body

(* A refused message is reported as the failure of the session, whichever  *)
(* relay returned first (websocket.go:239-245).                            *)
RefusalReported == stage = "over" /\ refused # {} => outcome = "fail"

(* Once one relay has returned, or the context is done, the session ends,  *)
(* although the peer of the other relay may be silent or not reading       *)
(* (websocket.go:227-231).                                                 *)
SessionEnds ==
    stage \in {"relaying", "closing"} /\ (results # <<>> \/ expired)
        ~> stage = "over"
=============================================================================
